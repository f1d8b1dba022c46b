----------------------------- MODULE EdhocMessages -----------------------------
(***************************************************************************)
(* The messages of EDHOC as sequences of CBOR data items, and the functions *)
(* of initiator.c, responder.c and err_msg.c that write and read them.      *)
(*                                                                         *)
(* A data item has a CBOR type, a length and a value; the value is a pair   *)
(* of a tag and what the item holds.  Lengths are those of the code where a *)
(* buffer of the receiver is compared with them.  A connection identifier   *)
(* is a record of its length and its content; identifiers of one byte are   *)
(* written as the integer that is 24 less (bstr_identifier).                *)
(***************************************************************************)
EXTENDS Integers, Sequences

Item(type, len, val)   == [type |-> type, len |-> len, val |-> val]
CborInt(n)             == Item("int", 1, <<"int", n>>)
CborBstr(len, val)     == Item("bstr", len, val)

\* Buffers of the receivers (edhoc.h, responder.c).
SUITES_I_SIZE           == 5
G_DEFAULT_SIZE          == 32
C_I_DEFAULT_SIZE        == 8
C_R_DEFAULT_SIZE        == 1
CIPHERTEXT_DEFAULT_SIZE == 256

\* A ciphertext is longer than a public key and fits its buffer.
CIPHERTEXT_LEN == 100

CorrHidesCi(corr) == corr \in {1, 3}
CorrHidesCr(corr) == corr \in {2, 3}

-----------------------------------------------------------------------------
\* Reading.

\* Slip: the capacity of the buffer is not looked at.
DecodeErrorUnchecked(msg, k, cap) ==
    IF k \notin DOMAIN msg THEN "ErrorDuringCborDecoding"
    ELSE IF msg[k].type = "array" THEN "UnsupportedCborType" ELSE "EdhocNoError"

\* How cbor_decoder reads the k-th item of msg into a buffer of cap bytes.
\* An integer is stored whatever cap is.
DecodeError(msg, k, cap) ==
    IF k \notin DOMAIN msg THEN "ErrorDuringCborDecoding"
    ELSE IF msg[k].type = "array" THEN "UnsupportedCborType"
    ELSE IF msg[k].type # "int" /\ msg[k].len > cap
         THEN "CborByteStringBufferToSmall"
    ELSE "EdhocNoError"

\* The result of steps of which the first that fails ends the function.
FirstError(errors) ==
    IF \A k \in DOMAIN errors : errors[k] = "EdhocNoError" THEN "EdhocNoError"
    ELSE errors[CHOOSE k \in DOMAIN errors :
                   /\ errors[k] # "EdhocNoError"
                   /\ \A j \in DOMAIN errors :
                         errors[j] # "EdhocNoError" => k <= j]

\* A text string where G_Y or CIPHERTEXT_3 is expected makes it an error
\* message.
TextError(msg, k) ==
    IF k \in DOMAIN msg /\ msg[k].type = "tstr"
    THEN "ErrorMessageReceived" ELSE "EdhocNoError"

bstr_identifier(c) ==
    IF c.len = 1 THEN CborInt(c.id - 24) ELSE CborBstr(c.len, <<"id", c.id>>)

\* Slip: the integer is taken for the byte.
IdentifierUnshifted(item) == [len |-> item.len, id |-> item.val[2]]

\* One byte, as an integer or as a byte string, is 24 more (initiator.c 117,
\* responder.c 102).
Identifier(item) ==
    [len |-> item.len,
     id  |-> IF item.len = 1 THEN item.val[2] + 24 ELSE item.val[2]]

-----------------------------------------------------------------------------
\* Message 1: METHOD_CORR, SUITES_I, G_X, C_I, AD_1 if there is one.

Suites(suites) ==
    IF Len(suites) = 1 THEN CborInt(suites[1])
    ELSE Item("array", Len(suites), <<"suites", suites>>)

\* ad_1 is the length of AD_1, 0 for none.
msg1_encode(method, corr, suites, g_x, c_i, ad_1) ==
    LET items == <<CborInt(4 * method + corr), Suites(suites),
                   CborBstr(G_DEFAULT_SIZE, <<"g", g_x>>), bstr_identifier(c_i)>>
    IN  IF ad_1 = 0 THEN items ELSE Append(items, CborBstr(ad_1, <<"ad_1", ad_1>>))

\* The buffer the caller has for AD_1 holds ad_1_len bytes.  METHOD_CORR is
\* read with a length that is not initialised, so a byte string (the start of
\* an error message) may fail here or, for want of a third item, at G_X: only
\* the code of the error differs.
msg1_parse(msg, ad_1_len) ==
    FirstError(<<DecodeError(msg, 1, SUITES_I_SIZE),
                 DecodeError(msg, 2, SUITES_I_SIZE),
                 DecodeError(msg, 3, G_DEFAULT_SIZE),
                 DecodeError(msg, 4, C_I_DEFAULT_SIZE),
                 IF Len(msg) < 5 THEN "EdhocNoError"
                                 ELSE DecodeError(msg, 5, ad_1_len)>>)

MethodOf(msg1)      == msg1[1].val[2] \div 4
CorrOf(msg1)        == msg1[1].val[2] - 4 * MethodOf(msg1)
SelectedSuite(msg1) == msg1[2].val[2]
GxOf(msg1)          == msg1[3].val[2]
CiOf(msg1)          == Identifier(msg1[4])

\* Slip: no AD_1 leaves no room for the next one.
AdLenAfterReset(msg1, ad_1_len) == IF Len(msg1) < 5 THEN 0 ELSE msg1[5].len

\* What *ad_1_len is after message 1 was parsed: untouched without AD_1.
AdLenAfter(msg1, ad_1_len) == IF Len(msg1) < 5 THEN ad_1_len ELSE msg1[5].len

selected_suite_is_supported(suite, suites_r) ==
    \E k \in DOMAIN suites_r : suites_r[k] = suite

-----------------------------------------------------------------------------
\* Message 2: C_I unless corr hides it, G_Y, C_R, CIPHERTEXT_2.

msg2_encode(corr, c_i, g_y, c_r, ciphertext_2) ==
    LET items == <<CborBstr(G_DEFAULT_SIZE, <<"g", g_y>>), bstr_identifier(c_r),
                   CborBstr(CIPHERTEXT_LEN, <<"ciphertext_2", ciphertext_2>>)>>
    IN  IF CorrHidesCi(corr) THEN items ELSE <<bstr_identifier(c_i)>> \o items

\* Where G_Y is.
GyAt(corr) == IF CorrHidesCi(corr) THEN 1 ELSE 2

msg2_parse(corr, c_i_len, msg) ==
    LET g == GyAt(corr)
    IN  FirstError(<<IF g = 1 THEN "EdhocNoError"
                              ELSE DecodeError(msg, 1, c_i_len),
                     DecodeError(msg, g, G_DEFAULT_SIZE),
                     TextError(msg, g),
                     DecodeError(msg, g + 1, C_R_DEFAULT_SIZE),
                     DecodeError(msg, g + 2, CIPHERTEXT_DEFAULT_SIZE)>>)

-----------------------------------------------------------------------------
\* Message 3: C_R, CIPHERTEXT_3.  The initiator writes C_R for every corr.

msg3_encode(c_r, ciphertext_3) ==
    <<bstr_identifier(c_r), CborBstr(CIPHERTEXT_LEN, <<"ciphertext_3", ciphertext_3>>)>>

Ciphertext3At(corr) == IF CorrHidesCr(corr) THEN 1 ELSE 2

msg3_parse(corr, msg) ==
    LET c == Ciphertext3At(corr)
    IN  FirstError(<<IF c = 1 THEN "EdhocNoError"
                              ELSE DecodeError(msg, 1, C_R_DEFAULT_SIZE),
                     DecodeError(msg, c, CIPHERTEXT_DEFAULT_SIZE),
                     TextError(msg, c)>>)

-----------------------------------------------------------------------------
\* The error message: C_x if corr asks for it, ERR_MSG (no caller gives it a
\* text), SUITES_R if there are any.  ERR_MSG is a byte string.

err_msg(role, corr, c_x, suites) ==
    (IF \/ role = "RESPONDER" /\ corr \in {0, 2}
        \/ role = "INITIATOR" /\ corr \in {0, 1}
     THEN <<CborBstr(c_x.len, <<"id", c_x.id>>)>> ELSE <<>>)
    \o <<CborBstr(0, <<"ERR_MSG", 0>>)>>
    \o IF suites = <<>> THEN <<>> ELSE <<CborBstr(Len(suites), <<"suites", suites>>)>>

=============================================================================

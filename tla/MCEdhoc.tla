-------------------------------- MODULE MCEdhoc --------------------------------
(***************************************************************************)
(* Instances of EdhocHandshake for TLC: the credentials of the parties.     *)
(***************************************************************************)
EXTENDS EdhocHandshake

KeyI  == [owner |-> "i", nr |-> 0]
KeyR  == [owner |-> "r", nr |-> 0]
KeyCA == [owner |-> "ca", nr |-> 0]

KidI     == Kid(1, RawPublicKey(KeyI))
KidR     == Kid(1, RawPublicKey(KeyR))
LongKidI == Kid(2, RawPublicKey(KeyI))
CertI    == Certificate(KeyI, "CA", KeyCA)
CertR    == Certificate(KeyR, "CA", KeyCA)

\* The name of the CA in the arrays ends in a NUL, the issuer's does not
\* (samples/edhoc_linux, credentials.c 625); "CA" is the name without it.
WithNul == "CA and NUL"

\* Entry 1 names the CA; the certificates of X5chain are in no entry.
KnowsI  == <<OtherPartyCred(KidI, WithNul, KeyCA), OtherPartyCred(X5t(CertI), WithNul, KeyCA),
             OtherPartyCred(LongKidI, WithNul, KeyCA)>>
KnowsR  == <<OtherPartyCred(KidR, WithNul, KeyCA), OtherPartyCred(X5t(CertR), WithNul, KeyCA)>>
KnowsCA == <<OtherPartyCred(KidR, "CA", KeyCA)>>

Kids     == {KidI}
LongKids == {LongKidI}
AllI     == {KidI, X5t(CertI), X5chain(CertI)}
AllR     == {KidR, X5t(CertR), X5chain(CertR)}
KidsR    == {KidR}
ChainR   == {X5chain(CertR)}
KidAndChainR == {KidR, X5chain(CertR)}

OneSuite     == {<<0>>}
EachSuite    == {<<0>>, <<1>>, <<7>>}
TwoSuites    == {<<1, 0>>}
Both         == {<<0, 1>>}

NoAds     == {NoAd}
SmallAd   == {NoAd, [form |-> "int", id |-> 7]}
SomeAd3   == {[form |-> "raw", id |-> 1]}
SomeAd2   == {[form |-> "bstr", id |-> 1]}

OneByte  == [len |-> 1, id |-> 30]
TwoBytes == [len |-> 2, id |-> 30]
CrByte   == [len |-> 1, id |-> 20]

=============================================================================

--------------------------- MODULE KeyEstablishment ---------------------------
(***************************************************************************)
(* What an authenticated key exchange promises, whatever happens to its     *)
(* messages: the initiator confirms only what the responder offered, with a *)
(* new key each time if its ephemeral keys are new, and the responder        *)
(* completes only with a key the initiator confirmed.  With AtMostOnce it    *)
(* does so once for each key.                                               *)
(***************************************************************************)

CONSTANTS
    NewKeys,     \* does every run of the initiator have its own ephemeral key?
    AtMostOnce   \* does the responder complete once for each key?

VARIABLES
    offers,     \* what the responder offered
    confirmed,  \* keys the initiator completed with, each naming its offer
    completed   \* pairs of a run of the responder and the key it completed with

vars == <<offers, confirmed, completed>>

Init == offers = {} /\ confirmed = {} /\ completed = {}

Offer(o) ==
    /\ offers' = offers \cup {o}
    /\ UNCHANGED <<confirmed, completed>>

Confirm(k) ==
    /\ k.offer \in offers
    /\ NewKeys => \A c \in confirmed : c.prk_4x3m # k.prk_4x3m
    /\ confirmed' = confirmed \cup {k}
    /\ UNCHANGED <<offers, completed>>

Complete(n, k) ==
    /\ k \in confirmed
    /\ \A c \in completed : c[1] # n /\ (AtMostOnce => c[2] # k)
    /\ completed' = completed \cup {<<n, k>>}
    /\ UNCHANGED <<offers, confirmed>>

Next ==
    \/ \E o \in offers' : Offer(o)
    \/ \E k \in confirmed' : Confirm(k)
    \/ \E c \in completed' : Complete(c[1], c[2])

Spec == Init /\ [][Next]_vars

=============================================================================

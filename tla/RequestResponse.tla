--------------------------- MODULE RequestResponse ---------------------------
(***************************************************************************)
(* What an application expects of the protected channel between a CoAP     *)
(* client and a CoAP server, whatever happens to the packets: the client   *)
(* has at most one request it waits for, the server serves only requests   *)
(* the client made, and what the client takes for the answer to its        *)
(* request is an answer the server gave to that very request.  With        *)
(* AtMostOnce a request is also served at most once.                       *)
(*                                                                         *)
(* A client may start afresh.  Unless it does so with secrets it has not   *)
(* had before, it may take any answer of the server until it starts with   *)
(* fresh ones.                                                             *)
(***************************************************************************)
EXTENDS Integers

CONSTANTS
    Answers,     \* what a server may answer
    AtMostOnce   \* does the server serve a request at most once?

VARIABLES
    asked,    \* the requests made
    waiting,  \* the request the client waits for, 0 if none
    fresh,    \* did the client start with secrets it had not had before?
    served,   \* pairs of a request and an answer the server gave to it
    got       \* pairs of a request and the answer the client took for it

vars == <<asked, waiting, fresh, served, got>>

Init == asked = {} /\ waiting = 0 /\ fresh = TRUE /\ served = {} /\ got = {}

Ask(n) ==
    /\ waiting = 0
    /\ n \notin asked
    /\ asked' = asked \cup {n}
    /\ waiting' = n
    /\ UNCHANGED <<fresh, served, got>>

\* The client stops waiting.
Abandon ==
    /\ waiting' = 0
    /\ UNCHANGED <<asked, fresh, served, got>>

\* It starts again, with secrets it had before or with fresh ones.
StartAgain ==
    /\ waiting' = 0
    /\ fresh' \in BOOLEAN
    /\ UNCHANGED <<asked, served, got>>

Serve(n, v) ==
    /\ n \in asked
    /\ AtMostOnce => \A w \in Answers : <<n, w>> \notin served
    /\ served' = served \cup {<<n, v>>}
    /\ UNCHANGED <<asked, waiting, fresh, got>>

Get(v) ==
    /\ \E n \in asked : <<n, v>> \in served /\ (fresh => n = waiting)
    /\ got' = got \cup {<<waiting, v>>}
    /\ waiting' = 0
    /\ UNCHANGED <<asked, fresh, served>>

Next ==
    \/ \E n \in asked' \ {0} : Ask(n)
    \/ Abandon
    \/ StartAgain
    \/ \E n \in asked, v \in Answers : Serve(n, v)
    \/ \E v \in Answers : Get(v)

Spec == Init /\ [][Next]_vars

=============================================================================

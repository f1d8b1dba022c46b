------------------------------- MODULE MCOscore -------------------------------
(***************************************************************************)
(* Instances of OscoreExchange for TLC.  A byte has two or four values, so *)
(* that three requests reach the second PIV byte or exhaust the PIV.       *)
(***************************************************************************)
EXTENDS OscoreExchange

CONSTANTS noctx, short, long, tooLong  \* ID Contexts by their lengths
CONSTANTS short2                       \* another one as long as short

MCWeight == [i \in 0..SSN_LEN |-> Radix ^ i]

MCCtxLen ==
    [idc \in IdContexts |->
        CASE idc = noctx   -> 0
          [] idc = short   -> 1
          [] idc = short2  -> 1
          [] idc = long    -> MAX_KID_CONTEXT_LEN
          [] idc = tooLong -> MAX_KID_CONTEXT_LEN + 1]

=============================================================================

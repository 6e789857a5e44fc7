-------------------------- MODULE MCTokenRefresh ---------------------------
(* Instances of TokenRefresh for TLC.                                      *)
EXTENDS TokenRefresh

CONSTANTS c1, c2, c3, c4, w1, w2, w3

-----------------------------------------------------------------------------
(* A deployment that does not exist yet: requests are answered, COMMITs       *)
(* return, and something sends the batch again and again.  (Beat sends it     *)
(* under a name no worker has registered, see TaskSchedule.)                  *)

FairSpec ==
    /\ Spec
    /\ \A w \in Workers : WF_vars(Proceed(w))
    /\ WF_vars(\E w \in Workers : refresh_ending_tokens(w))

\* docs/oauth.md:58: a connection past its expiry is refreshed, unless it has no
\* refresh token or its last one was lost.  False when the rows that stay due
\* fill the batch.
DueIsRefreshed ==
    \A c \in Connections \ Timeless :
        (c \in due) ~> (c \notin due \/ good[c] = {})
=============================================================================

------------------------ MODULE MCOAuthConnection --------------------------
(* Instances of OAuthConnection for TLC.                                   *)
EXTENDS OAuthConnection

CONSTANTS st1, st2, w1, w2
=============================================================================

------------------------ MODULE MCProviderRequest --------------------------
(* Instances of ProviderRequest for TLC.                                   *)
EXTENDS ProviderRequest

CONSTANTS c1, c2, c3

\* One caller of each kind; callers that send requests; one that never can.
AllModes == [c \in Calls |-> IF c = c1 THEN "single" ELSE IF c = c2 THEN "policy"
                             ELSE "field"]
SendingModes == [c \in Calls |-> IF c = c1 THEN "single" ELSE "policy"]
=============================================================================

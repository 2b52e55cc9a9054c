--------------------------- MODULE MCAprsGateway ---------------------------
(* Instances of AprsGateway: the limits of 5 and 2 minutes become 1 each, *)
(* and the settings are a gateway with or without relay, without a server, *)
(* or switched off in either of the two ways.                              *)
EXTENDS AprsGateway

UserSettings ==
    {[reporting |-> on[1], aprs |-> on[2], relay |-> r, server |-> on[3]] :
        on \in {<<TRUE, TRUE, TRUE>>, <<TRUE, TRUE, FALSE>>,
                <<TRUE, FALSE, TRUE>>, <<FALSE, TRUE, TRUE>>},
        r \in BOOLEAN}
=============================================================================

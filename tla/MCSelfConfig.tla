---------------------------- MODULE MCSelfConfig ----------------------------
EXTENDS SelfConfig, TLC

CONSTANTS v1, v2, r1, r2

MCFields == {<<"skills", "s">>, <<"config", "gateway">>, <<"envVars", "X">>, <<"envValue", "X">>,
             <<"workspaceFiles", "F">>}
MCProtected == {<<"config", "gateway">>}

\* Each category is added to and, where it can be, removed from; a removal meets
\* an addition of the same file; there is a protected key, and an empty request.
MCRequestSpecs ==
    r1 :> {[add |-> <<"skills", "s">> :> v1,
            remove |-> {<<"envVars", "X">>, <<"envValue", "X">>}, config |-> TRUE],
           [add |-> <<>>, remove |-> {}, config |-> FALSE]}
    @@
    r2 :> {[add |-> <<"envVars", "X">> :> v1 @@ <<"envValue", "X">> :> v2 @@ <<"workspaceFiles", "F">> :> v2,
            remove |-> {<<"skills", "s">>, <<"workspaceFiles", "F">>}, config |-> FALSE],
           [add |-> <<"config", "gateway">> :> v2, remove |-> {}, config |-> TRUE]}

MCManifests == {<<"skills", "s">> :> v1 @@ <<"config", "gateway">> :> v1}
==============================================================================

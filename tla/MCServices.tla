------------------------------ MODULE MCServices ------------------------------
\* Four parts that share no state: the governor, the master key, the sign-in of
\* yt-dlp and the discovery of tools.  Each behaviour is about one of them, the
\* scene, and the others stay as they are: their states add up and do not multiply.
EXTENDS Governor, MasterKey, MediaSignIn, ToolDiscovery

VARIABLE scene

serviceVars == <<scene, govVars, keyVars, signVars, toolVars>>

MCLimits == 0 .. 2

Init ==
    /\ scene \in {"governor", "key", "sign_in", "tools"}
    /\ GovInit /\ (scene # "governor" => settingsLimit = 0 /\ globalTransferLimit = DefaultGlobalTransferLimit)
    /\ KeyInit /\ (scene # "key" => windows /\ storeUp /\ env = NoKey)
    /\ SignInit /\ ToolInit

Next ==
    \/ scene = "governor" /\ GovNext /\ UNCHANGED <<scene, keyVars, signVars, toolVars>>
    \/ scene = "key" /\ KeyNext /\ UNCHANGED <<scene, govVars, signVars, toolVars>>
    \/ scene = "sign_in" /\ SignNext /\ UNCHANGED <<scene, govVars, keyVars, toolVars>>
    \/ scene = "tools" /\ ToolNext /\ UNCHANGED <<scene, govVars, keyVars, signVars>>

Spec == Init /\ [][Next]_serviceVars
==============================================================================

--------------------------- MODULE WifiCredentials ---------------------------
(***************************************************************************)
(* Which access point does the device join?  The credentials that the CLI  *)
(* command wifi leaves in memory, over the cloud service.                  *)
(*                                                                         *)
(* reInit asks the WINC for the network whose credentials are in memory,   *)
(* and for the last one that it has joined if there are none.  wifiCallback *)
(* clears them at every CONNECTED, whichever network has been joined.      *)
(*                                                                         *)
(* A network is told apart only from the one that was last commanded.      *)
(* The WINC (external) leaves a network that it is asked to leave, and     *)
(* comes back by itself only to one that it has lost.  The request may     *)
(* fail (m2m_wifi_disconnect), of which the command takes no notice.       *)
(***************************************************************************)
EXTENDS CloudService

VARIABLES
    credentials,    \* is wifi.ssid set?
    joins,          \* is the network that the WINC joins, or last joined, the one
                    \* that was last commanded?
    association,    \* of the WINC: to "keep", "asked" to leave, or "left"
    fate            \* of the last command, a history: "safe" if the WINC was asked to
                    \* leave, "refused" if that failed, at "risk" if there was no
                    \* access point to leave, and "lost" when another network's
                    \* CONNECTED has cleared its credentials

credentialVars == <<credentials, joins, association, fate>>
wifiVars == <<cloudVars, credentialVars>>

\* The credentials of the configuration are taken if both buttons are held at the start.
CredentialsInit ==
    /\ CloudInit
    /\ credentials \in BOOLEAN
    /\ joins = ~credentials
    /\ association = "left"
    /\ fate = "safe"

\* The CLI command wifi.  wifi_disconnectFromAp asks the WINC to leave only with an
\* access point, and its result is ignored.
SetWifi(asked) ==
    /\ ~haveAPConnection => ~asked
    /\ set_wifi_auth
    /\ credentials' = TRUE
    /\ joins' = FALSE
    /\ association' = IF asked THEN "asked" ELSE association
    /\ fate' = CASE asked -> "safe"
                 [] haveAPConnection /\ ~asked -> "refused"
                 [] OTHER -> "risk"

\* Mutant: the last network joined is asked for whatever has been commanded.
LastUsed == joins

\* wifi_connectToAp in reInit: NEW_CREDENTIALS or DEFAULT_CREDENTIALS.
AskedFor == credentials \/ joins

Reset(success) ==
    /\ cloudResetTask(success)
    /\ joins' = AskedFor
    /\ association' = IF success THEN "keep" ELSE "left"
    /\ UNCHANGED <<credentials, fate>>

\* CREDENTIALS_STORAGE_clearWifiCredentials
Joined ==
    /\ association # "left"
    /\ WifiConnected
    /\ credentials' = FALSE
    /\ fate' = IF credentials /\ ~joins /\ fate # "safe" THEN "lost" ELSE fate
    /\ UNCHANGED <<joins, association>>

Left ==
    /\ WifiDisconnected
    /\ association' = IF association = "asked" THEN "left" ELSE association
    /\ UNCHANGED <<credentials, joins, fate>>

\* Any other step of the cloud service.
Elsewhere(step) == step /\ UNCHANGED credentialVars

=============================================================================

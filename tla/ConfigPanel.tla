----------------------------- MODULE ConfigPanel -----------------------------
(***************************************************************************)
(* The EnOcean configuration on configuration.html, and the alerts that    *)
(* tell how a call went: showAlert shows one and leaves a timer of 2.5 s   *)
(* to hide it.                                                             *)
(***************************************************************************)
EXTENDS WebRequests

CONSTANTS
    Zones           \* values of the DNS zone; the address of the server goes with it

ASSUME ZonesAssumption == Zones \cap {None, Null, Failed, Denied} = {}

VARIABLES
    configRow,      \* the zone the servlet has; Null for an empty one
    config,         \* the inputs: the zone shown, the hidden copy #dns, enabled or not
    alert           \* the alert of the panel, and the timers that will hide it

configVars == <<configRow, config, alert>>

GetConfig == Call("getConfig", None, None)

\* Every call of showAlert has its timer: a later one does not stop the timers before.
ShowAlert(a) == [shown |-> TRUE, timers |-> a.timers + 1]

EditConfig ==
    /\ ~config.enabled /\ Click("config", <<>>)
    /\ config' = [config EXCEPT !.enabled = TRUE]
    /\ UNCHANGED <<configRow, alert>>

TypeZone(z) ==
    /\ config.enabled /\ z # config.zone /\ Click("config", <<>>)
    /\ config' = [config EXCEPT !.zone = z]
    /\ UNCHANGED <<configRow, alert>>

CancelConfig ==
    /\ config.enabled /\ EndEdit("config", <<GetConfig>>)
    /\ config' = [config EXCEPT !.enabled = FALSE]
    /\ UNCHANGED <<configRow, alert>>

UpdateConfig ==
    /\ config.enabled /\ EndEdit("config", <<Call("updateConfig", None, config.zone)>>)
    /\ UNCHANGED configVars

ReadConfig ==
    \E i \in DOMAIN calls :
        /\ calls[i].fn = "getConfig" /\ Reply(i, configRow)
        /\ UNCHANGED configVars

StoreConfig ==
    \E i \in DOMAIN calls :
        /\ calls[i].fn = "updateConfig" /\ configRow' = calls[i].data
        /\ Executed(i, "done") /\ UNCHANGED <<config, alert>>

\* The inputs are set even while the user types.
ConfigHeard ==
    \E i \in DOMAIN calls :
        /\ calls[i].fn = "getConfig" /\ Heard(i, <<>>)
        /\ config' = [config EXCEPT !.zone = calls[i].answer, !.dns = calls[i].answer]
        /\ UNCHANGED <<configRow, alert>>

\* The callback ends with cancelConfig, which loads what has just been saved.
ConfigUpdated ==
    \E i \in DOMAIN calls :
        /\ calls[i].fn = "updateConfig" /\ Heard(i, <<GetConfig>>)
        /\ config' = [config EXCEPT !.enabled = FALSE] /\ alert' = ShowAlert(alert)
        /\ UNCHANGED configRow

ConfigRefused ==
    \E i \in DOMAIN calls :
        /\ calls[i].fn \in {"getConfig", "updateConfig"} /\ Refused(i)
        /\ alert' = ShowAlert(alert) /\ UNCHANGED <<configRow, config>>

\* A timer runs out, at least 2.5 s after the alert it belongs to.
HideAlert ==
    /\ alert.timers > 0 /\ page # "left"
    /\ alert' = [shown |-> FALSE, timers |-> alert.timers - 1]
    /\ UNCHANGED <<web, configRow, config>>

ConfigInit ==
    /\ configRow \in Zones
    /\ config = [zone |-> Null, dns |-> Null, enabled |-> FALSE]
    /\ alert = [shown |-> FALSE, timers |-> 0]
=============================================================================

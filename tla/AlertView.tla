------------------------------ MODULE AlertView ------------------------------
(***************************************************************************)
(* alert_view.py: the incident ID a message names a problem by.  What it   *)
(* says of the problem's time is in Daemon; the rest of it is left out.    *)
(***************************************************************************)
EXTENDS Alert

Missing == <<"--">>

Placeholders == {<<>>, <<"N/A">>, <<"NagiosAlert">>, <<"CGI", "Service">>}

DisplayValue(text) == IF Strip(text) \in Placeholders THEN Missing ELSE Strip(text)

HostValue(alert) ==
    IF DisplayValue(alert.host) # Missing THEN DisplayValue(alert.host)
                                          ELSE DisplayValue(alert.app)

(* sla_incident_id. *)
IncidentId(alert) == <<alert.server, alert.alertname, HostValue(alert)>>
=============================================================================

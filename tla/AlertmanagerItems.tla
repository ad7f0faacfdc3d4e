-------------------------- MODULE AlertmanagerItems --------------------------
(***************************************************************************)
(* alertmanager_http.py reading the JSON an Alertmanager answered, item by *)
(* item: which labels and annotations become the fields of an alert, and   *)
(* what an item it can make nothing of costs.                              *)
(***************************************************************************)
EXTENDS Alert

CONSTANT Junk   \* JSON of another shape than the one expected

VARIABLES
    payload,   \* what the Alertmanager answered: a list of items, or Junk
    items,     \* the items still to read
    read       \* the alerts made of the others

payloadVars == <<payload, items, read>>

(* _as_dict: labels, annotations or a status of another shape say nothing. *)
Said(texts, name) ==
    IF texts = Junk THEN <<>>
    ELSE IF name \in DOMAIN texts THEN texts[name] ELSE <<>>

FirstSaid(texts, names) == FirstGiven([i \in DOMAIN names |-> Said(texts, names[i])])

AlertNamed(item) == FirstGiven(<<Said(item.labels, "alertname"), <<"N/A">> >>)

HostLabels == <<"hostname", "host", "pod", "instance", "application", "namespace">>

HostNamed(item) == FirstGiven(<<FirstSaid(item.labels, HostLabels), <<"N/A">> >>)

AppNamed(item) == FirstGiven(<<Said(item.labels, "application"), HostNamed(item)>>)

(* _parse_starts_at: a date that does not parse is no date.                *)
StartsAt(item) == IF item.startsAt = "instant" THEN "known" ELSE "none"

Description(item) ==
    FirstGiven(<<FirstSaid(item.annotations, <<"title", "message", "summary", "description">>),
                 <<"Sem", "descricao">> >>)

(* _to_alert. *)
ToAlert(item) ==
    Stripped(
      [server |-> <<"alertmanager">>,
       alertname |-> AlertNamed(item),
       host |-> HostNamed(item),
       app |-> AppNamed(item),
       severity |-> FirstGiven(<<Said(item.labels, "severity"), <<"WARNING">> >>),
       desc |-> Description(item),
       status_text |-> FirstGiven(<<FirstSaid(item.annotations,
                                       <<"description", "summary", "message", "title">>),
                                    Description(item)>>),
       environment |-> FirstSaid(item.labels, <<"environment", "env", "stage", "ambiente">>),
       starts_at |-> StartsAt(item),
       alert_state |-> Strip(Said(item.status, "state")),
       silenced_by |-> Said(item.status, "silencedBy"),
       inhibited_by |-> Said(item.status, "inhibitedBy")])

PayloadInit ==
    /\ items = IF payload = Junk THEN <<>> ELSE payload
    /\ read = <<>>

(* Slip: the items are read inside one try.                                *)
ReadItemOrAll ==
    /\ items # <<>>
    /\ \/ /\ Head(items) = Junk
          /\ items' = Tail(items)
          /\ UNCHANGED read
       \/ /\ Head(items) # Junk
          /\ IF Valid(ToAlert(Head(items)))
             THEN items' = Tail(items) /\ read' = Append(read, ToAlert(Head(items)))
             ELSE items' = <<>> /\ read' = <<>>
    /\ UNCHANGED payload

(* An item of another shape, or that makes no alert, is left out.          *)
ReadItem ==
    /\ items # <<>>
    /\ items' = Tail(items)
    /\ \/ /\ Head(items) = Junk
          /\ UNCHANGED read
       \/ /\ Head(items) # Junk
          /\ read' = IF Valid(ToAlert(Head(items)))
                     THEN Append(read, ToAlert(Head(items)))
                     ELSE read
    /\ UNCHANGED payload
=============================================================================

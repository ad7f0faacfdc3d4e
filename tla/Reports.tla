------------------------------ MODULE Reports ------------------------------
(***************************************************************************)
(* One poll of a Nagios and an Alertmanager, from what they answered to    *)
(* the messages that name the problems: fetch_all joins the alerts of both *)
(* in the order of the servers, _unique_by_dedup_key keeps one of each     *)
(* problem, and each has a card.  The two answers are read by threads that *)
(* share nothing, here one after the other.                                *)
(***************************************************************************)
EXTENDS StatusPage, AlertmanagerItems, AlertView, FiniteSets

CONSTANT Polls  \* what is answered: a page of Rows and a payload

(* A row that leaves its host's name out follows another of the host.      *)
ASSUME PageAssumption ==
    \A poll \in Polls :
        /\ poll.page \in Seq(Rows(Names, Names))
        /\ \A i \in DOMAIN poll.page :
             \/ poll.page[i].named
             \/ i > 1 /\ poll.page[i].host = poll.page[i - 1].host

ASSUME PayloadAssumption ==
    \A poll \in Polls : poll.payload # Junk => poll.payload \in Seq(Range(poll.payload))

VARIABLE origins    \* history: the item each alert of `read` was made of

vars == <<pageVars, payloadVars, origins>>

Init ==
    /\ \E poll \in Polls : page = poll.page /\ payload = poll.payload
    /\ PageInit
    /\ PayloadInit
    /\ origins = <<>>

AllRead == ReadToTheEnd /\ items = <<>>

ParsePage ==
    /\ SendPart \/ HandleStarttag \/ HandleEndtag \/ HandleData \/ ReadRow
    /\ UNCHANGED <<payloadVars, origins>>

ParseItem ==
    /\ ReadToTheEnd
    /\ ReadItem
    /\ origins' = IF Len(read') > Len(read) THEN Append(origins, Head(items)) ELSE origins
    /\ UNCHANGED pageVars

Finished == AllRead /\ UNCHANGED vars

Next == ParsePage \/ ParseItem \/ Finished

Spec == Init /\ [][Next]_vars

(* fetch_all. *)
RawAlerts == alerts \o read

(* _unique_by_dedup_key: the first of each key.                            *)
Unique ==
    {n \in DOMAIN RawAlerts :
        \A m \in 1 .. n - 1 : DedupKey(RawAlerts[m]) # DedupKey(RawAlerts[n])}

-----------------------------------------------------------------------------
(* Properties.                                                             *)

(* No label of the item is whitespace.                                     *)
Clear(item) ==
    /\ item # Junk
    /\ item.labels # Junk =>
         \A name \in DOMAIN item.labels :
            item.labels[name] = <<>> \/ Strip(item.labels[name]) # <<>>

(* A bad item costs only itself: each clear item makes an alert, whatever  *)
(* stands beside it, and an alert says of its own item the severity, the   *)
(* start, the silences and a name of the host.                             *)
ItemsAreAlerts ==
    /\ Len(read) = Len(origins)
    /\ payload # Junk /\ AllRead =>
         \A i \in DOMAIN payload : Clear(payload[i]) => payload[i] \in Range(origins)
    /\ \A n \in DOMAIN read :
         LET labels == origins[n].labels
         IN  /\ read[n].severity = IF Said(labels, "severity") = <<>> THEN <<"WARNING">>
                                   ELSE Strip(labels.severity)
             /\ (read[n].starts_at = "known") <=> (origins[n].startsAt = "instant")
             /\ read[n].silenced_by # <<>> =>
                  origins[n].status # Junk /\ "silencedBy" \in DOMAIN origins[n].status
             /\ read[n].host \notin {<<>>, <<"N/A">>} =>
                  \E label \in DOMAIN labels : Strip(labels[label]) = read[n].host

(* What makes a problem that problem, whatever its texts say today: the    *)
(* host and service of a row, the names an item's labels give it.          *)
Identity(n) ==
    IF n \in DOMAIN alerts
    THEN LET row == page[alerts[n].row] IN <<"nagios", row.service, row.host>>
    ELSE LET item == origins[n - Len(alerts)]
         IN  <<"alertmanager", Strip(AlertNamed(item)), Strip(AppNamed(item)),
               Strip(HostNamed(item))>>

(* Of each problem the poll found there is one message, however many rows  *)
(* and items tell of it and whatever their texts ("dedup por problema",    *)
(* engineering-python), and all of them would bear the same incident ID.   *)
EachProblemOnce ==
    AllRead /\ (\A i \in DOMAIN page : IsProblem(page[i]) => Traced(i)) =>
        \A m \in DOMAIN RawAlerts :
            /\ Cardinality({u \in Unique : Identity(u) = Identity(m)}) = 1
            /\ \A n \in DOMAIN RawAlerts :
                 Identity(n) = Identity(m) =>
                    IncidentId(RawAlerts[n]) = IncidentId(RawAlerts[m])
=============================================================================

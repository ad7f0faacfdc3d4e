----------------------------- MODULE MCReports -----------------------------
(* Pages of up to three services, on two hosts, and payloads of up to three *)
(* items.  A row that leaves its host out follows another of the host. *)
EXTENDS Reports, TLC

HostsAndServices == {"web", "db", "http", "load"}

(* Rows that differ in what places them on the page. *)
Placed ==
    {row \in Rows({"web", "db"}, {"http"}) : row.acked = "no" /\ row.lasting = "both"}

(* Rows that differ in what they say of one problem; an icon in a cell     *)
(* without a link would be read as part of the service's name. *)
Telling ==
    {row \in Rows({"web"}, {"load"}) :
        row.named /\ ~ (row.layout = "plain" /\ row.acked = "icon")}

WellMade(rowsOfPage) ==
    /\ rowsOfPage[1].named
    /\ \A i \in 2 .. Len(rowsOfPage) :
         rowsOfPage[i].named \/ rowsOfPage[i].host = rowsOfPage[i - 1].host

(* To a row's place CRITICAL and WARNING are alike. *)
Plain == {row \in Placed : row.state # "WARNING"}

SmallPages ==
    {<<row>> : row \in Telling}
      \cup {<<first, second>> : first \in Telling, second \in {row \in Plain : row.named}}
      \cup {p \in Placed \X Plain \X {row \in Plain : row.layout # "linked"} : WellMade(p)}

Item(labels, annotations, status, startsAt) ==
    [labels |-> labels, annotations |-> annotations, status |-> status,
     startsAt |-> startsAt]

Blank == <<" ">>
Named == [alertname |-> <<"load">>, severity |-> <<"CRITICAL">>]
Host(label, name) == label :> <<name>>
Saying(annotation, word) == annotation :> <<word>>
Active == "state" :> <<"active">>

(* The same problem by labels in another order of preference, under other  *)
(* texts, silenced; others; and items that say little or nonsense. *)
SmallItems ==
    {Item(Host("hostname", "prd-web") @@ Named, Saying("title", "high"), Active, "instant"),
     Item(Host("hostname", "prd-web") @@ Host("pod", "db") @@ Named,
          Saying("description", "higher"), "silencedBy" :> <<"s1">> @@ Active, "instant"),
     Item(Host("pod", "db") @@ ("severity" :> <<"CRITICAL", " ">>) @@ Named,
          Saying("summary", "high"), Active, "other"),
     Item(Host("pod", "db") @@ Host("application", "web") @@ Named, Junk, Junk, "instant"),
     Item(Host("namespace", "db") @@ ("environment" :> <<"PROD">>) @@ Named,
          Saying("message", "N/A"), Active, "none"),
     Item(Host("hostname", " ") @@ Host("pod", "db") @@ Named, Junk, Active, "instant"),
     Item(Host("hostname", "db") @@ ("alertname" :> Blank), Junk, Active, "instant"),
     Item(Host("hostname", "db") @@ ("severity" :> Blank) @@ Named, Junk, Active, "instant"),
     Item(Junk, Junk, Junk, "none"),
     Junk}

Fixed == Item(Host("hostname", "web") @@ Named, Saying("title", "high"), Active, "instant")

ManyPolls ==
    {[page |-> p, payload |-> <<Fixed>>] : p \in SmallPages}
      \cup {[page |-> <<>>, payload |-> l] :
               l \in {Junk, <<>>} \cup UNION {[1 .. n -> SmallItems] : n \in 1 .. 3}}
=============================================================================

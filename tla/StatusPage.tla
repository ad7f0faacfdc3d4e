----------------------------- MODULE StatusPage -----------------------------
(***************************************************************************)
(* nagios_cgi_http.py reading the status page of a Nagios monitor: the     *)
(* parser that is fed the tags of the page, with its stacks of open rows   *)
(* and open cells, and then _alerts_from_html over the rows it collected.  *)
(* What it makes of a row is the identity of the problem (the dedup key)   *)
(* and what the filter judges it by.                                       *)
(*                                                                         *)
(* A text is a sequence of words, and a word is a name, a state, a length  *)
(* of time or a mark; whitespace, case and markup are left out.            *)
(***************************************************************************)
EXTENDS Alert

CONSTANT Names      \* of hosts and of services

Durations == {"2h", "5d"}

(* A name is no length of time and no mark, and not blank. *)
ASSUME NamesAssumption == Names \cap (Durations \cup {"acknowledged", Space}) = {}

VARIABLES
    page,       \* the page being read, as the monitor means it: Rows
    sent,       \* how far it has come: a row, and a part of it
    unread,     \* the tags and texts of that part that are still to come
    trStack,    \* the open rows, each with its closed cells
    tdStack,    \* the open cells
    rows,       \* the closed rows (`row`, history: the row of the page)
    lastHost,
    alerts      \* (`row`, history, as well)

pageVars == <<page, sent, unread, trStack, tdStack, rows, lastHost, alerts>>

-----------------------------------------------------------------------------
(* The page, as status.cgi writes it.                                      *)

(* A service of a host.  The host's name is left out of a row that follows *)
(* another row of the host.  Links name both; themes that have none leave  *)
(* the cells' own text.                                                    *)
Rows(hosts, services) ==
    [host : hosts, service : services,
     state : {"CRITICAL", "WARNING", "UNKNOWN"},
     named : BOOLEAN,
     layout : {"nested",   \* cells hold tables, whose cells hold the links
               "linked",   \* cells hold the links
               "plain"},   \* no links
     acked : {"no", "class", "icon", "output"},
     lasting : {"column", "output", "both", "neither"}]

Background(row) == IF row.state = "CRITICAL" THEN "statusBGCRITICAL" ELSE "statusEven"

StatusClass(row) ==
    CASE row.state = "CRITICAL" ->
            IF row.acked = "class" THEN "statusCRITICALACK" ELSE "statusCRITICAL"
      [] row.state = "WARNING" ->
            IF row.acked = "class" THEN "statusWARNINGACK" ELSE "statusWARNING"
      [] row.state = "UNKNOWN" -> "statusUNKNOWN"

Showing(class, text) ==
    [class |-> class, text |-> text, hrefs |-> <<>>, nested |-> FALSE, icon |-> FALSE]

Naming(row, class, name, href, icon) ==
    [class |-> class, text |-> <<name>>,
     hrefs |-> IF row.layout = "plain" THEN <<>> ELSE <<href>>,
     nested |-> row.layout = "nested", icon |-> icon]

Cells(row) ==
    <<IF row.named
      THEN Naming(row, "statusEven", row.host,
                  [host |-> <<row.host>>, service |-> <<>>], FALSE)
      ELSE Showing("statusEven", <<>>),
      Naming(row, Background(row), row.service,
             [host |-> <<row.host>>, service |-> <<row.service>>], row.acked = "icon"),
      Showing(StatusClass(row), <<row.state>>),
      Showing(Background(row), <<"08-14">>),
      Showing(Background(row),
              <<IF row.lasting \in {"column", "both"} THEN "2h" ELSE "N/A">>),
      Showing(Background(row),
              <<IF row.acked = "output" THEN "acknowledged" ELSE "note",
                IF row.lasting \in {"output", "both"} THEN "5d" ELSE "refused">>)>>

Tr          == [on |-> "start", tag |-> "tr"]
Td(class)   == [on |-> "start", tag |-> "td", class |-> class]
Link(href)  == [on |-> "start", tag |-> "a", href |-> href]
Image(alt)  == [on |-> "start", tag |-> "img", alt |-> alt]
Text(words) == [on |-> "data", text |-> words]
End(tag)    == [on |-> "end", tag |-> tag]

(* The tags of a cell: each, and what is left after it.                    *)
Ending(cell) ==
    IF cell.nested THEN <<End("td")>> \o (<<End("tr")>> \o <<End("td")>>)
                   ELSE <<End("td")>>

Marked(cell) ==
    IF cell.icon THEN <<Image(<<"acknowledged">>)>> \o Ending(cell) ELSE Ending(cell)

Worded(cell) == <<Text(cell.text)>> \o Marked(cell)

Linked(cell) ==
    IF cell.hrefs = <<>> THEN Worded(cell) ELSE <<Link(cell.hrefs[1])>> \o Worded(cell)

Inside(cell) ==
    IF cell.nested THEN <<Tr>> \o (<<Td("")>> \o Linked(cell)) ELSE Linked(cell)

Tags(cell) == <<Td(cell.class)>> \o Inside(cell)

Part(row, part) ==
    CASE part = 0       -> <<Tr>>
      [] part \in 1 .. 6 -> Tags(Cells(row)[part])
      [] part = 7       -> <<End("tr")>>

PageInit ==
    /\ sent = [row |-> 0, part |-> 7]
    /\ unread = <<>>
    /\ trStack = <<>>
    /\ tdStack = <<>>
    /\ rows = <<>>
    /\ lastHost = <<>>
    /\ alerts = <<>>

AllSent == sent = [row |-> Len(page), part |-> 7]

(* The parser is fed the page at once, and takes it tag by tag.            *)
SendPart ==
    /\ unread = <<>>
    /\ ~ AllSent
    /\ sent' = IF sent.part = 7 THEN [row |-> sent.row + 1, part |-> 0]
                                ELSE [sent EXCEPT !.part = @ + 1]
    /\ unread' = Part(page[sent'.row], sent'.part)
    /\ UNCHANGED <<page, trStack, tdStack, rows, lastHost, alerts>>

-----------------------------------------------------------------------------
(* _NagiosHtmlParser: one call for each tag and each text of the page.     *)

token == Head(unread)

Take(kind) ==
    /\ unread # <<>>
    /\ token.on = kind
    /\ unread' = Tail(unread)
    /\ UNCHANGED <<page, sent, lastHost, alerts>>

NewCell(class) == [class |-> class, text |-> <<>>, hrefs |-> <<>>]

(* Texts and links belong to every open cell, however deep the tables are. *)
Heard(words) ==
    [i \in DOMAIN tdStack |-> [tdStack[i] EXCEPT !.text = @ \o words]]

(* Slip: a link belongs to the innermost cell alone. *)
FollowedInnermost(href) ==
    [i \in DOMAIN tdStack |->
        IF i = Len(tdStack) THEN [tdStack[i] EXCEPT !.hrefs = Append(@, href)]
                            ELSE tdStack[i]]

Followed(href) ==
    [i \in DOMAIN tdStack |-> [tdStack[i] EXCEPT !.hrefs = Append(@, href)]]

HandleStarttag ==
    /\ Take("start")
    /\ trStack' = IF token.tag = "tr" THEN Append(trStack, <<>>) ELSE trStack
    /\ tdStack' = CASE token.tag = "td" /\ trStack # <<>> ->
                          Append(tdStack, NewCell(token.class))
                    [] token.tag = "a"   -> Followed(token.href)
                    [] token.tag = "img" -> Heard(token.alt)
                    [] OTHER             -> tdStack
    /\ UNCHANGED rows

HandleEndtag ==
    /\ Take("end")
    /\ \/ /\ token.tag = "td"
          /\ tdStack # <<>>
          /\ tdStack' = Front(tdStack)
          /\ trStack' = IF trStack = <<>> THEN trStack
                        ELSE [trStack EXCEPT ![Len(trStack)] =
                                Append(@, Last(tdStack))]
          /\ UNCHANGED rows
       \/ /\ token.tag = "tr"
          /\ trStack # <<>>
          /\ trStack' = Front(trStack)
          /\ rows' = IF Last(trStack) = <<>> THEN rows
                     ELSE Append(rows, [cells |-> Last(trStack), row |-> sent.row])
          /\ UNCHANGED tdStack

HandleData ==
    /\ Take("data")
    /\ tdStack' = Heard(token.text)
    /\ UNCHANGED <<trStack, rows>>

-----------------------------------------------------------------------------
(* The loop of _alerts_from_html.                                          *)

(* Neither the background classes nor those of other states match.         *)
SeverityFromClass(class) ==
    CASE class \in {"statusCRITICAL", "statusCRITICALACK"} -> "CRITICAL"
      [] class \in {"statusWARNING", "statusWARNINGACK"}   -> "WARNING"
      [] OTHER                                             -> "none"

(* The cells that tell how bad it is: the last of them decides.            *)
Severe(row) == {i \in DOMAIN row : SeverityFromClass(row[i].class) # "none"}

(* The first link of the row that has the parameter. *)
QueryParam(row, name) ==
    FirstGiven([i \in DOMAIN row |->
        FirstGiven([k \in DOMAIN row[i].hrefs |-> row[i].hrefs[k][name]])])

HostOf(row) ==
    FirstGiven(<<QueryParam(row, "host"),
                 IF SeverityFromClass(row[1].class) = "none" THEN row[1].text ELSE <<>>,
                 lastHost>>)

ServiceOf(row) ==
    FirstGiven(<<QueryParam(row, "service"),
                 IF Len(row) > 1 THEN row[2].text ELSE <<>>,
                 <<"NagiosAlert">> >>)

DurationIn(words) ==
    FirstGiven([i \in DOMAIN words |->
                  IF words[i] \in Durations THEN <<words[i]>> ELSE <<>>])

DurationOf(row) ==
    FirstGiven(<<IF Len(row) >= 5 THEN DurationIn(row[5].text) ELSE <<>>,
                 FirstGiven([i \in DOMAIN row |-> DurationIn(row[i].text)])>>)

(* Slip: the class alone tells. *)
AckedByClass(row) ==
    \E i \in DOMAIN row : row[i].class \in {"statusCRITICALACK", "statusWARNINGACK"}

Acked(row) ==
    \/ \E i \in DOMAIN row : row[i].class \in {"statusCRITICALACK", "statusWARNINGACK"}
    \/ \E i \in DOMAIN row : "acknowledged" \in Range(row[i].text)
    \/ \E i \in DOMAIN row : \E k \in DOMAIN row[i].hrefs :
          LET href == row[i].hrefs[k]
          IN  "acknowledged" \in Range(href.host) \cup Range(href.service)

AlertOf(row) ==
    Stripped([server |-> <<"nagios">>,
              host |-> HostOf(row),
              app |-> FirstGiven(<<HostOf(row), <<"N/A">> >>),
              alertname |-> ServiceOf(row),
              severity |-> <<SeverityFromClass(row[Max(Severe(row))].class)>>,
              desc |-> FirstGiven(<<Last(row).text, ServiceOf(row)>>),
              status_text |-> Last(row).text,
              environment |-> <<>>,
              acknowledged |-> Acked(row),
              duration |-> DurationOf(row),
              row |-> Head(rows).row])

(* A row of no problem is left out, its host included. *)
ReadRow ==
    /\ AllSent /\ unread = <<>>
    /\ rows # <<>>
    /\ rows' = Tail(rows)
    /\ LET row == Head(rows).cells
       IN  \/ /\ Severe(row) = {}
              /\ UNCHANGED <<lastHost, alerts>>
           \/ /\ Severe(row) # {}
              /\ lastHost' = HostOf(row)
              /\ alerts' = Append(alerts, AlertOf(row))
    /\ UNCHANGED <<page, sent, unread, trStack, tdStack>>

ReadToTheEnd == AllSent /\ unread = <<>> /\ rows = <<>>

-----------------------------------------------------------------------------
(* Properties.                                                             *)

IsProblem(row) == row.state \in {"CRITICAL", "WARNING"}

(* Every CRITICAL and WARNING row of the page becomes one alert, in order, *)
(* and the tables nested in its cells none: with its own service, state,   *)
(* acknowledgement however it is shown, and duration, which is the         *)
(* column's rather than one the plugin's output mentions ("CGI HTML        *)
(* (tabelas aninhadas); host/service/duracao/ack", arquitetura).           *)
ProblemsAreAlerts ==
    /\ ReadToTheEnd =>
         {alerts[n].row : n \in DOMAIN alerts} = {i \in DOMAIN page : IsProblem(page[i])}
    /\ \A m, n \in DOMAIN alerts : m < n => alerts[m].row < alerts[n].row
    /\ \A n \in DOMAIN alerts :
         LET row == page[alerts[n].row]
         IN  /\ alerts[n].alertname = <<row.service>>
             /\ alerts[n].severity = <<row.state>>
             /\ alerts[n].acknowledged <=> row.acked # "no"
             /\ alerts[n].duration = CASE row.lasting = "output"  -> <<"5d">>
                                       [] row.lasting = "neither" -> <<>>
                                       [] OTHER                   -> <<"2h">>

(* The row says its host, or only problems stand between it and the one    *)
(* that does.                                                              *)
Traced(i) ==
    \E j \in 1 .. i : /\ page[j].layout # "plain" \/ page[j].named
                     /\ \A m \in j .. i - 1 : IsProblem(page[m])

(* An alert carries the host of its own row and never one left over from   *)
(* another host: the host is part of the dedup key, and a wrong one is     *)
(* another problem to the ledger.  Left out are pages without links whose  *)
(* host is named by a row of no problem: the code forgets that name.       *)
HostIsItsOwn ==
    \A n \in DOMAIN alerts :
        Traced(alerts[n].row) => alerts[n].host = <<page[alerts[n].row].host>>
=============================================================================

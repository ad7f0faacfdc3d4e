---------------------------- MODULE ReportsProofs ----------------------------
(***************************************************************************)
(* What a poll makes of what the monitors answered, for every page and     *)
(* every payload.                                                          *)
(***************************************************************************)
EXTENDS Reports, SequenceTheorems, WellFoundedInduction, TLAPS

-----------------------------------------------------------------------------
(* Texts.                                                                  *)

LEMMA MinIs ==
    ASSUME NEW T \in SUBSET Nat, T # {}
    PROVE  Min(T) \in T /\ \A m \in T : Min(T) <= m
<1> DEFINE R == OpToRel(<, Nat)
<1>1. IsWellFoundedOn(R, Nat)
  BY NatLessThanWellFounded
<1>2. PICK k \in T : TRUE
  OBVIOUS
<1>3. PICK n \in T : \A m \in T : <<m, n>> \notin R
  BY <1>1, <1>2, WFMin, Zenon
<1>4. ASSUME NEW m \in T PROVE n <= m
  <2>1. ~(m < n)
    BY <1>3 DEF OpToRel
  <2> QED BY <2>1
<1> QED BY <1>4 DEF Min

LEMMA MaxIs ==
    ASSUME NEW n \in Nat, NEW T \in SUBSET (1 .. n), T # {}
    PROVE  Max(T) \in T /\ \A m \in T : m <= Max(T)
<1> DEFINE Mirror == {n - k : k \in T}
<1>1. Mirror \in SUBSET Nat /\ Mirror # {}
  <2>1. \A k \in T : n - k \in Nat
    OBVIOUS
  <2> QED BY <2>1
<1>2. PICK m \in Mirror : \A l \in Mirror : m <= l
  <2> HIDE DEF Mirror
  <2> QED BY <1>1, MinIs
<1>3. PICK k \in T : m = n - k
  BY <1>2
<1>4. \A l \in T : n - k <= n - l
  BY <1>2, <1>3
<1>5. ASSUME NEW l \in T PROVE l <= k
  <2>1. l \in Int /\ k \in Int /\ n - k <= n - l
    BY <1>4
  <2> QED BY <2>1
<1> QED BY <1>5 DEF Max

(* Python's `or` gives a text that is not empty, unless all are.           *)
LEMMA FirstGivenIs ==
    ASSUME NEW texts, NEW n \in Nat, DOMAIN texts = 1 .. n
    PROVE  \/ /\ \A i \in 1 .. n : texts[i] = <<>>
              /\ FirstGiven(texts) = <<>>
           \/ \E i \in 1 .. n : /\ texts[i] # <<>>
                                /\ \A j \in 1 .. i - 1 : texts[j] = <<>>
                                /\ FirstGiven(texts) = texts[i]
<1> DEFINE given == {i \in 1 .. n : texts[i] # <<>>}
<1>1. FirstGiven(texts) = IF given = {} THEN <<>> ELSE texts[Min(given)]
  BY DEF FirstGiven
<1>2. CASE given # {}
  <2>1. given \in SUBSET Nat
    OBVIOUS
  <2>2. Min(given) \in given /\ \A m \in given : Min(given) <= m
    <3> HIDE DEF given
    <3> QED BY <1>2, <2>1, MinIs
  <2> DEFINE i == Min(given)
  <2>3. i \in 1 .. n /\ texts[i] # <<>> /\ FirstGiven(texts) = texts[i]
    BY <1>1, <1>2, <2>2
  <2>4. ASSUME NEW j \in 1 .. i - 1 PROVE texts[j] = <<>>
    <3>1. j \in 1 .. n /\ ~(i <= j)
      BY <2>3
    <3> QED BY <2>2, <3>1
  <2> HIDE DEF i
  <2> QED BY <2>3, <2>4
<1> QED BY <1>1, <1>2

(* Of two, the first that is not empty.                                    *)
LEMMA FirstOfTwo ==
    ASSUME NEW a, NEW b
    PROVE  FirstGiven(<<a, b>>) = IF a # <<>> THEN a ELSE b
<1> DEFINE texts == <<a, b>>
<1>1. DOMAIN texts = 1 .. 2 /\ texts[1] = a /\ texts[2] = b
  OBVIOUS
<1> HIDE DEF texts
<1> QED BY <1>1, FirstGivenIs

LEMMA StripWord ==
    ASSUME NEW word, word # Space
    PROVE  Strip(<<word>>) = <<word>>
<1> DEFINE text == <<word>>
           kept == {i \in DOMAIN text : text[i] # Space}
<1>1. text \in Seq({word}) /\ DOMAIN text = {1} /\ text[1] = word /\ Len(text) = 1
  OBVIOUS
<1>2. Strip(text) = IF kept = {} THEN <<>> ELSE SubSeq(text, Min(kept), Max(kept))
  BY DEF Strip
<1> HIDE DEF text
<1>3. kept = {1}
  BY <1>1
<1> HIDE DEF kept
<1>4. Min(kept) = 1 /\ Max(kept) = 1
  <2>1. kept \in SUBSET Nat /\ kept \in SUBSET (1 .. 1) /\ kept # {} /\ 1 \in Nat
    BY <1>3
  <2>2. Min(kept) \in kept /\ Max(kept) \in kept
    BY <2>1, MinIs, MaxIs
  <2> QED BY <1>3, <2>2
<1>5. SubSeq(text, 1, 1) = text
  <2>1. \A i \in 1 .. 1 : text[i] \in {word}
    BY <1>1
  <2>2. /\ SubSeq(text, 1, 1) \in Seq({word})
        /\ Len(SubSeq(text, 1, 1)) = 1
        /\ \A i \in 1 .. 1 - 1 + 1 : SubSeq(text, 1, 1)[i] = text[1 + i - 1]
    BY <2>1, SubSeqProperties
  <2> QED BY <1>1, <2>2
<1> QED BY <1>2, <1>3, <1>4, <1>5 DEF text

-----------------------------------------------------------------------------
(* Items.                                                                  *)

(* The fields of an alert that the properties speak of.                    *)
LEMMA ToAlertFields ==
    ASSUME NEW item
    PROVE  /\ ToAlert(item).server = Strip(<<"alertmanager">>)
           /\ ToAlert(item).alertname = Strip(AlertNamed(item))
           /\ ToAlert(item).app = Strip(AppNamed(item))
           /\ ToAlert(item).host = Strip(HostNamed(item))
           /\ ToAlert(item).severity = Strip(FirstGiven(<<Said(item.labels, "severity"),
                                                         <<"WARNING">> >>))
           /\ ToAlert(item).starts_at = StartsAt(item)
           /\ ToAlert(item).silenced_by = Said(item.status, "silencedBy")
BY DEF ToAlert, Stripped

LEMMA Words ==
    /\ Strip(<<"alertmanager">>) = <<"alertmanager">>
    /\ Strip(<<"WARNING">>) = <<"WARNING">>
    /\ Strip(<<"N/A">>) = <<"N/A">>
<1>1. Space \notin {"alertmanager", "WARNING", "N/A"}
  BY DEF Space
<1> QED BY <1>1, StripWord

(* A name of several is one of them, and one that the item says.           *)
LEMMA FirstSaidIs ==
    ASSUME NEW texts, NEW S, NEW names \in Seq(S), FirstSaid(texts, names) # <<>>
    PROVE  /\ texts # Junk
           /\ \E i \in DOMAIN names : /\ names[i] \in DOMAIN texts
                                     /\ FirstSaid(texts, names) = texts[names[i]]
<1> DEFINE said == [i \in DOMAIN names |-> Said(texts, names[i])]
<1>1. DOMAIN said = 1 .. Len(names) /\ Len(names) \in Nat
  OBVIOUS
<1>2. PICK i \in 1 .. Len(names) : said[i] # <<>> /\ FirstGiven(said) = said[i]
  <2> HIDE DEF said
  <2>1. FirstGiven(said) # <<>>
    BY DEF FirstSaid, said
  <2> QED BY <1>1, <2>1, FirstGivenIs
<1>3. FirstSaid(texts, names) = Said(texts, names[i]) /\ i \in DOMAIN names
  BY <1>1, <1>2 DEF FirstSaid
<1> QED BY <1>2, <1>3 DEF Said

(* The host and the application are named by labels, or not at all.        *)
LEMMA HostIsLabel ==
    ASSUME NEW item
    PROVE  \/ HostNamed(item) = <<"N/A">>
           \/ /\ item.labels # Junk
              /\ \E label \in DOMAIN item.labels :
                    /\ item.labels[label] # <<>>
                    /\ HostNamed(item) = item.labels[label]
<1>1. HostLabels \in Seq({"hostname", "host", "pod", "instance", "application", "namespace"})
  BY DEF HostLabels
<1>2. HostNamed(item) = IF FirstSaid(item.labels, HostLabels) # <<>>
                        THEN FirstSaid(item.labels, HostLabels) ELSE <<"N/A">>
  BY FirstOfTwo DEF HostNamed
<1> QED BY <1>1, <1>2, FirstSaidIs

LEMMA SaidIsLabel ==
    ASSUME NEW texts, NEW name, Said(texts, name) # <<>>
    PROVE  texts # Junk /\ name \in DOMAIN texts /\ Said(texts, name) = texts[name]
BY DEF Said

(* Labels that are not whitespace make an alert.                           *)
LEMMA ClearIsValid ==
    ASSUME NEW item, Clear(item)
    PROVE  Valid(ToAlert(item))
<1>1. ASSUME NEW name, item.labels # Junk, name \in DOMAIN item.labels,
             item.labels[name] # <<>>
      PROVE  Strip(item.labels[name]) # <<>>
  BY <1>1 DEF Clear
<1>2. ASSUME NEW name, Said(item.labels, name) # <<>>
      PROVE  Strip(Said(item.labels, name)) # <<>>
  BY <1>1, <1>2, SaidIsLabel
<1>3. Strip(HostNamed(item)) # <<>> /\ HostNamed(item) # <<>>
  BY <1>1, HostIsLabel, Words
<1>4. Strip(AppNamed(item)) # <<>>
  BY <1>2, <1>3, FirstOfTwo DEF AppNamed
<1>5. Strip(AlertNamed(item)) # <<>>
  BY <1>2, FirstOfTwo, Words DEF AlertNamed
<1>6. Strip(FirstGiven(<<Said(item.labels, "severity"), <<"WARNING">> >>)) # <<>>
  BY <1>2, FirstOfTwo, Words
<1> QED BY <1>4, <1>5, <1>6, ToAlertFields, Words DEF Valid

(* What is read of the payload so far: its items but the last, an alert    *)
(* for each that makes one, and one for each that is clear.                *)
ReadPart == Len(payload) - Len(items)

ItemsInv ==
    /\ payload = Junk => items = <<>> /\ origins = <<>>
    /\ payload # Junk =>
         /\ payload \in Seq(Range(payload))
         /\ items \in Seq(Range(payload))
         /\ origins \in Seq(Range(payload) \ {Junk})
         /\ Len(items) <= Len(payload)
         /\ \A i \in 1 .. Len(items) : items[i] = payload[ReadPart + i]
         /\ \A i \in 1 .. ReadPart : Clear(payload[i]) => payload[i] \in Range(origins)
    /\ read = [n \in DOMAIN origins |-> ToAlert(origins[n])]

LEMMA ItemsInit == Init => ItemsInv
<1> SUFFICES ASSUME Init PROVE ItemsInv
  OBVIOUS
<1>1. payload # Junk => payload \in Seq(Range(payload))
  BY PayloadAssumption DEF Init
<1>2. /\ items = IF payload = Junk THEN <<>> ELSE payload
      /\ read = <<>> /\ origins = <<>>
  BY DEF Init, PayloadInit
<1>3. <<>> = [n \in DOMAIN <<>> |-> ToAlert(<<>>[n])]
  OBVIOUS
<1>4. ReadPart = 0 \/ payload = Junk
  BY <1>1, <1>2 DEF ReadPart
<1>5. origins \in Seq(Range(payload) \ {Junk})
  BY <1>2
<1> QED BY <1>1, <1>2, <1>3, <1>4, <1>5 DEF ItemsInv

LEMMA ItemsNext == ItemsInv /\ [Next]_vars => ItemsInv'
<1> SUFFICES ASSUME ItemsInv, [Next]_vars PROVE ItemsInv'
  OBVIOUS
<1>1. CASE UNCHANGED <<payload, items, read, origins>>
  BY <1>1 DEF ItemsInv, ReadPart, Clear, ToAlert
<1>2. ASSUME ParseItem PROVE ItemsInv'
  <2> DEFINE item == Head(items)
             All == Range(payload)
  <2>1. payload' = payload /\ items # <<>> /\ items' = Tail(items)
    BY <1>2 DEF ParseItem, ReadItem
  <2>2. /\ payload # Junk /\ payload \in Seq(All) /\ items \in Seq(All)
        /\ origins \in Seq(All \ {Junk})
        /\ Len(items) <= Len(payload)
        /\ \A i \in 1 .. Len(items) : items[i] = payload[ReadPart + i]
        /\ \A i \in 1 .. ReadPart : Clear(payload[i]) => payload[i] \in Range(origins)
        /\ read = [n \in DOMAIN origins |-> ToAlert(origins[n])]
    BY <2>1 DEF ItemsInv
  <2>3. /\ Len(items) \in Nat \ {0} /\ Len(payload) \in Nat
        /\ items' \in Seq(All) /\ Len(items') = Len(items) - 1
        /\ \A i \in 1 .. Len(items) - 1 : items'[i] = items[i + 1]
        /\ item = items[1] /\ item \in All
    BY <2>1, <2>2
  <2>4. ReadPart \in Nat /\ ReadPart' = ReadPart + 1 /\ item = payload[ReadPart + 1]
    BY <2>1, <2>2, <2>3 DEF ReadPart
  <2>5. \A i \in 1 .. Len(items') : items'[i] = payload'[ReadPart' + i]
    <3> SUFFICES ASSUME NEW i \in 1 .. Len(items) - 1
                 PROVE  items'[i] = payload[ReadPart + 1 + i]
      BY <2>1, <2>3, <2>4
    <3>1. items'[i] = items[i + 1] /\ i + 1 \in 1 .. Len(items)
      BY <2>3
    <3>2. items[i + 1] = payload[ReadPart + (i + 1)]
      BY <2>2, <3>1
    <3> QED BY <2>4, <3>1, <3>2
  <2>6. Len(read) = Len(origins) /\ Len(read) \in Nat /\ DOMAIN read = 1 .. Len(origins)
    BY <2>2
  <2>7. CASE item # Junk /\ Valid(ToAlert(item))
    <3>1. read' = Append(read, ToAlert(item))
      BY <1>2, <2>7 DEF ParseItem, ReadItem
    <3>2. Len(read') = Len(read) + 1
      BY <2>2, <2>6, <3>1
    <3>3. origins' = Append(origins, item)
      <4>1. Len(read') > Len(read)
        BY <2>6, <3>2
      <4> QED BY <1>2, <4>1 DEF ParseItem
    <3>4. /\ origins' \in Seq(All \ {Junk}) /\ Len(origins') = Len(origins) + 1
          /\ \A n \in 1 .. Len(origins) : origins'[n] = origins[n]
          /\ origins'[Len(origins) + 1] = item
      BY <2>2, <2>3, <2>7, <3>3
    <3>5. /\ item \in Range(origins')
          /\ Range(origins) \subseteq Range(origins')
      <4>1. /\ DOMAIN origins = 1 .. Len(origins) /\ Len(origins) \in Nat
            /\ DOMAIN origins' = 1 .. Len(origins) + 1
        BY <2>2, <3>4
      <4> QED BY <3>4, <4>1 DEF Range
    <3>6. read' = [n \in DOMAIN origins' |-> ToAlert(origins'[n])]
      BY <2>2, <2>6, <3>1, <3>2, <3>4
    <3>7. ASSUME NEW i \in 1 .. ReadPart + 1, Clear(payload[i])
          PROVE  payload[i] \in Range(origins')
      <4>1. i \in 1 .. ReadPart \/ i = ReadPart + 1
        BY <2>4
      <4> QED BY <2>2, <2>4, <3>5, <3>7, <4>1
    <3>8. Len(items') <= Len(payload)
      BY <2>2, <2>3
    <3> HIDE DEF item
    <3> QED BY <2>1, <2>2, <2>3, <2>4, <2>5, <3>4, <3>6, <3>7, <3>8 DEF ItemsInv
  <2>8. CASE item = Junk \/ ~ Valid(ToAlert(item))
    <3>1. read' = read
      BY <1>2, <2>8 DEF ParseItem, ReadItem
    <3>2. origins' = origins
      <4>1. ~ (Len(read') > Len(read))
        BY <2>6, <3>1
      <4> QED BY <1>2, <4>1 DEF ParseItem
    <3>3. ~ Clear(item)
      BY <2>8, ClearIsValid DEF Clear
    <3> QED BY <2>1, <2>2, <2>3, <2>4, <2>5, <3>1, <3>2, <3>3 DEF ItemsInv
  <2> QED BY <2>7, <2>8
<1> QED BY <1>1, <1>2 DEF Next, ParsePage, Finished, vars, payloadVars

(* Each clear item of an Alertmanager payload makes an alert, whatever     *)
(* stands beside it, and an alert says of its own item the severity, the   *)
(* start, the silences and a name of the host (_to_alert, and the loop of  *)
(* AlertmanagerHttpClient.fetch over the items).                           *)
THEOREM ItemsTheorem == Spec => []ItemsAreAlerts
<1>1. ItemsInv => ItemsAreAlerts
  <2> SUFFICES ASSUME ItemsInv PROVE ItemsAreAlerts
    OBVIOUS
  <2>1. origins \in Seq(Range(payload) \ {Junk}) \/ origins = <<>>
    BY DEF ItemsInv
  <2>2. read = [n \in DOMAIN origins |-> ToAlert(origins[n])]
    BY DEF ItemsInv
  <2>3. Len(read) = Len(origins)
    BY <2>1, <2>2
  <2>4. ASSUME payload # Junk, AllRead, NEW i \in DOMAIN payload, Clear(payload[i])
        PROVE  payload[i] \in Range(origins)
    <3>1. payload \in Seq(Range(payload)) /\ items = <<>>
      BY <2>4 DEF ItemsInv, AllRead
    <3>2. ReadPart = Len(payload) /\ i \in 1 .. Len(payload)
      BY <3>1 DEF ReadPart
    <3> QED BY <2>4, <3>2 DEF ItemsInv
  <2>5. ASSUME NEW n \in DOMAIN read
        PROVE  LET labels == origins[n].labels
               IN  /\ read[n].severity = IF Said(labels, "severity") = <<>>
                                         THEN <<"WARNING">> ELSE Strip(labels.severity)
                   /\ (read[n].starts_at = "known") <=> (origins[n].startsAt = "instant")
                   /\ read[n].silenced_by # <<>> =>
                        /\ origins[n].status # Junk
                        /\ "silencedBy" \in DOMAIN origins[n].status
                   /\ read[n].host \notin {<<>>, <<"N/A">>} =>
                        \E label \in DOMAIN labels : Strip(labels[label]) = read[n].host
    <3>1. read[n] = ToAlert(origins[n])
      BY <2>2
    <3> DEFINE item == origins[n]
    <3>2. read[n].severity = IF Said(item.labels, "severity") = <<>>
                             THEN <<"WARNING">> ELSE Strip(item.labels.severity)
      <4>1. read[n].severity = Strip(FirstGiven(<<Said(item.labels, "severity"),
                                                  <<"WARNING">> >>))
        BY <3>1, ToAlertFields
      <4>2. FirstGiven(<<Said(item.labels, "severity"), <<"WARNING">> >>)
               = IF Said(item.labels, "severity") # <<>> THEN Said(item.labels, "severity")
                 ELSE <<"WARNING">>
        BY FirstOfTwo
      <4>3. Said(item.labels, "severity") # <<>> =>
               Said(item.labels, "severity") = item.labels["severity"]
        BY SaidIsLabel
      <4> QED BY <4>1, <4>2, <4>3, Words
    <3>3. (read[n].starts_at = "known") <=> (item.startsAt = "instant")
      BY <3>1, ToAlertFields DEF StartsAt
    <3>4. read[n].silenced_by # <<>> =>
             item.status # Junk /\ "silencedBy" \in DOMAIN item.status
      <4>1. read[n].silenced_by = Said(item.status, "silencedBy")
        BY <3>1, ToAlertFields
      <4> QED BY <4>1, SaidIsLabel
    <3>5. read[n].host # <<"N/A">> =>
             \E label \in DOMAIN item.labels : Strip(item.labels[label]) = read[n].host
      BY <3>1, ToAlertFields, HostIsLabel, Words
    <3> QED BY <3>2, <3>3, <3>4, <3>5
  <2> QED BY <2>3, <2>4, <2>5 DEF ItemsAreAlerts
<1> QED BY <1>1, ItemsInit, ItemsNext, PTL DEF Spec
==============================================================================

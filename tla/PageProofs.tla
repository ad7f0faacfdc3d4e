----------------------------- MODULE PageProofs -----------------------------
(***************************************************************************)
(* What a poll makes of a status page, for every page without loose icons: *)
(* one alert of each problem, with its own fields and host, and one        *)
(* message.                                                                *)
(***************************************************************************)
EXTENDS ReportsProofs, FiniteSetTheorems

-----------------------------------------------------------------------------
(* Stacks.                                                                 *)

LEMMA OneOrTwo ==
    ASSUME NEW S, NEW s \in Seq(S)
    PROVE  /\ Len(s) = 0 => s = <<>>
           /\ Len(s) = 1 => s = <<s[1]>>
           /\ Len(s) = 2 => s = <<s[1], s[2]>>
OBVIOUS

(* A function on 1 .. n is its values. *)
LEMMA Listed ==
    ASSUME NEW f, NEW n \in {1, 2}, f = [i \in 1 .. n |-> f[i]]
    PROVE  f = IF n = 1 THEN <<f[1]>> ELSE <<f[1], f[2]>>
<1>1. PICK S : f[1] \in S /\ f[2] \in S
  <2>1. f[1] \in {f[1], f[2]} /\ f[2] \in {f[1], f[2]}
    OBVIOUS
  <2> QED BY <2>1
<1>2. \A i \in 1 .. n : f[i] \in S
  BY <1>1
<1>3. f \in Seq(S) /\ Len(f) = n
  BY <1>2
<1> QED BY <1>3, OneOrTwo

LEMMA FrontIs ==
    ASSUME NEW S, NEW s \in Seq(S), Len(s) # 0
    PROVE  /\ Front(s) \in Seq(S) /\ Len(Front(s)) = Len(s) - 1
           /\ \A i \in 1 .. Len(s) - 1 : Front(s)[i] = s[i]
<1> DEFINE n == Len(s) - 1
<1>1. /\ Len(s) \in Nat /\ n \in Nat /\ \A i \in 1 .. n : s[i] \in S
  BY LenProperties
<1>2. Front(s) = SubSeq(s, 1, n)
  BY DEF Front
<1> HIDE DEF n
<1>3. /\ SubSeq(s, 1, n) \in Seq(S)
      /\ Len(SubSeq(s, 1, n)) = IF 1 <= n THEN n - 1 + 1 ELSE 0
      /\ \A i \in 1 .. n - 1 + 1 : SubSeq(s, 1, n)[i] = s[1 + i - 1]
  BY <1>1, SubSeqProperties
<1>4. /\ Len(Front(s)) = n
      /\ \A i \in 1 .. n : Front(s)[i] = s[i]
  BY <1>1, <1>2, <1>3
<1> QED BY <1>2, <1>3, <1>4 DEF n

LEMMA Stack ==
    ASSUME NEW a, NEW b
    PROVE  /\ Last(<<a>>) = a /\ Last(<<a, b>>) = b
           /\ Front(<<a>>) = <<>> /\ Front(<<a, b>>) = <<a>>
           /\ Append(<<>>, a) = <<a>> /\ Append(<<a>>, b) = <<a, b>>
<1>1. PICK S : a \in S /\ b \in S
  <2>1. a \in {a, b} /\ b \in {a, b}
    OBVIOUS
  <2> QED BY <2>1
<1>2. /\ <<a>> \in Seq(S) /\ Len(<<a>>) = 1 /\ <<a>>[1] = a
      /\ <<a, b>> \in Seq(S) /\ Len(<<a, b>>) = 2 /\ <<a, b>>[1] = a /\ <<a, b>>[2] = b
  BY <1>1
<1>3. Last(<<a>>) = a /\ Last(<<a, b>>) = b
  BY <1>2 DEF Last
<1>4. PICK s \in Seq(S), t \in Seq(S) :
         s = <<a>> /\ t = <<a, b>> /\ Len(s) = 1 /\ Len(t) = 2 /\ t[1] = a
  BY <1>2
<1>5. /\ Front(s) \in Seq(S) /\ Len(Front(s)) = 0
      /\ Front(t) \in Seq(S) /\ Len(Front(t)) = 1 /\ Front(t)[1] = a
  <2>0. Len(s) = 1 /\ Len(s) # 0 /\ Len(t) = 2 /\ Len(t) # 0
    BY <1>4
  <2>1. Front(s) \in Seq(S) /\ Len(Front(s)) = Len(s) - 1
    BY <2>0, FrontIs
  <2>3. \A i \in 1 .. Len(t) - 1 : Front(t)[i] = t[i]
    BY <2>0, FrontIs
  <2>4. Front(t) \in Seq(S) /\ Len(Front(t)) = Len(t) - 1
    BY <2>0, FrontIs
  <2>2. Len(s) - 1 = 0 /\ Len(t) - 1 = 1 /\ 1 \in 1 .. Len(t) - 1
    BY <1>4
  <2> QED BY <1>4, <2>1, <2>2, <2>3, <2>4
<1>8. Front(s) = <<>> /\ Front(t) = <<a>>
  BY <1>5, OneOrTwo
<1>6. Append(<<>>, a) = <<a>>
  OBVIOUS
<1>7. Append(<<a>>, b) = <<a, b>>
  <2>1. /\ Append(<<a>>, b) \in Seq(S) /\ Len(Append(<<a>>, b)) = 2
        /\ Append(<<a>>, b)[1] = a /\ Append(<<a>>, b)[2] = b
    BY <1>1, <1>2
  <2> QED BY <2>1, OneOrTwo
<1> QED BY <1>3, <1>4, <1>6, <1>7, <1>8

(* One tag, and what is left after it. *)
LEMMA First ==
    ASSUME NEW tag, NEW S, NEW rest \in Seq(S)
    PROVE  /\ <<tag>> \o rest # <<>>
           /\ Head(<<tag>> \o rest) = tag
           /\ Tail(<<tag>> \o rest) = rest
<1> DEFINE X == S \cup {tag}
<1>1. <<tag>> \in Seq(X) /\ rest \in Seq(X) /\ Len(<<tag>>) = 1 /\ <<tag>>[1] = tag
  OBVIOUS
<1> HIDE DEF X
<1>2. /\ <<tag>> \o rest \in Seq(X)
      /\ Len(<<tag>> \o rest) = Len(rest) + 1
      /\ \A i \in 1 .. 1 + Len(rest) :
           (<<tag>> \o rest)[i] = IF i <= 1 THEN tag ELSE rest[i - 1]
  BY <1>1, ConcatProperties
<1>3. /\ Len(rest) \in Nat
      /\ \A i \in 1 .. Len(rest) : i + 1 \in 1 .. 1 + Len(rest) /\ ~ (i + 1 <= 1) /\ (i + 1) - 1 = i
  BY <1>1
<1> DEFINE all == <<tag>> \o rest
<1>4. /\ all \in Seq(X) /\ Len(all) = Len(rest) + 1 /\ all[1] = tag
      /\ \A i \in 1 .. Len(rest) : all[i + 1] = rest[i]
  BY <1>2, <1>3
<1> HIDE DEF all
<1>5. all # <<>> /\ Head(all) = tag
  BY <1>3, <1>4
<1>6. Tail(all) \in Seq(X) /\ Len(Tail(all)) = Len(rest)
      /\ \A i \in 1 .. Len(rest) : Tail(all)[i] = rest[i]
  BY <1>3, <1>4
<1>7. Tail(all) = rest
  BY <1>1, <1>3, <1>6, SeqEqual
<1> QED BY <1>5, <1>7 DEF all

CellWith(class, text, hrefs) == [class |-> class, text |-> text, hrefs |-> hrefs]

LEMMA MoreText ==
    ASSUME NEW class, NEW text, NEW hrefs, NEW words
    PROVE  [CellWith(class, text, hrefs) EXCEPT !.text = @ \o words] =
              CellWith(class, text \o words, hrefs)
<1>0. PICK c : c = CellWith(class, text, hrefs)
  OBVIOUS
<1>1. PICK u : u = text \o words
  OBVIOUS
<1>2. c.text \o words = u
  BY <1>0, <1>1 DEF CellWith
<1>3. [c EXCEPT !.text = c.text \o words] = [c EXCEPT !.text = u]
  BY <1>2, Zenon
<1>4. [c EXCEPT !.text = u] = CellWith(class, u, hrefs)
  BY <1>0, SMT DEF CellWith
<1> QED BY <1>0, <1>1, <1>3, <1>4, Zenon

LEMMA MoreLinks ==
    ASSUME NEW class, NEW text, NEW hrefs, NEW href
    PROVE  [CellWith(class, text, hrefs) EXCEPT !.hrefs = Append(@, href)] =
              CellWith(class, text, Append(hrefs, href))
<1>0. PICK c : c = CellWith(class, text, hrefs)
  OBVIOUS
<1>1. PICK u : u = Append(hrefs, href)
  OBVIOUS
<1>2. Append(c.hrefs, href) = u
  BY <1>0, <1>1 DEF CellWith
<1>3. [c EXCEPT !.hrefs = Append(c.hrefs, href)] = [c EXCEPT !.hrefs = u]
  BY <1>2, Zenon
<1>4. [c EXCEPT !.hrefs = u] = CellWith(class, text, u)
  BY <1>0, SMT DEF CellWith
<1> QED BY <1>0, <1>1, <1>3, <1>4, Zenon

(* The cells open while one is read: itself, and one in its table.         *)
Open(class, inner, text, hrefs) ==
    IF inner THEN <<CellWith(class, text, hrefs), CellWith("", text, hrefs)>>
             ELSE <<CellWith(class, text, hrefs)>>

LEMMA Opened ==
    ASSUME NEW class, NEW inner \in BOOLEAN, NEW text, NEW hrefs,
           tdStack = Open(class, inner, text, hrefs)
    PROVE  /\ \A words : Heard(words) = Open(class, inner, text \o words, hrefs)
           /\ \A href : Followed(href) = Open(class, inner, text, Append(hrefs, href))
           /\ tdStack # <<>>
<1>1. PICK n \in {1, 2} : n = IF inner THEN 2 ELSE 1
  OBVIOUS
<1>2. /\ DOMAIN tdStack = 1 .. n /\ 1 \in 1 .. n /\ (inner => 2 \in 1 .. n)
      /\ tdStack[1] = CellWith(class, text, hrefs)
      /\ inner => tdStack[2] = CellWith("", text, hrefs)
      /\ tdStack # <<>>
  <2>1. PICK c, d : c = CellWith(class, text, hrefs) /\ d = CellWith("", text, hrefs)
    OBVIOUS
  <2>2. CASE inner
    <3>1. tdStack = <<c, d>>
      BY <2>1, <2>2 DEF Open
    <3>2. DOMAIN tdStack = 1 .. 2 /\ tdStack[1] = c /\ tdStack[2] = d /\ tdStack # <<>>
      BY <3>1
    <3>3. 1 \in 1 .. 2 /\ 2 \in 1 .. 2 /\ n = 2
      BY <1>1, <2>2
    <3> QED BY <2>1, <3>2, <3>3, Zenon
  <2>3. CASE ~ inner
    <3>1. tdStack = <<c>>
      BY <2>1, <2>3 DEF Open
    <3>2. DOMAIN tdStack = 1 .. 1 /\ tdStack[1] = c /\ tdStack # <<>>
      BY <3>1
    <3>3. 1 \in 1 .. 1 /\ n = 1
      BY <1>1, <2>3
    <3> QED BY <2>1, <2>3, <3>2, <3>3, Zenon
  <2> QED BY <2>2, <2>3
<1>4. ASSUME NEW words PROVE Heard(words) = Open(class, inner, text \o words, hrefs)
  <2>1. PICK f : f = Heard(words)
    OBVIOUS
  <2>2. f = [i \in 1 .. n |-> f[i]]
    BY <1>2, <2>1, Zenon DEF Heard
  <2>3. f[1] = CellWith(class, text \o words, hrefs)
    <3>1. f[1] = [CellWith(class, text, hrefs) EXCEPT !.text = @ \o words]
      BY <1>2, <2>1, Zenon DEF Heard
    <3>2. [CellWith(class, text, hrefs) EXCEPT !.text = @ \o words]
            = CellWith(class, text \o words, hrefs)
      BY MoreText
    <3> QED BY <3>1, <3>2, Zenon
  <2>4. inner => f[2] = CellWith("", text \o words, hrefs)
    <3>1. inner => f[2] = [CellWith("", text, hrefs) EXCEPT !.text = @ \o words]
      BY <1>2, <2>1, Zenon DEF Heard
    <3>2. PICK none : none = ""
      OBVIOUS
    <3>3. [CellWith(none, text, hrefs) EXCEPT !.text = @ \o words]
            = CellWith(none, text \o words, hrefs)
      BY MoreText
    <3> QED BY <3>1, <3>2, <3>3, Zenon
  <2>5. f = IF n = 1 THEN <<f[1]>> ELSE <<f[1], f[2]>>
    BY <2>2, Listed
  <2>6. n = 1 <=> ~ inner
    BY <1>1
  <2> QED BY <2>1, <2>3, <2>4, <2>5, <2>6, Zenon DEF Open
<1>5. ASSUME NEW href PROVE Followed(href) = Open(class, inner, text, Append(hrefs, href))
  <2>1. PICK f : f = Followed(href)
    OBVIOUS
  <2>2. f = [i \in 1 .. n |-> f[i]]
    BY <1>2, <2>1, Zenon DEF Followed
  <2>3. f[1] = CellWith(class, text, Append(hrefs, href))
    <3>1. f[1] = [CellWith(class, text, hrefs) EXCEPT !.hrefs = Append(@, href)]
      BY <1>2, <2>1, Zenon DEF Followed
    <3>2. [CellWith(class, text, hrefs) EXCEPT !.hrefs = Append(@, href)]
            = CellWith(class, text, Append(hrefs, href))
      BY MoreLinks
    <3> QED BY <3>1, <3>2, Zenon
  <2>4. inner => f[2] = CellWith("", text, Append(hrefs, href))
    <3>1. inner => f[2] = [CellWith("", text, hrefs) EXCEPT !.hrefs = Append(@, href)]
      BY <1>2, <2>1, Zenon DEF Followed
    <3>2. PICK none : none = ""
      OBVIOUS
    <3>3. [CellWith(none, text, hrefs) EXCEPT !.hrefs = Append(@, href)]
            = CellWith(none, text, Append(hrefs, href))
      BY MoreLinks
    <3> QED BY <3>1, <3>2, <3>3, Zenon
  <2>5. f = IF n = 1 THEN <<f[1]>> ELSE <<f[1], f[2]>>
    BY <2>2, Listed
  <2>6. n = 1 <=> ~ inner
    BY <1>1
  <2> QED BY <2>1, <2>3, <2>4, <2>5, <2>6, Zenon DEF Open
<1> QED BY <1>2, <1>4, <1>5

-----------------------------------------------------------------------------
(* One tag of the page.                                                    *)

Parse == HandleStarttag \/ HandleEndtag \/ HandleData

Aside == <<page, sent, lastHost, alerts>>

LEMMA TakesTag ==
    ASSUME NEW tag, NEW S, NEW rest \in Seq(S), unread = <<tag>> \o rest, Parse
    PROVE  token = tag /\ unread' = rest /\ Aside' = Aside
<1>1. Head(unread) = tag /\ Tail(unread) = rest
  BY First, Zenon
<1> QED BY <1>1 DEF Parse, HandleStarttag, HandleEndtag, HandleData, Take, Aside, token

LEMMA StartTaken ==
    ASSUME token.on = "start", Parse
    PROVE  HandleStarttag
BY DEF Parse, HandleEndtag, HandleData, Take

LEMMA EndTaken ==
    ASSUME token.on = "end", Parse
    PROVE  HandleEndtag
BY DEF Parse, HandleStarttag, HandleData, Take

LEMMA DataTaken ==
    ASSUME token.on = "data", Parse
    PROVE  HandleData
BY DEF Parse, HandleStarttag, HandleEndtag, Take

LEMMA TrTaken ==
    ASSUME token = Tr, Parse
    PROVE  /\ trStack' = Append(trStack, <<>>)
           /\ tdStack' = tdStack /\ rows' = rows
<1>1. token.on = "start" /\ token.tag = "tr"
  BY DEF Tr
<1>2. HandleStarttag
  BY <1>1, StartTaken
<1> QED BY <1>1, <1>2 DEF HandleStarttag

LEMMA TdTaken ==
    ASSUME NEW class, token = Td(class), trStack # <<>>, Parse
    PROVE  /\ trStack' = trStack
           /\ tdStack' = Append(tdStack, NewCell(class)) /\ rows' = rows
<1>1. token.on = "start" /\ token.tag = "td" /\ token.class = class
  BY DEF Td
<1>2. HandleStarttag
  BY <1>1, StartTaken
<1> QED BY <1>1, <1>2 DEF HandleStarttag

LEMMA LinkTaken ==
    ASSUME NEW href, token = Link(href), Parse
    PROVE  /\ trStack' = trStack
           /\ tdStack' = Followed(href) /\ rows' = rows
<1>1. token.on = "start" /\ token.tag = "a" /\ token.href = href
  BY DEF Link
<1>2. HandleStarttag
  BY <1>1, StartTaken
<1> QED BY <1>1, <1>2 DEF HandleStarttag

LEMMA ImageTaken ==
    ASSUME NEW alt, token = Image(alt), Parse
    PROVE  /\ trStack' = trStack
           /\ tdStack' = Heard(alt) /\ rows' = rows
<1>1. token.on = "start" /\ token.tag = "img" /\ token.alt = alt
  BY DEF Image
<1>2. HandleStarttag
  BY <1>1, StartTaken
<1> QED BY <1>1, <1>2 DEF HandleStarttag

LEMMA TextTaken ==
    ASSUME NEW words, token = Text(words), Parse
    PROVE  /\ trStack' = trStack
           /\ tdStack' = Heard(words) /\ rows' = rows
<1>1. token.on = "data" /\ token.text = words
  BY DEF Text
<1>2. HandleData
  BY <1>1, DataTaken
<1> QED BY <1>1, <1>2 DEF HandleData

LEMMA CellEndTaken ==
    ASSUME token = End("td"), trStack # <<>>, Parse
    PROVE  /\ trStack' = [trStack EXCEPT ![Len(trStack)] = Append(@, Last(tdStack))]
           /\ tdStack' = Front(tdStack) /\ rows' = rows
<1>1. token.on = "end" /\ token.tag = "td"
  BY DEF End
<1>2. HandleEndtag
  BY <1>1, EndTaken
<1> QED BY <1>1, <1>2 DEF HandleEndtag

LEMMA RowEndTaken ==
    ASSUME token = End("tr"), trStack # <<>>, Parse
    PROVE  /\ trStack' = Front(trStack)
           /\ tdStack' = tdStack
           /\ rows' = IF Last(trStack) = <<>> THEN rows
                      ELSE Append(rows, [cells |-> Last(trStack), row |-> sent.row])
<1>1. token.on = "end" /\ token.tag = "tr"
  BY DEF End
<1>2. HandleEndtag
  BY <1>1, EndTaken
<1> QED BY <1>1, <1>2 DEF HandleEndtag

-----------------------------------------------------------------------------
(* A cell, from its first tag to its last.                                 *)

Full(cell) == IF cell.icon THEN cell.text \o <<"acknowledged">> ELSE cell.text

Read(cell) == CellWith(cell.class, Full(cell), cell.hrefs)

(* The cell of the table in it.                                            *)
Nested(cell) == CellWith("", Full(cell), cell.hrefs)

CellShape(cell) ==
    /\ cell.nested \in BOOLEAN /\ cell.icon \in BOOLEAN
    /\ \E S : cell.text \in Seq(S)
    /\ cell.hrefs = <<>> \/ cell.hrefs = <<cell.hrefs[1]>>

RowsOpen(cell, done) == IF cell.nested THEN <<done, <<>> >> ELSE <<done>>

(* A cell that is being read, after the cells `done` of its row.           *)
Reading(cell, done) ==
    \/ unread = Tags(cell) /\ trStack = <<done>> /\ tdStack = <<>>
    \/ /\ unread = Inside(cell) /\ trStack = <<done>>
       /\ tdStack = Open(cell.class, FALSE, <<>>, <<>>)
    \/ /\ cell.nested
       /\ unread = <<Td("")>> \o Linked(cell) /\ trStack = <<done, <<>> >>
       /\ tdStack = Open(cell.class, FALSE, <<>>, <<>>)
    \/ /\ unread = Linked(cell) /\ trStack = RowsOpen(cell, done)
       /\ tdStack = Open(cell.class, cell.nested, <<>>, <<>>)
    \/ /\ unread = Worded(cell) /\ trStack = RowsOpen(cell, done)
       /\ tdStack = Open(cell.class, cell.nested, <<>>, cell.hrefs)
    \/ /\ unread = Marked(cell) /\ trStack = RowsOpen(cell, done)
       /\ tdStack = Open(cell.class, cell.nested, cell.text, cell.hrefs)
    \/ /\ unread = Ending(cell) /\ trStack = RowsOpen(cell, done)
       /\ tdStack = Open(cell.class, cell.nested, Full(cell), cell.hrefs)
    \/ /\ cell.nested
       /\ unread = <<End("tr")>> \o <<End("td")>> /\ trStack = <<done, <<Nested(cell)>> >>
       /\ tdStack = <<Read(cell)>>
    \/ /\ cell.nested
       /\ unread = <<End("td")>> /\ trStack = <<done>>
       /\ tdStack = <<Read(cell)>>

BeenRead(cell, done) ==
    unread = <<>> /\ trStack = <<Append(done, Read(cell))>> /\ tdStack = <<>>

(* Each part of a cell's tags is a sequence of tags.                       *)
LEMMA TagsAre ==
    ASSUME NEW cell
    PROVE  \E S : /\ Ending(cell) \in Seq(S) /\ Marked(cell) \in Seq(S)
                  /\ Worded(cell) \in Seq(S) /\ Linked(cell) \in Seq(S)
                  /\ Inside(cell) \in Seq(S)
                  /\ <<End("tr")>> \o <<End("td")>> \in Seq(S)
                  /\ <<End("td")>> \in Seq(S)
<1> DEFINE S == {End("td"), End("tr"), Image(<<"acknowledged">>), Text(cell.text),
                 Link(cell.hrefs[1]), Tr, Td("")}
<1>1. /\ End("td") \in S /\ End("tr") \in S /\ Image(<<"acknowledged">>) \in S
      /\ Text(cell.text) \in S /\ Link(cell.hrefs[1]) \in S /\ Tr \in S /\ Td("") \in S
  OBVIOUS
<1> HIDE DEF S
<1>2. ASSUME NEW tag \in S, NEW rest \in Seq(S) PROVE <<tag>> \o rest \in Seq(S)
  OBVIOUS
<1>3. <<End("td")>> \in Seq(S)
  <2>1. \A tag \in S : <<tag>> \in Seq(S)
    OBVIOUS
  <2> QED BY <1>1, <2>1
<1>4. <<End("tr")>> \o <<End("td")>> \in Seq(S)
  BY <1>1, <1>2, <1>3
<1>5. Ending(cell) \in Seq(S)
  BY <1>1, <1>2, <1>3, <1>4, Zenon DEF Ending
<1>6. Marked(cell) \in Seq(S)
  BY <1>1, <1>2, <1>5, Zenon DEF Marked
<1>7. Worded(cell) \in Seq(S)
  BY <1>1, <1>2, <1>6, Zenon DEF Worded
<1>8. Linked(cell) \in Seq(S)
  BY <1>1, <1>2, <1>7, Zenon DEF Linked
<1>9. Inside(cell) \in Seq(S)
  BY <1>1, <1>2, <1>8, Zenon DEF Inside
<1> QED BY <1>3, <1>4, <1>5, <1>6, <1>7, <1>8, <1>9, Zenon

LEMMA StillReading ==
    ASSUME NEW cell, NEW done, Reading(cell, done)
    PROVE  unread # <<>>
<1>1. PICK S : /\ Ending(cell) \in Seq(S) /\ Marked(cell) \in Seq(S)
               /\ Worded(cell) \in Seq(S) /\ Linked(cell) \in Seq(S)
               /\ Inside(cell) \in Seq(S)
               /\ <<End("tr")>> \o <<End("td")>> \in Seq(S)
               /\ <<End("td")>> \in Seq(S)
  BY TagsAre
<1>2. \A tag : <<tag>> # <<>> /\ \A rest \in Seq(S) : <<tag>> \o rest # <<>>
  BY First
<1>3. Tags(cell) # <<>>
  BY <1>1, <1>2, Zenon DEF Tags
<1>4. /\ <<Td("")>> \o Linked(cell) # <<>> /\ <<End("tr")>> \o <<End("td")>> # <<>>
      /\ <<End("td")>> # <<>>
  BY <1>1, <1>2, Zenon
<1>5. Ending(cell) # <<>>
  <2>1. <<End("tr")>> \o <<End("td")>> \in Seq(S)
    BY <1>1
  <2> QED BY <1>2, <2>1, Zenon DEF Ending
<1>6. Marked(cell) # <<>>
  BY <1>1, <1>2, <1>5, Zenon DEF Marked
<1>7. Worded(cell) # <<>>
  BY <1>1, <1>2, Zenon DEF Worded
<1>8. Linked(cell) # <<>>
  BY <1>1, <1>2, <1>7, Zenon DEF Linked
<1>9. Inside(cell) # <<>>
  <2>1. CASE ~ cell.nested
    BY <1>8, <2>1 DEF Inside
  <2>2. CASE cell.nested
    <3>1. PICK inner : inner = Td("")
      OBVIOUS
    <3>2. <<inner>> \o Linked(cell) \in Seq(S \cup {inner})
      BY <1>1
    <3>3. <<Tr>> \o (<<inner>> \o Linked(cell)) # <<>>
      BY <3>2, First
    <3>4. Inside(cell) = <<Tr>> \o (<<inner>> \o Linked(cell))
      BY <2>2, <3>1, Zenon DEF Inside
    <3> QED BY <3>3, <3>4, Zenon
  <2> QED BY <2>1, <2>2
<1> QED BY <1>3, <1>4, <1>5, <1>6, <1>7, <1>8, <1>9, Zenon DEF Reading

LEMMA LastOf ==
    ASSUME NEW a, NEW b, NEW x
    PROVE  /\ [<<a>> EXCEPT ![Len(<<a>>)] = x] = <<x>>
           /\ [<<a, b>> EXCEPT ![Len(<<a, b>>)] = x] = <<a, x>>
           /\ <<a>>[Len(<<a>>)] = a /\ <<a, b>>[Len(<<a, b>>)] = b
OBVIOUS

LEMMA ReadsOn ==
    ASSUME NEW cell, CellShape(cell), NEW done, Reading(cell, done), Parse
    PROVE  /\ Reading(cell, done)' \/ BeenRead(cell, done)'
           /\ Aside' = Aside
           /\ \/ rows' = rows
              \/ rows' = Append(rows, [cells |-> <<Nested(cell)>>, row |-> sent.row])
<1> DEFINE Kept == Aside' = Aside /\ rows' = rows
           now(tags, trs, tds) == unread = tags /\ trStack = trs /\ tdStack = tds
<1>1. PICK S : /\ Ending(cell) \in Seq(S) /\ Marked(cell) \in Seq(S)
               /\ Worded(cell) \in Seq(S) /\ Linked(cell) \in Seq(S)
               /\ Inside(cell) \in Seq(S)
               /\ <<End("tr")>> \o <<End("td")>> \in Seq(S)
               /\ <<End("td")>> \in Seq(S)
  BY TagsAre
<1>2. trStack # <<>> \/ trStack = <<>>
  OBVIOUS
<1>3. /\ <<done>> # <<>> /\ <<done, <<>> >> # <<>> /\ RowsOpen(cell, done) # <<>>
      /\ <<done, <<Nested(cell)>> >> # <<>>
  BY DEF RowsOpen
<1>4. \A class, text, hrefs : Open(class, FALSE, text, hrefs) = <<CellWith(class, text, hrefs)>>
  BY DEF Open
<1>5. cell.nested \in BOOLEAN /\ cell.icon \in BOOLEAN
  BY DEF CellShape
<1>11. CASE now(Tags(cell), <<done>>, <<>>)
  <2>1. unread = <<Td(cell.class)>> \o Inside(cell)
    BY <1>11 DEF Tags
  <2>2. token = Td(cell.class) /\ unread' = Inside(cell) /\ Aside' = Aside
    BY <1>1, <2>1, TakesTag, Zenon
  <2>3. /\ trStack' = <<done>> /\ rows' = rows
        /\ tdStack' = Append(<<>>, NewCell(cell.class))
    BY <1>3, <1>11, <2>2, TdTaken, Zenon
  <2>4. NewCell(cell.class) = CellWith(cell.class, <<>>, <<>>)
    BY DEF NewCell, CellWith
  <2>5. tdStack' = <<CellWith(cell.class, <<>>, <<>>)>>
    BY <2>3, <2>4, Stack, Zenon
  <2> QED BY <1>4, <2>2, <2>3, <2>5, Zenon DEF Reading
<1>12. CASE now(Inside(cell), <<done>>, Open(cell.class, FALSE, <<>>, <<>>)) /\ cell.nested
  <2>1. unread = <<Tr>> \o (<<Td("")>> \o Linked(cell))
    BY <1>12 DEF Inside
  <2>2. PICK inner : inner = Td("")
    OBVIOUS
  <2>3. <<inner>> \o Linked(cell) \in Seq(S \cup {inner})
    BY <1>1
  <2>4. token = Tr /\ unread' = <<Td("")>> \o Linked(cell) /\ Aside' = Aside
    BY <2>1, <2>2, <2>3, TakesTag, Zenon
  <2>5. /\ trStack' = Append(<<done>>, <<>>) /\ rows' = rows
        /\ tdStack' = Open(cell.class, FALSE, <<>>, <<>>)
    BY <1>12, <2>4, TrTaken, Zenon
  <2>6. trStack' = <<done, <<>> >>
    BY <2>5, Stack, Zenon
  <2> QED BY <1>12, <2>4, <2>5, <2>6, Zenon DEF Reading
<1>13. CASE /\ now(<<Td("")>> \o Linked(cell), <<done, <<>> >>,
                   Open(cell.class, FALSE, <<>>, <<>>))
            /\ cell.nested
  <2>2. token = Td("") /\ unread' = Linked(cell) /\ Aside' = Aside
    BY <1>1, <1>13, TakesTag, Zenon
  <2>3. /\ trStack' = <<done, <<>> >> /\ rows' = rows
        /\ tdStack' = Append(<<CellWith(cell.class, <<>>, <<>>)>>, NewCell(""))
    BY <1>3, <1>4, <1>13, <2>2, TdTaken, Zenon
  <2>4. PICK none : none = ""
    OBVIOUS
  <2>5. NewCell(none) = CellWith(none, <<>>, <<>>)
    BY DEF NewCell, CellWith
  <2>6. tdStack' = <<CellWith(cell.class, <<>>, <<>>), CellWith("", <<>>, <<>>)>>
    BY <2>3, <2>4, <2>5, Stack, Zenon
  <2>7. tdStack' = Open(cell.class, cell.nested, <<>>, <<>>)
    BY <1>13, <2>6, Zenon DEF Open
  <2>8. trStack' = RowsOpen(cell, done)
    BY <1>13, <2>3, Zenon DEF RowsOpen
  <2> QED BY <2>2, <2>3, <2>7, <2>8, Zenon DEF Reading
<1>14. CASE /\ now(Linked(cell), RowsOpen(cell, done),
                   Open(cell.class, cell.nested, <<>>, <<>>))
            /\ cell.hrefs # <<>>
  <2>1. unread = <<Link(cell.hrefs[1])>> \o Worded(cell)
    BY <1>14 DEF Linked
  <2>2. token = Link(cell.hrefs[1]) /\ unread' = Worded(cell) /\ Aside' = Aside
    BY <1>1, <2>1, TakesTag, Zenon
  <2>3. /\ trStack' = RowsOpen(cell, done) /\ rows' = rows
        /\ tdStack' = Followed(cell.hrefs[1])
    BY <1>14, <2>2, LinkTaken, Zenon
  <2>4. Append(<<>>, cell.hrefs[1]) = cell.hrefs
    BY <1>14, Stack, Zenon DEF CellShape
  <2>5. Followed(cell.hrefs[1]) =
          Open(cell.class, cell.nested, <<>>, Append(<<>>, cell.hrefs[1]))
    <3>1. PICK empty : empty = <<>>
      OBVIOUS
    <3>3. tdStack = Open(cell.class, cell.nested, empty, empty)
      BY <1>14, <3>1, Zenon
    <3>2. \A href : Followed(href) = Open(cell.class, cell.nested, empty, Append(empty, href))
      BY <1>5, <3>3, Opened
    <3> QED BY <3>1, <3>2, Zenon
  <2> QED BY <2>2, <2>3, <2>4, <2>5, Zenon DEF Reading
<1>15. CASE now(Worded(cell), RowsOpen(cell, done),
                Open(cell.class, cell.nested, <<>>, cell.hrefs))
  <2>1. unread = <<Text(cell.text)>> \o Marked(cell)
    BY <1>15 DEF Worded
  <2>2. token = Text(cell.text) /\ unread' = Marked(cell) /\ Aside' = Aside
    BY <1>1, <2>1, TakesTag, Zenon
  <2>3. /\ trStack' = RowsOpen(cell, done) /\ rows' = rows
        /\ tdStack' = Heard(cell.text)
    BY <1>15, <2>2, TextTaken, Zenon
  <2>4. <<>> \o cell.text = cell.text
    BY DEF CellShape
  <2>5. Heard(cell.text) =
          Open(cell.class, cell.nested, <<>> \o cell.text, cell.hrefs)
    <3>1. PICK empty : empty = <<>>
      OBVIOUS
    <3>3. tdStack = Open(cell.class, cell.nested, empty, cell.hrefs)
      BY <1>15, <3>1, Zenon
    <3>2. \A words : Heard(words) = Open(cell.class, cell.nested, empty \o words, cell.hrefs)
      BY <1>5, <3>3, Opened
    <3> QED BY <3>1, <3>2, Zenon
  <2> QED BY <2>2, <2>3, <2>4, <2>5, Zenon DEF Reading
<1>16. CASE /\ now(Marked(cell), RowsOpen(cell, done),
                   Open(cell.class, cell.nested, cell.text, cell.hrefs))
            /\ cell.icon
  <2>1. unread = <<Image(<<"acknowledged">>)>> \o Ending(cell)
    BY <1>16 DEF Marked
  <2>2. token = Image(<<"acknowledged">>) /\ unread' = Ending(cell) /\ Aside' = Aside
    BY <1>1, <2>1, TakesTag, Zenon
  <2>3. /\ trStack' = RowsOpen(cell, done) /\ rows' = rows
        /\ tdStack' = Heard(<<"acknowledged">>)
    BY <1>16, <2>2, ImageTaken, Zenon
  <2>4. cell.text \o <<"acknowledged">> = Full(cell)
    BY <1>16 DEF Full
  <2>5. Heard(<<"acknowledged">>) =
          Open(cell.class, cell.nested, cell.text \o <<"acknowledged">>, cell.hrefs)
    <3>1. \A words : Heard(words) = Open(cell.class, cell.nested, cell.text \o words, cell.hrefs)
      BY <1>5, <1>16, Opened
    <3> QED BY <3>1, Zenon
  <2> QED BY <2>2, <2>3, <2>4, <2>5, Zenon DEF Reading
<1>17. CASE /\ now(Ending(cell), RowsOpen(cell, done),
                   Open(cell.class, cell.nested, Full(cell), cell.hrefs))
            /\ cell.nested
  <2>1. unread = <<End("td")>> \o (<<End("tr")>> \o <<End("td")>>)
    BY <1>17 DEF Ending
  <2>2. token = End("td") /\ unread' = <<End("tr")>> \o <<End("td")>> /\ Aside' = Aside
    BY <1>1, <2>1, TakesTag, Zenon
  <2>3. trStack = <<done, <<>> >> /\ tdStack = <<Read(cell), Nested(cell)>>
    BY <1>17, Zenon DEF RowsOpen, Open, Read, Nested
  <2>4. /\ trStack' = [trStack EXCEPT ![Len(trStack)] =
                          Append(trStack[Len(trStack)], Last(tdStack))]
        /\ tdStack' = Front(tdStack) /\ rows' = rows
    BY <1>3, <2>2, <2>3, CellEndTaken, Zenon
  <2>5. Last(tdStack) = Nested(cell) /\ Front(tdStack) = <<Read(cell)>>
    BY <2>3, Stack, Zenon
  <2>6. Append(trStack[Len(trStack)], Last(tdStack)) = <<Nested(cell)>>
    BY <2>3, <2>5, LastOf, Stack, Zenon
  <2>7. trStack' = <<done, <<Nested(cell)>> >>
    <3>1. trStack' = [<<done, <<>> >> EXCEPT ![Len(<<done, <<>> >>)] = <<Nested(cell)>>]
      BY <2>3, <2>4, <2>6, Zenon
    <3>2. PICK empty, one : empty = <<>> /\ one = <<Nested(cell)>>
      OBVIOUS
    <3>3. [<<done, empty>> EXCEPT ![Len(<<done, empty>>)] = one] = <<done, one>>
      BY LastOf
    <3> QED BY <3>1, <3>2, <3>3, Zenon
  <2> QED BY <1>17, <2>2, <2>4, <2>5, <2>7, Zenon DEF Reading
<1>18. CASE /\ now(<<End("tr")>> \o <<End("td")>>, <<done, <<Nested(cell)>> >>, <<Read(cell)>>)
            /\ cell.nested
  <2>2. token = End("tr") /\ unread' = <<End("td")>> /\ Aside' = Aside
    BY <1>1, <1>18, TakesTag, Zenon
  <2>4. /\ trStack' = Front(trStack) /\ tdStack' = <<Read(cell)>>
        /\ rows' = IF Last(trStack) = <<>> THEN rows
                   ELSE Append(rows, [cells |-> Last(trStack), row |-> sent.row])
    BY <1>3, <1>18, <2>2, RowEndTaken, Zenon
  <2>5. Front(trStack) = <<done>> /\ Last(trStack) = <<Nested(cell)>>
    BY <1>18, Stack, Zenon
  <2>6. <<Nested(cell)>> # <<>>
    OBVIOUS
  <2>7. rows' = Append(rows, [cells |-> <<Nested(cell)>>, row |-> sent.row])
    BY <2>4, <2>5, <2>6, Zenon
  <2> QED BY <1>18, <2>2, <2>4, <2>5, <2>7, Zenon DEF Reading
<1>19. CASE now(<<End("td")>>, <<done>>, <<Read(cell)>>)
  <2>1. unread = <<End("td")>> \o <<>>
    BY <1>19
  <2>2. <<>> \in Seq(S)
    OBVIOUS
  <2>3. token = End("td") /\ unread' = <<>> /\ Aside' = Aside
    BY <2>1, <2>2, TakesTag, Zenon
  <2>4. /\ trStack' = [trStack EXCEPT ![Len(trStack)] =
                          Append(trStack[Len(trStack)], Last(tdStack))]
        /\ tdStack' = Front(tdStack) /\ rows' = rows
    BY <1>3, <1>19, <2>3, CellEndTaken, Zenon
  <2>5. Last(tdStack) = Read(cell) /\ Front(tdStack) = <<>>
    BY <1>19, Stack, Zenon
  <2>6. Append(trStack[Len(trStack)], Last(tdStack)) = Append(done, Read(cell))
    BY <1>19, <2>5, LastOf, Zenon
  <2>7. trStack' = <<Append(done, Read(cell))>>
    <3>1. trStack' = [<<done>> EXCEPT ![Len(<<done>>)] = Append(done, Read(cell))]
      BY <1>19, <2>4, <2>6, Zenon
    <3> QED BY <3>1, LastOf, Zenon
  <2> QED BY <2>3, <2>4, <2>5, <2>7, Zenon DEF BeenRead
<1>20. CASE now(Inside(cell), <<done>>, Open(cell.class, FALSE, <<>>, <<>>)) /\ ~ cell.nested
  <2>1. Inside(cell) = Linked(cell)
    BY <1>20 DEF Inside
  <2>2. RowsOpen(cell, done) = <<done>> /\ cell.nested = FALSE
    BY <1>5, <1>20 DEF RowsOpen
  <2>3. now(Linked(cell), RowsOpen(cell, done), Open(cell.class, cell.nested, <<>>, <<>>))
    BY <1>20, <2>1, <2>2, Zenon
  <2>4. CASE cell.hrefs # <<>>
    BY <1>14, <2>3, <2>4
  <2>5. CASE cell.hrefs = <<>>
    <3>1. Linked(cell) = Worded(cell)
      BY <2>5 DEF Linked
    <3> QED BY <1>15, <2>3, <2>5, <3>1, Zenon
  <2> QED BY <2>4, <2>5
<1>21. CASE /\ now(Linked(cell), RowsOpen(cell, done),
                   Open(cell.class, cell.nested, <<>>, <<>>))
            /\ cell.hrefs = <<>>
  <2>1. Linked(cell) = Worded(cell)
    BY <1>21 DEF Linked
  <2> QED BY <1>15, <1>21, <2>1, Zenon
<1>22. CASE /\ now(Ending(cell), RowsOpen(cell, done),
                   Open(cell.class, cell.nested, Full(cell), cell.hrefs))
            /\ ~ cell.nested
  <2>1. Ending(cell) = <<End("td")>> /\ RowsOpen(cell, done) = <<done>>
    BY <1>22 DEF Ending, RowsOpen
  <2>2. Open(cell.class, cell.nested, Full(cell), cell.hrefs) = <<Read(cell)>>
    BY <1>22 DEF Open, Read
  <2> QED BY <1>19, <1>22, <2>1, <2>2, Zenon
<1>23. CASE /\ now(Marked(cell), RowsOpen(cell, done),
                   Open(cell.class, cell.nested, cell.text, cell.hrefs))
            /\ ~ cell.icon
  <2>1. Marked(cell) = Ending(cell) /\ Full(cell) = cell.text
    BY <1>23 DEF Marked, Full
  <2>2. now(Ending(cell), RowsOpen(cell, done),
            Open(cell.class, cell.nested, Full(cell), cell.hrefs))
    BY <1>23, <2>1, Zenon
  <2> QED BY <1>17, <1>22, <2>2, Zenon
<1> QED
  BY <1>11, <1>12, <1>13, <1>14, <1>15, <1>16, <1>17, <1>18, <1>19, <1>20, <1>21, <1>22, <1>23,
     Zenon DEF Reading

-----------------------------------------------------------------------------
(* A row, from its first part to its last.                                 *)

RowCells(row, n) == [k \in 1 .. n |-> Read(Cells(row)[k])]

PageRows == Rows(Names, Names)

LEMMA CellsAre ==
    ASSUME NEW row \in PageRows, NEW k \in 1 .. 6
    PROVE  CellShape(Cells(row)[k])
<1>2. \A a : <<a>> \in Seq({a}) /\ <<a>> = <<<<a>>[1]>>
  OBVIOUS
<1>3. \A a, b : <<a, b>> \in Seq({a, b})
  OBVIOUS
<1>4. <<>> \in Seq({})
  OBVIOUS
<1>5. \A class, text : (\E S : text \in Seq(S)) => CellShape(Showing(class, text))
  <2> SUFFICES ASSUME NEW class, NEW text, \E S : text \in Seq(S)
               PROVE  CellShape(Showing(class, text))
    OBVIOUS
  <2>1. PICK cell : cell = Showing(class, text)
    OBVIOUS
  <2>2. /\ cell.nested = FALSE /\ cell.icon = FALSE /\ cell.hrefs = <<>> /\ cell.text = text
    BY <2>1 DEF Showing
  <2> QED BY <2>1, <2>2 DEF CellShape
<1>6. ASSUME NEW class, NEW name, NEW href, NEW icon \in BOOLEAN
      PROVE  CellShape(Naming(row, class, name, href, icon))
  <2>1. PICK cell : cell = Naming(row, class, name, href, icon)
    OBVIOUS
  <2>2. /\ cell.nested = (row.layout = "nested") /\ cell.icon = icon
        /\ cell.hrefs = IF row.layout = "plain" THEN <<>> ELSE <<href>>
        /\ cell.text = <<name>>
    BY <2>1 DEF Naming
  <2>3. cell.nested \in BOOLEAN /\ cell.icon \in BOOLEAN
    BY <2>2
  <2>4. \E S : cell.text \in Seq(S)
    BY <1>2, <2>2, Zenon
  <2>5. cell.hrefs = <<>> \/ cell.hrefs = <<cell.hrefs[1]>>
    <3>1. CASE row.layout = "plain"
      BY <2>2, <3>1
    <3>2. CASE row.layout # "plain"
      <4>1. cell.hrefs = <<href>>
        BY <2>2, <3>2
      <4> QED BY <1>2, <4>1, Zenon
    <3> QED BY <3>1, <3>2
  <2> QED BY <2>1, <2>3, <2>4, <2>5, Zenon DEF CellShape
<1>7. /\ Cells(row)[1] = IF row.named
                         THEN Naming(row, "statusEven", row.host,
                                     [host |-> <<row.host>>, service |-> <<>>], FALSE)
                         ELSE Showing("statusEven", <<>>)
      /\ Cells(row)[2] = Naming(row, Background(row), row.service,
                                [host |-> <<row.host>>, service |-> <<row.service>>],
                                row.acked = "icon")
  BY DEF Cells
<1>8. /\ Cells(row)[3] = Showing(StatusClass(row), <<row.state>>)
      /\ Cells(row)[4] = Showing(Background(row), <<"08-14">>)
      /\ Cells(row)[5] = Showing(Background(row),
                 <<IF row.lasting \in {"column", "both"} THEN "2h" ELSE "N/A">>)
      /\ Cells(row)[6] = Showing(Background(row),
                 <<IF row.acked = "output" THEN "acknowledged" ELSE "note",
                   IF row.lasting \in {"output", "both"} THEN "5d" ELSE "refused">>)
  BY DEF Cells
<1>9. CellShape(Cells(row)[1]) /\ CellShape(Cells(row)[2])
  <2>1. (row.acked = "icon") \in BOOLEAN /\ FALSE \in BOOLEAN
    OBVIOUS
  <2>3. CellShape(Cells(row)[2])
    <3>1. PICK icon \in BOOLEAN : icon = (row.acked = "icon")
      BY <2>1
    <3>2. Cells(row)[2] = Naming(row, Background(row), row.service,
                                [host |-> <<row.host>>, service |-> <<row.service>>], icon)
      BY <1>7, <3>1, Zenon
    <3> QED BY <1>6, <3>2, Zenon
  <2>2. CellShape(Cells(row)[1])
    <3>1. CASE row.named
      BY <1>6, <1>7, <2>1, <3>1, Zenon
    <3>2. CASE ~ row.named
      BY <1>4, <1>5, <1>7, <3>2, Zenon
    <3> QED BY <3>1, <3>2
  <2> QED BY <2>2, <2>3
<1>10. /\ CellShape(Cells(row)[3]) /\ CellShape(Cells(row)[4])
       /\ CellShape(Cells(row)[5]) /\ CellShape(Cells(row)[6])
  <2>1. \A word : \E S : <<word>> \in Seq(S)
    BY <1>2, Zenon
  <2>2. \A word, more : \E S : <<word, more>> \in Seq(S)
    BY <1>3, Zenon
  <2>3. PICK length : length = IF row.lasting \in {"column", "both"} THEN "2h" ELSE "N/A"
    OBVIOUS
  <2>4. PICK note, more :
           /\ note = IF row.acked = "output" THEN "acknowledged" ELSE "note"
           /\ more = IF row.lasting \in {"output", "both"} THEN "5d" ELSE "refused"
    OBVIOUS
  <2>5. /\ Cells(row)[5] = Showing(Background(row), <<length>>)
        /\ Cells(row)[6] = Showing(Background(row), <<note, more>>)
    BY <1>8, <2>3, <2>4, Zenon
  <2>6. CellShape(Cells(row)[3])
    BY <1>5, <1>8, <2>1, Zenon
  <2>7. CellShape(Cells(row)[4])
    BY <1>5, <1>8, <2>1, Zenon
  <2>8. CellShape(Cells(row)[5])
    BY <1>5, <2>1, <2>5, Zenon
  <2>9. CellShape(Cells(row)[6])
    BY <1>5, <2>2, <2>5, Zenon
  <2> QED BY <2>6, <2>7, <2>8, <2>9
<1>11. k \in {1, 2, 3, 4, 5, 6}
  OBVIOUS
<1> QED BY <1>9, <1>10, <1>11

LEMMA OneMoreCell ==
    ASSUME NEW row, NEW n \in 1 .. 6
    PROVE  Append(RowCells(row, n - 1), Read(Cells(row)[n])) = RowCells(row, n)
<1> DEFINE f(k) == Read(Cells(row)[k])
           S == {f(k) : k \in 1 .. 6}
<1>1. \A k \in 1 .. n - 1 : f(k) \in S
  OBVIOUS
<1>2. f(n) \in S /\ \A k \in 1 .. n : f(k) \in S
  OBVIOUS
<1>3. /\ RowCells(row, n - 1) = [k \in 1 .. n - 1 |-> f(k)]
      /\ RowCells(row, n) = [k \in 1 .. n |-> f(k)]
  BY DEF RowCells
<1> HIDE DEF S, f
<1>4. [k \in 1 .. n - 1 |-> f(k)] \in Seq(S) /\ Len([k \in 1 .. n - 1 |-> f(k)]) = n - 1
  BY <1>1
<1>5. [k \in 1 .. n |-> f(k)] \in Seq(S) /\ Len([k \in 1 .. n |-> f(k)]) = n
  BY <1>2
<1>6. Append([k \in 1 .. n - 1 |-> f(k)], f(n)) = [k \in 1 .. n |-> f(k)]
  <2> DEFINE s == [k \in 1 .. n - 1 |-> f(k)]
             t == [k \in 1 .. n |-> f(k)]
  <2>1. /\ \A k \in 1 .. n - 1 : s[k] = f(k)
        /\ \A k \in 1 .. n : t[k] = f(k)
    OBVIOUS
  <2>2. s \in Seq(S) /\ t \in Seq(S) /\ Len(s) = n - 1 /\ Len(t) = n
    BY <1>4, <1>5
  <2> HIDE DEF s, t
  <2>3. /\ Append(s, f(n)) \in Seq(S) /\ Len(Append(s, f(n))) = n
        /\ \A k \in 1 .. n - 1 : Append(s, f(n))[k] = s[k]
        /\ Append(s, f(n))[n] = f(n)
    BY <1>2, <2>2
  <2>4. \A k \in 1 .. n : Append(s, f(n))[k] = t[k]
    BY <2>1, <2>3
  <2>5. Append(s, f(n)) = t
    BY <2>2, <2>3, <2>4, SeqEqual
  <2> QED BY <2>5 DEF s, t
<1> QED BY <1>3, <1>6 DEF f

-----------------------------------------------------------------------------
(* The page, from its first row to its last.                               *)

(* How far the row that is being read has come.                            *)
AtPart(row, part) ==
    \/ /\ unread = <<>> /\ tdStack = <<>>
       /\ trStack = IF part = 7 THEN <<>> ELSE <<RowCells(row, part)>>
    \/ part = 0 /\ unread = <<Tr>> /\ trStack = <<>> /\ tdStack = <<>>
    \/ part \in 1 .. 6 /\ Reading(Cells(row)[part], RowCells(row, part - 1))
    \/ /\ part = 7 /\ unread = <<End("tr")>>
       /\ trStack = <<RowCells(row, 6)>> /\ tdStack = <<>>

ParseInv ==
    /\ page \in Seq(PageRows)
    /\ \A i \in DOMAIN page : page[i].named \/ (i > 1 /\ page[i].host = page[i - 1].host)
    /\ sent \in [row : 0 .. Len(page), part : 0 .. 7]
    /\ sent.row = 0 => sent.part = 7 /\ unread = <<>>
    /\ AtPart(page[sent.row], sent.part)

(* The rows that have come to their end.                                   *)
Closed == IF sent.part = 7 /\ unread = <<>> THEN sent.row ELSE sent.row - 1

WholeRow(i) == [cells |-> RowCells(page[i], 6), row |-> i]

LEMMA ParseInit == Init => ParseInv
<1> SUFFICES ASSUME Init PROVE ParseInv
  OBVIOUS
<1>1. PICK poll \in Polls : page = poll.page
  BY DEF Init
<1>2. /\ page \in Seq(PageRows)
      /\ \A i \in DOMAIN page : page[i].named \/ (i > 1 /\ page[i].host = page[i - 1].host)
  BY <1>1, PageAssumption DEF PageRows
<1>3. sent = [row |-> 0, part |-> 7] /\ Len(page) \in Nat
  BY <1>2 DEF Init, PageInit
<1>4. sent \in [row : 0 .. Len(page), part : 0 .. 7] /\ sent.row = 0 /\ sent.part = 7
  BY <1>3
<1>5. unread = <<>> /\ trStack = <<>> /\ tdStack = <<>>
  BY DEF Init, PageInit
<1> QED BY <1>2, <1>4, <1>5 DEF ParseInv, AtPart

LEMMA PartSent ==
    ASSUME ParseInv, SendPart
    PROVE  /\ ParseInv'
           /\ rows' = rows /\ Closed' = Closed
<1>1. /\ page \in Seq(PageRows) /\ Len(page) \in Nat
      /\ sent.row \in 0 .. Len(page) /\ sent.part \in 0 .. 7
      /\ sent = [row |-> sent.row, part |-> sent.part]
      /\ sent.row = 0 => sent.part = 7
  BY DEF ParseInv
<1>2. /\ unread = <<>> /\ ~ AllSent
      /\ sent' = IF sent.part = 7 THEN [row |-> sent.row + 1, part |-> 0]
                 ELSE [sent EXCEPT !.part = sent.part + 1]
      /\ unread' = Part(page[sent'.row], sent'.part)
      /\ page' = page /\ trStack' = trStack /\ tdStack' = tdStack /\ rows' = rows
  BY DEF SendPart
<1>4. /\ tdStack = <<>>
      /\ trStack = IF sent.part = 7 THEN <<>> ELSE <<RowCells(page[sent.row], sent.part)>>
  <2>1. AtPart(page[sent.row], sent.part)
    BY DEF ParseInv
  <2>3. <<Tr>> # <<>> /\ <<End("tr")>> # <<>>
    OBVIOUS
  <2> QED BY <1>2, <2>1, StillReading, <2>3 DEF AtPart
<1>5. CASE sent.part = 7
  <2>1. sent' = [row |-> sent.row + 1, part |-> 0]
    BY <1>2, <1>5
  <2>2. sent.row # Len(page)
    BY <1>1, <1>2, <1>5 DEF AllSent
  <2>3. /\ sent'.row = sent.row + 1 /\ sent'.part = 0
        /\ sent' \in [row : 0 .. Len(page), part : 0 .. 7]
        /\ sent'.row # 0
    BY <1>1, <2>1, <2>2
  <2>4. unread' = <<Tr>>
    BY <1>2, <2>3 DEF Part
  <2>5. AtPart(page[sent.row], sent.part)'
    BY <1>2, <1>4, <1>5, <2>3, <2>4 DEF AtPart
  <2>6. ParseInv'
    BY <1>2, <2>3, <2>5 DEF ParseInv
  <2>7. Closed = sent.row /\ Closed' = sent'.row - 1
    BY <1>2, <1>5, <2>3 DEF Closed
  <2> QED BY <1>1, <1>2, <2>3, <2>6, <2>7
<1>6. CASE sent.part \in 0 .. 6
  <2>0. PICK n \in 0 .. 6 : n = sent.part
    BY <1>6
  <2>1. sent' = [sent EXCEPT !.part = n + 1] /\ n + 1 \in 1 .. 7
    BY <1>2, <2>0
  <2>2. /\ sent'.row = sent.row /\ sent'.part = n + 1
        /\ sent' \in [row : 0 .. Len(page), part : 0 .. 7]
        /\ sent.row # 0
    BY <1>1, <2>0, <2>1
  <2>3. PICK row \in PageRows : row = page[sent.row]
    BY <1>1, <2>2
  <2>4. trStack' = <<RowCells(row, n)>> /\ tdStack' = <<>> /\ page'[sent'.row] = row
    BY <1>2, <1>4, <2>0, <2>2, <2>3
  <2>5. AtPart(row, n + 1)'
    <3>1. CASE n = 6
      <4>1. unread' = <<End("tr")>>
        BY <1>2, <2>2, <3>1 DEF Part
      <4> QED BY <2>4, <3>1, <4>1 DEF AtPart
    <3>2. CASE n # 6
      <4>1. n + 1 \in 1 .. 6 /\ (n + 1) - 1 = n /\ n + 1 # 0
        BY <3>2
      <4>2. unread' = Tags(Cells(row)[n + 1])
        BY <1>2, <2>2, <2>3, <4>1 DEF Part
      <4>3. Reading(Cells(row)[n + 1], RowCells(row, n))'
        BY <2>4, <4>2, Zenon DEF Reading
      <4> QED BY <4>1, <4>3 DEF AtPart
    <3> QED BY <3>1, <3>2
  <2>6. AtPart(page[sent.row], sent.part)'
    BY <2>2, <2>4, <2>5, Zenon
  <2>7. ParseInv'
    BY <1>2, <2>2, <2>6 DEF ParseInv
  <2>8. unread' # <<>>
    <3>1. CASE n = 6
      BY <1>2, <2>2, <3>1 DEF Part
    <3>2. CASE n # 6
      <4>1. n + 1 \in 1 .. 6 /\ n + 1 # 0
        BY <3>2
      <4>2. unread' = <<Td(Cells(row)[n + 1].class)>> \o Inside(Cells(row)[n + 1])
        <5>1. unread' = Tags(Cells(row)[n + 1])
          BY <1>2, <2>2, <2>3, <4>1 DEF Part
        <5> QED BY <5>1, Zenon DEF Tags
      <4>3. PICK S : Inside(Cells(row)[n + 1]) \in Seq(S)
        BY TagsAre
      <4> QED BY <4>2, <4>3, First
    <3> QED BY <3>1, <3>2
  <2>9. Closed = sent.row - 1 /\ Closed' = sent'.row - 1
    BY <1>2, <2>0, <2>2, <2>8 DEF Closed
  <2> QED BY <1>2, <2>2, <2>7, <2>9
<1> QED BY <1>1, <1>5, <1>6

(* A row is closed by its last tag, after the rows of its tables.          *)
LEMMA TagRead ==
    ASSUME ParseInv, Parse
    PROVE  /\ ParseInv' /\ Aside' = Aside
           /\ sent.row \in 1 .. Len(page)
           /\ \/ rows' = rows /\ Closed' = Closed
              \/ /\ rows' = Append(rows, WholeRow(sent.row))
                 /\ Closed = sent.row - 1 /\ Closed' = sent.row
              \/ /\ \E cell : rows' = Append(rows, [cells |-> <<Nested(cell)>>, row |-> sent.row])
                 /\ Closed = sent.row - 1 /\ Closed' = Closed
<1>1. /\ page \in Seq(PageRows) /\ Len(page) \in Nat
      /\ sent.row \in 0 .. Len(page) /\ sent.part \in 0 .. 7
      /\ sent.row = 0 => sent.part = 7
      /\ AtPart(page[sent.row], sent.part)
  BY DEF ParseInv
<1>2. unread # <<>>
  BY DEF Parse, HandleStarttag, HandleEndtag, HandleData, Take
<1>3. PICK part \in 0 .. 7 : part = sent.part
  BY <1>1
<1>4. ASSUME Aside' = Aside
      PROVE  /\ page' = page /\ sent' = sent
             /\ (AtPart(page[sent.row], sent.part)' => ParseInv')
  <2>1. page' = page /\ sent' = sent
    BY <1>4 DEF Aside
  <2>2. sent'.row # 0
    BY <1>2, <2>1 DEF ParseInv
  <2>3. page'[sent'.row] = page[sent.row] /\ sent'.part = sent.part
    BY <2>1
  <2> QED BY <2>1, <2>2 DEF ParseInv
<1>5. CASE /\ part \in 1 .. 6
           /\ Reading(Cells(page[sent.row])[part], RowCells(page[sent.row], part - 1))
  <2>1. sent.row \in 1 .. Len(page) /\ page[sent.row] \in PageRows
    <3>1. sent.row # 0
      BY <1>1, <1>3, <1>5
    <3> QED BY <1>1, <3>1
  <2>2. PICK row \in PageRows : row = page[sent.row]
    BY <2>1
  <2>3. PICK cell, done : cell = Cells(row)[part] /\ done = RowCells(row, part - 1)
    OBVIOUS
  <2>4. Reading(cell, done) /\ CellShape(cell)
    BY <1>5, <2>2, <2>3, CellsAre
  <2>5. /\ Reading(cell, done)' \/ BeenRead(cell, done)'
        /\ Aside' = Aside
        /\ \/ rows' = rows
           \/ rows' = Append(rows, [cells |-> <<Nested(cell)>>, row |-> sent.row])
    BY <2>4, ReadsOn
  <2>6. page'[sent'.row] = row /\ sent'.part = part
    BY <1>3, <1>4, <2>2, <2>5
  <2>7. AtPart(row, part)'
    <3>1. CASE Reading(cell, done)'
      BY <1>5, <2>3, <3>1 DEF AtPart
    <3>2. CASE BeenRead(cell, done)'
      <4>1. Append(done, Read(cell)) = RowCells(row, part)
        BY <1>5, <2>3, OneMoreCell
      <4>2. part # 7
        BY <1>5
      <4> QED BY <3>2, <4>1, <4>2 DEF BeenRead, AtPart
    <3> QED BY <2>5, <3>1, <3>2
  <2>8. AtPart(page[sent.row], sent.part)'
    BY <2>6, <2>7, Zenon
  <2>9. Closed = sent.row - 1 /\ Closed' = Closed
    <3>1. sent.part # 7
      BY <1>3, <1>5
    <3> QED BY <1>4, <2>5, <3>1 DEF Closed
  <2> QED BY <1>4, <2>1, <2>5, <2>8, <2>9
<1>6. CASE part = 0 /\ unread = <<Tr>> /\ trStack = <<>> /\ tdStack = <<>>
  <2>1. unread = <<Tr>> \o <<>> /\ <<>> \in Seq({})
    BY <1>6
  <2>2. token = Tr /\ unread' = <<>> /\ Aside' = Aside
    BY <2>1, TakesTag, Zenon
  <2>3. trStack' = Append(<<>>, <<>>) /\ tdStack' = <<>> /\ rows' = rows
    BY <1>6, <2>2, TrTaken, Zenon
  <2>4. RowCells(page[sent.row], 0) = <<>>
    <3>1. 1 .. 0 = {}
      OBVIOUS
    <3> QED BY <3>1 DEF RowCells
  <2>5. trStack' = <<RowCells(page[sent.row], 0)>>
    BY <2>3, <2>4, Stack, Zenon
  <2>6. sent' = sent /\ page' = page
    BY <1>4, <2>2
  <2>7. AtPart(page[sent.row], sent.part)'
    <3>1. sent'.part = 0 /\ ~ (0 = 7) /\ page'[sent'.row] = page[sent.row]
      <4>1. part = 0
        BY <1>6, Zenon
      <4> QED BY <1>3, <2>6, <4>1
    <3>2. trStack' = IF 0 = 7 THEN <<>> ELSE <<RowCells(page[sent.row], 0)>>
      BY <2>5, <3>1, Zenon
    <3> QED BY <2>2, <2>3, <3>1, <3>2, Zenon DEF AtPart
  <2>8. Closed = sent.row - 1 /\ Closed' = Closed /\ sent.row \in 1 .. Len(page)
    <3>1. sent.part # 7 /\ sent'.part # 7 /\ sent.row # 0
      <4>1. part = 0
        BY <1>6, Zenon
      <4> QED BY <1>1, <1>3, <2>6, <4>1
    <3> QED BY <1>1, <2>6, <3>1 DEF Closed
  <2> QED BY <1>4, <2>2, <2>3, <2>7, <2>8
<1>7. CASE /\ part = 7 /\ unread = <<End("tr")>>
           /\ trStack = <<RowCells(page[sent.row], 6)>> /\ tdStack = <<>>
  <2>1. unread = <<End("tr")>> \o <<>> /\ <<>> \in Seq({})
    BY <1>7
  <2>2. token = End("tr") /\ unread' = <<>> /\ Aside' = Aside
    BY <2>1, TakesTag, Zenon
  <2>3. PICK cells : cells = RowCells(page[sent.row], 6)
    OBVIOUS
  <2>4. trStack = <<cells>> /\ trStack # <<>> /\ cells # <<>>
    <3>1. DOMAIN cells = 1 .. 6
      BY <2>3 DEF RowCells
    <3>2. 1 \in DOMAIN cells
      BY <3>1
    <3>3. cells # <<>>
      BY <3>2
    <3>4. trStack = <<cells>>
      BY <1>7, <2>3, Zenon
    <3>5. <<cells>> # <<>>
      OBVIOUS
    <3> QED BY <3>3, <3>4, <3>5, Zenon
  <2>5. Last(trStack) = cells /\ Front(trStack) = <<>>
    BY <2>4, Stack, Zenon
  <2>6. /\ trStack' = <<>> /\ tdStack' = <<>>
        /\ rows' = Append(rows, [cells |-> cells, row |-> sent.row])
    BY <1>7, <2>2, <2>4, <2>5, RowEndTaken, Zenon
  <2>7. rows' = Append(rows, WholeRow(sent.row))
    BY <2>3, <2>6, Zenon DEF WholeRow
  <2>8. sent' = sent /\ page' = page
    BY <1>4, <2>2
  <2>9. AtPart(page[sent.row], sent.part)'
    BY <1>3, <1>7, <2>2, <2>6, <2>8 DEF AtPart
  <2>10. Closed = sent.row - 1 /\ Closed' = sent.row
    BY <1>2, <1>3, <1>7, <2>2, <2>8 DEF Closed
  <2>11. sent.row \in 1 .. Len(page)
    <3>1. sent.row # 0
      BY <1>2 DEF ParseInv
    <3> QED BY <1>1, <3>1
  <2> QED BY <1>4, <2>2, <2>7, <2>9, <2>10, <2>11
<1> QED BY <1>1, <1>2, <1>3, <1>5, <1>6, <1>7 DEF AtPart

-----------------------------------------------------------------------------
(* What a whole row says.                                                  *)

LEMMA ReadShowing ==
    ASSUME NEW class, NEW text, NEW one, one = Read(Showing(class, text))
    PROVE  one.class = class /\ one.text = text /\ one.hrefs = <<>>
<1>1. PICK cell : cell = Showing(class, text)
  OBVIOUS
<1>2. /\ cell.class = class /\ cell.text = text /\ cell.hrefs = <<>> /\ cell.icon = FALSE
  BY <1>1 DEF Showing
<1>3. Full(cell) = text
  BY <1>2 DEF Full
<1>4. /\ Read(cell).class = class /\ Read(cell).text = text /\ Read(cell).hrefs = <<>>
  BY <1>2, <1>3 DEF Read, CellWith
<1> QED BY <1>1, <1>4, Zenon

LEMMA ReadNaming ==
    ASSUME NEW row, NEW class, NEW name, NEW href, NEW icon \in BOOLEAN,
           NEW one, one = Read(Naming(row, class, name, href, icon))
    PROVE  /\ one.class = class
           /\ one.text = IF icon THEN <<name, "acknowledged">> ELSE <<name>>
           /\ one.hrefs = IF row.layout = "plain" THEN <<>> ELSE <<href>>
<1>1. PICK cell : cell = Naming(row, class, name, href, icon)
  OBVIOUS
<1>2. /\ cell.class = class /\ cell.text = <<name>> /\ cell.icon = icon
      /\ cell.hrefs = IF row.layout = "plain" THEN <<>> ELSE <<href>>
  BY <1>1 DEF Naming
<1>3. <<name>> \o <<"acknowledged">> = <<name, "acknowledged">>
  <2>1. PICK mark : mark = "acknowledged"
    OBVIOUS
  <2>2. PICK S : name \in S /\ mark \in S
    <3>1. name \in {name, mark} /\ mark \in {name, mark}
      OBVIOUS
    <3> QED BY <3>1
  <2>3. /\ <<name>> \in Seq(S) /\ Len(<<name>>) = 1 /\ <<name>>[1] = name
        /\ <<mark>> \in Seq(S) /\ Len(<<mark>>) = 1 /\ <<mark>>[1] = mark
    BY <2>2
  <2>4. PICK s \in Seq(S), t \in Seq(S) :
           s = <<name>> /\ t = <<mark>> /\ Len(s) = 1 /\ Len(t) = 1 /\ s[1] = name /\ t[1] = mark
    BY <2>3
  <2>5. /\ s \o t \in Seq(S) /\ Len(s \o t) = 2 /\ (s \o t)[1] = name /\ (s \o t)[2] = mark
    <3>1. Len(s) = 1 /\ Len(t) = 1 /\ s[1] = name /\ t[1] = mark
      BY <2>4
    <3>2. /\ s \o t \in Seq(S) /\ Len(s \o t) = Len(s) + Len(t)
          /\ \A i \in 1 .. Len(s) + Len(t) :
               (s \o t)[i] = IF i <= Len(s) THEN s[i] ELSE t[i - Len(s)]
      BY ConcatProperties
    <3>3. 1 \in 1 .. 1 + 1 /\ 2 \in 1 .. 1 + 1 /\ 1 <= 1 /\ ~ (2 <= 1) /\ 2 - 1 = 1
      OBVIOUS
    <3> QED BY <3>1, <3>2, <3>3
  <2>6. s \o t = <<name, mark>>
    BY <2>5, OneOrTwo
  <2> QED BY <2>1, <2>4, <2>6, Zenon
<1>4. Full(cell) = IF icon THEN <<name, "acknowledged">> ELSE <<name>>
  BY <1>2, <1>3, Zenon DEF Full
<1>5. Read(cell).class = cell.class /\ Read(cell).text = Full(cell) /\ Read(cell).hrefs = cell.hrefs
  BY DEF Read, CellWith
<1> QED BY <1>1, <1>2, <1>4, <1>5, Zenon

HostLink(row) == [host |-> <<row.host>>, service |-> <<>>]

ServiceLink(row) == [host |-> <<row.host>>, service |-> <<row.service>>]

Lasts(row) == IF row.lasting \in {"column", "both"} THEN "2h" ELSE "N/A"

Noted(row) == IF row.acked = "output" THEN "acknowledged" ELSE "note"

Mentioned(row) == IF row.lasting \in {"output", "both"} THEN "5d" ELSE "refused"

LEMMA RowIs ==
    ASSUME NEW row \in PageRows, NEW cells, cells = RowCells(row, 6)
    PROVE  /\ DOMAIN cells = 1 .. 6 /\ Len(cells) = 6
           /\ cells[1].class = "statusEven" /\ cells[2].class = Background(row)
           /\ cells[3].class = StatusClass(row) /\ cells[4].class = Background(row)
           /\ cells[5].class = Background(row) /\ cells[6].class = Background(row)
           /\ cells[1].text = IF row.named THEN <<row.host>> ELSE <<>>
           /\ cells[2].text = IF row.acked = "icon" THEN <<row.service, "acknowledged">>
                              ELSE <<row.service>>
           /\ cells[3].text = <<row.state>> /\ cells[4].text = <<"08-14">>
           /\ cells[5].text = <<Lasts(row)>> /\ cells[6].text = <<Noted(row), Mentioned(row)>>
           /\ cells[1].hrefs = IF row.named /\ row.layout # "plain" THEN <<HostLink(row)>>
                               ELSE <<>>
           /\ cells[2].hrefs = IF row.layout = "plain" THEN <<>> ELSE <<ServiceLink(row)>>
           /\ cells[3].hrefs = <<>> /\ cells[4].hrefs = <<>>
           /\ cells[5].hrefs = <<>> /\ cells[6].hrefs = <<>>
<1>1. /\ DOMAIN cells = 1 .. 6 /\ Len(cells) = 6
      /\ \A k \in 1 .. 6 : cells[k] = Read(Cells(row)[k])
  BY DEF RowCells
<1>2. /\ cells[1] = Read(Cells(row)[1]) /\ cells[2] = Read(Cells(row)[2])
      /\ cells[3] = Read(Cells(row)[3]) /\ cells[4] = Read(Cells(row)[4])
      /\ cells[5] = Read(Cells(row)[5]) /\ cells[6] = Read(Cells(row)[6])
  BY <1>1
<1>3. PICK icon \in BOOLEAN : icon = (row.acked = "icon")
  OBVIOUS
<1>4. PICK length, note, more : length = Lasts(row) /\ note = Noted(row) /\ more = Mentioned(row)
  OBVIOUS
<1>5. /\ Cells(row)[1] = IF row.named
                         THEN Naming(row, "statusEven", row.host, HostLink(row), FALSE)
                         ELSE Showing("statusEven", <<>>)
      /\ Cells(row)[2] = Naming(row, Background(row), row.service, ServiceLink(row),
                                row.acked = "icon")
      /\ Cells(row)[3] = Showing(StatusClass(row), <<row.state>>)
      /\ Cells(row)[4] = Showing(Background(row), <<"08-14">>)
      /\ Cells(row)[5] = Showing(Background(row), <<Lasts(row)>>)
      /\ Cells(row)[6] = Showing(Background(row), <<Noted(row), Mentioned(row)>>)
  BY DEF Cells, HostLink, ServiceLink, Lasts, Noted, Mentioned
<1>6. Cells(row)[2] = Naming(row, Background(row), row.service, ServiceLink(row), icon)
  BY <1>3, <1>5, Zenon
<1>7. FALSE \in BOOLEAN
  OBVIOUS
<1>8. /\ cells[1].class = "statusEven"
      /\ cells[1].text = IF row.named THEN <<row.host>> ELSE <<>>
      /\ cells[1].hrefs = IF row.named /\ row.layout # "plain" THEN <<HostLink(row)>> ELSE <<>>
  <2>1. CASE row.named
    <3>1. cells[1] = Read(Naming(row, "statusEven", row.host, HostLink(row), FALSE))
      BY <1>2, <1>5, <2>1, Zenon
    <3>2. /\ cells[1].class = "statusEven" /\ cells[1].text = <<row.host>>
          /\ cells[1].hrefs = IF row.layout = "plain" THEN <<>> ELSE <<HostLink(row)>>
      <4>4. PICK class : class = "statusEven"
        OBVIOUS
      <4>1. PICK none \in BOOLEAN : none = FALSE
        BY <1>7
      <4>2. cells[1] = Read(Naming(row, class, row.host, HostLink(row), none))
        BY <3>1, <4>1, <4>4, Zenon
      <4>3. /\ cells[1].class = class
            /\ cells[1].text = IF none THEN <<row.host, "acknowledged">> ELSE <<row.host>>
            /\ cells[1].hrefs = IF row.layout = "plain" THEN <<>> ELSE <<HostLink(row)>>
        BY <4>2, ReadNaming
      <4> QED BY <4>1, <4>3, <4>4
    <3> QED BY <2>1, <3>2, Zenon
  <2>2. CASE ~ row.named
    <3>1. cells[1] = Read(Showing("statusEven", <<>>))
      BY <1>2, <1>5, <2>2, Zenon
    <3> QED BY <2>2, <3>1, ReadShowing
  <2> QED BY <2>1, <2>2
<1>9. /\ cells[2].class = Background(row)
      /\ cells[2].text = IF row.acked = "icon" THEN <<row.service, "acknowledged">>
                         ELSE <<row.service>>
      /\ cells[2].hrefs = IF row.layout = "plain" THEN <<>> ELSE <<ServiceLink(row)>>
  <2>1. cells[2] = Read(Naming(row, Background(row), row.service, ServiceLink(row), icon))
    BY <1>2, <1>6, Zenon
  <2>2. /\ cells[2].class = Background(row)
        /\ cells[2].text = IF icon THEN <<row.service, "acknowledged">> ELSE <<row.service>>
        /\ cells[2].hrefs = IF row.layout = "plain" THEN <<>> ELSE <<ServiceLink(row)>>
    BY <2>1, ReadNaming
  <2> QED BY <1>3, <2>2, Zenon
<1>10. /\ cells[3].class = StatusClass(row)
       /\ cells[3].text = <<row.state>> /\ cells[3].hrefs = <<>>
       /\ cells[4].class = Background(row) /\ cells[4].text = <<"08-14">> /\ cells[4].hrefs = <<>>
  BY <1>2, <1>5, ReadShowing
<1>11. /\ cells[5].class = Background(row) /\ cells[5].text = <<Lasts(row)>>
       /\ cells[5].hrefs = <<>>
  BY <1>2, <1>5, ReadShowing
<1>12. /\ cells[6].class = Background(row) /\ cells[6].text = <<Noted(row), Mentioned(row)>>
       /\ cells[6].hrefs = <<>>
  BY <1>2, <1>5, ReadShowing
<1> QED BY <1>1, <1>8, <1>9, <1>10, <1>11, <1>12, Zenon

LEMMA GivenAt ==
    ASSUME NEW texts, NEW n \in Nat, DOMAIN texts = 1 .. n,
           NEW i \in 1 .. n, texts[i] # <<>>, \A j \in 1 .. i - 1 : texts[j] = <<>>
    PROVE  FirstGiven(texts) = texts[i]
<1>1. PICK k \in 1 .. n : /\ texts[k] # <<>>
                          /\ \A j \in 1 .. k - 1 : texts[j] = <<>>
                          /\ FirstGiven(texts) = texts[k]
  BY FirstGivenIs
<1>2. ~ (k < i) /\ ~ (i < k)
  <2>1. k < i => k \in 1 .. i - 1
    OBVIOUS
  <2>2. i < k => i \in 1 .. k - 1
    OBVIOUS
  <2> QED BY <1>1, <2>1, <2>2
<1>3. k = i
  BY <1>2
<1> QED BY <1>1, <1>3

LEMMA NoneGiven ==
    ASSUME NEW texts, NEW n \in Nat, DOMAIN texts = 1 .. n, \A i \in 1 .. n : texts[i] = <<>>
    PROVE  FirstGiven(texts) = <<>>
BY FirstGivenIs

LEMMA FirstOfThree ==
    ASSUME NEW a, NEW b, NEW c
    PROVE  FirstGiven(<<a, b, c>>) = IF a # <<>> THEN a ELSE IF b # <<>> THEN b ELSE c
<1> DEFINE texts == <<a, b, c>>
<1>1. DOMAIN texts = 1 .. 3 /\ texts[1] = a /\ texts[2] = b /\ texts[3] = c
  OBVIOUS
<1> HIDE DEF texts
<1>2. CASE a # <<>>
  <2>1. \A j \in 1 .. 1 - 1 : texts[j] = <<>>
    OBVIOUS
  <2>2. FirstGiven(texts) = texts[1]
    BY <1>1, <1>2, <2>1, GivenAt
  <2> QED BY <1>1, <1>2, <2>2 DEF texts
<1>3. CASE a = <<>> /\ b # <<>>
  <2>1. \A j \in 1 .. 2 - 1 : texts[j] = <<>>
    BY <1>1, <1>3
  <2>2. FirstGiven(texts) = texts[2]
    BY <1>1, <1>3, <2>1, GivenAt
  <2> QED BY <1>1, <1>3, <2>2 DEF texts
<1>4. CASE a = <<>> /\ b = <<>> /\ c # <<>>
  <2>1. \A j \in 1 .. 3 - 1 : texts[j] = <<>>
    BY <1>1, <1>4
  <2>2. FirstGiven(texts) = texts[3]
    BY <1>1, <1>4, <2>1, GivenAt
  <2> QED BY <1>1, <1>4, <2>2 DEF texts
<1>5. CASE a = <<>> /\ b = <<>> /\ c = <<>>
  <2>1. \A j \in 1 .. 3 : texts[j] = <<>>
    BY <1>1, <1>5
  <2>2. FirstGiven(texts) = <<>>
    BY <1>1, <2>1, NoneGiven
  <2> QED BY <1>5, <2>2 DEF texts
<1> QED BY <1>2, <1>3, <1>4, <1>5

LEMMA NoSeverity ==
    ASSUME NEW class, class \notin {"statusCRITICAL", "statusCRITICALACK",
                                   "statusWARNING", "statusWARNINGACK"}
    PROVE  SeverityFromClass(class) = "none"
BY DEF SeverityFromClass

(* The rows of the tables in the cells are of no problem.                  *)
LEMMA NestedIsNone ==
    ASSUME NEW cell
    PROVE  Severe(<<Nested(cell)>>) = {}
<1>1. PICK one : one = Nested(cell)
  OBVIOUS
<1>2. SeverityFromClass(one.class) = "none"
  <2>1. "" \notin {"statusCRITICAL", "statusCRITICALACK", "statusWARNING", "statusWARNINGACK"}
    BY Zenon
  <2>2. PICK class : class = ""
    OBVIOUS
  <2>3. class \notin {"statusCRITICAL", "statusCRITICALACK", "statusWARNING", "statusWARNINGACK"}
    BY <2>1, <2>2, Zenon
  <2>4. one = CellWith(class, Full(cell), cell.hrefs)
    BY <1>1, <2>2, Zenon DEF Nested
  <2>5. one.class = class
    BY <2>4 DEF CellWith
  <2> QED BY <2>3, <2>5, NoSeverity
<1>3. DOMAIN <<one>> = {1} /\ <<one>>[1] = one
  OBVIOUS
<1>4. Severe(<<one>>) = {}
  BY <1>2, <1>3 DEF Severe
<1> QED BY <1>1, <1>4, Zenon

LEMMA RowSeverity ==
    ASSUME NEW row \in PageRows, NEW cells, cells = RowCells(row, 6)
    PROVE  /\ Severe(cells) = IF IsProblem(row) THEN {3} ELSE {}
           /\ IsProblem(row) => SeverityFromClass(cells[3].class) = row.state
           /\ SeverityFromClass(cells[1].class) = "none"
<1>1. /\ DOMAIN cells = 1 .. 6
      /\ cells[1].class = "statusEven" /\ cells[2].class = Background(row)
      /\ cells[3].class = StatusClass(row) /\ cells[4].class = Background(row)
      /\ cells[5].class = Background(row) /\ cells[6].class = Background(row)
  BY RowIs
<1>2. /\ SeverityFromClass(Background(row)) = "none"
      /\ SeverityFromClass("statusEven") = "none"
  BY DEF Background, SeverityFromClass
<1>3. row.state \in {"CRITICAL", "WARNING", "UNKNOWN"}
  BY DEF PageRows, Rows
<1>4. SeverityFromClass(StatusClass(row)) = IF IsProblem(row) THEN row.state ELSE "none"
  BY <1>3 DEF StatusClass, SeverityFromClass, IsProblem
<1>5. \A k \in 1 .. 6 : k \in {1, 2, 3, 4, 5, 6}
  OBVIOUS
<1>6. \A k \in 1 .. 6 : k # 3 => SeverityFromClass(cells[k].class) = "none"
  BY <1>1, <1>2, <1>5
<1>7. 3 \in 1 .. 6 /\ (IsProblem(row) => row.state # "none")
  BY DEF IsProblem
<1> QED BY <1>1, <1>2, <1>4, <1>6, <1>7 DEF Severe

(* The first link that names it, of the first two cells.                   *)
LEMMA RowParam ==
    ASSUME NEW row \in PageRows, NEW cells, cells = RowCells(row, 6),
           NEW name \in {"host", "service"}
    PROVE  QueryParam(cells, name) =
             IF row.layout = "plain" THEN <<>>
             ELSE IF name = "host" THEN <<row.host>> ELSE <<row.service>>
<1> DEFINE given(hrefs) == FirstGiven([k \in DOMAIN hrefs |-> hrefs[k][name]])
           texts == [i \in 1 .. 6 |-> given(cells[i].hrefs)]
<1>1. /\ DOMAIN cells = 1 .. 6
      /\ cells[1].hrefs = IF row.named /\ row.layout # "plain" THEN <<HostLink(row)>> ELSE <<>>
      /\ cells[2].hrefs = IF row.layout = "plain" THEN <<>> ELSE <<ServiceLink(row)>>
      /\ cells[3].hrefs = <<>> /\ cells[4].hrefs = <<>>
      /\ cells[5].hrefs = <<>> /\ cells[6].hrefs = <<>>
  BY RowIs
<1>2. QueryParam(cells, name) = FirstGiven(texts)
  BY <1>1 DEF QueryParam
<1>3. given(<<>>) = <<>>
  <2> DEFINE none == [k \in DOMAIN <<>> |-> <<>>[k][name]]
  <2>1. DOMAIN none = 1 .. 0
    OBVIOUS
  <2> HIDE DEF none
  <2>2. FirstGiven(none) = <<>>
    BY <2>1, NoneGiven
  <2> QED BY <2>2 DEF none
<1>4. ASSUME NEW link PROVE given(<<link>>) = link[name]
  <2> DEFINE one == [k \in DOMAIN <<link>> |-> <<link>>[k][name]]
  <2>1. DOMAIN one = 1 .. 1 /\ one[1] = link[name]
    OBVIOUS
  <2> HIDE DEF one
  <2>2. FirstGiven(one) = one[1]
    <3>1. CASE one[1] # <<>>
      BY <2>1, <3>1, GivenAt
    <3>2. CASE one[1] = <<>>
      <4>1. \A i \in 1 .. 1 : one[i] = <<>>
        BY <3>2
      <4>2. FirstGiven(one) = <<>>
        BY <2>1, <4>1, NoneGiven
      <4> QED BY <3>2, <4>2
    <3> QED BY <3>1, <3>2
  <2> QED BY <2>1, <2>2 DEF one
<1>5. /\ HostLink(row)[name] = IF name = "host" THEN <<row.host>> ELSE <<>>
      /\ ServiceLink(row)[name] = IF name = "host" THEN <<row.host>> ELSE <<row.service>>
  BY DEF HostLink, ServiceLink
<1> HIDE DEF given
<1>6. /\ DOMAIN texts = 1 .. 6
      /\ \A i \in 1 .. 6 : texts[i] = given(cells[i].hrefs)
  OBVIOUS
<1> HIDE DEF texts
<1>7. \A k \in 1 .. 6 : k \in {1, 2, 3, 4, 5, 6}
  OBVIOUS
<1>8. CASE row.layout = "plain"
  <2>1. \A i \in 1 .. 6 : texts[i] = <<>>
    BY <1>1, <1>3, <1>6, <1>7, <1>8
  <2> QED BY <1>2, <1>6, <1>8, <2>1, NoneGiven
<1>9. CASE row.layout # "plain"
  <2> DEFINE value == IF name = "host" THEN <<row.host>> ELSE <<row.service>>
  <2>1. texts[2] = value /\ texts[2] # <<>>
    <3>1. texts[2] = given(<<ServiceLink(row)>>)
      BY <1>1, <1>6, <1>9
    <3>2. given(<<ServiceLink(row)>>) = value
      BY <1>4, <1>5, Zenon
    <3>3. value # <<>>
      OBVIOUS
    <3> QED BY <3>1, <3>2, <3>3, Zenon
  <2>2. texts[1] = IF row.named /\ name = "host" THEN value ELSE <<>>
    BY <1>1, <1>3, <1>4, <1>5, <1>6, <1>9
  <2>3. CASE texts[1] # <<>>
    <3>1. \A j \in 1 .. 1 - 1 : texts[j] = <<>>
      OBVIOUS
    <3>2. FirstGiven(texts) = texts[1]
      <4>1. 1 \in 1 .. 6 /\ 6 \in Nat /\ DOMAIN texts = 1 .. 6
        BY <1>6
      <4> QED BY <2>3, <3>1, <4>1, GivenAt
    <3>3. texts[1] = value
      BY <2>2, <2>3
    <3> QED BY <1>2, <1>9, <3>2, <3>3
  <2>4. CASE texts[1] = <<>>
    <3>1. \A j \in 1 .. 2 - 1 : texts[j] = <<>>
      BY <2>4
    <3>2. FirstGiven(texts) = texts[2]
      <4>1. 2 \in 1 .. 6 /\ 6 \in Nat /\ DOMAIN texts = 1 .. 6 /\ texts[2] # <<>>
        BY <1>6, <2>1
      <4> QED BY <3>1, <4>1, GivenAt
    <3> QED BY <1>2, <1>9, <2>1, <3>2
  <2> QED BY <2>3, <2>4
<1> QED BY <1>8, <1>9

(* A row that says its host gives it, and any other the one before.        *)
LEMMA RowHost ==
    ASSUME NEW row \in PageRows, NEW cells, cells = RowCells(row, 6)
    PROVE  HostOf(cells) = IF row.layout # "plain" \/ row.named THEN <<row.host>> ELSE lastHost
<1>1. QueryParam(cells, "host") = IF row.layout = "plain" THEN <<>> ELSE <<row.host>>
  <2>1. "host" \in {"host", "service"}
    OBVIOUS
  <2> QED BY <2>1, RowParam
<1>2. SeverityFromClass(cells[1].class) = "none"
  BY RowSeverity
<1>3. cells[1].text = IF row.named THEN <<row.host>> ELSE <<>>
  BY RowIs
<1>4. HostOf(cells) = FirstGiven(<<QueryParam(cells, "host"), cells[1].text, lastHost>>)
  BY <1>2 DEF HostOf
<1>5. HostOf(cells) = IF QueryParam(cells, "host") # <<>> THEN QueryParam(cells, "host")
                     ELSE IF cells[1].text # <<>> THEN cells[1].text ELSE lastHost
  BY <1>4, FirstOfThree
<1>6. <<row.host>> # <<>>
  OBVIOUS
<1>7. row.named \in BOOLEAN
  BY DEF PageRows, Rows
<1> QED BY <1>1, <1>3, <1>5, <1>6, <1>7

(* An icon in a cell without a link is read as part of the service's name. *)
Loose(row) == row.layout = "plain" /\ row.acked = "icon"

LEMMA RowService ==
    ASSUME NEW row \in PageRows, NEW cells, cells = RowCells(row, 6), ~ Loose(row)
    PROVE  ServiceOf(cells) = <<row.service>>
<1>1. QueryParam(cells, "service") = IF row.layout = "plain" THEN <<>> ELSE <<row.service>>
  <2>1. "service" \in {"host", "service"} /\ "service" # "host"
    OBVIOUS
  <2> QED BY <2>1, RowParam
<1>2. /\ Len(cells) = 6
      /\ cells[2].text = IF row.acked = "icon" THEN <<row.service, "acknowledged">>
                         ELSE <<row.service>>
  BY RowIs
<1>3. ServiceOf(cells) =
         IF QueryParam(cells, "service") # <<>> THEN QueryParam(cells, "service")
         ELSE IF cells[2].text # <<>> THEN cells[2].text ELSE <<"NagiosAlert">>
  <2>1. ServiceOf(cells) =
          FirstGiven(<<QueryParam(cells, "service"), cells[2].text, <<"NagiosAlert">> >>)
    BY <1>2 DEF ServiceOf
  <2> QED BY <2>1, FirstOfThree
<1>4. <<row.service>> # <<>>
  OBVIOUS
<1> QED BY <1>1, <1>2, <1>3, <1>4 DEF Loose

LEMMA NameIs ==
    ASSUME NEW row \in PageRows
    PROVE  /\ row.host \notin Durations /\ row.host # "acknowledged" /\ row.host # Space
           /\ row.service \notin Durations /\ row.service # "acknowledged"
           /\ row.service # Space
<1>1. row.host \in Names /\ row.service \in Names
  BY DEF PageRows, Rows
<1>2. \A name \in Names : name \notin Durations \cup {"acknowledged", Space}
  BY NamesAssumption
<1> QED BY <1>1, <1>2

LEMMA NoDuration ==
    DurationIn(<<>>) = <<>>
<1> DEFINE words == [i \in DOMAIN <<>> |-> IF <<>>[i] \in Durations THEN <<<<>>[i]>> ELSE <<>>]
<1>1. DOMAIN words = 1 .. 0
  OBVIOUS
<1>2. DurationIn(<<>>) = FirstGiven(words)
  BY DEF DurationIn
<1> HIDE DEF words
<1> QED BY <1>1, <1>2, NoneGiven

LEMMA DurationOfWord ==
    ASSUME NEW word
    PROVE  DurationIn(<<word>>) = IF word \in Durations THEN <<word>> ELSE <<>>
<1> DEFINE words == [i \in DOMAIN <<word>> |->
                        IF <<word>>[i] \in Durations THEN <<<<word>>[i]>> ELSE <<>>]
<1>1. DOMAIN words = 1 .. 1 /\ words[1] = IF word \in Durations THEN <<word>> ELSE <<>>
  OBVIOUS
<1>2. DurationIn(<<word>>) = FirstGiven(words)
  BY DEF DurationIn
<1>3. 1 \in 1 .. 1 /\ 1 \in Nat /\ \A i \in 1 .. 1 : i = 1
  OBVIOUS
<1> HIDE DEF words
<1>4. CASE words[1] # <<>>
  <2>1. \A j \in 1 .. 1 - 1 : words[j] = <<>>
    OBVIOUS
  <2>2. FirstGiven(words) = words[1]
    BY <1>1, <1>3, <1>4, <2>1, GivenAt
  <2> QED BY <1>1, <1>2, <2>2
<1>5. CASE words[1] = <<>>
  <2>1. \A i \in 1 .. 1 : words[i] = <<>>
    BY <1>3, <1>5
  <2>2. FirstGiven(words) = <<>>
    BY <1>1, <1>3, <2>1, NoneGiven
  <2> QED BY <1>1, <1>2, <1>5, <2>2
<1> QED BY <1>4, <1>5

LEMMA DurationOfTwo ==
    ASSUME NEW word, NEW more, word \notin Durations
    PROVE  DurationIn(<<word, more>>) = IF more \in Durations THEN <<more>> ELSE <<>>
<1> DEFINE words == [i \in DOMAIN <<word, more>> |->
                        IF <<word, more>>[i] \in Durations THEN <<<<word, more>>[i]>> ELSE <<>>]
<1>1. /\ DOMAIN words = 1 .. 2 /\ words[1] = <<>>
      /\ words[2] = IF more \in Durations THEN <<more>> ELSE <<>>
  OBVIOUS
<1>2. DurationIn(<<word, more>>) = FirstGiven(words)
  BY DEF DurationIn
<1>3. 2 \in 1 .. 2 /\ 2 \in Nat /\ \A i \in 1 .. 2 : i = 1 \/ i = 2
  OBVIOUS
<1> HIDE DEF words
<1>4. CASE words[2] # <<>>
  <2>1. \A j \in 1 .. 2 - 1 : words[j] = <<>>
    BY <1>1
  <2>2. FirstGiven(words) = words[2]
    BY <1>1, <1>3, <1>4, <2>1, GivenAt
  <2> QED BY <1>1, <1>2, <2>2
<1>5. CASE words[2] = <<>>
  <2>1. \A i \in 1 .. 2 : words[i] = <<>>
    BY <1>1, <1>3, <1>5
  <2>2. FirstGiven(words) = <<>>
    BY <1>1, <1>3, <2>1, NoneGiven
  <2> QED BY <1>1, <1>2, <1>5, <2>2
<1> QED BY <1>4, <1>5

(* The column's before the output's, and no other word is taken for one.   *)
LEMMA RowDuration ==
    ASSUME NEW row \in PageRows, NEW cells, cells = RowCells(row, 6)
    PROVE  DurationOf(cells) = CASE row.lasting = "output"  -> <<"5d">>
                                 [] row.lasting = "neither" -> <<>>
                                 [] OTHER                   -> <<"2h">>
<1> DEFINE texts == [i \in DOMAIN cells |-> DurationIn(cells[i].text)]
<1>1. /\ DOMAIN cells = 1 .. 6 /\ Len(cells) = 6
      /\ cells[1].text = IF row.named THEN <<row.host>> ELSE <<>>
      /\ cells[2].text = IF row.acked = "icon" THEN <<row.service, "acknowledged">>
                         ELSE <<row.service>>
      /\ cells[3].text = <<row.state>> /\ cells[4].text = <<"08-14">>
      /\ cells[5].text = <<Lasts(row)>> /\ cells[6].text = <<Noted(row), Mentioned(row)>>
  BY RowIs
<1>2. row.lasting \in {"column", "output", "both", "neither"}
  BY DEF PageRows, Rows
<1>3. DurationIn(cells[1].text) = <<>>
  BY <1>1, NameIs, NoDuration, DurationOfWord
<1>4. DurationIn(cells[2].text) = <<>>
  <2>1. "acknowledged" \notin Durations /\ row.service \notin Durations
    BY NameIs DEF Durations
  <2>2. DurationIn(<<row.service>>) = <<>>
    BY <2>1, DurationOfWord
  <2>3. DurationIn(<<row.service, "acknowledged">>) = <<>>
    BY <2>1, DurationOfTwo
  <2> QED BY <1>1, <2>2, <2>3, Zenon
<1>5. DurationIn(cells[3].text) = <<>> /\ DurationIn(cells[4].text) = <<>>
  <2>1. row.state \notin Durations /\ "08-14" \notin Durations
    BY DEF PageRows, Rows, Durations
  <2> QED BY <1>1, <2>1, DurationOfWord
<1>6. DurationIn(cells[5].text) = IF row.lasting \in {"column", "both"} THEN <<"2h">> ELSE <<>>
  <2>1. Lasts(row) \in Durations <=> row.lasting \in {"column", "both"}
    BY DEF Lasts, Durations
  <2>2. row.lasting \in {"column", "both"} => Lasts(row) = "2h"
    BY DEF Lasts
  <2> QED BY <1>1, <2>1, <2>2, DurationOfWord
<1>7. DurationIn(cells[6].text) = IF row.lasting \in {"output", "both"} THEN <<"5d">> ELSE <<>>
  <2>1. Mentioned(row) \in Durations <=> row.lasting \in {"output", "both"}
    BY DEF Mentioned, Durations
  <2>2. row.lasting \in {"output", "both"} => Mentioned(row) = "5d"
    BY DEF Mentioned
  <2>3. Noted(row) \notin Durations
    BY DEF Noted, Durations
  <2>4. DurationIn(<<Noted(row), Mentioned(row)>>) =
           IF Mentioned(row) \in Durations THEN <<Mentioned(row)>> ELSE <<>>
    BY <2>3, DurationOfTwo
  <2>5. cells[6].text = <<Noted(row), Mentioned(row)>>
    BY <1>1
  <2> QED BY <2>1, <2>2, <2>4, <2>5, Zenon
<1>8. /\ DOMAIN texts = 1 .. 6
      /\ \A i \in 1 .. 6 : texts[i] = DurationIn(cells[i].text)
  BY <1>1
<1>9. DurationOf(cells) = IF DurationIn(cells[5].text) # <<>> THEN DurationIn(cells[5].text)
                         ELSE FirstGiven(texts)
  BY <1>1, FirstOfTwo DEF DurationOf
<1> HIDE DEF texts
<1>10. \A k \in 1 .. 6 : k \in {1, 2, 3, 4, 5, 6}
  OBVIOUS
<1>11. <<"2h">> # <<>> /\ <<"5d">> # <<>>
  OBVIOUS
<1>12. CASE row.lasting \in {"column", "both"}
  BY <1>6, <1>9, <1>11, <1>12
<1>13. CASE row.lasting = "output"
  <2>1. \A j \in 1 .. 6 - 1 : texts[j] = <<>>
    <3>1. \A j \in 1 .. 6 - 1 : j \in 1 .. 6 /\ j \in {1, 2, 3, 4, 5}
      OBVIOUS
    <3> QED BY <1>3, <1>4, <1>5, <1>6, <1>8, <1>13, <3>1
  <2>2. texts[6] = <<"5d">> /\ 6 \in 1 .. 6 /\ 6 \in Nat
    BY <1>7, <1>8, <1>13
  <2>3. FirstGiven(texts) = texts[6]
    BY <1>8, <1>11, <2>1, <2>2, GivenAt
  <2> QED BY <1>6, <1>9, <1>13, <2>2, <2>3
<1>14. CASE row.lasting = "neither"
  <2>1. \A i \in 1 .. 6 : texts[i] = <<>>
    BY <1>3, <1>4, <1>5, <1>6, <1>7, <1>8, <1>10, <1>14
  <2>2. FirstGiven(texts) = <<>>
    BY <1>8, <2>1, NoneGiven
  <2> QED BY <1>6, <1>9, <1>14, <2>2
<1> QED BY <1>2, <1>12, <1>13, <1>14

(* By the class, by the icon, or by the plugin's output.                   *)
LEMMA RowAcked ==
    ASSUME NEW row \in PageRows, NEW cells, cells = RowCells(row, 6), IsProblem(row)
    PROVE  Acked(cells) <=> row.acked # "no"
<1>1. /\ DOMAIN cells = 1 .. 6
      /\ cells[1].class = "statusEven" /\ cells[2].class = Background(row)
      /\ cells[3].class = StatusClass(row) /\ cells[4].class = Background(row)
      /\ cells[5].class = Background(row) /\ cells[6].class = Background(row)
  BY RowIs
<1>2. /\ cells[1].text = IF row.named THEN <<row.host>> ELSE <<>>
      /\ cells[2].text = IF row.acked = "icon" THEN <<row.service, "acknowledged">>
                         ELSE <<row.service>>
      /\ cells[3].text = <<row.state>> /\ cells[4].text = <<"08-14">>
      /\ cells[5].text = <<Lasts(row)>> /\ cells[6].text = <<Noted(row), Mentioned(row)>>
  BY RowIs
<1>3. \A k \in 1 .. 6 : k \in {1, 2, 3, 4, 5, 6}
  OBVIOUS
<1>4. /\ Range(<<>>) = {}
      /\ \A a : Range(<<a>>) = {a}
      /\ \A a, b : Range(<<a, b>>) = {a, b}
  <2>1. Range(<<>>) = {}
    BY DEF Range
  <2>2. \A a : Range(<<a>>) = {a}
    BY DEF Range
  <2>3. ASSUME NEW a, NEW b PROVE Range(<<a, b>>) = {a, b}
    <3>1. DOMAIN <<a, b>> = {1, 2} /\ <<a, b>>[1] = a /\ <<a, b>>[2] = b
      OBVIOUS
    <3> QED BY <3>1 DEF Range
  <2> QED BY <2>1, <2>2, <2>3
<1>5. row.acked \in {"no", "class", "icon", "output"} /\ row.state \in {"CRITICAL", "WARNING"}
  BY DEF PageRows, Rows, IsProblem
<1> DEFINE AckClasses == {"statusCRITICALACK", "statusWARNINGACK"}
<1>6. /\ "statusEven" \notin AckClasses /\ Background(row) \notin AckClasses
      /\ StatusClass(row) \in AckClasses <=> row.acked = "class"
  BY <1>5 DEF Background, StatusClass
<1>7. (\E i \in 1 .. 6 : cells[i].class \in AckClasses) <=> row.acked = "class"
  <2>1. 3 \in 1 .. 6
    OBVIOUS
  <2> HIDE DEF AckClasses
  <2> QED BY <1>1, <1>3, <1>6, <2>1
<1> DEFINE marked(i) == "acknowledged" \in Range(cells[i].text)
<1>8. ~ marked(1)
  <2>1. Range(cells[1].text) = IF row.named THEN {row.host} ELSE {}
    BY <1>2, <1>4, Zenon
  <2>2. row.host # "acknowledged"
    BY NameIs
  <2> QED BY <2>1, <2>2
<1>9. marked(2) <=> row.acked = "icon"
  <2>1. Range(cells[2].text) = IF row.acked = "icon" THEN {row.service, "acknowledged"}
                              ELSE {row.service}
    BY <1>2, <1>4, Zenon
  <2>2. row.service # "acknowledged"
    BY NameIs
  <2> QED BY <2>1, <2>2
<1>10. ~ marked(3) /\ ~ marked(4) /\ ~ marked(5)
  <2>1. /\ Range(cells[3].text) = {row.state} /\ Range(cells[4].text) = {"08-14"}
        /\ Range(cells[5].text) = {Lasts(row)}
    BY <1>2, <1>4, Zenon
  <2>2. Lasts(row) # "acknowledged" /\ row.state # "acknowledged" /\ "08-14" # "acknowledged"
    BY <1>5 DEF Lasts
  <2> QED BY <2>1, <2>2
<1>11. marked(6) <=> row.acked = "output"
  <2>1. Range(cells[6].text) = {Noted(row), Mentioned(row)}
    BY <1>2, <1>4, Zenon
  <2>2. Mentioned(row) # "acknowledged" /\ (Noted(row) = "acknowledged" <=> row.acked = "output")
    BY DEF Noted, Mentioned
  <2> QED BY <2>1, <2>2
<1> HIDE DEF marked
<1>12. (\E i \in 1 .. 6 : marked(i)) <=> row.acked \in {"icon", "output"}
  <2>1. 2 \in 1 .. 6 /\ 6 \in 1 .. 6
    OBVIOUS
  <2> QED BY <1>3, <1>8, <1>9, <1>10, <1>11, <2>1
(* The links name a host and a service, and neither is the mark.           *)
<1> DEFINE linked(i) == \E k \in DOMAIN cells[i].hrefs :
                          \/ "acknowledged" \in Range(cells[i].hrefs[k].host)
                          \/ "acknowledged" \in Range(cells[i].hrefs[k].service)
<1>13. ASSUME NEW i \in 1 .. 6 PROVE ~ linked(i)
  <2>1. \/ cells[i].hrefs = <<>>
        \/ cells[i].hrefs = <<HostLink(row)>>
        \/ cells[i].hrefs = <<ServiceLink(row)>>
    <3>1. i \in {1, 2, 3, 4, 5, 6}
      BY <1>3
    <3>2. /\ cells[1].hrefs \in {<<>>, <<HostLink(row)>>}
          /\ cells[2].hrefs \in {<<>>, <<ServiceLink(row)>>}
          /\ cells[3].hrefs = <<>> /\ cells[4].hrefs = <<>>
          /\ cells[5].hrefs = <<>> /\ cells[6].hrefs = <<>>
      BY RowIs
    <3> QED BY <3>1, <3>2, Zenon
  <2>2. row.host # "acknowledged" /\ row.service # "acknowledged"
    BY NameIs
  <2>3. /\ Range(<<row.host>>) = {row.host} /\ Range(<<row.service>>) = {row.service}
        /\ Range(<<>>) = {}
    BY <1>4, Zenon
  <2>4. /\ "acknowledged" \notin Range(<<row.host>>)
        /\ "acknowledged" \notin Range(<<row.service>>)
        /\ "acknowledged" \notin Range(<<>>)
    BY <2>2, <2>3
  <2>5. /\ HostLink(row).host = <<row.host>> /\ HostLink(row).service = <<>>
        /\ ServiceLink(row).host = <<row.host>>
        /\ ServiceLink(row).service = <<row.service>>
    BY DEF HostLink, ServiceLink
  <2>6. ASSUME NEW href, cells[i].hrefs = <<href>>,
               "acknowledged" \notin Range(href.host),
               "acknowledged" \notin Range(href.service)
        PROVE  ~ linked(i)
    <3>1. \A k \in DOMAIN cells[i].hrefs : cells[i].hrefs[k] = href
      BY <2>6
    <3> QED BY <2>6, <3>1, Zenon
  <2>7. CASE cells[i].hrefs = <<>>
    BY <2>7
  <2>8. CASE cells[i].hrefs = <<HostLink(row)>>
    <3>1. PICK href : href = HostLink(row)
      OBVIOUS
    <3>2. /\ "acknowledged" \notin Range(href.host)
          /\ "acknowledged" \notin Range(href.service)
      BY <2>4, <2>5, <3>1, Zenon
    <3> QED BY <2>6, <2>8, <3>1, <3>2, Zenon
  <2>9. CASE cells[i].hrefs = <<ServiceLink(row)>>
    <3>1. PICK href : href = ServiceLink(row)
      OBVIOUS
    <3>2. /\ "acknowledged" \notin Range(href.host)
          /\ "acknowledged" \notin Range(href.service)
      BY <2>4, <2>5, <3>1, Zenon
    <3> QED BY <2>6, <2>9, <3>1, <3>2, Zenon
  <2> QED BY <2>1, <2>7, <2>8, <2>9, Zenon
<1>14. Acked(cells) <=> \/ \E i \in 1 .. 6 : cells[i].class \in AckClasses
                        \/ \E i \in 1 .. 6 : marked(i)
                        \/ \E i \in 1 .. 6 : linked(i)
  BY <1>1 DEF Acked, marked
<1> HIDE DEF AckClasses, linked
<1> QED BY <1>5, <1>7, <1>12, <1>13, <1>14

(* The alert that is made of a row of a problem.                           *)
LEMMA RowAlert ==
    ASSUME NEW row \in PageRows, NEW cells, cells = RowCells(row, 6), IsProblem(row)
    PROVE  LET alert == AlertOf(cells)
           IN  /\ alert.server = <<"nagios">>
               /\ alert.host = Strip(HostOf(cells))
               /\ HostOf(cells) = <<row.host>> =>
                    alert.host = <<row.host>> /\ alert.app = <<row.host>>
               /\ ~ Loose(row) => alert.alertname = <<row.service>>
               /\ alert.severity = <<row.state>>
               /\ alert.acknowledged <=> row.acked # "no"
               /\ alert.duration = CASE row.lasting = "output"  -> <<"5d">>
                                      [] row.lasting = "neither" -> <<>>
                                      [] OTHER                   -> <<"2h">>
               /\ alert.row = Head(rows).row
<1> DEFINE alert == AlertOf(cells)
           app == FirstGiven(<<HostOf(cells), <<"N/A">> >>)
           severity == <<SeverityFromClass(cells[Max(Severe(cells))].class)>>
           desc == FirstGiven(<<Last(cells).text, ServiceOf(cells)>>)
<1>1. /\ alert.server = Strip(<<"nagios">>)
      /\ alert.host = Strip(HostOf(cells))
      /\ alert.app = Strip(app)
      /\ alert.alertname = Strip(ServiceOf(cells))
      /\ alert.severity = Strip(severity)
      /\ alert.acknowledged = Acked(cells)
      /\ alert.duration = DurationOf(cells)
      /\ alert.row = Head(rows).row
  BY DEF AlertOf, Stripped
<1> HIDE DEF alert
<1>2. /\ "nagios" # Space /\ row.state # Space
      /\ row.host # Space /\ row.service # Space
  <2>1. row.state \in {"CRITICAL", "WARNING"}
    BY DEF IsProblem
  <2>2. "nagios" # Space /\ "CRITICAL" # Space /\ "WARNING" # Space
    BY Zenon DEF Space
  <2> QED BY <2>1, <2>2, NameIs
<1>3. alert.server = <<"nagios">>
  BY <1>1, <1>2, StripWord
<1>4. ASSUME HostOf(cells) = <<row.host>>
      PROVE  alert.host = <<row.host>> /\ alert.app = <<row.host>>
  <2>1. <<row.host>> # <<>>
    OBVIOUS
  <2>2. app = <<row.host>>
    BY <1>4, <2>1, FirstOfTwo, Zenon
  <2>3. Strip(<<row.host>>) = <<row.host>>
    BY <1>2, StripWord
  <2> QED BY <1>1, <1>4, <2>2, <2>3, Zenon
<1>5. ~ Loose(row) => alert.alertname = <<row.service>>
  <2>1. Strip(<<row.service>>) = <<row.service>>
    BY <1>2, StripWord
  <2> QED BY <1>1, <2>1, RowService, Zenon
<1>6. alert.severity = <<row.state>>
  <2>1. Severe(cells) = {3} /\ SeverityFromClass(cells[3].class) = row.state
    BY RowSeverity
  <2>2. Max(Severe(cells)) = 3
    <3>1. {3} \in SUBSET (1 .. 6) /\ {3} # {} /\ 6 \in Nat
      OBVIOUS
    <3>2. Max({3}) \in {3}
      BY <3>1, MaxIs
    <3> QED BY <2>1, <3>2
  <2>3. severity = <<row.state>>
    BY <2>1, <2>2, Zenon
  <2> QED BY <1>1, <1>2, <2>3, StripWord, Zenon
<1>7. alert.acknowledged <=> row.acked # "no"
  BY <1>1, RowAcked
<1>8. alert.duration = CASE row.lasting = "output"  -> <<"5d">>
                         [] row.lasting = "neither" -> <<>>
                         [] OTHER                   -> <<"2h">>
  BY <1>1, RowDuration
<1> QED BY <1>1, <1>3, <1>4, <1>5, <1>6, <1>7, <1>8 DEF alert

-----------------------------------------------------------------------------
(* What has been read of the rows.                                         *)

Whole(entry) == Len(entry.cells) # 1

EntryIs(entry) ==
    IF Whole(entry) THEN entry.cells = RowCells(page[entry.row], 6)
                    ELSE Severe(entry.cells) = {}

(* The rows that wait: in order, and all that have closed since the j-th.  *)
RowsInv(j) ==
    /\ j <= Closed
    /\ \E S : rows \in Seq(S)
    /\ \A n \in DOMAIN rows : rows[n].row \in 1 .. sent.row /\ EntryIs(rows[n])
    /\ \A m, n \in DOMAIN rows :
         m < n => /\ rows[m].row <= rows[n].row
                  /\ Whole(rows[m]) => rows[m].row < rows[n].row
    /\ \A i \in 1 .. Len(page) :
         (\E n \in DOMAIN rows : Whole(rows[n]) /\ rows[n].row = i) <=> (j < i /\ i <= Closed)

(* What an alert says of its row.                                          *)
Told(alert) ==
    LET row == page[alert.row]
    IN  /\ IsProblem(row)
        /\ alert.server = <<"nagios">>
        /\ Traced(alert.row) => alert.host = <<row.host>> /\ alert.app = <<row.host>>
        /\ ~ Loose(row) => alert.alertname = <<row.service>>
        /\ alert.severity = <<row.state>>
        /\ alert.acknowledged <=> row.acked # "no"
        /\ alert.duration = CASE row.lasting = "output"  -> <<"5d">>
                               [] row.lasting = "neither" -> <<>>
                               [] OTHER                   -> <<"2h">>

(* The alerts of the first j rows, and the host that is remembered.        *)
AlertsInv(j) ==
    /\ \E S : alerts \in Seq(S)
    /\ \A n \in DOMAIN alerts : alerts[n].row \in 1 .. j /\ Told(alerts[n])
    /\ \A m, n \in DOMAIN alerts : m < n => alerts[m].row < alerts[n].row
    /\ \A i \in 1 .. j : IsProblem(page[i]) => \E n \in DOMAIN alerts : alerts[n].row = i
    /\ j >= 1 /\ IsProblem(page[j]) /\ Traced(j) => lastHost = <<page[j].host>>

PageInv ==
    /\ ParseInv
    /\ \E j \in 0 .. Len(page) : RowsInv(j) /\ AlertsInv(j)

LEMMA PageBegins == Init => PageInv
<1> SUFFICES ASSUME Init PROVE PageInv
  OBVIOUS
<1>1. ParseInv
  BY ParseInit
<1>2. /\ sent = [row |-> 0, part |-> 7] /\ unread = <<>> /\ rows = <<>> /\ alerts = <<>>
      /\ Len(page) \in Nat
  BY <1>1 DEF Init, PageInit, ParseInv
<1>3. Closed = 0
  BY <1>2 DEF Closed
<1>4. <<>> \in Seq({}) /\ DOMAIN <<>> = {}
  OBVIOUS
<1>5. RowsInv(0)
  <2>1. 0 <= Closed /\ \A i \in 1 .. Len(page) : ~ (0 < i /\ i <= Closed)
    BY <1>2, <1>3
  <2> QED BY <1>2, <1>4, <2>1 DEF RowsInv
<1>6. AlertsInv(0)
  <2>1. ~ (0 >= 1) /\ 1 .. 0 = {}
    OBVIOUS
  <2> QED BY <1>2, <1>4, <2>1 DEF AlertsInv
<1>7. 0 \in 0 .. Len(page)
  BY <1>2
<1> QED BY <1>1, <1>5, <1>6, <1>7 DEF PageInv

LEMMA AlertsKept ==
    ASSUME NEW j, AlertsInv(j), page' = page, alerts' = alerts, lastHost' = lastHost
    PROVE  AlertsInv(j)'
BY DEF AlertsInv, Told, IsProblem, Traced, Loose

(* A row is added at the end, after all that came before it.               *)
LEMMA RowAdded ==
    ASSUME ParseInv, NEW j \in 0 .. Len(page), RowsInv(j),
           page' = page, sent' = sent, sent.row \in 1 .. Len(page),
           NEW entry, rows' = Append(rows, entry), entry.row = sent.row, EntryIs(entry),
           Closed = sent.row - 1,
           Closed' = IF Whole(entry) THEN sent.row ELSE Closed
    PROVE  RowsInv(j)'
<1>1. PICK S : rows \in Seq(S)
  BY DEF RowsInv
<1> DEFINE T == S \cup {entry}
           n1 == Len(rows) + 1
<1>2. rows \in Seq(T) /\ entry \in T /\ Len(rows) \in Nat /\ DOMAIN rows = 1 .. Len(rows)
  BY <1>1
<1> HIDE DEF T
<1>3. /\ rows' \in Seq(T) /\ DOMAIN rows' = 1 .. n1
      /\ \A n \in 1 .. Len(rows) : rows'[n] = rows[n]
      /\ rows'[n1] = entry
  BY <1>2
<1>4. \A n \in 1 .. n1 : n \in 1 .. Len(rows) \/ n = n1
  BY <1>2
<1>5. n1 \in 1 .. n1 /\ \A n \in 1 .. Len(rows) : n \in 1 .. n1 /\ n < n1 /\ ~ (n1 < n)
  BY <1>2
<1> HIDE DEF n1
<1>6. /\ sent.row \in Nat /\ Len(page) \in Nat /\ j \in Nat /\ j <= Closed
      /\ \A n \in 1 .. Len(rows) : rows[n].row \in 1 .. sent.row /\ EntryIs(rows[n])
      /\ \A m, n \in 1 .. Len(rows) :
           m < n => /\ rows[m].row <= rows[n].row
                    /\ Whole(rows[m]) => rows[m].row < rows[n].row
      /\ \A i \in 1 .. Len(page) :
           (\E n \in 1 .. Len(rows) : Whole(rows[n]) /\ rows[n].row = i)
              <=> (j < i /\ i <= Closed)
  <2>1. page \in Seq(PageRows) /\ Len(page) \in Nat
    BY DEF ParseInv
  <2>2. sent.row \in Nat /\ j \in Nat
    BY <2>1
  <2> QED BY <1>2, <2>1, <2>2 DEF RowsInv
<1>7. j <= Closed'
  BY <1>6
<1>8. \A n \in 1 .. n1 : rows'[n].row \in 1 .. sent'.row /\ EntryIs(rows[n])'
  <2>1. ASSUME NEW n \in 1 .. n1 PROVE rows'[n].row \in 1 .. sent.row /\ EntryIs(rows'[n])
    BY <1>3, <1>4, <1>6
  <2>2. \A e : EntryIs(e)' <=> EntryIs(e)
    BY DEF EntryIs, Whole, Severe
  <2>3. \A n \in 1 .. n1 : EntryIs(rows[n])' <=> EntryIs(rows'[n])
    BY DEF EntryIs, Whole, Severe
  <2> QED BY <2>1, <2>3
<1>9. \A m, n \in 1 .. n1 :
         m < n => /\ rows'[m].row <= rows'[n].row
                  /\ Whole(rows'[m]) => rows'[m].row < rows'[n].row
  <2> SUFFICES ASSUME NEW m \in 1 .. n1, NEW n \in 1 .. n1, m < n
               PROVE  /\ rows'[m].row <= rows'[n].row
                      /\ Whole(rows'[m]) => rows'[m].row < rows'[n].row
    OBVIOUS
  <2>1. m \in 1 .. Len(rows)
    BY <1>4, <1>5
  <2>2. CASE n \in 1 .. Len(rows)
    BY <1>3, <1>6, <2>1, <2>2
  <2>3. CASE n = n1
    <3>1. rows'[m] = rows[m] /\ rows'[n].row = sent.row /\ rows[m].row \in 1 .. sent.row
      BY <1>3, <1>6, <2>1, <2>3
    <3>2. Whole(rows[m]) => rows[m].row <= Closed
      <4>1. rows[m].row \in 1 .. Len(page)
        BY <1>6, <3>1
      <4> QED BY <1>6, <2>1, <4>1
    <3> QED BY <1>6, <3>1, <3>2
  <2> QED BY <1>4, <2>2, <2>3
<1>10. ASSUME NEW i \in 1 .. Len(page)
       PROVE  (\E n \in 1 .. n1 : Whole(rows'[n]) /\ rows'[n].row = i)
                 <=> (j < i /\ i <= Closed')
  <2>1. (\E n \in 1 .. n1 : Whole(rows'[n]) /\ rows'[n].row = i)
          <=> \/ \E n \in 1 .. Len(rows) : Whole(rows[n]) /\ rows[n].row = i
              \/ Whole(entry) /\ sent.row = i
    BY <1>3, <1>4, <1>5
  <2>2. (\E n \in 1 .. Len(rows) : Whole(rows[n]) /\ rows[n].row = i)
           <=> (j < i /\ i <= Closed)
    BY <1>6
  <2>3. \/ j < i /\ i <= Closed
        \/ Whole(entry) /\ sent.row = i
       <=> (j < i /\ i <= Closed')
    BY <1>6
  <2> QED BY <2>1, <2>2, <2>3
<1> QED BY <1>3, <1>7, <1>8, <1>9, <1>10 DEF RowsInv, Whole

LEMMA RowsKept ==
    ASSUME NEW j, RowsInv(j), page' = page, rows' = rows, Closed' = Closed,
           sent.row \in Nat, sent'.row \in Nat, sent.row <= sent'.row
    PROVE  RowsInv(j)'
<1>1. \A n \in DOMAIN rows : rows'[n].row \in 1 .. sent'.row /\ EntryIs(rows[n])'
  <2>1. \A n \in DOMAIN rows : rows[n].row \in 1 .. sent'.row /\ EntryIs(rows[n])
    BY DEF RowsInv
  <2>2. \A n \in DOMAIN rows : EntryIs(rows[n])' <=> EntryIs(rows[n])
    BY DEF EntryIs, Whole, Severe
  <2> QED BY <2>1, <2>2
<1> QED BY <1>1 DEF RowsInv, Whole

LEMMA PartKeeps ==
    ASSUME PageInv, SendPart
    PROVE  PageInv'
<1>1. /\ ParseInv /\ ParseInv' /\ rows' = rows /\ Closed' = Closed
      /\ page' = page /\ alerts' = alerts /\ lastHost' = lastHost
  BY PartSent DEF PageInv, SendPart
<1>2. PICK j \in 0 .. Len(page) : RowsInv(j) /\ AlertsInv(j)
  BY DEF PageInv
<1>3. sent.row \in Nat /\ sent'.row \in Nat /\ sent.row <= sent'.row
  <2>1. /\ sent.row \in Nat
        /\ sent' = IF sent.part = 7 THEN [row |-> sent.row + 1, part |-> 0]
                   ELSE [sent EXCEPT !.part = sent.part + 1]
        /\ sent = [row |-> sent.row, part |-> sent.part]
    BY <1>1 DEF ParseInv, SendPart
  <2>2. sent'.row = sent.row + 1 \/ sent'.row = sent.row
    BY <2>1
  <2> QED BY <2>1, <2>2
<1>4. RowsInv(j)' /\ AlertsInv(j)'
  BY <1>1, <1>2, <1>3, RowsKept, AlertsKept
<1> QED BY <1>1, <1>4 DEF PageInv

LEMMA TagKeeps ==
    ASSUME PageInv, Parse
    PROVE  PageInv'
<1>1. /\ ParseInv /\ ParseInv' /\ sent.row \in 1 .. Len(page)
      /\ \/ rows' = rows /\ Closed' = Closed
         \/ /\ rows' = Append(rows, WholeRow(sent.row))
            /\ Closed = sent.row - 1 /\ Closed' = sent.row
         \/ /\ \E cell : rows' = Append(rows, [cells |-> <<Nested(cell)>>, row |-> sent.row])
            /\ Closed = sent.row - 1 /\ Closed' = Closed
  BY TagRead DEF PageInv
<1>2. page' = page /\ sent' = sent /\ alerts' = alerts /\ lastHost' = lastHost
  BY DEF Parse, HandleStarttag, HandleEndtag, HandleData, Take
<1>3. PICK j \in 0 .. Len(page) : RowsInv(j) /\ AlertsInv(j)
  BY DEF PageInv
<1>4. RowsInv(j)'
  <2>1. CASE rows' = rows /\ Closed' = Closed
    <3>1. Len(page) \in Nat
      BY <1>1 DEF ParseInv
    <3>2. sent.row \in Nat /\ sent'.row \in Nat /\ sent.row <= sent'.row
      BY <1>1, <1>2, <3>1
    <3> QED BY <1>2, <1>3, <2>1, <3>2, RowsKept
  <2>2. CASE /\ rows' = Append(rows, WholeRow(sent.row))
             /\ Closed = sent.row - 1 /\ Closed' = sent.row
    <3>1. PICK entry : entry = WholeRow(sent.row)
      OBVIOUS
    <3>2. entry.row = sent.row /\ entry.cells = RowCells(page[entry.row], 6)
      BY <3>1 DEF WholeRow
    <3>3. Whole(entry)
      <4>1. page[sent.row] \in PageRows
        BY <1>1 DEF ParseInv
      <4>2. PICK row \in PageRows : row = page[sent.row]
        BY <4>1
      <4>3. PICK cells : cells = RowCells(row, 6)
        OBVIOUS
      <4>4. Len(cells) = 6 /\ entry.cells = cells
        BY <3>2, <4>2, <4>3, RowIs
      <4> QED BY <4>4 DEF Whole
    <3>4. EntryIs(entry)
      BY <3>2, <3>3 DEF EntryIs
    <3>5. rows' = Append(rows, entry) /\ Closed' = IF Whole(entry) THEN sent.row ELSE Closed
      BY <2>2, <3>1, <3>3, Zenon
    <3> QED BY <1>1, <1>2, <1>3, <2>2, <3>2, <3>4, <3>5, RowAdded
  <2>3. CASE /\ \E cell : rows' = Append(rows, [cells |-> <<Nested(cell)>>, row |-> sent.row])
             /\ Closed = sent.row - 1 /\ Closed' = Closed
    <3>1. PICK cell : rows' = Append(rows, [cells |-> <<Nested(cell)>>, row |-> sent.row])
      BY <2>3
    <3>2. PICK entry : entry = [cells |-> <<Nested(cell)>>, row |-> sent.row]
      OBVIOUS
    <3>3. entry.row = sent.row /\ entry.cells = <<Nested(cell)>>
      BY <3>2
    <3>4. ~ Whole(entry)
      BY <3>3 DEF Whole
    <3>5. EntryIs(entry)
      BY <3>3, <3>4, NestedIsNone, Zenon DEF EntryIs
    <3>6. rows' = Append(rows, entry) /\ Closed' = IF Whole(entry) THEN sent.row ELSE Closed
      BY <2>3, <3>1, <3>2, <3>4, Zenon
    <3> QED BY <1>1, <1>2, <1>3, <2>3, <3>3, <3>5, <3>6, RowAdded
  <2> QED BY <1>1, <2>1, <2>2, <2>3
<1>5. AlertsInv(j)'
  BY <1>2, <1>3, AlertsKept
<1> QED BY <1>1, <1>2, <1>3, <1>4, <1>5 DEF PageInv

(* The host that is remembered is the row's own when it can be told.       *)
LEMMA TracedHost ==
    ASSUME ParseInv, NEW j \in Nat, j + 1 \in DOMAIN page, AlertsInv(j),
           NEW cells, cells = RowCells(page[j + 1], 6), Traced(j + 1)
    PROVE  HostOf(cells) = <<page[j + 1].host>>
<1>1. /\ page \in Seq(PageRows) /\ DOMAIN page = 1 .. Len(page) /\ Len(page) \in Nat
      /\ page[j + 1] \in PageRows
      /\ page[j + 1].named \/ (j + 1 > 1 /\ page[j + 1].host = page[j + 1 - 1].host)
  BY DEF ParseInv
<1>2. PICK row \in PageRows : row = page[j + 1]
  BY <1>1
<1>3. HostOf(cells) = IF row.layout # "plain" \/ row.named THEN <<row.host>> ELSE lastHost
  BY <1>2, RowHost
<1>4. CASE ~ (row.layout # "plain" \/ row.named)
  <2>1. PICK i \in 1 .. j + 1 : /\ page[i].layout # "plain" \/ page[i].named
                                /\ \A m \in i .. j + 1 - 1 : IsProblem(page[m])
    BY DEF Traced
  <2>2. i # j + 1
    BY <1>2, <1>4, <2>1
  <2>3. j >= 1 /\ i \in 1 .. j /\ j \in i .. j + 1 - 1 /\ j + 1 - 1 = j
    BY <2>1, <2>2
  <2>4. IsProblem(page[j]) /\ \A m \in i .. j - 1 : IsProblem(page[m])
    BY <2>1, <2>3
  <2>5. Traced(j)
    BY <2>1, <2>3, <2>4 DEF Traced
  <2>6. lastHost = <<page[j].host>>
    BY <2>3, <2>4, <2>5 DEF AlertsInv
  <2>7. page[j + 1].host = page[j].host
    BY <1>1, <1>2, <1>4, <2>3
  <2> QED BY <1>3, <1>4, <2>6, <2>7
<1> QED BY <1>2, <1>3, <1>4

(* The first row that waits is taken off.                                  *)
LEMMA RowTaken ==
    ASSUME ParseInv, NEW j \in 0 .. Len(page), RowsInv(j), rows # <<>>,
           page' = page, sent' = sent, unread' = unread, rows' = Tail(rows)
    PROVE  /\ Head(rows).row \in 1 .. sent.row /\ EntryIs(Head(rows))
           /\ ~ Whole(Head(rows)) => RowsInv(j)'
           /\ Whole(Head(rows)) =>
                /\ Head(rows).row = j + 1 /\ j + 1 \in 1 .. Len(page)
                /\ RowsInv(j + 1)'
<1>1. PICK S : rows \in Seq(S)
  BY DEF RowsInv
<1>2. PICK k \in Nat : Len(rows) = k + 1
  <2>1. Len(rows) \in Nat /\ Len(rows) # 0
    BY <1>1
  <2>2. Len(rows) - 1 \in Nat /\ Len(rows) = (Len(rows) - 1) + 1
    BY <2>1
  <2> QED BY <2>2
<1>3. /\ rows' \in Seq(S) /\ DOMAIN rows' = 1 .. k /\ DOMAIN rows = 1 .. k + 1
      /\ \A n \in 1 .. k : rows'[n] = rows[n + 1]
      /\ Head(rows) = rows[1]
  BY <1>1, <1>2
<1>4. /\ 1 \in 1 .. k + 1
      /\ \A n \in 1 .. k : n + 1 \in 1 .. k + 1 /\ 1 < n + 1
      /\ \A n \in 1 .. k + 1 : n = 1 \/ (n - 1 \in 1 .. k /\ n = (n - 1) + 1)
  OBVIOUS
<1>5. /\ page \in Seq(PageRows) /\ Len(page) \in Nat /\ sent.row \in 0 .. Len(page)
      /\ j \in Nat
  BY DEF ParseInv
<1>6. Closed' = Closed /\ Closed <= sent.row /\ Closed \in Int
  BY <1>5 DEF Closed
<1>7. /\ j <= Closed
      /\ \A n \in 1 .. k + 1 : rows[n].row \in 1 .. sent.row /\ EntryIs(rows[n])
      /\ \A m, n \in 1 .. k + 1 :
           m < n => /\ rows[m].row <= rows[n].row
                    /\ Whole(rows[m]) => rows[m].row < rows[n].row
      /\ \A i \in 1 .. Len(page) :
           (\E n \in 1 .. k + 1 : Whole(rows[n]) /\ rows[n].row = i)
              <=> (j < i /\ i <= Closed)
  BY <1>3 DEF RowsInv
<1>8. \A n \in 1 .. k : rows'[n].row \in 1 .. sent'.row /\ EntryIs(rows[n])'
  <2>1. \A n \in 1 .. k : rows'[n].row \in 1 .. sent.row /\ EntryIs(rows'[n])
    BY <1>3, <1>4, <1>7
  <2>2. \A n \in 1 .. k : EntryIs(rows[n])' <=> EntryIs(rows'[n])
    BY DEF EntryIs, Whole, Severe
  <2> QED BY <2>1, <2>2
<1>9. \A m, n \in 1 .. k :
         m < n => /\ rows'[m].row <= rows'[n].row
                  /\ Whole(rows'[m]) => rows'[m].row < rows'[n].row
  BY <1>3, <1>4, <1>7
<1>10. \A i \in 1 .. Len(page) :
          (\E n \in 1 .. k + 1 : Whole(rows[n]) /\ rows[n].row = i)
             <=> \/ Whole(rows[1]) /\ rows[1].row = i
                 \/ \E n \in 1 .. k : Whole(rows'[n]) /\ rows'[n].row = i
  <2> SUFFICES ASSUME NEW i \in 1 .. Len(page)
               PROVE  (\E n \in 1 .. k + 1 : Whole(rows[n]) /\ rows[n].row = i)
                         <=> \/ Whole(rows[1]) /\ rows[1].row = i
                             \/ \E n \in 1 .. k : Whole(rows'[n]) /\ rows'[n].row = i
    OBVIOUS
  <2>1. ASSUME NEW n \in 1 .. k + 1, Whole(rows[n]), rows[n].row = i, n # 1
        PROVE  \E m \in 1 .. k : Whole(rows'[m]) /\ rows'[m].row = i
    <3>1. n - 1 \in 1 .. k /\ rows'[n - 1] = rows[n]
      BY <1>3, <1>4, <2>1
    <3> QED BY <2>1, <3>1
  <2>2. ASSUME NEW m \in 1 .. k, Whole(rows'[m]), rows'[m].row = i
        PROVE  \E n \in 1 .. k + 1 : Whole(rows[n]) /\ rows[n].row = i
    <3>1. m + 1 \in 1 .. k + 1 /\ rows'[m] = rows[m + 1]
      BY <1>3, <1>4
    <3> QED BY <2>2, <3>1
  <2> QED BY <1>4, <2>1, <2>2
<1>11. ASSUME ~ Whole(rows[1]) PROVE RowsInv(j)'
  <2>1. \A i \in 1 .. Len(page) :
           (\E n \in 1 .. k : Whole(rows'[n]) /\ rows'[n].row = i)
              <=> (j < i /\ i <= Closed)
    BY <1>7, <1>10, <1>11
  <2> QED BY <1>3, <1>6, <1>7, <1>8, <1>9, <2>1 DEF RowsInv, Whole
<1>12. ASSUME Whole(rows[1])
       PROVE  rows[1].row = j + 1 /\ j + 1 \in 1 .. Len(page) /\ RowsInv(j + 1)'
  <2> DEFINE i == rows[1].row
  <2>1. i \in 1 .. Len(page) /\ j < i /\ i <= Closed
    <3>1. i \in 1 .. Len(page)
      BY <1>4, <1>5, <1>7
    <3> QED BY <1>4, <1>7, <1>12, <3>1
  <2>2. j + 1 \in 1 .. Len(page) /\ j < j + 1 /\ j + 1 <= Closed
    BY <1>5, <1>6, <2>1
  <2>3. PICK n \in 1 .. k + 1 : Whole(rows[n]) /\ rows[n].row = j + 1
    BY <1>7, <2>2
  <2>4. i = j + 1
    <3>1. n = 1 \/ 1 < n
      OBVIOUS
    <3>2. 1 < n => i < rows[n].row
      BY <1>4, <1>7, <1>12
    <3> QED BY <2>1, <2>3, <3>1, <3>2
  <2> HIDE DEF i
  <2>5. ASSUME NEW r \in 1 .. Len(page)
        PROVE  (\E m \in 1 .. k : Whole(rows'[m]) /\ rows'[m].row = r)
                  <=> (j + 1 < r /\ r <= Closed)
    <3>1. (\E m \in 1 .. k : Whole(rows'[m]) /\ rows'[m].row = r) => r # j + 1
      <4>1. ASSUME NEW m \in 1 .. k PROVE i < rows'[m].row
        <5>1. m + 1 \in 1 .. k + 1 /\ 1 < m + 1 /\ rows'[m] = rows[m + 1]
          BY <1>3, <1>4
        <5> QED BY <1>4, <1>7, <1>12, <5>1 DEF i
      <4>2. ~ (j + 1 < j + 1)
        BY <1>5
      <4> QED BY <2>4, <4>1, <4>2
    <3>2. (Whole(rows[1]) /\ rows[1].row = r) <=> r = j + 1
      BY <1>12, <2>4 DEF i
    <3> DEFINE waits == \E m \in 1 .. k : Whole(rows'[m]) /\ rows'[m].row = r
    <3>3. (j < r /\ r <= Closed) <=> (r = j + 1 \/ waits)
      BY <1>7, <1>10, <3>2
    <3> HIDE DEF waits
    <3>4. waits => r # j + 1
      BY <3>1 DEF waits
    <3>5. j + 1 <= Closed
      BY <2>2
    <3>6. waits <=> (j + 1 < r /\ r <= Closed)
      BY <1>5, <1>6, <3>3, <3>4, <3>5
    <3> QED BY <3>6 DEF waits
  <2>6. RowsInv(j + 1)'
    BY <1>3, <1>6, <1>8, <1>9, <2>2, <2>5 DEF RowsInv, Whole
  <2> QED BY <2>2, <2>4, <2>6 DEF i
<1>13. rows[1].row \in 1 .. sent.row /\ EntryIs(rows[1])
  BY <1>4, <1>7
<1> QED BY <1>3, <1>11, <1>12, <1>13

LEMMA TellsNothing ==
    ASSUME NEW j \in Nat, AlertsInv(j), ~ IsProblem(page[j + 1]),
           page' = page, alerts' = alerts, lastHost' = lastHost
    PROVE  AlertsInv(j + 1)'
<1>1. AlertsInv(j)'
  BY AlertsKept
<1>2. ~ IsProblem(page[j + 1])'
  BY DEF IsProblem
<1>3. \A i \in 1 .. j + 1 : i \in 1 .. j \/ i = j + 1
  OBVIOUS
<1>4. 1 .. j \subseteq 1 .. j + 1
  OBVIOUS
<1>5. \A n \in DOMAIN alerts' : alerts'[n].row \in 1 .. j + 1
  BY <1>1, <1>4 DEF AlertsInv
<1> QED BY <1>1, <1>2, <1>3, <1>5 DEF AlertsInv

LEMMA TellsOne ==
    ASSUME NEW j \in Nat, AlertsInv(j), IsProblem(page[j + 1]),
           NEW alert, alerts' = Append(alerts, alert), alert.row = j + 1, Told(alert),
           page' = page, Traced(j + 1) => lastHost' = <<page[j + 1].host>>
    PROVE  AlertsInv(j + 1)'
<1>1. PICK S : alerts \in Seq(S)
  BY DEF AlertsInv
<1> DEFINE T == S \cup {alert}
           n1 == Len(alerts) + 1
<1>2. /\ alerts \in Seq(T) /\ alert \in T /\ Len(alerts) \in Nat
      /\ DOMAIN alerts = 1 .. Len(alerts)
  BY <1>1
<1> HIDE DEF T
<1>3. /\ alerts' \in Seq(T) /\ DOMAIN alerts' = 1 .. n1
      /\ \A n \in 1 .. Len(alerts) : alerts'[n] = alerts[n]
      /\ alerts'[n1] = alert
  BY <1>2
<1>4. \A n \in 1 .. n1 : n \in 1 .. Len(alerts) \/ n = n1
  BY <1>2
<1>5. n1 \in 1 .. n1 /\ \A n \in 1 .. Len(alerts) : n \in 1 .. n1 /\ n < n1 /\ ~ (n1 < n)
  BY <1>2
<1> HIDE DEF n1
<1>6. /\ \A n \in 1 .. Len(alerts) : alerts[n].row \in 1 .. j /\ Told(alerts[n])
      /\ \A m, n \in 1 .. Len(alerts) : m < n => alerts[m].row < alerts[n].row
      /\ \A i \in 1 .. j : IsProblem(page[i]) => \E n \in 1 .. Len(alerts) : alerts[n].row = i
  BY <1>2 DEF AlertsInv
<1>7. /\ \A i \in 1 .. j + 1 : i \in 1 .. j \/ i = j + 1
      /\ \A i \in 1 .. j : i < j + 1 /\ i \in 1 .. j + 1
      /\ j + 1 \in 1 .. j + 1 /\ j + 1 >= 1
  OBVIOUS
<1>8. \A n \in 1 .. n1 : alerts'[n].row \in 1 .. j + 1 /\ Told(alerts[n])'
  <2>1. \A n \in 1 .. n1 : alerts'[n].row \in 1 .. j + 1 /\ Told(alerts'[n])
    BY <1>3, <1>4, <1>6, <1>7
  <2>2. \A n \in 1 .. n1 : Told(alerts[n])' <=> Told(alerts'[n])
    BY DEF Told, IsProblem, Traced, Loose
  <2> QED BY <2>1, <2>2
<1>9. \A m, n \in 1 .. n1 : m < n => alerts'[m].row < alerts'[n].row
  <2> SUFFICES ASSUME NEW m \in 1 .. n1, NEW n \in 1 .. n1, m < n
               PROVE  alerts'[m].row < alerts'[n].row
    OBVIOUS
  <2>1. m \in 1 .. Len(alerts)
    BY <1>4, <1>5
  <2>2. CASE n \in 1 .. Len(alerts)
    BY <1>3, <1>6, <2>1, <2>2
  <2>3. CASE n = n1
    BY <1>3, <1>6, <1>7, <2>1, <2>3
  <2> QED BY <1>4, <2>2, <2>3
<1>10. \A i \in 1 .. j + 1 :
          IsProblem(page[i])' => \E n \in 1 .. n1 : alerts'[n].row = i
  <2>1. \A i \in 1 .. j + 1 : IsProblem(page[i])' <=> IsProblem(page[i])
    BY DEF IsProblem
  <2>2. ASSUME NEW i \in 1 .. j + 1, IsProblem(page[i])
        PROVE  \E n \in 1 .. n1 : alerts'[n].row = i
    <3>1. CASE i \in 1 .. j
      BY <1>3, <1>5, <1>6, <2>2, <3>1
    <3>2. CASE i = j + 1
      BY <1>3, <1>5, <3>2
    <3> QED BY <1>7, <3>1, <3>2
  <2> QED BY <2>1, <2>2
<1>11. Traced(j + 1)' => lastHost' = <<page'[j + 1].host>>
  BY DEF Traced, IsProblem
<1> QED BY <1>3, <1>8, <1>9, <1>10, <1>11 DEF AlertsInv

LEMMA ParseKept ==
    ASSUME ParseInv, page' = page, sent' = sent, unread' = unread,
           trStack' = trStack, tdStack' = tdStack
    PROVE  ParseInv'
<1>1. PICK row, part : row = page[sent.row] /\ part = sent.part
  OBVIOUS
<1>2. AtPart(row, part)
  BY <1>1, Zenon DEF ParseInv
<1>3. PICK cell, done : cell = Cells(row)[part] /\ done = RowCells(row, part - 1)
  OBVIOUS
<1>4. Reading(cell, done)' <=> Reading(cell, done)
  BY Zenon DEF Reading
<1>5. Reading(Cells(row)[part], RowCells(row, part - 1))'
         <=> Reading(Cells(row)[part], RowCells(row, part - 1))
  BY <1>3, <1>4, Zenon
<1>6. AtPart(row, part)'
  BY <1>2, <1>5, Zenon DEF AtPart
<1>7. page'[sent'.row] = row /\ sent'.part = part
  BY <1>1
<1>8. AtPart(page[sent.row], sent.part)'
  BY <1>6, <1>7, Zenon
<1> QED BY <1>8 DEF ParseInv

LEMMA RowKeeps ==
    ASSUME PageInv, ReadRow
    PROVE  PageInv'
<1>1. /\ ParseInv /\ rows # <<>> /\ rows' = Tail(rows)
      /\ page' = page /\ sent' = sent /\ unread' = unread
      /\ trStack' = trStack /\ tdStack' = tdStack
  BY DEF PageInv, ReadRow
<1>2. PICK j \in 0 .. Len(page) : RowsInv(j) /\ AlertsInv(j)
  BY DEF PageInv
<1>3. ParseInv'
  BY <1>1, ParseKept
<1>4. PICK cells : cells = Head(rows).cells
  OBVIOUS
<1>5. \/ /\ Severe(cells) = {}
         /\ lastHost' = lastHost /\ alerts' = alerts
      \/ /\ Severe(cells) # {}
         /\ lastHost' = HostOf(cells)
         /\ alerts' = Append(alerts, AlertOf(cells))
  BY <1>4 DEF ReadRow
<1>6. /\ EntryIs(Head(rows))
      /\ ~ Whole(Head(rows)) => RowsInv(j)'
      /\ Whole(Head(rows)) =>
           /\ Head(rows).row = j + 1 /\ j + 1 \in 1 .. Len(page)
           /\ RowsInv(j + 1)'
  BY <1>1, <1>2, RowTaken
<1>7. CASE ~ Whole(Head(rows))
  <2>1. Severe(cells) = {}
    BY <1>4, <1>6, <1>7 DEF EntryIs
  <2>2. AlertsInv(j)'
    BY <1>1, <1>2, <1>5, <2>1, AlertsKept
  <2> QED BY <1>1, <1>3, <1>6, <1>7, <2>2 DEF PageInv
<1>8. CASE Whole(Head(rows))
  <2>1. /\ Head(rows).row = j + 1 /\ j + 1 \in 1 .. Len(page) /\ RowsInv(j + 1)'
        /\ cells = RowCells(page[j + 1], 6)
    BY <1>4, <1>6, <1>8 DEF EntryIs
  <2>2. page \in Seq(PageRows) /\ DOMAIN page = 1 .. Len(page) /\ Len(page) \in Nat /\ j \in Nat
    BY <1>1 DEF ParseInv
  <2>3. PICK row \in PageRows : row = page[j + 1]
    BY <2>1, <2>2
  <2>4. cells = RowCells(row, 6)
    BY <2>1, <2>3
  <2>5. Severe(cells) = IF IsProblem(row) THEN {3} ELSE {}
    BY <2>4, RowSeverity
  <2>6. CASE ~ IsProblem(row)
    <3>1. lastHost' = lastHost /\ alerts' = alerts
      BY <1>5, <2>5, <2>6
    <3>2. AlertsInv(j + 1)'
      BY <1>1, <1>2, <2>2, <2>3, <2>6, <3>1, TellsNothing
    <3> QED BY <1>1, <1>3, <2>1, <2>2, <3>2 DEF PageInv
  <2>7. CASE IsProblem(row)
    <3>1. lastHost' = HostOf(cells) /\ alerts' = Append(alerts, AlertOf(cells))
      BY <1>5, <2>5, <2>7
    <3>2. PICK alert : alert = AlertOf(cells)
      OBVIOUS
    <3>3. Traced(j + 1) => HostOf(cells) = <<row.host>>
      BY <1>1, <1>2, <2>1, <2>2, <2>3, TracedHost
    <3>4. /\ alert.server = <<"nagios">>
          /\ HostOf(cells) = <<row.host>> =>
               alert.host = <<row.host>> /\ alert.app = <<row.host>>
          /\ ~ Loose(row) => alert.alertname = <<row.service>>
          /\ alert.severity = <<row.state>>
          /\ alert.acknowledged <=> row.acked # "no"
          /\ alert.duration = CASE row.lasting = "output"  -> <<"5d">>
                                 [] row.lasting = "neither" -> <<>>
                                 [] OTHER                   -> <<"2h">>
          /\ alert.row = Head(rows).row
      BY <2>4, <2>7, <3>2, RowAlert
    <3>5. alert.row = j + 1
      BY <2>1, <3>4
    <3>6. Told(alert)
      BY <2>3, <2>7, <3>3, <3>4, <3>5 DEF Told
    <3>7. alerts' = Append(alerts, alert) /\ (Traced(j + 1) => lastHost' = <<page[j + 1].host>>)
      BY <2>3, <3>1, <3>2, <3>3
    <3>8. AlertsInv(j + 1)'
      BY <1>1, <1>2, <2>2, <2>3, <2>7, <3>5, <3>6, <3>7, TellsOne
    <3> QED BY <1>1, <1>3, <2>1, <2>2, <3>8 DEF PageInv
  <2> QED BY <2>6, <2>7
<1> QED BY <1>7, <1>8

LEMMA PageNext == PageInv /\ [Next]_vars => PageInv'
<1> SUFFICES ASSUME PageInv, [Next]_vars PROVE PageInv'
  OBVIOUS
<1>1. CASE UNCHANGED pageVars
  <2>1. /\ page' = page /\ sent' = sent /\ unread' = unread /\ rows' = rows
        /\ trStack' = trStack /\ tdStack' = tdStack
        /\ alerts' = alerts /\ lastHost' = lastHost
    BY <1>1 DEF pageVars
  <2>2. PICK j \in 0 .. Len(page) : RowsInv(j) /\ AlertsInv(j)
    BY DEF PageInv
  <2>3. ParseInv
    BY DEF PageInv
  <2>4. ParseInv'
    BY <2>1, <2>3, ParseKept
  <2>5. RowsInv(j)'
    <3>1. sent.row \in Nat /\ sent'.row \in Nat /\ sent.row <= sent'.row
      <4>1. page \in Seq(PageRows) /\ sent.row \in 0 .. Len(page)
        BY <2>3 DEF ParseInv
      <4> QED BY <2>1, <4>1
    <3>2. Closed' = Closed
      BY <2>1 DEF Closed
    <3> QED BY <2>1, <2>2, <3>1, <3>2, RowsKept
  <2>6. AlertsInv(j)'
    BY <2>1, <2>2, AlertsKept
  <2> QED BY <2>1, <2>2, <2>4, <2>5, <2>6 DEF PageInv
<1>2. CASE ParsePage
  BY <1>2, PartKeeps, TagKeeps, RowKeeps DEF ParsePage, Parse
<1>3. CASE ParseItem \/ Finished
  BY <1>1, <1>3 DEF ParseItem, Finished, vars
<1> QED BY <1>1, <1>2, <1>3 DEF Next, vars

(* Pages with no icon that would be read as part of a name.                *)
NoLooseIcons ==
    \A poll \in Polls : \A i \in DOMAIN poll.page : ~ Loose(poll.page[i])

OfPoll == \E poll \in Polls : page = poll.page

LEMMA PageStays == Spec => []OfPoll
<1>1. Init => OfPoll
  BY DEF Init, OfPoll
<1>2. OfPoll /\ [Next]_vars => OfPoll'
  <2> SUFFICES ASSUME OfPoll, [Next]_vars PROVE OfPoll'
    OBVIOUS
  <2>1. page' = page
    <3>1. CASE ParsePage
      BY <3>1 DEF ParsePage, SendPart, HandleStarttag, HandleEndtag, HandleData, Take, ReadRow
    <3> QED BY <3>1 DEF Next, ParseItem, Finished, vars, pageVars
  <2> QED BY <2>1 DEF OfPoll
<1> QED BY <1>1, <1>2, PTL DEF Spec

LEMMA NoneLoose ==
    ASSUME NoLooseIcons, OfPoll, ParseInv, NEW i \in DOMAIN page
    PROVE  ~ Loose(page[i])
BY DEF NoLooseIcons, OfPoll

LEMMA ReadPage ==
    ASSUME ParseInv, NEW j \in 0 .. Len(page), RowsInv(j), ReadToTheEnd
    PROVE  j = Len(page)
<1>1. Len(page) \in Nat /\ j \in Nat
  BY DEF ParseInv
<1>2. rows = <<>> /\ Closed = Len(page)
  BY DEF ReadToTheEnd, AllSent, Closed
<1>3. \A i \in 1 .. Len(page) : ~ (j < i /\ i <= Closed)
  BY <1>2 DEF RowsInv
<1>4. CASE j < Len(page)
  <2>1. Len(page) \in 1 .. Len(page)
    BY <1>1, <1>4
  <2> QED BY <1>1, <1>2, <1>3, <1>4, <2>1
<1> QED BY <1>1, <1>4

(* Every CRITICAL and WARNING row of the page is one alert, in order, and  *)
(* says its service, state, acknowledgement and duration, whatever tables  *)
(* are nested in it (_NagiosHtmlParser, and the loop of                    *)
(* _alerts_from_html over the rows it closed).                             *)
THEOREM ProblemsTheorem ==
    ASSUME NoLooseIcons
    PROVE  Spec => []ProblemsAreAlerts
<1>1. PageInv /\ OfPoll => ProblemsAreAlerts
  <2> SUFFICES ASSUME PageInv, OfPoll PROVE ProblemsAreAlerts
    OBVIOUS
  <2>1. PICK j \in 0 .. Len(page) : RowsInv(j) /\ AlertsInv(j)
    BY DEF PageInv
  <2>2. ParseInv /\ DOMAIN page = 1 .. Len(page) /\ Len(page) \in Nat
    BY DEF PageInv, ParseInv
  <2>3. 1 .. j \subseteq 1 .. Len(page)
    BY <2>2
  <2>4. ReadToTheEnd =>
          {alerts[n].row : n \in DOMAIN alerts} = {i \in DOMAIN page : IsProblem(page[i])}
    <3> SUFFICES ASSUME ReadToTheEnd
                 PROVE  {alerts[n].row : n \in DOMAIN alerts}
                          = {i \in DOMAIN page : IsProblem(page[i])}
      OBVIOUS
    <3>1. j = Len(page)
      BY <2>1, <2>2, ReadPage
    <3>2. \A n \in DOMAIN alerts : alerts[n].row \in DOMAIN page /\ IsProblem(page[alerts[n].row])
      BY <2>1, <2>2, <2>3 DEF AlertsInv, Told
    <3>3. \A i \in DOMAIN page : IsProblem(page[i]) => \E n \in DOMAIN alerts : alerts[n].row = i
      BY <2>1, <2>2, <3>1 DEF AlertsInv
    <3> QED BY <3>2, <3>3
  <2>5. \A m, n \in DOMAIN alerts : m < n => alerts[m].row < alerts[n].row
    BY <2>1 DEF AlertsInv
  <2>6. ASSUME NEW n \in DOMAIN alerts
        PROVE  LET row == page[alerts[n].row]
               IN  /\ alerts[n].alertname = <<row.service>>
                   /\ alerts[n].severity = <<row.state>>
                   /\ alerts[n].acknowledged <=> row.acked # "no"
                   /\ alerts[n].duration = CASE row.lasting = "output"  -> <<"5d">>
                                             [] row.lasting = "neither" -> <<>>
                                             [] OTHER                   -> <<"2h">>
    <3>1. Told(alerts[n]) /\ alerts[n].row \in DOMAIN page
      BY <2>1, <2>2, <2>3 DEF AlertsInv
    <3>2. ~ Loose(page[alerts[n].row])
      BY <2>2, <3>1, NoneLoose
    <3> QED BY <3>1, <3>2 DEF Told
  <2> QED BY <2>4, <2>5, <2>6 DEF ProblemsAreAlerts
<1> QED BY <1>1, PageBegins, PageNext, PageStays, PTL DEF Spec

(* An alert carries the host of its own row, and none that is left over    *)
(* (last_host in _alerts_from_html).                                       *)
THEOREM HostTheorem == Spec => []HostIsItsOwn
<1>1. PageInv => HostIsItsOwn
  BY DEF PageInv, AlertsInv, Told, HostIsItsOwn
<1> QED BY <1>1, PageBegins, PageNext, PTL DEF Spec

-----------------------------------------------------------------------------
(* One message of each problem.                                            *)

(* What the alerts of a poll say of the identity of their problems.        *)
Identified ==
    /\ \E S : alerts \in Seq(S)
    /\ \E S : read \in Seq(S)
    /\ \A n \in DOMAIN alerts :
         LET row == page[alerts[n].row]
         IN  /\ alerts[n].server = <<"nagios">> /\ alerts[n].alertname = <<row.service>>
             /\ alerts[n].host = <<row.host>> /\ alerts[n].app = <<row.host>>
    /\ \A n \in DOMAIN read :
         LET item == origins[n]
         IN  /\ read[n].server = <<"alertmanager">>
             /\ read[n].alertname = Strip(AlertNamed(item))
             /\ read[n].host = Strip(HostNamed(item)) /\ read[n].app = Strip(AppNamed(item))

LEMMA Joined ==
    ASSUME Identified
    PROVE  /\ Len(alerts) \in Nat /\ Len(read) \in Nat
           /\ DOMAIN alerts = 1 .. Len(alerts) /\ DOMAIN read = 1 .. Len(read)
           /\ DOMAIN RawAlerts = 1 .. Len(alerts) + Len(read)
           /\ \A n \in DOMAIN alerts : n \in DOMAIN RawAlerts /\ RawAlerts[n] = alerts[n]
           /\ \A n \in DOMAIN RawAlerts \ DOMAIN alerts :
                /\ n - Len(alerts) \in DOMAIN read
                /\ RawAlerts[n] = read[n - Len(alerts)]
<1>1. PICK S : alerts \in Seq(S)
  BY DEF Identified
<1>2. PICK T : read \in Seq(T)
  BY DEF Identified
<1>3. alerts \in Seq(S \cup T) /\ read \in Seq(S \cup T)
  BY <1>1, <1>2
<1>4. /\ Len(alerts) \in Nat /\ Len(read) \in Nat
      /\ DOMAIN alerts = 1 .. Len(alerts) /\ DOMAIN read = 1 .. Len(read)
  BY <1>1, <1>2
<1>5. /\ alerts \o read \in Seq(S \cup T) /\ Len(alerts \o read) = Len(alerts) + Len(read)
      /\ \A i \in 1 .. Len(alerts) + Len(read) :
           (alerts \o read)[i] = IF i <= Len(alerts) THEN alerts[i] ELSE read[i - Len(alerts)]
  BY <1>3, ConcatProperties
<1>6. DOMAIN (alerts \o read) = 1 .. Len(alerts) + Len(read)
  BY <1>5
<1>7. /\ \A n \in 1 .. Len(alerts) : n \in 1 .. Len(alerts) + Len(read) /\ n <= Len(alerts)
      /\ \A n \in 1 .. Len(alerts) + Len(read) : n \notin 1 .. Len(alerts) =>
            ~ (n <= Len(alerts)) /\ n - Len(alerts) \in 1 .. Len(read)
  BY <1>4
<1> QED BY <1>4, <1>5, <1>6, <1>7 DEF RawAlerts

(* What the key of an alert is made of is the identity of its problem.     *)
LEMMA KeyTells ==
    ASSUME Identified, NEW m \in DOMAIN RawAlerts, NEW n \in DOMAIN RawAlerts
    PROVE  DedupKey(RawAlerts[m]) = DedupKey(RawAlerts[n]) <=> Identity(m) = Identity(n)
<1> DEFINE ofPage(k) == k \in DOMAIN alerts
           row(k) == page[alerts[k].row]
           item(k) == origins[k - Len(alerts)]
<1>1. ASSUME NEW k \in DOMAIN RawAlerts, ofPage(k)
      PROVE  /\ Identity(k) = <<"nagios", row(k).service, row(k).host>>
             /\ DedupKey(RawAlerts[k]) =
                  << <<"nagios">>, <<row(k).service>>, <<row(k).host>>, <<row(k).host>> >>
  <2>1. RawAlerts[k] = alerts[k]
    BY <1>1, Joined
  <2>2. /\ alerts[k].server = <<"nagios">> /\ alerts[k].alertname = <<row(k).service>>
        /\ alerts[k].host = <<row(k).host>> /\ alerts[k].app = <<row(k).host>>
    BY <1>1 DEF Identified
  <2> QED BY <1>1, <2>1, <2>2 DEF Identity, DedupKey
<1>2. ASSUME NEW k \in DOMAIN RawAlerts, ~ ofPage(k)
      PROVE  /\ Identity(k) = <<"alertmanager", Strip(AlertNamed(item(k))),
                                Strip(AppNamed(item(k))), Strip(HostNamed(item(k)))>>
             /\ DedupKey(RawAlerts[k]) = << <<"alertmanager">>, Strip(AlertNamed(item(k))),
                                Strip(AppNamed(item(k))), Strip(HostNamed(item(k)))>>
  <2>1. RawAlerts[k] = read[k - Len(alerts)] /\ k - Len(alerts) \in DOMAIN read
    BY <1>2, Joined
  <2> DEFINE i == k - Len(alerts)
  <2>2. /\ read[i].server = <<"alertmanager">>
        /\ read[i].alertname = Strip(AlertNamed(item(k)))
        /\ read[i].host = Strip(HostNamed(item(k))) /\ read[i].app = Strip(AppNamed(item(k)))
    BY <2>1 DEF Identified
  <2> QED BY <1>2, <2>1, <2>2 DEF Identity, DedupKey
<1> HIDE DEF ofPage, row, item
<1>3. "nagios" # "alertmanager"
  OBVIOUS
<1>4. ASSUME NEW k, NEW s, NEW h, ofPage(k), k \in DOMAIN RawAlerts,
             s = row(k).service, h = row(k).host
      PROVE  /\ Identity(k) = <<"nagios", s, h>>
             /\ DedupKey(RawAlerts[k]) = << <<"nagios">>, <<s>>, <<h>>, <<h>> >>
  BY <1>1, <1>4, Zenon
<1>5. ASSUME NEW k, NEW a, NEW p, NEW h, ~ ofPage(k), k \in DOMAIN RawAlerts,
             a = Strip(AlertNamed(item(k))), p = Strip(AppNamed(item(k))),
             h = Strip(HostNamed(item(k)))
      PROVE  /\ Identity(k) = <<"alertmanager", a, p, h>>
             /\ DedupKey(RawAlerts[k]) = << <<"alertmanager">>, a, p, h>>
  BY <1>2, <1>5, Zenon
<1>6. PICK s, h, t, g : /\ s = row(m).service /\ h = row(m).host
                       /\ t = row(n).service /\ g = row(n).host
  OBVIOUS
<1>7. PICK a, p, b, q, c, d :
         /\ a = Strip(AlertNamed(item(m))) /\ p = Strip(AppNamed(item(m)))
         /\ b = Strip(AlertNamed(item(n))) /\ q = Strip(AppNamed(item(n)))
         /\ c = Strip(HostNamed(item(m))) /\ d = Strip(HostNamed(item(n)))
  OBVIOUS
<1>8. CASE ofPage(m) /\ ofPage(n)
  <2>1. /\ Identity(m) = <<"nagios", s, h>> /\ Identity(n) = <<"nagios", t, g>>
        /\ DedupKey(RawAlerts[m]) = << <<"nagios">>, <<s>>, <<h>>, <<h>> >>
        /\ DedupKey(RawAlerts[n]) = << <<"nagios">>, <<t>>, <<g>>, <<g>> >>
    BY <1>4, <1>6, <1>8
  <2> QED BY <2>1
<1>9. CASE ~ ofPage(m) /\ ~ ofPage(n)
  <2>1. /\ Identity(m) = <<"alertmanager", a, p, c>> /\ Identity(n) = <<"alertmanager", b, q, d>>
        /\ DedupKey(RawAlerts[m]) = << <<"alertmanager">>, a, p, c>>
        /\ DedupKey(RawAlerts[n]) = << <<"alertmanager">>, b, q, d>>
    BY <1>5, <1>7, <1>9
  <2> QED BY <2>1
<1>10. ASSUME NEW k \in DOMAIN RawAlerts, NEW l \in DOMAIN RawAlerts, ofPage(k), ~ ofPage(l)
       PROVE  Identity(k) # Identity(l) /\ DedupKey(RawAlerts[k]) # DedupKey(RawAlerts[l])
  <2>1. PICK x, y : x = row(k).service /\ y = row(k).host
    OBVIOUS
  <2>2. PICK u, v, w : /\ u = Strip(AlertNamed(item(l))) /\ v = Strip(AppNamed(item(l)))
                       /\ w = Strip(HostNamed(item(l)))
    OBVIOUS
  <2>3. /\ Identity(k) = <<"nagios", x, y>>
        /\ DedupKey(RawAlerts[k]) = << <<"nagios">>, <<x>>, <<y>>, <<y>> >>
    BY <1>4, <1>10, <2>1
  <2>4. /\ Identity(l) = <<"alertmanager", u, v, w>>
        /\ DedupKey(RawAlerts[l]) = << <<"alertmanager">>, u, v, w>>
    BY <1>5, <1>10, <2>2
  <2>5. Identity(k)[1] # Identity(l)[1]
    BY <1>3, <2>3, <2>4
  <2>6. DedupKey(RawAlerts[k])[1][1] # DedupKey(RawAlerts[l])[1][1]
    BY <1>3, <2>3, <2>4
  <2> QED BY <2>5, <2>6, Zenon
<1>11. CASE ofPage(m) /\ ~ ofPage(n)
  BY <1>10, <1>11
<1>12. CASE ~ ofPage(m) /\ ofPage(n)
  BY <1>10, <1>12
<1> QED BY <1>8, <1>9, <1>11, <1>12

(* The first alert of a problem is the one that is kept.                   *)
LEMMA OneOfEach ==
    ASSUME Identified, NEW m \in DOMAIN RawAlerts
    PROVE  Cardinality({u \in Unique : Identity(u) = Identity(m)}) = 1
<1> DEFINE same == {n \in DOMAIN RawAlerts : Identity(n) = Identity(m)}
           u == Min(same)
<1>1. PICK N \in Nat : DOMAIN RawAlerts = 1 .. N
  BY Joined
<1>2. same \in SUBSET Nat /\ same # {}
  BY <1>1
<1>3. u \in same /\ \A n \in same : u <= n
  <2> HIDE DEF same
  <2> QED BY <1>2, MinIs
<1>4. u \in 1 .. N /\ Identity(u) = Identity(m)
  BY <1>1, <1>3
<1> HIDE DEF u
<1>5. ASSUME NEW k \in 1 .. u - 1
      PROVE  DedupKey(RawAlerts[k]) # DedupKey(RawAlerts[u])
  <2>1. k \in 1 .. N /\ ~ (u <= k)
    BY <1>1, <1>4
  <2>2. Identity(k) # Identity(u)
    BY <1>1, <1>3, <1>4, <2>1
  <2> QED BY <1>1, <1>4, <2>1, <2>2, KeyTells
<1>6. u \in Unique
  BY <1>1, <1>4, <1>5 DEF Unique
<1>7. ASSUME NEW v \in Unique, Identity(v) = Identity(m) PROVE v = u
  <2>1. v \in 1 .. N /\ v \in same /\ u <= v
    BY <1>1, <1>3, <1>7 DEF Unique
  <2>2. ASSUME u < v PROVE FALSE
    <3>1. u \in 1 .. v - 1
      BY <1>4, <2>1, <2>2
    <3>2. DedupKey(RawAlerts[u]) # DedupKey(RawAlerts[v])
      BY <1>7, <3>1 DEF Unique
    <3>3. Identity(u) = Identity(v)
      BY <1>4, <1>7
    <3> QED BY <1>1, <1>4, <2>1, <3>2, <3>3, KeyTells
  <2> QED BY <1>4, <2>1, <2>2
<1>8. {v \in Unique : Identity(v) = Identity(m)} = {u}
  BY <1>4, <1>6, <1>7
<1> QED BY <1>8, FS_Singleton

(* One message names each problem the poll found, whatever the texts of    *)
(* the rows and items that tell of it, and the incident ID is the same in  *)
(* all (_unique_by_dedup_key, Alert.dedup_key and sla_incident_id).        *)
THEOREM OnceTheorem ==
    ASSUME NoLooseIcons
    PROVE  Spec => []EachProblemOnce
<1>1. PageInv /\ ItemsInv /\ OfPoll => EachProblemOnce
  <2> SUFFICES ASSUME PageInv, ItemsInv, OfPoll,
                      \A i \in DOMAIN page : IsProblem(page[i]) => Traced(i),
                      NEW m \in DOMAIN RawAlerts
               PROVE  /\ Cardinality({u \in Unique : Identity(u) = Identity(m)}) = 1
                      /\ \A n \in DOMAIN RawAlerts :
                           Identity(n) = Identity(m) =>
                              IncidentId(RawAlerts[n]) = IncidentId(RawAlerts[m])
    BY DEF EachProblemOnce
  <2>1. PICK j \in 0 .. Len(page) : RowsInv(j) /\ AlertsInv(j)
    BY DEF PageInv
  <2>2. ParseInv /\ DOMAIN page = 1 .. Len(page) /\ Len(page) \in Nat
    BY DEF PageInv, ParseInv
  <2>3. ASSUME NEW n \in DOMAIN alerts
        PROVE  LET row == page[alerts[n].row]
               IN  /\ alerts[n].server = <<"nagios">> /\ alerts[n].alertname = <<row.service>>
                   /\ alerts[n].host = <<row.host>> /\ alerts[n].app = <<row.host>>
    <3>1. Told(alerts[n]) /\ alerts[n].row \in 1 .. j
      BY <2>1 DEF AlertsInv
    <3>2. alerts[n].row \in DOMAIN page
      BY <2>2, <3>1
    <3>3. ~ Loose(page[alerts[n].row])
      BY <2>2, <3>2, NoneLoose
    <3>4. Traced(alerts[n].row)
      BY <3>1, <3>2 DEF Told
    <3> QED BY <3>1, <3>3, <3>4 DEF Told
  <2>4. ASSUME NEW n \in DOMAIN read
        PROVE  LET item == origins[n]
               IN  /\ read[n].server = <<"alertmanager">>
                   /\ read[n].alertname = Strip(AlertNamed(item))
                   /\ read[n].host = Strip(HostNamed(item))
                   /\ read[n].app = Strip(AppNamed(item))
    <3>1. read[n] = ToAlert(origins[n])
      BY DEF ItemsInv
    <3> QED BY <3>1, ToAlertFields, Words
  <2>5. \E S : read \in Seq(S)
    <3>1. read = [n \in DOMAIN origins |-> ToAlert(origins[n])]
      BY DEF ItemsInv
    <3>2. PICK N \in Nat : DOMAIN origins = 1 .. N
      <4>1. origins \in Seq(Range(payload) \ {Junk}) \/ origins = <<>>
        BY DEF ItemsInv
      <4> QED BY <4>1
    <3> DEFINE S == {ToAlert(origins[n]) : n \in 1 .. N}
    <3>3. \A n \in 1 .. N : ToAlert(origins[n]) \in S
      OBVIOUS
    <3> HIDE DEF S
    <3>4. read \in Seq(S)
      BY <3>1, <3>2, <3>3
    <3> QED BY <3>4
  <2>6. Identified
    BY <2>1, <2>3, <2>4, <2>5 DEF Identified, AlertsInv
  <2>7. ASSUME NEW n \in DOMAIN RawAlerts, Identity(n) = Identity(m)
        PROVE  IncidentId(RawAlerts[n]) = IncidentId(RawAlerts[m])
    <3>1. PICK a, b : a = RawAlerts[n] /\ b = RawAlerts[m]
      OBVIOUS
    <3>2. DedupKey(a) = DedupKey(b)
      BY <2>6, <2>7, <3>1, KeyTells
    <3>3. /\ a.server = b.server /\ a.alertname = b.alertname
          /\ a.app = b.app /\ a.host = b.host
      BY <3>2 DEF DedupKey
    <3>4. HostValue(a) = HostValue(b)
      BY <3>3, Zenon DEF HostValue
    <3>5. IncidentId(a) = IncidentId(b)
      BY <3>3, <3>4, Zenon DEF IncidentId
    <3> QED BY <3>1, <3>5, Zenon
  <2> QED BY <2>6, <2>7, OneOfEach
<1> QED BY <1>1, PageBegins, PageNext, ItemsInit, ItemsNext, PageStays, PTL DEF Spec
=============================================================================

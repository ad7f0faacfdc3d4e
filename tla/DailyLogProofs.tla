---------------------------- MODULE DailyLogProofs ----------------------------
(***************************************************************************)
(* What the daily log promises for any number of processes, days and       *)
(* messages: whole lines in the files, each in the file of a day that its  *)
(* write saw, the day's file under its name, and in the files what the     *)
(* processes said, in the order they said it.                              *)
(***************************************************************************)
EXTENDS DailyLog, SequenceTheorems, WellFoundedInduction, TLAPS

-----------------------------------------------------------------------------
(* Lines.                                                                  *)

LEMMA LeastNatural ==
    ASSUME NEW S \in SUBSET Nat, S # {}
    PROVE  \E n \in S : \A m \in S : ~ (m < n)
<1> DEFINE R == OpToRel(<, Nat)
<1>1. IsWellFoundedOn(R, Nat)
  BY NatLessThanWellFounded
<1>2. \A x, y \in Nat : y < x => <<y, x>> \in R
  BY DEF OpToRel
<1> HIDE DEF R
<1>3. PICK n \in S : \A m \in S : ~ (<<m, n>> \in R)
  BY <1>1, WFMin
<1>4. ASSUME NEW m \in S PROVE ~ (m < n)
  BY <1>2, <1>3, Zenon
<1> QED
  BY <1>4, Zenon

LEMMA FirstEndIsFirst ==
    ASSUME NEW text \in Seq(Pieces), HasLine(text)
    PROVE  /\ FirstEnd(text) \in 1 .. Len(text)
           /\ text[FirstEnd(text)] = "end"
           /\ \A j \in 1 .. FirstEnd(text) - 1 : text[j] # "end"
<1> DEFINE S == {i \in DOMAIN text : text[i] = "end"}
<1>1. DOMAIN text = 1 .. Len(text) /\ Len(text) \in Nat
  BY LenProperties
<1>2. S \in SUBSET Nat /\ S # {}
  BY <1>1 DEF HasLine
<1>3. PICK n \in S : \A m \in S : ~ (m < n)
  BY <1>2, LeastNatural
<1>4. n \in DOMAIN text /\ text[n] = "end" /\ n \in 1 .. Len(text)
  BY <1>1, <1>3
<1>5. ASSUME NEW j \in 1 .. n - 1, text[j] = "end" PROVE FALSE
  <2>1. j \in S /\ j < n
    BY <1>1, <1>4, <1>5
  <2> QED
    BY <1>3, <2>1
<1> HIDE DEF S
<1>6. \E i \in DOMAIN text :
        text[i] = "end" /\ \A j \in 1 .. i - 1 : text[j] # "end"
  BY <1>4, <1>5
<1>7. /\ FirstEnd(text) \in DOMAIN text
      /\ text[FirstEnd(text)] = "end"
      /\ \A j \in 1 .. FirstEnd(text) - 1 : text[j] # "end"
  BY <1>6 DEF FirstEnd
<1> QED
  BY <1>1, <1>7

(* A text that ends where a line does, or is no text.                      *)
Ended(text) == text = <<>> \/ Last(text) = "end"

LEMMA Cut ==
    ASSUME NEW text \in Seq(Pieces), NEW m \in 1 .. Len(text) + 1, NEW n \in m - 1 .. Len(text)
    PROVE  /\ SubSeq(text, m, n) \in Seq(Pieces)
           /\ Len(SubSeq(text, m, n)) = n - m + 1
           /\ \A i \in 1 .. n - m + 1 : SubSeq(text, m, n)[i] = text[m + i - 1]
<1>1. /\ Len(text) \in Nat
      /\ \A i \in 1 .. Len(text) : text[i] \in Pieces
  BY LenProperties
<1>2. m \in Int /\ n \in Int /\ \A i \in m .. n : text[i] \in Pieces
  BY <1>1
<1>3. /\ SubSeq(text, m, n) \in Seq(Pieces)
      /\ Len(SubSeq(text, m, n)) = IF m <= n THEN n - m + 1 ELSE 0
      /\ \A i \in 1 .. n - m + 1 : SubSeq(text, m, n)[i] = text[m + i - 1]
  BY <1>2, SubSeqProperties
<1> QED
  BY <1>1, <1>2, <1>3

LEMMA Lines ==
    ASSUME NEW text \in Seq(Pieces), HasLine(text)
    PROVE  /\ FirstLine(text) \in Seq(Pieces)
           /\ FirstLine(text) # <<>>
           /\ Last(FirstLine(text)) = "end"
           /\ OtherLines(text) \in Seq(Pieces)
           /\ Ended(text) => Ended(OtherLines(text))
<1> DEFINE f == FirstEnd(text)
           n == Len(text)
           others == SubSeq(text, f + 1, n)
<1>1. /\ f \in 1 .. n
      /\ text[f] = "end"
      /\ n \in Nat
  BY FirstEndIsFirst, LenProperties
<1>2. /\ SubSeq(text, 1, f) \in Seq(Pieces)
      /\ Len(SubSeq(text, 1, f)) = f
      /\ SubSeq(text, 1, f)[f] = "end"
  BY <1>1, Cut
<1>3. /\ others \in Seq(Pieces)
      /\ Len(others) = n - f
      /\ n - f > 0 => others[n - f] = text[n]
  BY <1>1, Cut
<1> HIDE DEF f, n, others
<1>4. SubSeq(text, 1, f) # <<>> /\ Last(SubSeq(text, 1, f)) = "end"
  <2>1. Len(SubSeq(text, 1, f)) # 0
    BY <1>1, <1>2
  <2> QED
    BY <1>2, <2>1, EmptySeq DEF Last
<1>5. ASSUME Ended(text) PROVE Ended(others)
  <2>1. CASE n - f > 0
    <3>1. text # <<>>
      BY <1>1, <2>1 DEF n
    <3>2. text[n] = "end"
      BY <1>5, <3>1 DEF Ended, Last, n
    <3> QED
      BY <1>3, <2>1, <3>2 DEF Ended, Last
  <2>2. CASE n - f = 0
    BY <1>3, <2>2, EmptySeq DEF Ended
  <2> QED
    BY <1>1, <2>1, <2>2
<1> QED
  BY <1>2, <1>3, <1>4, <1>5 DEF FirstLine, OtherLines, f, n, others

LEMMA JoinEnded ==
    ASSUME NEW a \in Seq(Pieces), NEW b \in Seq(Pieces), Ended(b), Ended(a) \/ b # <<>>
    PROVE  a \o b \in Seq(Pieces) /\ Ended(a \o b)
<1>1. /\ a \o b \in Seq(Pieces)
      /\ Len(a \o b) = Len(a) + Len(b)
      /\ \A i \in 1 .. Len(a) + Len(b) :
            (a \o b)[i] = IF i <= Len(a) THEN a[i] ELSE b[i - Len(a)]
  BY ConcatProperties
<1>2. Len(a) \in Nat /\ Len(b) \in Nat
  BY LenProperties
<1>3. CASE b = <<>>
  BY <1>3, ConcatEmptySeq
<1>4. CASE b # <<>>
  <2>1. Len(b) > 0 /\ Last(b) = "end"
    BY <1>2, <1>4, EmptySeq DEF Ended
  <2>2. (a \o b)[Len(a) + Len(b)] = b[Len(b)]
    BY <1>1, <1>2, <2>1
  <2> QED
    BY <1>1, <2>1, <2>2 DEF Ended, Last
<1> QED
  BY <1>3, <1>4

-----------------------------------------------------------------------------
(* Files.                                                                  *)

SignedPieces == [by : Writers, piece : Pieces, nth : Nat]

(* A text of w that n pieces of what w said come before.                   *)
SignedBy(w, text, n) ==
    [i \in DOMAIN text |-> [by |-> w, piece |-> text[i], nth |-> n + i]]

Whole(file) ==
    \A i \in DOMAIN file :
        file[i].piece # "end" =>
            /\ i < Len(file)
            /\ file[i + 1].by = file[i].by
            /\ ~ (file[i].piece = "half" /\ file[i + 1].piece = "rest")

(* What the tee writes: lines, and no noise.                               *)
Passable(text) ==
    text \in Seq(Pieces) /\ text # <<>> /\ Last(text) = "end" /\ ~ IsNoise(text)

LEMMA NoPieces ==
    \E nothing \in Seq(SignedPieces) :
        nothing = <<>> /\ DOMAIN nothing = {} /\ Whole(nothing)
<1>1. PICK nothing : nothing = <<>>
  OBVIOUS
<1>2. nothing \in Seq(SignedPieces) /\ Len(nothing) = 0
  BY <1>1, EmptySeq
<1>3. DOMAIN nothing = 1 .. Len(nothing)
  BY <1>2, LenProperties
<1>4. DOMAIN nothing = {}
  BY <1>2, <1>3
<1>5. Whole(nothing)
  BY <1>4 DEF Whole
<1> QED
  BY <1>1, <1>2, <1>4, <1>5

LEMMA SignedIsWhole ==
    ASSUME NEW w \in Writers, NEW text, Passable(text), NEW past \in Nat
    PROVE  SignedBy(w, text, past) \in Seq(SignedPieces) /\ Whole(SignedBy(w, text, past))
<1> DEFINE n == Len(text)
           s == SignedBy(w, text, past)
<1>1. /\ n \in Nat
      /\ DOMAIN text = 1 .. n
      /\ \A i \in 1 .. n : text[i] \in Pieces
      /\ text[n] = "end"
      /\ \A i \in 1 .. n - 1 : ~ (text[i] = "half" /\ text[i + 1] = "rest")
  BY LenProperties DEF Passable, Last, IsNoise
<1> HIDE DEF n
<1>2. s = [i \in 1 .. n |-> [by |-> w, piece |-> text[i], nth |-> past + i]]
  BY <1>1 DEF SignedBy
<1> HIDE DEF s
<1>3. s \in Seq(SignedPieces) /\ Len(s) = n /\ DOMAIN s = 1 .. n
  <2>1. \A i \in 1 .. n : [by |-> w, piece |-> text[i], nth |-> past + i] \in SignedPieces
    BY <1>1 DEF SignedPieces
  <2>2. s \in [1 .. n -> SignedPieces]
    BY <1>2, <2>1
  <2>3. s \in Seq(SignedPieces)
    BY <1>1, <2>2, SeqDef
  <2> QED
    BY <1>1, <2>2, <2>3, LenProperties
<1>4. ASSUME NEW i \in 1 .. n, s[i].piece # "end"
      PROVE  /\ i < n
             /\ s[i + 1].by = s[i].by
             /\ ~ (s[i].piece = "half" /\ s[i + 1].piece = "rest")
  <2>1. s[i] = [by |-> w, piece |-> text[i], nth |-> past + i]
    BY <1>2
  <2>2. i < n
    BY <1>1, <1>4, <2>1
  <2>3. s[i + 1] = [by |-> w, piece |-> text[i + 1], nth |-> past + (i + 1)]
    BY <1>1, <1>2, <2>2
  <2> QED
    BY <1>1, <2>1, <2>2, <2>3
<1> QED
  BY <1>3, <1>4 DEF Whole, s

LEMMA JoinIsWhole ==
    ASSUME NEW a \in Seq(SignedPieces), NEW b \in Seq(SignedPieces), Whole(a), Whole(b)
    PROVE  a \o b \in Seq(SignedPieces) /\ Whole(a \o b)
<1> DEFINE c == a \o b
           m == Len(a)
           n == Len(b)
<1>1. /\ m \in Nat /\ DOMAIN a = 1 .. m
      /\ n \in Nat /\ DOMAIN b = 1 .. n
  BY LenProperties
<1>2. /\ c \in Seq(SignedPieces)
      /\ Len(c) = m + n
      /\ \A i \in 1 .. m + n : c[i] = IF i <= m THEN a[i] ELSE b[i - m]
  BY ConcatProperties
<1>3. DOMAIN c = 1 .. m + n
  BY <1>2, LenProperties
<1>4. \A i \in 1 .. m : a[i].piece # "end" =>
          /\ i < m
          /\ a[i + 1].by = a[i].by
          /\ ~ (a[i].piece = "half" /\ a[i + 1].piece = "rest")
  BY <1>1 DEF Whole
<1>5. \A i \in 1 .. n : b[i].piece # "end" =>
          /\ i < n
          /\ b[i + 1].by = b[i].by
          /\ ~ (b[i].piece = "half" /\ b[i + 1].piece = "rest")
  BY <1>1 DEF Whole
<1> HIDE DEF c, m, n
<1>6. ASSUME NEW i \in 1 .. m + n, c[i].piece # "end"
      PROVE  /\ i < m + n
             /\ c[i + 1].by = c[i].by
             /\ ~ (c[i].piece = "half" /\ c[i + 1].piece = "rest")
  <2>1. CASE i <= m
    <3>1. c[i] = a[i] /\ i \in 1 .. m
      BY <1>1, <1>2, <2>1
    <3>2. i < m
      BY <1>4, <1>6, <3>1
    <3>3. c[i + 1] = a[i + 1]
      BY <1>1, <1>2, <3>2
    <3> QED
      BY <1>1, <1>4, <1>6, <3>1, <3>2, <3>3
  <2>2. CASE i > m
    <3> DEFINE j == i - m
    <3>1. c[i] = b[j] /\ j \in 1 .. n
      BY <1>1, <1>2, <2>2
    <3>2. j < n
      BY <1>5, <1>6, <3>1
    <3>3. c[i + 1] = b[j + 1]
      <4>1. i + 1 \in 1 .. m + n /\ ~ (i + 1 <= m) /\ (i + 1) - m = j + 1
        BY <1>1, <2>2, <3>2
      <4>2. c[i + 1] = b[(i + 1) - m]
        BY <1>2, <4>1
      <4> QED
        BY <4>1, <4>2
    <3> QED
      BY <1>1, <1>5, <1>6, <3>1, <3>2, <3>3
  <2> QED
    BY <1>1, <2>1, <2>2
<1> QED
  BY <1>2, <1>3, <1>6 DEF Whole, c

-----------------------------------------------------------------------------
(* The inductive invariant.                                                *)

FilesOK ==
    /\ files \in [Days -> Seq(Seq(SignedPieces))]
    /\ \A d \in Days : \A g \in DOMAIN files[d] : Whole(files[d][g])

HandlesOK ==
    /\ today \in Days
    /\ linked \subseteq {d \in Days : files[d] # <<>>}
    /\ handle \in [Writers -> [day : Int, gen : Nat]]
    /\ \A w \in Writers :
          handle[w] # Closed => /\ handle[w].day \in 0 .. today
                                /\ handle[w].gen \in DOMAIN files[handle[w].day]
    /\ TodayIsFound

(* What is yet to be written of a message ends where a line does, and what *)
(* waits when nothing is does too.  What is being filed is no noise.       *)
TalkOK(w) ==
    /\ pending[w] \in Seq(Pieces)
    /\ script[w] \in Seq(Seq(Pieces))
    /\ \A i \in DOMAIN script[w] : script[w][i] # <<>>
    /\ script[w] # <<>> => Ended(Last(script[w]))
    /\ script[w] = <<>> => Ended(pending[w])
    /\ phase[w] = "writing" => script[w] # <<>>
    /\ phase[w] \in {"calm", "down", "flushing", "leaving"} => script[w] = <<>>
    /\ WholeWrites(w) => /\ Ended(pending[w])
                         /\ \A i \in DOMAIN script[w] : Ended(script[w][i])
    /\ filing[w] # "no" => HasText(w) /\ ~ Drops(w)

Filings == {"no", "opening", "appending"}

TalksOK ==
    /\ pending \in [Writers -> Seq(Pieces)]
    /\ script \in [Writers -> Seq(Seq(Pieces))]
    /\ phase \in [Writers -> Phases]
    /\ filing \in [Writers -> Filings]
    /\ \A w \in Writers : TalkOK(w)

(* The date of _ensure, and the day of the file that it opens, are days    *)
(* that the write saw.                                                     *)
DateOK(w) ==
    /\ since[w] \in 0 .. today
    /\ IF filing[w] = "opening" THEN handle[w] = Closed /\ date[w] \in since[w] .. today
                                ELSE date[w] = NoDay
    /\ filing[w] = "appending" => handle[w].day \in since[w] .. today

DatesOK ==
    /\ date \in [Writers -> Int]
    /\ since \in [Writers -> Int]
    /\ \A w \in Writers : DateOK(w)

CleanerOK ==
    /\ cleaner \in [step : {"idle", "listing", "removing"}, day : Int, at : Int,
                     stale : SUBSET Days]
    /\ cleaner.day \notin cleaner.stale

DailyInv == FilesOK /\ HandlesOK /\ TalksOK /\ DatesOK /\ CleanerOK

-----------------------------------------------------------------------------
(* One append.                                                             *)

LEMMA FilesOfDay ==
    ASSUME FilesOK, NEW d \in Days
    PROVE  /\ files[d] \in Seq(Seq(SignedPieces))
           /\ Len(files[d]) \in Nat
           /\ DOMAIN files[d] = 1 .. Len(files[d])
           /\ \A g \in 1 .. Len(files[d]) : files[d][g] \in Seq(SignedPieces)
<1>1. files[d] \in Seq(Seq(SignedPieces))
  BY DEF FilesOK
<1> QED
  BY <1>1, LenProperties, ElementOfSeq

(* The last file of a day is extended, or a file is added to the day.      *)
LEMMA ExtendDay ==
    ASSUME FilesOK, NEW d \in Days, NEW line \in Seq(SignedPieces), Whole(line),
           NEW g \in DOMAIN files[d],
           files' = [files EXCEPT ![d] = [files[d] EXCEPT ![g] = files[d][g] \o line]]
    PROVE  FilesOK' /\ \A e \in Days : DOMAIN files'[e] = DOMAIN files[e]
<1> DEFINE old == files[d]
           new == [old EXCEPT ![g] = old[g] \o line]
<1>1. /\ old \in Seq(Seq(SignedPieces))
      /\ g \in 1 .. Len(old)
      /\ DOMAIN old = 1 .. Len(old)
      /\ old[g] \in Seq(SignedPieces)
      /\ \A h \in DOMAIN old : Whole(old[h])
  BY FilesOfDay DEF FilesOK
<1>2. old[g] \o line \in Seq(SignedPieces) /\ Whole(old[g] \o line)
  BY <1>1, JoinIsWhole
<1>3. files' = [files EXCEPT ![d] = new]
  OBVIOUS
<1> HIDE DEF old
<1>4. /\ new \in Seq(Seq(SignedPieces))
      /\ DOMAIN new = DOMAIN old
  BY <1>1, <1>2, ExceptSeq
<1>5. \A h \in DOMAIN new : Whole(new[h])
  BY <1>1, <1>2, <1>4
<1> HIDE DEF new
<1>6. files \in [Days -> Seq(Seq(SignedPieces))]
  BY DEF FilesOK
<1>7. files' \in [Days -> Seq(Seq(SignedPieces))]
  BY <1>3, <1>4, <1>6
<1>8. \A e \in Days : files'[e] = IF e = d THEN new ELSE files[e]
  BY <1>3, <1>6
<1> QED
  BY <1>4, <1>5, <1>7, <1>8 DEF FilesOK, old

LEMMA AddToDay ==
    ASSUME FilesOK, NEW d \in Days, NEW line \in Seq(SignedPieces), Whole(line),
           files' = [files EXCEPT ![d] = Append(files[d], line)]
    PROVE  /\ FilesOK'
           /\ Len(files'[d]) = Len(files[d]) + 1
           /\ DOMAIN files'[d] = 1 .. Len(files[d]) + 1
           /\ \A e \in Days \ {d} : files'[e] = files[e]
<1> DEFINE old == files[d]
           new == Append(old, line)
<1>1. /\ old \in Seq(Seq(SignedPieces))
      /\ Len(old) \in Nat
      /\ DOMAIN old = 1 .. Len(old)
      /\ \A h \in DOMAIN old : Whole(old[h])
  BY FilesOfDay DEF FilesOK
<1>2. files' = [files EXCEPT ![d] = new]
  OBVIOUS
<1> HIDE DEF old
<1>3. /\ new \in Seq(Seq(SignedPieces))
      /\ Len(new) = Len(old) + 1
      /\ \A h \in 1 .. Len(old) : new[h] = old[h]
      /\ new[Len(old) + 1] = line
  BY <1>1, AppendProperties
<1> HIDE DEF new
<1>4. DOMAIN new = 1 .. Len(old) + 1
  BY <1>3, LenProperties
<1>5. ASSUME NEW h \in DOMAIN new PROVE Whole(new[h])
  <2>1. CASE h = Len(old) + 1
    BY <1>3, <2>1
  <2>2. CASE h \in 1 .. Len(old)
    BY <1>1, <1>3, <2>2
  <2> QED
    BY <1>1, <1>4, <2>1, <2>2
<1>6. files \in [Days -> Seq(Seq(SignedPieces))]
  BY DEF FilesOK
<1>7. files' \in [Days -> Seq(Seq(SignedPieces))]
  BY <1>2, <1>3, <1>6
<1>8. \A e \in Days : files'[e] = IF e = d THEN new ELSE files[e]
  BY <1>2, <1>6
<1>9. FilesOK'
  BY <1>5, <1>7, <1>8 DEF FilesOK
<1> QED
  BY <1>3, <1>4, <1>8, <1>9 DEF old

(* A text goes whole into a file that is there, and all keep their names.  *)
LEMMA TextIsAppended ==
    ASSUME FilesOK, HandlesOK, NEW w \in Writers, NEW text, Passable(text),
           NEW past \in Nat,
           handle[w] # Closed,
           files' = [files EXCEPT ![handle[w].day] =
                       [files[handle[w].day] EXCEPT ![handle[w].gen] =
                          files[handle[w].day][handle[w].gen] \o SignedBy(w, text, past)]],
           UNCHANGED <<linked, handle, today, astray>>,
           \A v \in Writers : phase[v] = "down" => phase'[v] = "down"
    PROVE  FilesOK' /\ HandlesOK'
<1>1. PICK line \in Seq(SignedPieces) : line = SignedBy(w, text, past) /\ Whole(line)
  BY SignedIsWhole
<1>2. PICK day \in Days, gen \in Nat : /\ day = handle[w].day /\ gen = handle[w].gen
                                       /\ gen \in DOMAIN files[day]
  BY DailyAssumption DEF HandlesOK, Days
<1>3. files' = [files EXCEPT ![day] = [files[day] EXCEPT ![gen] = files[day][gen] \o line]]
  BY <1>1, <1>2
<1>4. FilesOK' /\ \A e \in Days : DOMAIN files'[e] = DOMAIN files[e]
  BY <1>1, <1>2, <1>3, ExtendDay
<1>5. ASSUME NEW e \in Days
      PROVE  Len(files'[e]) = Len(files[e]) /\ (files[e] # <<>> => files'[e] # <<>>)
  <2>1. PICK old \in Seq(Seq(SignedPieces)), new \in Seq(Seq(SignedPieces)) :
           old = files[e] /\ new = files'[e] /\ DOMAIN new = DOMAIN old
    BY <1>4 DEF FilesOK
  <2>2. /\ Len(old) \in Nat /\ DOMAIN old = 1 .. Len(old)
        /\ Len(new) \in Nat /\ DOMAIN new = 1 .. Len(new)
    BY LenProperties
  <2>3. Len(new) = Len(old)
    BY <2>1, <2>2
  <2> QED
    BY <2>1, <2>3, EmptySeq
<1>6. TodayIsFound'
  BY <1>5 DEF HandlesOK, TodayIsFound
<1>7. ASSUME NEW v \in Writers, handle[v] # Closed
      PROVE  /\ handle[v].day \in 0 .. today
             /\ handle[v].gen \in DOMAIN files'[handle[v].day]
  <2>1. handle[v].day \in 0 .. today /\ handle[v].gen \in DOMAIN files[handle[v].day]
    BY <1>7 DEF HandlesOK
  <2>2. handle[v].day \in Days
    BY <2>1, DailyAssumption DEF HandlesOK, Days
  <2> QED
    BY <1>4, <2>1, <2>2
<1> QED
  BY <1>4, <1>5, <1>6, <1>7 DEF HandlesOK

(* Opening for append finds the file of the date under its name, or makes  *)
(* it, after those that had the name before.                               *)
LEMMA DayIsOpened ==
    ASSUME FilesOK, HandlesOK, NEW w \in Writers, NEW day \in 0 .. today,
           phase \in [Writers -> Phases], phase[w] # "down",
           handle' = [handle EXCEPT ![w] = Opened(day)],
           linked' = linked \cup {day},
           files' = IF day \in linked THEN files
                    ELSE [files EXCEPT ![day] = Append(files[day], <<>>)],
           UNCHANGED <<today, astray, phase>>
    PROVE  FilesOK' /\ HandlesOK' /\ handle'[w] # Closed
<1>1. /\ today \in Days /\ today \in Nat
      /\ day \in Days /\ day \in Nat
      /\ linked \subseteq {d \in Days : files[d] # <<>>}
      /\ handle \in [Writers -> [day : Int, gen : Nat]]
  BY DailyAssumption DEF HandlesOK, Days
<1>2. /\ files[day] \in Seq(Seq(SignedPieces))
      /\ Len(files[day]) \in Nat
      /\ DOMAIN files[day] = 1 .. Len(files[day])
  BY <1>1, FilesOfDay
<1>3. PICK at : at = Opened(day)
  OBVIOUS
<1>4. /\ at.day = day
      /\ at.gen = IF day \in linked THEN Len(files[day]) ELSE Len(files[day]) + 1
      /\ at \in [day : Int, gen : Nat]
      /\ at # Closed
  BY <1>1, <1>2, <1>3 DEF Opened, Closed, NoDay
<1>5. \A v \in Writers : handle'[v] = IF v = w THEN at ELSE handle[v]
  BY <1>1, <1>3
<1>6. handle' \in [Writers -> [day : Int, gen : Nat]]
  BY <1>1, <1>3, <1>4
<1>7. /\ FilesOK'
      /\ \A d \in Days : DOMAIN files[d] \subseteq DOMAIN files'[d]
      /\ \A d \in Days \ {day} : files'[d] = files[d]
      /\ at.gen \in DOMAIN files'[day]
      /\ at.gen = Len(files'[day])
      /\ files'[day] # <<>>
  <2>1. CASE day \in linked
    <3>1. files' = files
      BY <2>1
    <3>2. files[day] # <<>>
      BY <1>1, <2>1
    <3>3. Len(files[day]) # 0
      BY <1>2, <3>2, EmptySeq
    <3>4. FilesOK'
      BY <3>1 DEF FilesOK
    <3> QED
      BY <1>2, <1>4, <2>1, <3>1, <3>2, <3>3, <3>4
  <2>2. CASE day \notin linked
    <3>1. PICK nothing \in Seq(SignedPieces) : nothing = <<>> /\ Whole(nothing)
      BY NoPieces
    <3>2. files' = [files EXCEPT ![day] = Append(files[day], nothing)]
      BY <2>2, <3>1
    <3>3. /\ FilesOK'
          /\ Len(files'[day]) = Len(files[day]) + 1
          /\ DOMAIN files'[day] = 1 .. Len(files[day]) + 1
          /\ \A d \in Days \ {day} : files'[d] = files[d]
      BY <1>1, <3>1, <3>2, AddToDay
    <3>4. files'[day] # <<>>
      <4>1. Len(files'[day]) # 0
        BY <1>2, <3>3
      <4> QED
        BY <4>1, EmptySeq
    <3> QED
      BY <1>1, <1>2, <1>4, <2>2, <3>3, <3>4
  <2> QED
    BY <2>1, <2>2
<1>8. linked' \subseteq {d \in Days : files'[d] # <<>>}
  BY <1>1, <1>7
<1>9. ASSUME NEW v \in Writers, handle'[v] # Closed
      PROVE  /\ handle'[v].day \in 0 .. today
             /\ handle'[v].gen \in DOMAIN files'[handle'[v].day]
  <2>1. CASE v = w
    BY <1>4, <1>5, <1>7, <2>1
  <2>2. CASE v # w
    <3>1. /\ handle[v].day \in 0 .. today
          /\ handle[v].gen \in DOMAIN files[handle[v].day]
          /\ handle'[v] = handle[v]
      BY <1>5, <1>9, <2>2 DEF HandlesOK
    <3>2. handle[v].day \in Days
      BY <1>1, <3>1, DailyAssumption DEF Days
    <3> QED
      BY <1>7, <3>1, <3>2
  <2> QED
    BY <2>1, <2>2
<1>10. TodayIsFound'
  <2> SUFFICES ASSUME NEW v \in Writers, phase[v] # "down",
                      handle'[v].day = today, today \notin astray
               PROVE  today \in linked' /\ handle'[v].gen = Len(files'[today])
    BY DEF TodayIsFound
  <2>1. CASE v = w
    BY <1>4, <1>5, <1>7, <2>1
  <2>2. CASE v # w
    <3>1. today \in linked /\ handle'[v] = handle[v] /\ handle[v].gen = Len(files[today])
      BY <1>5, <2>2 DEF HandlesOK, TodayIsFound
    <3>2. files'[today] = files[today]
      BY <1>1, <1>7, <3>1
    <3> QED
      BY <3>1, <3>2
  <2> QED
    BY <2>1, <2>2
<1> QED
  BY <1>1, <1>4, <1>5, <1>6, <1>7, <1>8, <1>9, <1>10 DEF HandlesOK

-----------------------------------------------------------------------------
(* Writes, lines and messages.                                             *)

LEMMA MessageOK ==
    ASSUME NEW w \in Writers, NEW m \in Messages[w]
    PROVE  /\ m \in Seq(Seq(Pieces))
           /\ m # <<>>
           /\ \A i \in DOMAIN m : m[i] # <<>>
           /\ Ended(Last(m))
           /\ WholeWrites(w) => \A i \in DOMAIN m : Ended(m[i])
  BY DailyAssumption DEF Ended, WholeWrites

LEMMA FirstWrite ==
    ASSUME NEW s \in Seq(Seq(Pieces)), s # <<>>
    PROVE  /\ Head(s) \in Seq(Pieces)
           /\ Head(s) = s[1] /\ 1 \in DOMAIN s
           /\ Tail(s) \in Seq(Seq(Pieces))
           /\ \A i \in DOMAIN Tail(s) : i + 1 \in DOMAIN s /\ Tail(s)[i] = s[i + 1]
           /\ Tail(s) # <<>> => Last(Tail(s)) = Last(s)
           /\ Tail(s) = <<>> => Head(s) = Last(s)
<1>1. /\ Head(s) \in Seq(Pieces)
      /\ Tail(s) \in Seq(Seq(Pieces))
      /\ Len(Tail(s)) = Len(s) - 1
      /\ \A i \in 1 .. Len(Tail(s)) : Tail(s)[i] = s[i + 1]
  BY HeadTailProperties
<1>2. /\ Len(s) \in Nat \ {0}
      /\ DOMAIN s = 1 .. Len(s)
      /\ DOMAIN Tail(s) = 1 .. Len(Tail(s))
  BY <1>1, EmptySeq, LenProperties
<1>3. Head(s) = s[1]
  OBVIOUS
<1>4. ASSUME Tail(s) # <<>> PROVE Last(Tail(s)) = Last(s)
  <2>1. Len(Tail(s)) # 0
    BY <1>1, <1>4, EmptySeq
  <2>2. Tail(s)[Len(s) - 1] = s[(Len(s) - 1) + 1]
    BY <1>1, <1>2, <2>1
  <2>3. (Len(s) - 1) + 1 = Len(s) /\ Len(Tail(s)) = Len(s) - 1
    BY <1>1, <1>2
  <2> QED
    BY <2>2, <2>3 DEF Last
<1>5. ASSUME Tail(s) = <<>> PROVE Head(s) = Last(s)
  <2>1. Len(Tail(s)) = 0
    BY <1>5, EmptySeq
  <2>2. Len(s) = 1
    <3> DEFINE n == Len(s)
               m == Len(Tail(s))
    <3>1. n \in Nat /\ m = n - 1 /\ m = 0
      BY <1>1, <1>2, <2>1
    <3> HIDE DEF n, m
    <3>2. n = 1
      BY <3>1
    <3> QED
      BY <3>2 DEF n
  <2> QED
    BY <1>3, <2>2 DEF Last
<1> QED
  BY <1>1, <1>2, <1>3, <1>4, <1>5

(* What another process does, and what changes neither, leaves TalkOK(v).  *)
LEMMA TalkUnchanged ==
    ASSUME NEW v \in Writers, TalkOK(v),
           pending'[v] = pending[v], script'[v] = script[v], phase'[v] = phase[v],
           filing'[v] = filing[v]
    PROVE  TalkOK(v)'
  BY DEF TalkOK, WholeWrites, Ended, HasText, Drops, AtHand

(* A step of one process leaves the talk of the others as it was.          *)
LEMMA TalkOfOne ==
    ASSUME TalksOK, NEW w \in Writers,
           pending' = [pending EXCEPT ![w] = pending'[w]],
           script' = [script EXCEPT ![w] = script'[w]],
           phase' = [phase EXCEPT ![w] = phase'[w]],
           filing' = [filing EXCEPT ![w] = filing'[w]],
           phase'[w] \in Phases,
           filing'[w] \in Filings,
           TalkOK(w)'
    PROVE  TalksOK'
<1>1. ASSUME NEW v \in Writers PROVE TalkOK(v)'
  <2>1. CASE v = w
    BY <2>1
  <2>2. CASE v # w
    <3>1. /\ pending'[v] = pending[v] /\ script'[v] = script[v] /\ phase'[v] = phase[v]
          /\ filing'[v] = filing[v]
      BY <2>2 DEF TalksOK
    <3> QED
      BY <3>1, TalkUnchanged DEF TalksOK
  <2> QED
    BY <2>1, <2>2
<1>2. pending' \in [Writers -> Seq(Pieces)] /\ script' \in [Writers -> Seq(Seq(Pieces))]
  BY DEF TalksOK, TalkOK
<1>3. phase' \in [Writers -> Phases] /\ filing' \in [Writers -> Filings]
  BY DEF TalksOK
<1> QED
  BY <1>1, <1>2, <1>3 DEF TalksOK

(* What is passed on is a line of lines, and what is left ends as it did.   *)
LEMMA TextAtHand ==
    ASSUME TalksOK, NEW w \in Writers, HasText(w)
    PROVE  /\ AtHand(w) \in Seq(Pieces) /\ AtHand(w) # <<>> /\ Last(AtHand(w)) = "end"
           /\ ~ Drops(w) => Passable(AtHand(w))
           /\ Left(w) \in Seq(Pieces)
           /\ Ended(pending[w]) => Ended(Left(w))
<1>1. /\ pending[w] \in Seq(Pieces)
      /\ phase[w] \in {"flushing", "leaving"} => Ended(pending[w])
  BY DEF TalksOK, TalkOK
<1>2. CASE phase[w] = "splitting"
  <2>1. HasLine(pending[w]) /\ AtHand(w) = FirstLine(pending[w])
    BY <1>2 DEF HasText, AtHand
  <2>2. Left(w) = OtherLines(pending[w])
    BY <1>2 DEF Left
  <2> QED
    BY <1>1, <2>1, <2>2, Lines DEF Passable, Drops
<1>3. CASE phase[w] # "splitting"
  <2>1. /\ phase[w] \in {"flushing", "leaving"} /\ pending[w] # <<>>
        /\ AtHand(w) = pending[w] /\ Left(w) = <<>>
    BY <1>3 DEF HasText, AtHand, Left
  <2> QED
    BY <1>1, <2>1, EmptySeq DEF Ended, Passable, Drops
<1> QED
  BY <1>2, <1>3

LEMMA NextTalks ==
    ASSUME TalksOK, [Next]_vars
    PROVE  TalksOK'
<1>1. ASSUME UNCHANGED <<pending, script, phase, filing>> PROVE TalksOK'
  <2>1. \A v \in Writers : TalkOK(v)'
    BY <1>1, TalkUnchanged DEF TalksOK
  <2> QED
    BY <1>1, <2>1 DEF TalksOK
<1>2. /\ pending \in [Writers -> Seq(Pieces)]
      /\ script \in [Writers -> Seq(Seq(Pieces))]
      /\ phase \in [Writers -> Phases]
      /\ filing \in [Writers -> Filings]
  BY DEF TalksOK
<1>3. ASSUME NEW w \in Writers
      PROVE  /\ pending[w] \in Seq(Pieces)
             /\ script[w] \in Seq(Seq(Pieces))
             /\ \A i \in DOMAIN script[w] : script[w][i] # <<>>
             /\ script[w] # <<>> => Ended(Last(script[w]))
             /\ script[w] = <<>> => Ended(pending[w])
             /\ phase[w] = "writing" => script[w] # <<>>
             /\ phase[w] \in {"calm", "down", "flushing", "leaving"} => script[w] = <<>>
             /\ WholeWrites(w) => /\ Ended(pending[w])
                                  /\ \A i \in DOMAIN script[w] : Ended(script[w][i])
             /\ filing[w] # "no" => HasText(w) /\ ~ Drops(w)
             /\ phase[w] \in Phases /\ filing[w] \in Filings
  BY DEF TalksOK, TalkOK
<1>4. <<>> \in Seq(Pieces) /\ <<>> \in Seq(Seq(Pieces)) /\ Ended(<<>>)
  BY EmptySeq DEF Ended
<1>5. ASSUME NEW w \in Writers,
             \/ phase[w] \in {"down", "calm", "writing"}
             \/ phase[w] = "splitting" /\ ~ HasLine(pending[w])
      PROVE  filing[w] = "no"
  BY <1>3, <1>5 DEF HasText
(* A step of one process that files nothing then.                          *)
<1>6. ASSUME NEW w \in Writers, NEW p \in Seq(Pieces), NEW s \in Seq(Seq(Pieces)),
             NEW q \in Phases,
             pending' = [pending EXCEPT ![w] = p],
             script' = [script EXCEPT ![w] = s],
             phase' = [phase EXCEPT ![w] = q],
             filing' = [filing EXCEPT ![w] = "no"],
             \A i \in DOMAIN s : s[i] # <<>>,
             s # <<>> => Ended(Last(s)),
             s = <<>> => Ended(p),
             q = "writing" => s # <<>>,
             q \in {"calm", "down", "flushing", "leaving"} => s = <<>>,
             WholeWrites(w) => Ended(p) /\ \A i \in DOMAIN s : Ended(s[i])
      PROVE  TalksOK'
  <2>1. pending'[w] = p /\ script'[w] = s /\ phase'[w] = q /\ filing'[w] = "no"
    BY <1>2, <1>6
  <2>2. TalkOK(w)'
    BY <1>6, <2>1 DEF TalkOK, WholeWrites, Ended
  <2> QED
    BY <1>2, <1>6, <2>1, <2>2, TalkOfOne DEF Filings
(* Neither script nor filing changes.                                      *)
<1>7. ASSUME NEW w \in Writers, filing[w] = "no",
             NEW q \in Phases, phase' = [phase EXCEPT ![w] = q],
             UNCHANGED <<pending, script, filing>>,
             q = "writing" => script[w] # <<>>,
             q \in {"calm", "down", "flushing", "leaving"} => script[w] = <<>>
      PROVE  TalksOK'
  <2>1. /\ pending' = [pending EXCEPT ![w] = pending[w]]
        /\ script' = [script EXCEPT ![w] = script[w]]
        /\ filing' = [filing EXCEPT ![w] = "no"]
    BY <1>2, <1>7
  <2> QED
    BY <1>3, <1>6, <1>7, <2>1
<1>8. ASSUME NEW w \in Writers, Boot(w) PROVE TalksOK'
  BY <1>3, <1>5, <1>7, <1>8 DEF Boot, Goto, ensuring, Phases
<1>9. ASSUME NEW w \in Writers, NEW m \in Messages[w], Say(w, m) PROVE TalksOK'
  <2>1. /\ pending' = [pending EXCEPT ![w] = pending[w]]
        /\ script' = [script EXCEPT ![w] = m]
        /\ phase' = [phase EXCEPT ![w] = "writing"]
        /\ filing' = [filing EXCEPT ![w] = "no"]
        /\ phase[w] = "calm"
    BY <1>2, <1>5, <1>9 DEF Say, Goto, ensuring
  <2> QED
    BY <1>3, <1>6, <2>1, MessageOK DEF Phases
<1>10. ASSUME NEW w \in Writers, TeeWrite(w) PROVE TalksOK'
  <2> DEFINE h == Head(script[w])
             s == Tail(script[w])
  <2>1. /\ pending' = [pending EXCEPT ![w] = @ \o h]
        /\ script' = [script EXCEPT ![w] = s]
        /\ phase' = [phase EXCEPT ![w] = "splitting"]
        /\ filing' = [filing EXCEPT ![w] = "no"]
        /\ script[w] # <<>>
    BY <1>2, <1>3, <1>5, <1>10 DEF TeeWrite, Goto, ensuring
  <2>2. /\ h \in Seq(Pieces)
        /\ h = script[w][1] /\ 1 \in DOMAIN script[w]
        /\ s \in Seq(Seq(Pieces))
        /\ \A i \in DOMAIN s : i + 1 \in DOMAIN script[w] /\ s[i] = script[w][i + 1]
        /\ s # <<>> => Last(s) = Last(script[w])
        /\ s = <<>> => h = Last(script[w])
    BY <1>3, <2>1, FirstWrite
  <2> HIDE DEF h, s
  <2>3. h # <<>> /\ \A i \in DOMAIN s : s[i] # <<>>
    BY <1>3, <2>2
  <2>4. /\ pending[w] \o h \in Seq(Pieces)
        /\ Ended(h) => Ended(pending[w] \o h)
    BY <1>3, <2>2, <2>3, ConcatProperties, JoinEnded
  <2>5. s = <<>> => Ended(h)
    BY <1>3, <2>1, <2>2
  <2>6. WholeWrites(w) => Ended(h) /\ \A i \in DOMAIN s : Ended(s[i])
    BY <1>3, <2>2
  <2>7. s # <<>> => Ended(Last(s))
    BY <1>3, <2>1, <2>2
  <2>8. pending' = [pending EXCEPT ![w] = pending[w] \o h]
    BY <2>1
  <2> QED
    BY <1>6, <2>1, <2>2, <2>3, <2>4, <2>5, <2>6, <2>7, <2>8 DEF Phases
<1>11. ASSUME NEW w \in Writers, DropNoise(w) \/ AppendText(w) PROVE TalksOK'
  <2>1. /\ HasText(w)
        /\ pending' = [pending EXCEPT ![w] = Left(w)]
        /\ script' = [script EXCEPT ![w] = script[w]]
        /\ phase' = [phase EXCEPT ![w] = phase[w]]
        /\ filing' = [filing EXCEPT ![w] = "no"]
    BY <1>2, <1>3, <1>11 DEF DropNoise, AppendText, ensuring
  <2>2. Left(w) \in Seq(Pieces) /\ (Ended(pending[w]) => Ended(Left(w)))
    BY <2>1, TextAtHand
  <2> QED
    BY <1>3, <1>6, <2>1, <2>2
<1>12. ASSUME NEW w \in Writers, Ensure(w) \/ OpenDay(w) PROVE TalksOK'
  <2>1. PICK f \in {"opening", "appending"} : filing' = [filing EXCEPT ![w] = f]
    BY <1>12 DEF Ensure, OpenDay
  <2>2. /\ UNCHANGED <<pending, script, phase>>
        /\ HasText(w) /\ ~ Drops(w)
    BY <1>3, <1>12 DEF Ensure, OpenDay
  <2>3. /\ pending' = [pending EXCEPT ![w] = pending'[w]]
        /\ script' = [script EXCEPT ![w] = script'[w]]
        /\ phase' = [phase EXCEPT ![w] = phase'[w]]
        /\ filing' = [filing EXCEPT ![w] = filing'[w]]
        /\ phase'[w] \in Phases /\ filing'[w] \in Filings
    BY <1>2, <2>1, <2>2 DEF Filings
  <2>4. TalkOK(w)'
    BY <1>3, <2>2 DEF TalkOK, WholeWrites, Ended, HasText, Drops, AtHand
  <2> QED
    BY <2>3, <2>4, TalkOfOne
<1>13. ASSUME NEW w \in Writers, LoseLine(w) PROVE TalksOK'
  <2>1. PICK q \in {"down", "calm"} : phase' = [phase EXCEPT ![w] = q]
    BY <1>13 DEF LoseLine, Goto
  <2>2. /\ HasText(w)
        /\ WholeWrites(w)
        /\ pending' = [pending EXCEPT ![w] = Left(w)]
        /\ script' = [script EXCEPT ![w] = <<>>]
        /\ filing' = [filing EXCEPT ![w] = "no"]
    BY <1>3, <1>13 DEF LoseLine
  <2>3. Ended(Left(w)) /\ Left(w) \in Seq(Pieces)
    BY <1>3, <2>2, TextAtHand
  <2>4. q \in Phases /\ q # "writing" /\ \A i \in DOMAIN <<>> : FALSE
    BY DEF Phases
  <2> QED
    BY <1>4, <1>6, <2>1, <2>2, <2>3, <2>4
<1>14. ASSUME NEW w \in Writers, EndWrite(w) PROVE TalksOK'
  <2>1. PICK q \in Phases :
           /\ phase' = [phase EXCEPT ![w] = q]
           /\ q = "writing" => script[w] # <<>>
           /\ q \in {"calm", "down", "flushing", "leaving"} => script[w] = <<>>
    <3>1. CASE script[w] # <<>>
      <4>1. PICK q \in Phases : q = "writing"
        BY DEF Phases
      <4>2. phase' = [phase EXCEPT ![w] = q]
        BY <1>14, <3>1, <4>1 DEF EndWrite, Goto
      <4>3. q \notin {"calm", "down", "flushing", "leaving"}
        BY <4>1
      <4> QED
        BY <3>1, <4>2, <4>3
    <3>2. CASE script[w] = <<>>
      <4>1. \/ phase' = [phase EXCEPT ![w] = "calm"]
            \/ phase' = [phase EXCEPT ![w] = "flushing"]
        BY <1>14, <3>2 DEF EndWrite, Goto
      <4>2. "calm" \in Phases /\ "flushing" \in Phases
        BY DEF Phases
      <4> QED
        BY <3>2, <4>1, <4>2
    <3> QED
      BY <3>1, <3>2
  <2> QED
    BY <1>5, <1>7, <1>14, <2>1 DEF EndWrite, ensuring
<1>15. ASSUME NEW w \in Writers, Exit(w) PROVE TalksOK'
  <2>1. PICK q \in {"down", "leaving"} : phase' = [phase EXCEPT ![w] = q]
    BY <1>15 DEF Exit, Goto
  <2>2. script[w] = <<>> /\ filing[w] = "no"
    BY <1>3, <1>5, <1>15 DEF Exit
  <2> QED
    BY <1>7, <1>15, <2>1, <2>2 DEF Exit, ensuring, Phases
<1>16. ASSUME NEW w \in Writers, EndFlush(w) PROVE TalksOK'
  <2>1. script[w] = <<>> /\ filing[w] = "no"
    BY <1>3, <1>16 DEF EndFlush, HasText
  <2>2. PICK q \in {"down", "calm"} : phase' = [phase EXCEPT ![w] = q]
    BY <1>16, <2>1 DEF EndFlush, Goto
  <2> QED
    BY <1>7, <1>16, <2>1, <2>2 DEF EndFlush, ensuring, Phases
<1>17. ASSUME NEW w \in Writers, Kill(w) PROVE TalksOK'
  <2>1. /\ "down" \in Phases /\ "down" # "writing"
        /\ \A i \in DOMAIN <<>> : FALSE
    BY DEF Phases
  <2> QED
    BY <1>4, <1>6, <1>17, <2>1 DEF Kill, Goto
<1>18. CASE \/ Midnight \/ ReadDate \/ ListStale \/ EndClean
            \/ (\E d \in Days : RemoveStale(d))
            \/ UNCHANGED vars
  BY <1>1, <1>18 DEF Midnight, ReadDate, ListStale, EndClean, RemoveStale, vars, tees, ensuring
<1> QED
  BY <1>8, <1>9, <1>10, <1>11, <1>12, <1>13, <1>14, <1>15, <1>16, <1>17, <1>18 DEF Next

-----------------------------------------------------------------------------
(* Files, names and days.                                                  *)

LEMMA NextCleaner ==
    ASSUME CleanerOK, HandlesOK, [Next]_vars
    PROVE  CleanerOK'
<1>1. /\ linked \subseteq Days
      /\ today \in Int
      /\ cleaner \in [step : {"idle", "listing", "removing"}, day : Int, at : Int,
                      stale : SUBSET Days]
      /\ cleaner.day \notin cleaner.stale
  BY DEF HandlesOK, CleanerOK, Days
<1>2. CASE ReadDate
  <2>1. PICK skew \in Skews :
          cleaner' = [step |-> "listing", day |-> today + skew, at |-> today, stale |-> {}]
    BY <1>2 DEF ReadDate
  <2>2. today + skew \in Int
    BY <1>1, DailyAssumption
  <2> QED
    BY <1>1, <2>1, <2>2 DEF CleanerOK
<1>3. CASE ListStale
  <2>1. cleaner' = [cleaner EXCEPT !.step = "removing", !.stale = linked \ {cleaner.day}]
    BY <1>3 DEF ListStale, Stale
  <2> QED
    BY <1>1, <2>1 DEF CleanerOK
<1>4. CASE EndClean
  BY <1>4 DEF EndClean, CleanerOK, Idle
<1>5. ASSUME NEW d \in Days, RemoveStale(d) PROVE CleanerOK'
  <2>1. cleaner' = [cleaner EXCEPT !.stale = cleaner.stale \ {d}]
    BY <1>5 DEF RemoveStale
  <2> QED
    BY <1>1, <2>1 DEF CleanerOK
<1>6. CASE UNCHANGED cleaner
  BY <1>6 DEF CleanerOK
<1>7. ASSUME NEW w \in Writers,
             \/ Boot(w) \/ TeeWrite(w) \/ EndWrite(w) \/ Exit(w) \/ EndFlush(w)
             \/ (\E m \in Messages[w] : Say(w, m))
             \/ DropNoise(w) \/ Ensure(w) \/ OpenDay(w) \/ AppendText(w)
             \/ LoseLine(w) \/ Kill(w)
      PROVE  UNCHANGED cleaner
  BY <1>7 DEF Boot, TeeWrite, EndWrite, Exit, EndFlush, Say, DropNoise, Ensure, OpenDay,
              AppendText, LoseLine, Kill, cleaning
<1>8. CASE Midnight \/ UNCHANGED vars
  BY <1>6, <1>8 DEF Midnight, vars, cleaning
<1> QED
  BY <1>2, <1>3, <1>4, <1>5, <1>6, <1>7, <1>8 DEF Next

LEMMA WritingKept ==
    ASSUME FilesOK, HandlesOK, UNCHANGED <<files, linked, handle, astray, today>>,
           \A v \in Writers : phase[v] = "down" => phase'[v] = "down"
    PROVE  FilesOK' /\ HandlesOK'
<1>1. TodayIsFound'
  BY DEF HandlesOK, TodayIsFound
<1> QED
  BY <1>1 DEF FilesOK, HandlesOK

LEMMA HandleClosed ==
    ASSUME FilesOK, HandlesOK, NEW w \in Writers,
           UNCHANGED <<files, linked, astray, today>>,
           handle' = [handle EXCEPT ![w] = Closed],
           \A v \in Writers \ {w} : phase[v] = "down" => phase'[v] = "down"
    PROVE  FilesOK' /\ HandlesOK'
<1>1. today \in Nat /\ handle \in [Writers -> [day : Int, gen : Nat]]
  BY DailyAssumption DEF HandlesOK, Days
<1>2. \A v \in Writers : handle'[v] = IF v = w THEN Closed ELSE handle[v]
  BY <1>1
<1>3. Closed \in [day : Int, gen : Nat] /\ Closed.day # today
  BY <1>1 DEF Closed, NoDay
<1>4. handle' \in [Writers -> [day : Int, gen : Nat]]
  BY <1>1, <1>3
<1>5. TodayIsFound'
  BY <1>2, <1>3 DEF HandlesOK, TodayIsFound
<1>6. ASSUME NEW v \in Writers, handle'[v] # Closed
      PROVE  /\ handle'[v].day \in 0 .. today
             /\ handle'[v].gen \in DOMAIN files[handle'[v].day]
  BY <1>2, <1>6 DEF HandlesOK
<1> QED
  BY <1>4, <1>5, <1>6 DEF FilesOK, HandlesOK

LEMMA NextWriting ==
    ASSUME DailyInv, [Next]_vars
    PROVE  FilesOK' /\ HandlesOK'
<1>1. /\ FilesOK
      /\ HandlesOK
      /\ phase \in [Writers -> Phases]
      /\ \A w \in Writers : TalkOK(w)
  BY DEF DailyInv, TalksOK
<1>2. ASSUME NEW w \in Writers, Boot(w) PROVE FilesOK' /\ HandlesOK'
  <2>1. /\ UNCHANGED <<files, linked, astray, today>>
        /\ handle' = [handle EXCEPT ![w] = Closed]
        /\ phase' = [phase EXCEPT ![w] = "calm"]
    BY <1>2 DEF Boot, Goto, cleaning
  <2> QED
    BY <1>1, <2>1, HandleClosed
<1>3. ASSUME NEW w \in Writers,
             \/ (\E m \in Messages[w] : Say(w, m))
             \/ TeeWrite(w) \/ DropNoise(w) \/ LoseLine(w)
             \/ EndWrite(w) \/ Exit(w) \/ EndFlush(w) \/ Kill(w)
      PROVE  FilesOK' /\ HandlesOK'
  <2>1. /\ UNCHANGED <<files, linked, handle, astray, today>>
        /\ \E q : phase' = [phase EXCEPT ![w] = q] /\ (phase[w] = "down" => q = "down")
    <3>1. UNCHANGED <<files, linked, handle, astray, today>>
      BY <1>3 DEF Say, TeeWrite, DropNoise, LoseLine, EndWrite, Exit, EndFlush, Kill,
                  writing, cleaning
    <3>2. phase[w] # "down"
      BY <1>1, <1>3 DEF Say, TeeWrite, DropNoise, LoseLine, EndWrite, Exit, EndFlush, Kill,
                        TalkOK, HasText
    <3>3. \E q : phase' = [phase EXCEPT ![w] = q]
      <4>1. CASE DropNoise(w)
        <5>1. phase' = [phase EXCEPT ![w] = phase[w]]
          BY <1>1, <4>1 DEF DropNoise
        <5> QED
          BY <5>1
      <4>2. CASE ~ DropNoise(w)
        BY <1>3, <4>2 DEF Say, TeeWrite, LoseLine, EndWrite, Exit, EndFlush, Kill, Goto
      <4> QED
        BY <4>1, <4>2
    <3> QED
      BY <3>1, <3>2, <3>3
  <2>2. \A v \in Writers : phase[v] = "down" => phase'[v] = "down"
    BY <1>1, <2>1
  <2> QED
    BY <1>1, <2>1, <2>2, WritingKept
<1>4. ASSUME NEW w \in Writers, Ensure(w) PROVE FilesOK' /\ HandlesOK'
  <2>1. UNCHANGED <<files, linked, astray, today, phase>>
    BY <1>4 DEF Ensure, cleaning
  <2>2. CASE IsCurrent(w)
    <3>1. handle' = handle
      BY <1>1, <1>4, <2>2 DEF Ensure, HandlesOK
    <3> QED
      BY <1>1, <2>1, <3>1, WritingKept
  <2>3. CASE ~ IsCurrent(w)
    <3>1. handle' = [handle EXCEPT ![w] = Closed]
      BY <1>4, <2>3 DEF Ensure
    <3> QED
      BY <1>1, <2>1, <3>1, HandleClosed
  <2> QED
    BY <2>2, <2>3
<1>5. ASSUME NEW w \in Writers, OpenDay(w) PROVE FilesOK' /\ HandlesOK'
  <2>1. PICK day \in 0 .. today : day = date[w]
    BY <1>5 DEF OpenDay, DailyInv, DatesOK, DateOK, HandlesOK, Days
  <2>2. phase[w] # "down"
    BY <1>1, <1>5 DEF OpenDay, TalkOK, HasText
  <2>3. /\ handle' = [handle EXCEPT ![w] = Opened(day)]
        /\ linked' = linked \cup {day}
        /\ files' = IF day \in linked THEN files
                    ELSE [files EXCEPT ![day] = Append(files[day], <<>>)]
        /\ UNCHANGED <<today, astray, phase>>
    BY <1>5, <2>1 DEF OpenDay, cleaning
  <2> QED
    BY <1>1, <2>2, <2>3, DayIsOpened
<1>6. ASSUME NEW w \in Writers, AppendText(w) PROVE FilesOK' /\ HandlesOK'
  <2>1. /\ Passable(AtHand(w))
        /\ handle[w] # Closed
        /\ UNCHANGED <<linked, handle, today, astray, phase>>
    <3>1. HasText(w) /\ ~ Drops(w)
      BY <1>1, <1>6 DEF AppendText, TalkOK
    <3>2. Passable(AtHand(w))
      BY <3>1, TextAtHand DEF DailyInv
    <3>3. handle[w].day \in since[w] .. today /\ since[w] \in 0 .. today
      BY <1>6 DEF AppendText, DailyInv, DatesOK, DateOK
    <3> QED
      BY <1>6, <3>2, <3>3 DEF AppendText, cleaning, Closed, NoDay
  <2>2. PICK past \in Nat : past = Len(Settled(w))
    <3>1. Len(Settled(w)) \in Nat
      OBVIOUS
    <3> QED
      BY <3>1
  <2>3. files' = [files EXCEPT ![handle[w].day] =
                    [files[handle[w].day] EXCEPT ![handle[w].gen] =
                       files[handle[w].day][handle[w].gen] \o SignedBy(w, AtHand(w), past)]]
    BY <1>6, <2>2 DEF AppendText, SignedBy
  <2> QED
    BY <1>1, <2>1, <2>3, TextIsAppended
<1>7. CASE Midnight
  <2>1. /\ today' = today + 1
        /\ today < MaxDay
        /\ UNCHANGED <<files, linked, handle, phase, astray>>
    BY <1>7 DEF Midnight, writing, tees, cleaning
  <2>2. today \in Nat /\ today' \in Days
    BY <1>1, <2>1, DailyAssumption DEF HandlesOK, Days
  <2>3. ASSUME NEW v \in Writers, handle[v] # Closed
        PROVE  /\ handle[v].day \in 0 .. today'
               /\ handle[v].gen \in DOMAIN files[handle[v].day]
               /\ handle[v].day # today'
    BY <1>1, <2>1, <2>2, <2>3 DEF HandlesOK
  <2>4. \A v \in Writers : handle[v].day # today'
    BY <2>1, <2>2, <2>3 DEF Closed, NoDay
  <2>5. TodayIsFound'
    BY <2>1, <2>4 DEF TodayIsFound
  <2> QED
    BY <1>1, <2>1, <2>2, <2>3, <2>5 DEF FilesOK, HandlesOK
<1>8. ASSUME NEW d \in Days, RemoveStale(d) PROVE FilesOK' /\ HandlesOK'
  <2>1. /\ UNCHANGED <<files, handle, phase, today>>
        /\ linked' \in {linked, linked \ {d}}
        /\ d \in cleaner.stale
        /\ astray' = astray \cup {e \in linked \ linked' : Misdated /\ e = today}
    BY <1>8 DEF RemoveStale, tees
  <2>2. today \in linked /\ today \notin linked' => today \in astray'
    <3> SUFFICES ASSUME today \in linked, today \notin linked' PROVE Misdated
      BY <2>1
    <3>1. d = today
      BY <2>1
    <3>2. cleaner.day # today
      BY <2>1, <3>1 DEF DailyInv, CleanerOK
    <3> QED
      BY <3>2 DEF Misdated
  <2>3. TodayIsFound'
    BY <1>1, <2>1, <2>2 DEF HandlesOK, TodayIsFound
  <2> QED
    BY <1>1, <2>1, <2>3 DEF FilesOK, HandlesOK
<1>9. CASE ReadDate \/ ListStale \/ EndClean \/ UNCHANGED vars
  <2>1. UNCHANGED <<files, linked, handle, astray, today, phase>>
    BY <1>9 DEF ReadDate, ListStale, EndClean, vars, writing, tees, cleaning
  <2> QED
    BY <1>1, <2>1, WritingKept
<1> QED
  BY <1>2, <1>3, <1>4, <1>5, <1>6, <1>7, <1>8, <1>9 DEF Next

LEMMA NextDates ==
    ASSUME DailyInv, [Next]_vars
    PROVE  DatesOK'
<1>1. /\ today \in Nat
      /\ handle \in [Writers -> [day : Int, gen : Nat]]
      /\ date \in [Writers -> Int] /\ since \in [Writers -> Int]
      /\ filing \in [Writers -> Filings]
      /\ \A w \in Writers : DateOK(w) /\ TalkOK(w)
  BY DailyAssumption DEF DailyInv, DatesOK, TalksOK, HandlesOK, Days
<1>2. ASSUME today' \in Nat, today <= today', UNCHANGED <<date, since, filing, handle>>
      PROVE  DatesOK'
  <2>1. ASSUME NEW v \in Writers PROVE DateOK(v)'
    BY <1>1, <1>2 DEF DateOK
  <2> QED
    BY <1>1, <1>2, <2>1 DEF DatesOK
(* A step of one process.                                                  *)
<1>3. ASSUME NEW w \in Writers, today' = today,
             date' \in [Writers -> Int], since' \in [Writers -> Int],
             \A v \in Writers \ {w} : /\ date'[v] = date[v] /\ since'[v] = since[v]
                                      /\ filing'[v] = filing[v] /\ handle'[v] = handle[v],
             DateOK(w)'
      PROVE  DatesOK'
  <2>1. ASSUME NEW v \in Writers \ {w} PROVE DateOK(v)'
    BY <1>1, <1>3 DEF DateOK
  <2> QED
    BY <1>3, <2>1 DEF DatesOK
<1>4. ASSUME NEW w \in Writers
      PROVE  /\ since[w] \in 0 .. today
             /\ filing[w] # "opening" => date[w] = NoDay
             /\ filing[w] = "opening" => date[w] \in since[w] .. today
             /\ phase[w] \in {"down", "calm", "writing"} => filing[w] = "no"
  BY <1>1 DEF DateOK, TalkOK, HasText
<1>5. ASSUME NEW w \in Writers, Boot(w) PROVE DatesOK'
  <2>1. /\ handle' = [handle EXCEPT ![w] = Closed]
        /\ UNCHANGED <<today, date, since, filing>>
        /\ filing[w] = "no"
    BY <1>4, <1>5 DEF Boot, ensuring
  <2>2. DateOK(w)'
    BY <1>4, <2>1 DEF DateOK
  <2> QED
    BY <1>1, <1>3, <2>1, <2>2
<1>6. ASSUME NEW w \in Writers, TeeWrite(w) \/ Exit(w) PROVE DatesOK'
  <2>1. /\ since' = [since EXCEPT ![w] = today]
        /\ UNCHANGED <<today, date, filing, handle>>
        /\ filing[w] = "no"
    BY <1>4, <1>6 DEF TeeWrite, Exit, ensuring, writing
  <2>2. DateOK(w)'
    BY <1>1, <1>4, <2>1 DEF DateOK
  <2> QED
    BY <1>1, <1>3, <2>1, <2>2
<1>7. ASSUME NEW w \in Writers,
             \/ (\E m \in Messages[w] : Say(w, m))
             \/ DropNoise(w) \/ EndWrite(w) \/ EndFlush(w)
      PROVE  DatesOK'
  BY <1>1, <1>2, <1>7 DEF Say, DropNoise, EndWrite, EndFlush, ensuring, writing
<1>8. ASSUME NEW w \in Writers, Ensure(w) PROVE DatesOK'
  <2>1. UNCHANGED <<today, since>> /\ filing[w] = "no"
    BY <1>8 DEF Ensure
  <2>2. CASE IsCurrent(w)
    <3>1. /\ date' = [date EXCEPT ![w] = date[w]]
          /\ filing' = [filing EXCEPT ![w] = "appending"]
          /\ handle' = [handle EXCEPT ![w] = handle[w]]
      BY <1>8, <2>2 DEF Ensure
    <3>2. date[w] = NoDay /\ handle[w].day = today
      BY <1>4, <2>1, <2>2 DEF IsCurrent
    <3>3. DateOK(w)'
      BY <1>1, <1>4, <2>1, <3>1, <3>2 DEF DateOK
    <3> QED
      BY <1>1, <1>3, <2>1, <3>1, <3>3
  <2>3. CASE ~ IsCurrent(w)
    <3>1. /\ date' = [date EXCEPT ![w] = today]
          /\ filing' = [filing EXCEPT ![w] = "opening"]
          /\ handle' = [handle EXCEPT ![w] = Closed]
      BY <1>8, <2>3 DEF Ensure
    <3>2. DateOK(w)'
      BY <1>1, <1>4, <2>1, <3>1 DEF DateOK
    <3> QED
      BY <1>1, <1>3, <2>1, <3>1, <3>2
  <2> QED
    BY <2>2, <2>3
<1>9. ASSUME NEW w \in Writers, OpenDay(w) PROVE DatesOK'
  <2>1. PICK at : at = Opened(date[w])
    OBVIOUS
  <2>2. at.day \in since[w] .. today
    BY <1>4, <1>9, <2>1 DEF OpenDay, Opened
  <2>3. /\ date' = [date EXCEPT ![w] = NoDay]
        /\ filing' = [filing EXCEPT ![w] = "appending"]
        /\ handle' = [handle EXCEPT ![w] = at]
        /\ UNCHANGED <<today, since>>
    BY <1>9, <2>1 DEF OpenDay
  <2>4. DateOK(w)'
    BY <1>1, <1>4, <2>2, <2>3 DEF DateOK
  <2>5. date' \in [Writers -> Int]
    BY <1>1, <2>3 DEF NoDay
  <2> QED
    BY <1>1, <1>3, <2>3, <2>4, <2>5
<1>10. ASSUME NEW w \in Writers, AppendText(w) \/ LoseLine(w) \/ Kill(w) PROVE DatesOK'
  <2>1. \/ UNCHANGED date /\ filing[w] = "appending"
        \/ date' = [date EXCEPT ![w] = NoDay]
    BY <1>10 DEF AppendText, LoseLine, Kill
  <2>2. /\ filing' = [filing EXCEPT ![w] = "no"]
        /\ UNCHANGED <<today, since, handle>>
    BY <1>10 DEF AppendText, LoseLine, Kill, writing
  <2>3. DateOK(w)'
    BY <1>1, <1>4, <2>1, <2>2 DEF DateOK
  <2>4. date' \in [Writers -> Int]
    BY <1>1, <2>1 DEF NoDay
  <2> QED
    BY <1>1, <1>3, <2>1, <2>2, <2>3, <2>4
<1>11. CASE Midnight
  BY <1>1, <1>2, <1>11 DEF Midnight, writing, tees, ensuring
<1>12. CASE \/ ReadDate \/ ListStale \/ EndClean
            \/ (\E d \in Days : RemoveStale(d))
            \/ UNCHANGED vars
  BY <1>1, <1>2, <1>12 DEF ReadDate, ListStale, EndClean, RemoveStale, vars, writing, tees,
                           ensuring
<1> QED
  BY <1>5, <1>6, <1>7, <1>8, <1>9, <1>10, <1>11, <1>12 DEF Next

LEMMA InitDailyInv == Init => DailyInv
<1> SUFFICES ASSUME Init PROVE DailyInv
  OBVIOUS
<1>1. <<>> \in Seq(Pieces) /\ <<>> \in Seq(Seq(Pieces)) /\ <<>> \in Seq(Seq(SignedPieces))
  BY EmptySeq
<1>2. \A i \in DOMAIN <<>> : FALSE
  OBVIOUS
<1>3. FilesOK
  BY <1>1, <1>2 DEF Init, FilesOK
<1>4. HandlesOK
  BY DailyAssumption DEF Init, HandlesOK, TodayIsFound, Closed, NoDay, Days
<1>5. TalksOK
  BY <1>1, <1>2 DEF Init, TalksOK, TalkOK, Ended, Phases, Filings
<1>6. CleanerOK
  BY DEF Init, CleanerOK, Idle
<1>7. DatesOK
  BY DEF Init, DatesOK, DateOK, NoDay
<1> QED
  BY <1>3, <1>4, <1>5, <1>6, <1>7 DEF DailyInv

LEMMA DailyInvariant == Spec => []DailyInv
<1>1. Init => DailyInv
  BY InitDailyInv
<1>2. DailyInv /\ [Next]_vars => DailyInv'
  BY NextWriting, NextTalks, NextDates, NextCleaner DEF DailyInv
<1> QED
  BY <1>1, <1>2, PTL DEF Spec

-----------------------------------------------------------------------------
(* Which lines are written.                                                *)

LEMMA Joined ==
    ASSUME NEW a \in Seq(Pieces), NEW b \in Seq(Pieces)
    PROVE  /\ a \o b \in Seq(Pieces)
           /\ Len(a \o b) = Len(a) + Len(b)
           /\ Len(a) \in Nat /\ Len(b) \in Nat
           /\ DOMAIN a = 1 .. Len(a) /\ DOMAIN b = 1 .. Len(b)
           /\ DOMAIN (a \o b) = 1 .. Len(a) + Len(b)
           /\ \A i \in 1 .. Len(a) : (a \o b)[i] = a[i]
           /\ \A i \in 1 .. Len(b) : (a \o b)[Len(a) + i] = b[i]
<1>1. /\ a \o b \in Seq(Pieces)
      /\ Len(a \o b) = Len(a) + Len(b)
      /\ \A i \in 1 .. Len(a) + Len(b) :
            (a \o b)[i] = IF i <= Len(a) THEN a[i] ELSE b[i - Len(a)]
  BY ConcatProperties
<1>2. /\ Len(a) \in Nat /\ Len(b) \in Nat
      /\ DOMAIN a = 1 .. Len(a) /\ DOMAIN b = 1 .. Len(b)
      /\ DOMAIN (a \o b) = 1 .. Len(a \o b)
  BY <1>1, LenProperties
<1>3. ASSUME NEW i \in 1 .. Len(b) PROVE (a \o b)[Len(a) + i] = b[i]
  <2>1. Len(a) + i \in 1 .. Len(a) + Len(b) /\ ~ (Len(a) + i <= Len(a))
    BY <1>2
  <2>2. (Len(a) + i) - Len(a) = i
    BY <1>2
  <2> QED
    BY <1>1, <2>1, <2>2
<1>4. \A i \in 1 .. Len(a) : (a \o b)[i] = a[i]
  BY <1>1, <1>2
<1> QED
  BY <1>1, <1>2, <1>3, <1>4

LEMMA Undo ==
    ASSUME NEW a \in Seq(Pieces), NEW b \in Seq(Pieces)
    PROVE  SubSeq(a \o b, 1, Len(a \o b) - Len(b)) = a
<1> DEFINE m == Len(a)
           c == a \o b
<1>1. /\ c \in Seq(Pieces) /\ m \in Nat /\ Len(b) \in Nat
      /\ Len(c) = m + Len(b)
      /\ DOMAIN a = 1 .. m
      /\ \A i \in 1 .. m : c[i] = a[i]
  BY Joined
<1> HIDE DEF c, m
<1>2. Len(c) - Len(b) = m /\ m \in 1 - 1 .. Len(c) /\ 1 \in 1 .. Len(c) + 1
  BY <1>1
<1>3. /\ SubSeq(c, 1, m) \in Seq(Pieces)
      /\ Len(SubSeq(c, 1, m)) = m - 1 + 1
      /\ \A i \in 1 .. m - 1 + 1 : SubSeq(c, 1, m)[i] = c[1 + i - 1]
  BY <1>1, <1>2, Cut
<1>4. /\ Len(SubSeq(c, 1, m)) = m
      /\ \A i \in 1 .. m : SubSeq(c, 1, m)[i] = a[i]
  BY <1>1, <1>3
<1>5. SubSeq(c, 1, m) = a
  BY <1>3, <1>4, SeqEqual DEF m
<1> QED
  BY <1>2, <1>5 DEF c

(* From b to e, text is a line and not noise.                              *)
IsWorthy(text, b, e) ==
    /\ b \in DOMAIN text /\ e \in DOMAIN text
    /\ b = 1 \/ text[b - 1] = "end"
    /\ \A j \in b .. e : text[j] = "end" <=> j = e
    /\ \A j \in b .. e - 1 : ~ (text[j] = "half" /\ text[j + 1] = "rest")

LEMMA WorthyLines ==
    ASSUME NEW text \in Seq(Pieces)
    PROVE  Worthy(text) =
             {i \in 1 .. Len(text) : \E b, e \in 1 .. Len(text) :
                 i \in b .. e /\ IsWorthy(text, b, e)}
<1> DEFINE n == Len(text)
<1>1. n \in Nat /\ DOMAIN text = 1 .. n
  BY LenProperties
<1>2. ASSUME NEW b \in 1 .. n, NEW e \in 1 .. n, b <= e
      PROVE  IsNoise(SubSeq(text, b, e)) <=>
                \E j \in b .. e - 1 : text[j] = "half" /\ text[j + 1] = "rest"
  <2> DEFINE s == SubSeq(text, b, e)
  <2>1. /\ Len(s) = e - b + 1
        /\ \A i \in 1 .. e - b + 1 : s[i] = text[b + i - 1]
    <3>1. b \in 1 .. n + 1 /\ e \in b - 1 .. n
      BY <1>1, <1>2
    <3> QED
      BY <3>1, Cut
  <2> HIDE DEF s
  <2>2. ASSUME NEW i \in 1 .. Len(s) - 1, s[i] = "half", s[i + 1] = "rest"
        PROVE  \E j \in b .. e - 1 : text[j] = "half" /\ text[j + 1] = "rest"
    <3>1. b + i - 1 \in b .. e - 1 /\ (b + i - 1) + 1 = b + (i + 1) - 1
      BY <1>1, <2>1
    <3>2. s[i] = text[b + i - 1] /\ s[i + 1] = text[b + (i + 1) - 1]
      BY <1>1, <2>1
    <3> QED
      BY <2>2, <3>1, <3>2
  <2>3. ASSUME NEW j \in b .. e - 1, text[j] = "half", text[j + 1] = "rest"
        PROVE  \E i \in 1 .. Len(s) - 1 : s[i] = "half" /\ s[i + 1] = "rest"
    <3> DEFINE i == j - b + 1
    <3>0. b \in Int /\ e \in Int /\ j \in Int /\ b <= j /\ j <= e - 1
      BY <1>1
    <3>1. i \in 1 .. Len(s) - 1 /\ b + i - 1 = j /\ b + (i + 1) - 1 = j + 1
      <4>1. i \in 1 .. (e - b + 1) - 1
        BY <3>0
      <4>2. b + i - 1 = j /\ b + (i + 1) - 1 = j + 1
        BY <3>0
      <4> QED
        BY <2>1, <4>1, <4>2
    <3>2. s[i] = text[b + i - 1] /\ s[i + 1] = text[b + (i + 1) - 1]
      BY <1>1, <2>1, <3>1
    <3> QED
      BY <2>3, <3>1, <3>2
  <2> QED
    BY <2>2, <2>3 DEF IsNoise, s
<1>3. ASSUME NEW i \in 1 .. n, NEW b \in 1 .. n, NEW e \in 1 .. n, i \in b .. e
      PROVE  IsWorthy(text, b, e) <=>
                /\ b = 1 \/ text[b - 1] = "end"
                /\ \A j \in b .. e : text[j] = "end" <=> j = e
                /\ ~ IsNoise(SubSeq(text, b, e))
  <2>1. b <= e
    BY <1>1, <1>3
  <2> QED
    BY <1>1, <1>2, <2>1 DEF IsWorthy
<1> QED
  BY <1>1, <1>3 DEF Worthy

(* Lines are judged one by one.                                            *)
LEMMA WorthyJoined ==
    ASSUME NEW a \in Seq(Pieces), Ended(a), NEW b \in Seq(Pieces)
    PROVE  Worthy(a \o b) = Worthy(a) \cup {Len(a) + k : k \in Worthy(b)}
<1> DEFINE c == a \o b
           m == Len(a)
           n == Len(b)
<1>1. /\ c \in Seq(Pieces)
      /\ Len(c) = m + n
      /\ m \in Nat /\ n \in Nat
      /\ DOMAIN a = 1 .. m /\ DOMAIN b = 1 .. n /\ DOMAIN c = 1 .. m + n
      /\ \A i \in 1 .. m : c[i] = a[i]
      /\ \A i \in 1 .. n : c[m + i] = b[i]
  BY Joined
<1>2. m > 0 => a[m] = "end"
  BY <1>1, EmptySeq DEF Ended, Last
<1>0. /\ Worthy(a) = {i \in 1 .. m : \E x, e \in 1 .. m : i \in x .. e /\ IsWorthy(a, x, e)}
      /\ Worthy(b) = {i \in 1 .. n : \E x, e \in 1 .. n : i \in x .. e /\ IsWorthy(b, x, e)}
      /\ Worthy(c) = {i \in 1 .. m + n : \E x, e \in 1 .. m + n :
                          i \in x .. e /\ IsWorthy(c, x, e)}
  BY <1>1, WorthyLines
<1> HIDE DEF c, m, n
<1>3. ASSUME NEW x \in 1 .. m, NEW e \in 1 .. m
      PROVE  IsWorthy(c, x, e) <=> IsWorthy(a, x, e)
  <2>1. \A j \in x .. e : c[j] = a[j]
    BY <1>1
  <2>2. \A j \in x .. e - 1 : c[j] = a[j] /\ c[j + 1] = a[j + 1]
    BY <1>1
  <2>3. x # 1 => c[x - 1] = a[x - 1]
    BY <1>1
  <2>4. x \in DOMAIN c /\ e \in DOMAIN c /\ x \in DOMAIN a /\ e \in DOMAIN a
    BY <1>1
  <2> QED
    BY <2>1, <2>2, <2>3, <2>4 DEF IsWorthy
<1>4. ASSUME NEW x \in 1 .. n, NEW e \in 1 .. n
      PROVE  IsWorthy(c, m + x, m + e) <=> IsWorthy(b, x, e)
  <2>1. m + x \in DOMAIN c /\ m + e \in DOMAIN c /\ x \in DOMAIN b /\ e \in DOMAIN b
    BY <1>1
  <2>2. (m + x = 1 \/ c[(m + x) - 1] = "end") <=> (x = 1 \/ b[x - 1] = "end")
    <3>1. CASE x = 1
      <4>1. (m + x) - 1 = m /\ (m = 0 => m + x = 1)
        BY <1>1, <3>1
      <4> QED
        BY <1>1, <1>2, <3>1, <4>1
    <3>2. CASE x # 1
      <4>1. x - 1 \in 1 .. n /\ (m + x) - 1 = m + (x - 1) /\ m + x # 1
        BY <1>1, <3>2
      <4> QED
        BY <1>1, <3>2, <4>1
    <3> QED
      BY <3>1, <3>2
  <2>3. ASSUME \A j \in x .. e : b[j] = "end" <=> j = e, NEW j \in m + x .. m + e
        PROVE  c[j] = "end" <=> j = m + e
    <3>1. j - m \in x .. e /\ j - m \in 1 .. n /\ m + (j - m) = j
      BY <1>1
    <3>2. c[j] = b[j - m]
      BY <1>1, <3>1
    <3> QED
      BY <1>1, <2>3, <3>1, <3>2
  <2>4. ASSUME \A j \in m + x .. m + e : c[j] = "end" <=> j = m + e, NEW j \in x .. e
        PROVE  b[j] = "end" <=> j = e
    <3>1. m + j \in m + x .. m + e /\ j \in 1 .. n
      BY <1>1
    <3>2. c[m + j] = b[j] /\ (m + j = m + e <=> j = e)
      BY <1>1, <3>1
    <3> QED
      BY <2>4, <3>1, <3>2
  <2>5. ASSUME \A j \in x .. e - 1 : ~ (b[j] = "half" /\ b[j + 1] = "rest"),
               NEW j \in m + x .. (m + e) - 1
        PROVE  ~ (c[j] = "half" /\ c[j + 1] = "rest")
    <3>1. /\ j - m \in x .. e - 1 /\ j - m \in 1 .. n /\ m + (j - m) = j
          /\ (j - m) + 1 \in 1 .. n /\ m + ((j - m) + 1) = j + 1
      BY <1>1
    <3>2. c[j] = b[j - m] /\ c[j + 1] = b[(j - m) + 1]
      BY <1>1, <3>1
    <3> QED
      BY <2>5, <3>1, <3>2
  <2>6. ASSUME \A j \in m + x .. (m + e) - 1 : ~ (c[j] = "half" /\ c[j + 1] = "rest"),
               NEW j \in x .. e - 1
        PROVE  ~ (b[j] = "half" /\ b[j + 1] = "rest")
    <3>1. /\ m + j \in m + x .. (m + e) - 1 /\ j \in 1 .. n /\ j + 1 \in 1 .. n
          /\ m + (j + 1) = (m + j) + 1
      BY <1>1
    <3>2. c[m + j] = b[j] /\ c[(m + j) + 1] = b[j + 1]
      BY <1>1, <3>1
    <3> QED
      BY <2>6, <3>1, <3>2
  <2> QED
    BY <2>1, <2>2, <2>3, <2>4, <2>5, <2>6 DEF IsWorthy
<1>5. ASSUME NEW x \in 1 .. m + n, NEW e \in 1 .. m + n, x <= e, IsWorthy(c, x, e)
      PROVE  (x \in 1 .. m /\ e \in 1 .. m) \/ (x > m /\ e > m)
  <2> SUFFICES ASSUME x <= m, m < e PROVE FALSE
    BY <1>1, <1>5
  <2>1. m \in x .. e /\ m > 0 /\ m # e /\ m \in 1 .. m
    BY <1>1
  <2>2. c[m] = "end"
    BY <1>1, <1>2, <2>1
  <2> QED
    BY <1>5, <2>1, <2>2 DEF IsWorthy
<1>6. ASSUME NEW i \in Worthy(c)
      PROVE  i \in Worthy(a) \cup {m + k : k \in Worthy(b)}
  <2>1. PICK x \in 1 .. m + n, e \in 1 .. m + n : i \in x .. e /\ IsWorthy(c, x, e)
    BY <1>0
  <2>2. x <= e /\ i \in Nat
    BY <1>1, <2>1
  <2>3. CASE x \in 1 .. m /\ e \in 1 .. m
    <3>1. i \in 1 .. m
      BY <1>1, <2>1, <2>3
    <3> QED
      BY <1>3, <1>0, <2>1, <2>3, <3>1
  <2>4. CASE x > m /\ e > m
    <3>1. /\ x - m \in 1 .. n /\ e - m \in 1 .. n /\ i - m \in 1 .. n
          /\ m + (x - m) = x /\ m + (e - m) = e /\ m + (i - m) = i
          /\ i - m \in x - m .. e - m
      BY <1>1, <2>1, <2>2, <2>4
    <3>2. IsWorthy(b, x - m, e - m)
      BY <1>4, <2>1, <3>1
    <3>3. i - m \in Worthy(b)
      BY <1>0, <3>1, <3>2
    <3> QED
      BY <3>1, <3>3
  <2> QED
    BY <1>5, <2>1, <2>2, <2>3, <2>4
<1>7. ASSUME NEW i \in Worthy(a) PROVE i \in Worthy(c)
  <2>1. PICK x \in 1 .. m, e \in 1 .. m : i \in x .. e /\ IsWorthy(a, x, e)
    BY <1>0
  <2>2. IsWorthy(c, x, e) /\ i \in 1 .. m
    BY <1>3, <1>0, <2>1
  <2>3. x \in 1 .. m + n /\ e \in 1 .. m + n /\ i \in 1 .. m + n
    BY <1>1, <2>2
  <2> QED
    BY <1>0, <2>1, <2>2, <2>3
<1>8. ASSUME NEW k \in Worthy(b) PROVE m + k \in Worthy(c)
  <2>1. PICK x \in 1 .. n, e \in 1 .. n : k \in x .. e /\ IsWorthy(b, x, e)
    BY <1>0
  <2>2. IsWorthy(c, m + x, m + e) /\ k \in 1 .. n
    BY <1>4, <1>0, <2>1
  <2>3. /\ m + x \in 1 .. m + n /\ m + e \in 1 .. m + n /\ m + k \in 1 .. m + n
        /\ m + k \in m + x .. m + e
    BY <1>1, <2>1, <2>2
  <2> QED
    BY <1>0, <2>2, <2>3
<1> QED
  BY <1>6, <1>7, <1>8 DEF c, m

(* A line that is noise is not written.                                    *)
LEMMA NoiseIsWorthless ==
    ASSUME NEW line \in Seq(Pieces), IsNoise(line),
           \A j \in 1 .. Len(line) : line[j] = "end" => j = Len(line)
    PROVE  Worthy(line) = {}
<1> DEFINE n == Len(line)
<1>1. n \in Nat /\ DOMAIN line = 1 .. n
  BY LenProperties
<1>2. PICK k \in 1 .. n - 1 : line[k] = "half" /\ line[k + 1] = "rest"
  BY DEF IsNoise
<1> SUFFICES ASSUME NEW i \in Worthy(line) PROVE FALSE
  OBVIOUS
<1>3. PICK b \in 1 .. n, e \in 1 .. n : i \in b .. e /\ IsWorthy(line, b, e)
  BY WorthyLines
<1> HIDE DEF n
<1>4. b <= e
  BY <1>1, <1>3
<1>5. line[e] = "end" /\ e \in b .. e
  BY <1>1, <1>3, <1>4 DEF IsWorthy
<1>6. e = n
  BY <1>5 DEF n
<1>7. b = 1
  <2> SUFFICES ASSUME b # 1 PROVE FALSE
    OBVIOUS
  <2>1. line[b - 1] = "end" /\ b - 1 \in 1 .. n /\ b - 1 # n
    BY <1>1, <1>3 DEF IsWorthy
  <2> QED
    BY <2>1 DEF n
<1> QED
  BY <1>1, <1>2, <1>3, <1>6, <1>7 DEF IsWorthy

(* Lines none of which is noise are written whole.                         *)
LEMMA PassableIsWorthy ==
    ASSUME NEW text, Passable(text)
    PROVE  Worthy(text) = 1 .. Len(text)
<1> DEFINE n == Len(text)
<1>1. /\ text \in Seq(Pieces)
      /\ n \in Nat /\ n > 0
      /\ DOMAIN text = 1 .. n
      /\ text[n] = "end"
      /\ \A j \in 1 .. n - 1 : ~ (text[j] = "half" /\ text[j + 1] = "rest")
  BY LenProperties, EmptySeq DEF Passable, Last, IsNoise
<1>0. Worthy(text) = {i \in 1 .. n : \E b, e \in 1 .. n :
                          i \in b .. e /\ IsWorthy(text, b, e)}
  BY <1>1, WorthyLines
<1> HIDE DEF n
<1> SUFFICES ASSUME NEW i \in 1 .. n
             PROVE  \E b, e \in 1 .. n : i \in b .. e /\ IsWorthy(text, b, e)
  BY <1>0 DEF n
<1> DEFINE Ends == {j \in i .. n : text[j] = "end"}
           Gaps == {k \in Nat : k < i /\ (k + 1 = i \/ text[(i - k) - 1] = "end")}
<1>2. Ends \in SUBSET Nat /\ n \in Ends
  BY <1>1
<1>3. Gaps \in SUBSET Nat /\ i - 1 \in Gaps
  BY <1>1
<1>4. PICK e \in Ends : \A j \in Ends : ~ (j < e)
  BY <1>2, LeastNatural
<1>5. PICK k \in Gaps : \A j \in Gaps : ~ (j < k)
  BY <1>3, LeastNatural
<1> DEFINE b == i - k
<1>6. /\ b \in 1 .. n /\ e \in 1 .. n /\ i \in b .. e /\ text[e] = "end"
      /\ b = 1 \/ text[b - 1] = "end"
  BY <1>1, <1>4, <1>5
<1>7. ASSUME NEW j \in b .. e, text[j] = "end", j # e PROVE FALSE
  <2>1. CASE j >= i
    <3>1. j \in Ends /\ j < e
      BY <1>1, <1>6, <1>7, <2>1
    <3> QED
      BY <1>4, <3>1
  <2>2. CASE j < i
    <3>1. (i - (i - (j + 1))) - 1 = j /\ i - (j + 1) \in Nat /\ i - (j + 1) < i
      BY <1>1, <1>6, <2>2
    <3>2. i - (j + 1) \in Gaps
      BY <1>7, <3>1
    <3>3. i - (j + 1) < k
      BY <1>1, <1>5, <1>6, <2>2
    <3> QED
      BY <1>5, <3>2, <3>3
  <2> QED
    BY <1>1, <1>6, <2>1, <2>2
<1>8. IsWorthy(text, b, e)
  <2>1. \A j \in b .. e : text[j] = "end" <=> j = e
    BY <1>6, <1>7
  <2>2. \A j \in b .. e - 1 : j \in 1 .. n - 1
    BY <1>1, <1>6
  <2> QED
    BY <1>1, <1>6, <2>1, <2>2 DEF IsWorthy
<1> QED
  BY <1>6, <1>8

-----------------------------------------------------------------------------
(* Where the pieces are, in files F.                                       *)

AllFiles == [Days -> Seq(Seq(SignedPieces))]

SpotsOf(F) ==
    UNION {UNION {{<<d, g, i>> : i \in DOMAIN F[d][g]} : g \in DOMAIN F[d]} : d \in Days}

PieceAt(F, s) == F[s[1]][s[2]][s[3]]

OwnIn(F, w) == {s \in SpotsOf(F) : PieceAt(F, s).by = w}

LEMMA SpotsOfDays ==
    ASSUME NEW F \in AllFiles
    PROVE  /\ \A s \in SpotsOf(F) : /\ s = <<s[1], s[2], s[3]>>
                                    /\ s[1] \in Days
                                    /\ s[2] \in 1 .. Len(F[s[1]])
                                    /\ s[3] \in DOMAIN F[s[1]][s[2]]
                                    /\ s[1] \in Int /\ s[2] \in Nat /\ s[3] \in Nat
           /\ \A d \in Days : \A g \in DOMAIN F[d] : \A i \in DOMAIN F[d][g] :
                 <<d, g, i>> \in SpotsOf(F)
<1>1. ASSUME NEW s \in SpotsOf(F)
      PROVE  /\ s = <<s[1], s[2], s[3]>>
             /\ s[1] \in Days
             /\ s[2] \in 1 .. Len(F[s[1]])
             /\ s[3] \in DOMAIN F[s[1]][s[2]]
             /\ s[1] \in Int /\ s[2] \in Nat /\ s[3] \in Nat
  <2>1. PICK d \in Days : \E g \in DOMAIN F[d] : \E i \in DOMAIN F[d][g] : s = <<d, g, i>>
    BY DEF SpotsOf
  <2>2. PICK g \in DOMAIN F[d] : \E i \in DOMAIN F[d][g] : s = <<d, g, i>>
    BY <2>1
  <2>3. PICK i \in DOMAIN F[d][g] : s = <<d, g, i>>
    BY <2>2
  <2>4. F[d] \in Seq(Seq(SignedPieces))
    BY DEF AllFiles
  <2>5. g \in 1 .. Len(F[d]) /\ F[d][g] \in Seq(SignedPieces)
    BY <2>2, <2>4, LenProperties, ElementOfSeq
  <2>6. i \in 1 .. Len(F[d][g]) /\ d \in Int
    BY <2>3, <2>5, LenProperties DEF Days
  <2> QED
    BY <2>1, <2>2, <2>3, <2>5, <2>6
<1>2. ASSUME NEW d \in Days, NEW g \in DOMAIN F[d], NEW i \in DOMAIN F[d][g]
      PROVE  <<d, g, i>> \in SpotsOf(F)
  BY DEF SpotsOf
<1> QED
  BY <1>1, <1>2

(* G is F with n more pieces, line, after the m that file g of the day has. *)
GoesAfter(F, G, day, g, m, line, n) ==
    /\ \A s \in SpotsOf(F) : s \in SpotsOf(G) /\ PieceAt(G, s) = PieceAt(F, s)
    /\ \A s \in SpotsOf(G) :
          s \in SpotsOf(F) \/ \E k \in 1 .. n : s = <<day, g, m + k>>
    /\ \A k \in 1 .. n : \A s :
          s = <<day, g, m + k>> => s \in SpotsOf(G) /\ PieceAt(G, s) = line[k]
    /\ \A s \in SpotsOf(F) : s[1] = day /\ s[2] = g => s[3] <= m

(* F with the line at the end of file g of the day.                        *)
Filed(F, day, g, line) ==
    [F EXCEPT ![day] = [F[day] EXCEPT ![g] = F[day][g] \o line]]

LEMMA LineGoesAfter ==
    ASSUME NEW F \in AllFiles, NEW G \in AllFiles, NEW day \in Days, NEW g \in Nat,
           g \in DOMAIN F[day],
           NEW line \in Seq(SignedPieces),
           G = Filed(F, day, g, line)
    PROVE  \E m \in Nat : GoesAfter(F, G, day, g, m, line, Len(line))
<1>1. PICK old : old = F[day]
  OBVIOUS
<1>2. PICK new : new = [old EXCEPT ![g] = old[g] \o line]
  OBVIOUS
<1>3. /\ old \in Seq(Seq(SignedPieces))
      /\ Len(old) \in Nat /\ DOMAIN old = 1 .. Len(old)
      /\ \A h \in 1 .. Len(old) : old[h] \in Seq(SignedPieces)
      /\ Len(line) \in Nat /\ DOMAIN line = 1 .. Len(line)
  <2>1. old \in Seq(Seq(SignedPieces))
    BY <1>1 DEF AllFiles
  <2> QED
    BY <2>1, LenProperties, ElementOfSeq
<1>4. PICK f : f = old[g] /\ g \in DOMAIN old
  BY <1>1
<1>5. f \in Seq(SignedPieces)
  BY <1>3, <1>4
<1>6. PICK m \in Nat : m = Len(f)
  BY <1>5, LenProperties
<1>7. DOMAIN f = 1 .. m
  BY <1>5, <1>6, LenProperties
<1>8. /\ DOMAIN new = DOMAIN old
      /\ new[g] = f \o line
      /\ \A h \in DOMAIN old : h # g => new[h] = old[h]
  BY <1>2, <1>3, <1>4
<1>9. /\ DOMAIN (f \o line) = 1 .. m + Len(line)
      /\ \A i \in 1 .. m : (f \o line)[i] = f[i]
      /\ \A k \in 1 .. Len(line) : (f \o line)[m + k] = line[k]
  <2>1. /\ f \o line \in Seq(SignedPieces)
        /\ Len(f \o line) = m + Len(line)
        /\ \A i \in 1 .. m + Len(line) :
              (f \o line)[i] = IF i <= m THEN f[i] ELSE line[i - m]
    BY <1>5, <1>6, ConcatProperties
  <2>2. DOMAIN (f \o line) = 1 .. m + Len(line)
    BY <2>1, LenProperties
  <2>3. ASSUME NEW k \in 1 .. Len(line) PROVE (f \o line)[m + k] = line[k]
    <3>1. m + k \in 1 .. m + Len(line) /\ ~ (m + k <= m) /\ (m + k) - m = k
      BY <1>3
    <3> QED
      BY <2>1, <3>1
  <2>4. \A i \in 1 .. m : (f \o line)[i] = f[i]
    BY <1>3, <2>1
  <2> QED
    BY <2>2, <2>3, <2>4
<1>10. \A d \in Days : G[d] = IF d = day THEN new ELSE F[d]
  BY <1>1, <1>2 DEF AllFiles, Filed
<1>11. ASSUME NEW s \in SpotsOf(F)
       PROVE  s \in SpotsOf(G) /\ PieceAt(G, s) = PieceAt(F, s)
  <2>1. PICK d \in Days, h \in Nat, i \in Nat :
           s = <<d, h, i>> /\ h \in DOMAIN F[d] /\ i \in DOMAIN F[d][h]
    <3>1. F[s[1]] \in Seq(Seq(SignedPieces))
      BY SpotsOfDays DEF AllFiles
    <3> QED
      BY <3>1, SpotsOfDays, LenProperties
  <2>2. h \in DOMAIN G[d] /\ i \in DOMAIN G[d][h] /\ G[d][h][i] = F[d][h][i]
    <3>1. CASE d # day
      BY <1>10, <2>1, <3>1
    <3>2. CASE d = day /\ h # g
      BY <1>1, <1>8, <1>10, <2>1, <3>2
    <3>3. CASE d = day /\ h = g
      <4>1. f = F[d][h] /\ i \in 1 .. m
        BY <1>1, <1>4, <1>7, <2>1, <3>3
      <4>2. i \in 1 .. m + Len(line)
        BY <1>3, <4>1
      <4>3. G[d] = new /\ new[h] = f \o line /\ h \in DOMAIN new
        BY <1>4, <1>8, <1>10, <3>3
      <4>4. i \in DOMAIN (f \o line) /\ (f \o line)[i] = f[i]
        BY <1>9, <4>1, <4>2
      <4> QED
        BY <4>1, <4>3, <4>4
    <3> QED
      BY <3>1, <3>2, <3>3
  <2> QED
    BY <2>1, <2>2, SpotsOfDays DEF PieceAt
<1>12. ASSUME NEW s \in SpotsOf(G), s \notin SpotsOf(F)
       PROVE  \E k \in 1 .. Len(line) : s = <<day, g, m + k>>
  <2>1. PICK d \in Days, h \in Nat, i \in Nat :
           s = <<d, h, i>> /\ h \in DOMAIN G[d] /\ i \in DOMAIN G[d][h]
    <3>1. /\ s = <<s[1], s[2], s[3]>>
          /\ s[1] \in Days
          /\ s[2] \in 1 .. Len(G[s[1]])
          /\ s[3] \in DOMAIN G[s[1]][s[2]]
          /\ s[2] \in Nat /\ s[3] \in Nat
      BY SpotsOfDays
    <3>2. G[s[1]] \in Seq(Seq(SignedPieces))
      BY <3>1 DEF AllFiles
    <3>3. s[2] \in DOMAIN G[s[1]]
      BY <3>1, <3>2, LenProperties
    <3> QED
      BY <3>1, <3>3
  <2>2. ~ (h \in DOMAIN F[d] /\ i \in DOMAIN F[d][h])
    BY <1>12, <2>1, SpotsOfDays
  <2>3. d = day
    BY <1>10, <2>1, <2>2
  <2>4. h = g
    BY <1>1, <1>8, <1>10, <2>1, <2>2, <2>3
  <2>5. i \in 1 .. m + Len(line)
    BY <1>8, <1>9, <1>10, <2>1, <2>3, <2>4
  <2>6. i \notin 1 .. m
    BY <1>1, <1>4, <1>7, <2>2, <2>3, <2>4
  <2>7. i - m \in 1 .. Len(line) /\ i = m + (i - m)
    BY <1>3, <2>5, <2>6
  <2> QED
    BY <2>1, <2>3, <2>4, <2>7
<1>13. ASSUME NEW k \in 1 .. Len(line), NEW s, s = <<day, g, m + k>>
       PROVE  s \in SpotsOf(G) /\ PieceAt(G, s) = line[k]
  <2>1. g \in DOMAIN G[day] /\ G[day][g] = f \o line
    <3>1. G[day] = new
      BY <1>10
    <3> QED
      BY <1>4, <1>8, <3>1
  <2>2. m + k \in DOMAIN (f \o line) /\ (f \o line)[m + k] = line[k]
    BY <1>3, <1>9
  <2>3. <<day, g, m + k>> \in SpotsOf(G)
    BY <2>1, <2>2, SpotsOfDays
  <2> QED
    BY <1>13, <2>1, <2>2, <2>3 DEF PieceAt
<1>14. ASSUME NEW s \in SpotsOf(F), s[1] = day, s[2] = g PROVE s[3] <= m
  <2>1. s[2] \in DOMAIN old /\ s[3] \in DOMAIN F[day][g]
    BY <1>1, <1>3, <1>14, SpotsOfDays
  <2>2. s[3] \in 1 .. m
    BY <1>1, <1>4, <1>7, <1>14, <2>1
  <2> QED
    BY <2>2
<1> QED
  BY <1>11, <1>12, <1>13, <1>14 DEF GoesAfter

(* In files F, the pieces of w are the worthy pieces of what it settled,   *)
(* all of them, and in the order it said them.                             *)
Follows(F, w, settled) ==
    /\ \A s \in OwnIn(F, w) : /\ PieceAt(F, s).nth \in Worthy(settled)
                              /\ PieceAt(F, s).piece = settled[PieceAt(F, s).nth]
    /\ \A n \in Worthy(settled) : \E s \in OwnIn(F, w) : PieceAt(F, s).nth = n
    /\ \A s, t \in OwnIn(F, w) : Before(s, t) => PieceAt(F, s).nth < PieceAt(F, t).nth

(* A line that goes after all w wrote is the next of w.                    *)
LEMMA LineFollows ==
    ASSUME NEW F \in AllFiles, NEW G \in AllFiles, NEW w \in Writers, NEW settled \in Seq(Pieces),
           Ended(settled), Follows(F, w, settled), NEW text, Passable(text),
           NEW day \in Days, NEW g \in Nat, NEW m \in Nat,
           GoesAfter(F, G, day, g, m, SignedBy(w, text, Len(settled)), Len(text)),
           \A s \in OwnIn(F, w) : s[1] <= day /\ (s[1] = day => s[2] <= g)
    PROVE  /\ Follows(G, w, settled \o text)
           /\ \A s \in OwnIn(G, w) : s[1] = day => s[2] <= g
<1>1. PICK n \in Nat, l \in Nat :
         /\ n = Len(text) /\ l = Len(settled)
         /\ text \in Seq(Pieces) /\ DOMAIN text = 1 .. n
  BY LenProperties DEF Passable
<1>2. PICK line : /\ line = SignedBy(w, text, Len(settled))
                  /\ GoesAfter(F, G, day, g, m, line, n)
  BY <1>1
<1>3. \A k \in 1 .. n : line[k] = [by |-> w, piece |-> text[k], nth |-> l + k]
  BY <1>1, <1>2 DEF SignedBy
<1>4. ASSUME NEW s \in OwnIn(F, w)
      PROVE  /\ s \in SpotsOf(F) /\ s \in OwnIn(G, w)
             /\ PieceAt(G, s) = PieceAt(F, s)
             /\ s[1] \in Int /\ s[2] \in Nat /\ s[3] \in Nat
             /\ s[1] <= day
             /\ s[1] = day => s[2] <= g
             /\ s[1] = day /\ s[2] = g => s[3] <= m
  <2>1. s \in SpotsOf(F) /\ PieceAt(F, s).by = w
    BY DEF OwnIn
  <2>2. /\ s \in SpotsOf(G) /\ PieceAt(G, s) = PieceAt(F, s)
        /\ s[1] = day /\ s[2] = g => s[3] <= m
    BY <1>2, <2>1 DEF GoesAfter
  <2> QED
    BY <2>1, <2>2, SpotsOfDays DEF OwnIn
<1>5. ASSUME NEW k \in 1 .. n, NEW s, s = <<day, g, m + k>>
      PROVE  /\ s \in OwnIn(G, w)
             /\ PieceAt(G, s).nth = l + k /\ PieceAt(G, s).piece = text[k]
  <2>1. s \in SpotsOf(G) /\ PieceAt(G, s) = line[k]
    BY <1>2, <1>5 DEF GoesAfter
  <2>2. line[k] = [by |-> w, piece |-> text[k], nth |-> l + k]
    BY <1>3
  <2>3. /\ PieceAt(G, s).by = w
        /\ PieceAt(G, s).nth = l + k /\ PieceAt(G, s).piece = text[k]
    BY <2>1, <2>2
  <2> QED
    BY <2>1, <2>3 DEF OwnIn
<1>6. ASSUME NEW s \in OwnIn(G, w)
      PROVE  s \in OwnIn(F, w) \/ \E k \in 1 .. n : s = <<day, g, m + k>>
  <2>1. s \in SpotsOf(G) /\ PieceAt(G, s).by = w
    BY DEF OwnIn
  <2>2. s \in SpotsOf(F) => PieceAt(G, s) = PieceAt(F, s)
    BY <1>2 DEF GoesAfter
  <2>3. s \in SpotsOf(F) \/ \E k \in 1 .. n : s = <<day, g, m + k>>
    BY <1>2, <2>1 DEF GoesAfter
  <2> QED
    BY <2>1, <2>2, <2>3 DEF OwnIn
<1>7. PICK all : all = settled \o text
  OBVIOUS
<1>8. Worthy(all) = Worthy(settled) \cup {l + k : k \in 1 .. n}
  <2>1. Worthy(all) = Worthy(settled) \cup {Len(settled) + k : k \in Worthy(text)}
    BY <1>1, <1>7, WorthyJoined
  <2>2. Worthy(text) = 1 .. n
    BY <1>1, PassableIsWorthy
  <2> QED
    BY <1>1, <2>1, <2>2
<1>9. Worthy(settled) \subseteq 1 .. l
  BY <1>1, WorthyLines
<1>10. /\ \A i \in 1 .. l : all[i] = settled[i]
       /\ \A k \in 1 .. n : all[l + k] = text[k]
  BY <1>1, <1>7, Joined
<1>11. ASSUME NEW s \in OwnIn(F, w)
       PROVE  PieceAt(F, s).nth \in 1 .. l /\ PieceAt(F, s).nth \in Worthy(settled)
  BY <1>9 DEF Follows
<1>12. ASSUME NEW s \in OwnIn(G, w)
       PROVE  /\ PieceAt(G, s).nth \in Worthy(all)
              /\ PieceAt(G, s).piece = all[PieceAt(G, s).nth]
              /\ s[1] = day => s[2] <= g
  <2>1. CASE s \in OwnIn(F, w)
    <3>1. PieceAt(F, s).piece = settled[PieceAt(F, s).nth]
      BY <2>1 DEF Follows
    <3> QED
      BY <1>4, <1>8, <1>10, <1>11, <2>1, <3>1
  <2>2. ASSUME NEW k \in 1 .. n, s = <<day, g, m + k>>
        PROVE  /\ PieceAt(G, s).nth \in Worthy(all)
               /\ PieceAt(G, s).piece = all[PieceAt(G, s).nth]
               /\ s[1] = day => s[2] <= g
    <3>1. PieceAt(G, s).nth = l + k /\ PieceAt(G, s).piece = text[k]
      BY <1>5, <2>2
    <3>2. s[2] <= g
      BY <2>2
    <3>3. l + k \in Worthy(all) /\ all[l + k] = text[k]
      BY <1>8, <1>10
    <3> QED
      BY <3>1, <3>2, <3>3
  <2> QED
    BY <1>6, <2>1, <2>2
<1>13. ASSUME NEW i \in Worthy(all) PROVE \E s \in OwnIn(G, w) : PieceAt(G, s).nth = i
  <2>1. CASE i \in Worthy(settled)
    <3>1. PICK s \in OwnIn(F, w) : PieceAt(F, s).nth = i
      BY <2>1 DEF Follows
    <3> QED
      BY <1>4, <3>1
  <2>2. ASSUME NEW k \in 1 .. n, i = l + k
        PROVE  \E s \in OwnIn(G, w) : PieceAt(G, s).nth = i
    <3>1. PICK s : s = <<day, g, m + k>>
      OBVIOUS
    <3> QED
      BY <1>5, <2>2, <3>1
  <2> QED
    BY <1>8, <2>1, <2>2
<1>14. ASSUME NEW s \in OwnIn(G, w), NEW t \in OwnIn(G, w), Before(s, t)
       PROVE  PieceAt(G, s).nth < PieceAt(G, t).nth
  <2>1. CASE s \in OwnIn(F, w) /\ t \in OwnIn(F, w)
    <3>1. PieceAt(F, s).nth < PieceAt(F, t).nth
      BY <1>14, <2>1 DEF Follows
    <3> QED
      BY <1>4, <2>1, <3>1
  <2>2. ASSUME s \in OwnIn(F, w), NEW k \in 1 .. n, t = <<day, g, m + k>>
        PROVE  PieceAt(G, s).nth < PieceAt(G, t).nth
    <3>1. PieceAt(G, s).nth \in 1 .. l /\ PieceAt(G, t).nth = l + k
      BY <1>4, <1>5, <1>11, <2>2
    <3> QED
      BY <3>1
  <2>3. ASSUME t \in OwnIn(F, w), NEW k \in 1 .. n, s = <<day, g, m + k>>
        PROVE  FALSE
    <3>1. s[1] = day /\ s[2] = g /\ s[3] = m + k /\ day \in Int
      BY <2>3 DEF Days
    <3> QED
      BY <1>4, <1>14, <2>3, <3>1 DEF Before
  <2>4. ASSUME NEW j \in 1 .. n, NEW k \in 1 .. n,
               s = <<day, g, m + j>>, t = <<day, g, m + k>>
        PROVE  PieceAt(G, s).nth < PieceAt(G, t).nth
    <3>1. /\ s[1] = day /\ s[2] = g /\ s[3] = m + j
          /\ t[1] = day /\ t[2] = g /\ t[3] = m + k
          /\ day \in Int
      BY <2>4 DEF Days
    <3>2. j < k
      BY <1>14, <3>1 DEF Before
    <3>3. PieceAt(G, s).nth = l + j /\ PieceAt(G, t).nth = l + k
      BY <1>5, <2>4
    <3> QED
      BY <3>2, <3>3
  <2> QED
    BY <1>6, <2>1, <2>2, <2>3, <2>4
<1> QED
  BY <1>7, <1>12, <1>13, <1>14 DEF Follows

(* It is nothing of the others.                                            *)
LEMMA LineOfAnother ==
    ASSUME NEW F \in AllFiles, NEW G \in AllFiles, NEW w \in Writers,
           NEW v \in Writers \ {w}, NEW text, Passable(text), NEW l \in Nat,
           NEW day \in Days, NEW g \in Nat, NEW m \in Nat,
           GoesAfter(F, G, day, g, m, SignedBy(w, text, l), Len(text))
    PROVE  /\ OwnIn(G, v) = OwnIn(F, v)
           /\ \A s \in OwnIn(F, v) : PieceAt(G, s) = PieceAt(F, s)
<1>1. PICK n \in Nat : n = Len(text) /\ DOMAIN text = 1 .. n
  BY LenProperties DEF Passable
<1>2. PICK line : line = SignedBy(w, text, l) /\ GoesAfter(F, G, day, g, m, line, n)
  BY <1>1
<1>3. \A k \in 1 .. n : line[k].by = w
  BY <1>1, <1>2 DEF SignedBy
<1>4. ASSUME NEW s \in OwnIn(F, v) PROVE s \in OwnIn(G, v) /\ PieceAt(G, s) = PieceAt(F, s)
  BY <1>2 DEF OwnIn, GoesAfter
<1>5. ASSUME NEW s \in OwnIn(G, v) PROVE s \in OwnIn(F, v)
  <2>1. s \in SpotsOf(G) /\ PieceAt(G, s).by = v
    BY DEF OwnIn
  <2>2. s \in SpotsOf(F)
    <3> SUFFICES ASSUME NEW k \in 1 .. n, s = <<day, g, m + k>> PROVE FALSE
      BY <1>2, <2>1 DEF GoesAfter
    <3>1. PieceAt(G, s) = line[k]
      BY <1>2 DEF GoesAfter
    <3> QED
      BY <1>3, <2>1, <3>1
  <2>3. PieceAt(G, s) = PieceAt(F, s)
    BY <1>2, <2>2 DEF GoesAfter
  <2> QED
    BY <2>1, <2>2, <2>3 DEF OwnIn
<1> QED
  BY <1>4, <1>5

-----------------------------------------------------------------------------
(* What is written of what was said.                                       *)

(* What is settled of it and what is pending are all that was said, and    *)
(* the former ends where a line does.                                      *)
SaidOK(w) ==
    /\ heard[w] = Settled(w) \o pending[w]
    /\ Settled(w) \in Seq(Pieces)
    /\ Ended(Settled(w))

FollowOK(w) == Follows(files, w, Settled(w))

(* Nothing of w is in a later file than the one it has open, or opens.     *)
OpenIsLast(w) ==
    \A s \in OwnIn(files, w) :
        /\ s[1] <= today
        /\ handle[w] # Closed => /\ s[1] <= handle[w].day
                                 /\ s[1] = handle[w].day => s[2] <= handle[w].gen
        /\ filing[w] = "opening" => s[1] <= date[w]

FollowInv ==
    /\ heard \in [Writers -> Seq(Pieces)]
    /\ \A w \in Writers : SaidOK(w) /\ FollowOK(w) /\ OpenIsLast(w)

(* What one process says and settles is no affair of the others.           *)
LEMMA TextOfOne ==
    ASSUME heard \in [Writers -> Seq(Pieces)], pending \in [Writers -> Seq(Pieces)],
           NEW w \in Writers, \A v \in Writers : SaidOK(v),
           NEW a \in Seq(Pieces), Ended(a), NEW p \in Seq(Pieces),
           heard' = [heard EXCEPT ![w] = a \o p],
           pending' = [pending EXCEPT ![w] = p]
    PROVE  /\ heard' \in [Writers -> Seq(Pieces)]
           /\ Settled(w)' = a
           /\ \A v \in Writers \ {w} : Settled(v)' = Settled(v)
           /\ \A v \in Writers : SaidOK(v)'
<1>1. a \o p \in Seq(Pieces)
  BY ConcatProperties
<1>2. heard'[w] = a \o p /\ pending'[w] = p
  OBVIOUS
<1>3. Settled(w)' = a
  <2>1. Settled(w)' = SubSeq(a \o p, 1, Len(a \o p) - Len(p))
    BY <1>2 DEF Settled
  <2> QED
    BY <2>1, Undo
<1>4. ASSUME NEW v \in Writers \ {w}
      PROVE  Settled(v)' = Settled(v) /\ heard'[v] = heard[v] /\ pending'[v] = pending[v]
  BY DEF Settled
<1>5. SaidOK(w)'
  BY <1>2, <1>3 DEF SaidOK, Ended
<1>6. ASSUME NEW v \in Writers \ {w} PROVE SaidOK(v)'
  BY <1>4 DEF SaidOK, Ended
<1>7. heard' \in [Writers -> Seq(Pieces)]
  BY <1>1
<1> QED
  BY <1>3, <1>4, <1>5, <1>6, <1>7

(* While nothing is written, nothing worthy may be settled.                *)
LEMMA NothingFollows ==
    ASSUME NEW F \in AllFiles, NEW w \in Writers, NEW a \in Seq(Pieces), NEW x \in Seq(Pieces),
           Follows(F, w, a), Worthy(a \o x) = Worthy(a)
    PROVE  Follows(F, w, a \o x)
<1>1. \A i \in 1 .. Len(a) : (a \o x)[i] = a[i]
  BY Joined
<1>2. Worthy(a) \subseteq 1 .. Len(a)
  BY WorthyLines
<1> QED
  BY <1>1, <1>2 DEF Follows

LEMMA WrittenFollows ==
    ASSUME FilesOK, FilesOK', HandlesOK, FollowInv,
           NEW w \in Writers, NEW text, Passable(text),
           handle[w] # Closed,
           files' = [files EXCEPT ![handle[w].day] =
                       [files[handle[w].day] EXCEPT ![handle[w].gen] =
                          files[handle[w].day][handle[w].gen]
                            \o SignedBy(w, text, Len(Settled(w)))]],
           UNCHANGED <<today, handle>>,
           \A v \in Writers \ {w} : filing'[v] = filing[v] /\ date'[v] = date[v],
           filing'[w] = "no",
           Settled(w)' = Settled(w) \o text,
           \A v \in Writers \ {w} : Settled(v)' = Settled(v)
    PROVE  \A v \in Writers : FollowOK(v)' /\ OpenIsLast(v)'
<1>1. PICK F \in AllFiles, G \in AllFiles : F = files /\ G = files'
  BY DEF FilesOK, AllFiles
<1>2. PICK settled \in Seq(Pieces) :
         settled = Settled(w) /\ Ended(settled) /\ Follows(F, w, settled)
  BY <1>1 DEF FollowInv, SaidOK, FollowOK
<1>3. PICK line : line = SignedBy(w, text, Len(settled))
  OBVIOUS
<1>4. /\ Len(settled) \in Nat
      /\ line \in Seq(SignedPieces)
      /\ Len(line) = Len(text)
  <2>1. Len(settled) \in Nat /\ Len(text) \in Nat /\ DOMAIN text = 1 .. Len(text)
    BY LenProperties DEF Passable
  <2>2. line \in Seq(SignedPieces) /\ DOMAIN line = 1 .. Len(text)
    BY <1>3, <2>1, SignedIsWhole DEF SignedBy
  <2> QED
    BY <2>1, <2>2, LenProperties
<1>5. PICK day \in Days, g \in Nat :
         /\ day = handle[w].day /\ g = handle[w].gen
         /\ g \in DOMAIN F[day]
         /\ day <= today
         /\ G = Filed(F, day, g, line)
         /\ \A s \in OwnIn(F, w) : s[1] <= day /\ (s[1] = day => s[2] <= g)
  <2>1. /\ handle[w].day \in 0 .. today /\ handle[w].gen \in DOMAIN files[handle[w].day]
        /\ handle[w].day \in Days /\ handle[w].gen \in Nat
    BY DailyAssumption DEF HandlesOK, Days
  <2>2. PICK day, g : day = handle[w].day /\ g = handle[w].gen
    OBVIOUS
  <2>3. G = Filed(F, day, g, line)
    BY <1>1, <1>2, <1>3, <2>2 DEF Filed
  <2>4. \A s \in OwnIn(F, w) : s[1] <= day /\ (s[1] = day => s[2] <= g)
    BY <1>1, <2>2 DEF FollowInv, OpenIsLast
  <2>5. day \in Days /\ g \in Nat /\ g \in DOMAIN F[day] /\ day <= today
    BY <1>1, <2>1, <2>2 DEF HandlesOK, Days
  <2> QED
    BY <2>2, <2>3, <2>4, <2>5, Zenon
<1>6. PICK m \in Nat : GoesAfter(F, G, day, g, m, line, Len(line))
  <2>1. line \in Seq(SignedPieces) /\ g \in DOMAIN F[day] /\ G = Filed(F, day, g, line)
    BY <1>4, <1>5
  <2> QED
    BY <2>1, LineGoesAfter
<1>7. GoesAfter(F, G, day, g, m, SignedBy(w, text, Len(settled)), Len(text))
  BY <1>3, <1>4, <1>6
<1>8. /\ Follows(G, w, settled \o text)
      /\ \A s \in OwnIn(G, w) : s[1] = day => s[2] <= g
  BY <1>2, <1>5, <1>7, LineFollows
<1>9. FollowOK(w)'
  BY <1>1, <1>2, <1>8 DEF FollowOK
<1>10. ASSUME NEW s \in OwnIn(G, w) PROVE s[1] <= day
  <2>1. s \in SpotsOf(G) /\ PieceAt(G, s).by = w
    BY DEF OwnIn
  <2>2. \/ s \in SpotsOf(F) /\ PieceAt(F, s) = PieceAt(G, s)
        \/ \E k \in 1 .. Len(text) : s = <<day, g, m + k>>
    BY <1>7, <2>1 DEF GoesAfter
  <2>3. s \in OwnIn(F, w) \/ \E k \in 1 .. Len(text) : s = <<day, g, m + k>>
    BY <2>1, <2>2 DEF OwnIn
  <2>4. day <= day
    BY DEF Days
  <2>5. CASE s \in OwnIn(F, w)
    BY <1>5, <2>5, Zenon
  <2>6. CASE \E k \in 1 .. Len(text) : s = <<day, g, m + k>>
    <3>1. s[1] = day
      BY <2>6
    <3> QED
      BY <2>4, <3>1
  <2> QED
    BY <2>3, <2>5, <2>6
<1>11. OpenIsLast(w)'
  <2>1. \A s \in OwnIn(G, w) : s[1] \in Int
    BY SpotsOfDays DEF OwnIn
  <2>2. today \in Int /\ day \in Int /\ day <= today
    BY <1>5 DEF HandlesOK, Days
  <2>3. ASSUME NEW s \in OwnIn(G, w)
        PROVE  s[1] <= today /\ s[1] <= day /\ (s[1] = day => s[2] <= g)
    <3>1. s[1] \in Int /\ s[1] <= day
      BY <1>10, <2>1
    <3>2. s[1] = day => s[2] <= g
      BY <1>8
    <3> QED
      BY <2>2, <3>1, <3>2
  <2> QED
    BY <1>1, <1>5, <2>3 DEF OpenIsLast
<1>12. ASSUME NEW v \in Writers \ {w} PROVE FollowOK(v)' /\ OpenIsLast(v)'
  <2>1. /\ OwnIn(G, v) = OwnIn(F, v)
        /\ \A s \in OwnIn(F, v) : PieceAt(G, s) = PieceAt(F, s)
    BY <1>4, <1>7, LineOfAnother
  <2>2. PICK mine : mine = Settled(v) /\ Follows(F, v, mine)
    BY <1>1 DEF FollowInv, FollowOK
  <2>3. Follows(G, v, mine)
    BY <2>1, <2>2 DEF Follows
  <2>4. FollowOK(v)'
    BY <1>1, <2>2, <2>3 DEF FollowOK
  <2>5. OpenIsLast(v)'
    BY <1>1, <2>1 DEF FollowInv, OpenIsLast
  <2> QED
    BY <2>4, <2>5
<1> QED
  BY <1>9, <1>11, <1>12

(* An empty file more, or none: the lines are where they were.             *)
LEMMA EmptyFileAdded ==
    ASSUME NEW F \in AllFiles, NEW G \in AllFiles, NEW day \in Days,
           \/ G = F
           \/ G = [F EXCEPT ![day] = Append(F[day], <<>>)],
           NEW w \in Writers
    PROVE  /\ OwnIn(G, w) = OwnIn(F, w)
           /\ \A s \in OwnIn(F, w) : PieceAt(G, s) = PieceAt(F, s)
<1>1. CASE G = F
  BY <1>1
<1>2. CASE G = [F EXCEPT ![day] = Append(F[day], <<>>)]
  <2>1. PICK old \in Seq(Seq(SignedPieces)), new \in Seq(Seq(SignedPieces)) :
           old = F[day] /\ new = G[day]
    BY DEF AllFiles
  <2>2. PICK nothing \in Seq(SignedPieces) : nothing = <<>> /\ DOMAIN nothing = {}
    BY NoPieces
  <2>3. new = Append(old, nothing)
    BY <1>2, <2>1, <2>2 DEF AllFiles
  <2>4. /\ Len(old) \in Nat /\ DOMAIN old = 1 .. Len(old)
        /\ DOMAIN new = 1 .. Len(old) + 1
        /\ \A h \in 1 .. Len(old) : new[h] = old[h]
        /\ new[Len(old) + 1] = nothing
    BY <2>3, AppendProperties, LenProperties
  <2>5. \A d \in Days : d # day => G[d] = F[d]
    BY <1>2 DEF AllFiles
  <2>6. ASSUME NEW s \in SpotsOf(F) PROVE s \in SpotsOf(G) /\ PieceAt(G, s) = PieceAt(F, s)
    <3>1. PICK d \in Days, g \in Nat, i \in Nat :
             s = <<d, g, i>> /\ g \in DOMAIN F[d] /\ i \in DOMAIN F[d][g]
      <4>1. F[s[1]] \in Seq(Seq(SignedPieces))
        BY SpotsOfDays DEF AllFiles
      <4> QED
        BY <4>1, SpotsOfDays, LenProperties
    <3>2. g \in DOMAIN G[d] /\ G[d][g] = F[d][g]
      <4>1. CASE d = day
        <5>1. F[d] = old /\ G[d] = new
          BY <2>1, <4>1
        <5>2. g \in 1 .. Len(old)
          BY <2>4, <3>1, <5>1
        <5>3. g \in DOMAIN new /\ new[g] = old[g]
          BY <2>4, <5>2
        <5> QED
          BY <5>1, <5>3
      <4>2. CASE d # day
        BY <2>5, <3>1, <4>2
      <4> QED
        BY <4>1, <4>2
    <3> QED
      BY <3>1, <3>2, SpotsOfDays DEF PieceAt
  <2>7. ASSUME NEW s \in SpotsOf(G) PROVE s \in SpotsOf(F)
    <3>1. PICK d \in Days, g \in Nat, i \in Nat :
             s = <<d, g, i>> /\ g \in DOMAIN G[d] /\ i \in DOMAIN G[d][g]
      <4>1. G[s[1]] \in Seq(Seq(SignedPieces))
        BY SpotsOfDays DEF AllFiles
      <4> QED
        BY <4>1, SpotsOfDays, LenProperties
    <3>2. g \in DOMAIN F[d] /\ G[d][g] = F[d][g]
      <4>1. CASE d = day
        <5>1. F[d] = old /\ G[d] = new
          BY <2>1, <4>1
        <5>2. g # Len(old) + 1
          BY <2>2, <2>4, <3>1, <5>1
        <5>3. g \in 1 .. Len(old)
          BY <2>4, <3>1, <5>1, <5>2
        <5>4. g \in DOMAIN old /\ new[g] = old[g]
          BY <2>4, <5>3
        <5> QED
          BY <5>1, <5>4
      <4>2. CASE d # day
        BY <2>5, <3>1, <4>2
      <4> QED
        BY <4>1, <4>2
    <3> QED
      BY <3>1, <3>2, SpotsOfDays
  <2> QED
    BY <2>6, <2>7 DEF OwnIn
<1> QED
  BY <1>1, <1>2

(* No handle is opened, and no day looked for but one at hand or today.    *)
HandlesKept == \A v \in Writers : handle'[v] \in {handle[v], Closed}

DatesKept ==
    \A v \in Writers : filing'[v] = "opening" =>
        \/ filing[v] = "opening" /\ date'[v] = date[v]
        \/ date'[v] = today'

(* A step that files no text, and settles what is nothing worthy.          *)
LEMMA QuietStep ==
    ASSUME FilesOK, HandlesOK, FilesOK', HandlesOK', FollowInv,
           \A v \in Writers : /\ OwnIn(files', v) = OwnIn(files, v)
                               /\ \A s \in OwnIn(files, v) :
                                     PieceAt(files', s) = PieceAt(files, s),
           today <= today',
           \A v \in Writers :
              \/ handle'[v] \in {handle[v], Closed}
              \/ \A s \in OwnIn(files, v) :
                    /\ s[1] <= handle'[v].day
                    /\ s[1] = handle'[v].day => s[2] <= handle'[v].gen,
           DatesKept,
           heard' \in [Writers -> Seq(Pieces)], \A v \in Writers : SaidOK(v)',
           \A v \in Writers : \E x \in Seq(Pieces) :
              Settled(v)' = Settled(v) \o x /\ Worthy(Settled(v) \o x) = Worthy(Settled(v))
    PROVE  FollowInv'
<1>1. PICK F \in AllFiles, G \in AllFiles : F = files /\ G = files'
  BY DEF FilesOK, AllFiles
<1>2. ASSUME NEW v \in Writers PROVE FollowOK(v)'
  <2>1. PICK a \in Seq(Pieces) : a = Settled(v) /\ Follows(F, v, a)
    BY <1>1 DEF FollowInv, SaidOK, FollowOK
  <2>2. PICK x \in Seq(Pieces) : Settled(v)' = a \o x /\ Worthy(a \o x) = Worthy(a)
    BY <2>1
  <2>3. Follows(F, v, a \o x)
    BY <2>1, <2>2, NothingFollows
  <2>4. Follows(G, v, a \o x)
    <3>1. /\ OwnIn(G, v) = OwnIn(F, v)
          /\ \A s \in OwnIn(F, v) : PieceAt(G, s) = PieceAt(F, s)
      BY <1>1
    <3> QED
      BY <2>3, <3>1 DEF Follows
  <2> QED
    BY <1>1, <2>2, <2>4 DEF FollowOK
<1>3. ASSUME NEW v \in Writers PROVE OpenIsLast(v)'
  <2>1. today \in Nat /\ today' \in Nat
    BY DEF HandlesOK, Days
  <2>2. ASSUME NEW s \in OwnIn(F, v)
        PROVE  /\ s[1] \in Int /\ s[1] <= today'
               /\ handle'[v] # Closed => /\ s[1] <= handle'[v].day
                                         /\ s[1] = handle'[v].day => s[2] <= handle'[v].gen
               /\ filing'[v] = "opening" => s[1] <= date'[v]
    <3>1. s[1] \in Int
      BY SpotsOfDays DEF OwnIn
    <3>2. /\ s[1] <= today
          /\ handle[v] # Closed => /\ s[1] <= handle[v].day
                                   /\ s[1] = handle[v].day => s[2] <= handle[v].gen
          /\ filing[v] = "opening" => s[1] <= date[v]
      BY <1>1 DEF FollowInv, OpenIsLast
    <3>3. s[1] <= today'
      BY <2>1, <3>1, <3>2
    <3>4. handle'[v] # Closed => /\ s[1] <= handle'[v].day
                                 /\ s[1] = handle'[v].day => s[2] <= handle'[v].gen
      BY <1>1, <3>2
    <3>5. filing'[v] = "opening" => s[1] <= date'[v]
      BY <3>2, <3>3 DEF DatesKept
    <3> QED
      BY <3>1, <3>3, <3>4, <3>5, Zenon
  <2> QED
    BY <1>1, <2>2 DEF OpenIsLast
<1> QED
  BY <1>2, <1>3 DEF FollowInv

LEMMA LinesJoined ==
    ASSUME NEW text \in Seq(Pieces), HasLine(text)
    PROVE  /\ text = FirstLine(text) \o OtherLines(text)
           /\ \A j \in 1 .. Len(FirstLine(text)) :
                 FirstLine(text)[j] = "end" => j = Len(FirstLine(text))
<1>1. PICK n \in Nat, f \in Nat :
         /\ n = Len(text) /\ f = FirstEnd(text) /\ f \in 1 .. n
         /\ \A j \in 1 .. f - 1 : text[j] # "end"
  BY FirstEndIsFirst, LenProperties
<1>2. PICK a : a = SubSeq(text, 1, f)
  OBVIOUS
<1>3. PICK b : b = SubSeq(text, f + 1, n)
  OBVIOUS
<1>4. /\ a \in Seq(Pieces) /\ Len(a) = f
      /\ \A i \in 1 .. f : a[i] = text[i]
  <2>1. 1 \in 1 .. Len(text) + 1 /\ f \in 1 - 1 .. Len(text)
    BY <1>1
  <2>2. /\ a \in Seq(Pieces) /\ Len(a) = f - 1 + 1
        /\ \A i \in 1 .. f - 1 + 1 : a[i] = text[1 + i - 1]
    BY <1>2, <2>1, Cut
  <2> QED
    BY <1>1, <2>2
<1>5. /\ b \in Seq(Pieces) /\ Len(b) = n - f
      /\ \A i \in 1 .. n - f : b[i] = text[f + i]
  <2>1. f + 1 \in 1 .. Len(text) + 1 /\ n \in (f + 1) - 1 .. Len(text)
    BY <1>1
  <2>2. /\ b \in Seq(Pieces) /\ Len(b) = n - (f + 1) + 1
        /\ \A i \in 1 .. n - (f + 1) + 1 : b[i] = text[f + 1 + i - 1]
    BY <1>3, <2>1, Cut
  <2>3. n - (f + 1) + 1 = n - f
    OBVIOUS
  <2>4. ASSUME NEW i \in 1 .. n - f PROVE b[i] = text[f + i]
    <3>1. b[i] = text[f + 1 + i - 1] /\ f + 1 + i - 1 = f + i
      BY <2>2, <2>3
    <3> QED
      BY <3>1
  <2> QED
    BY <2>2, <2>3, <2>4
<1>6. a \o b = text
  <2>1. /\ a \o b \in Seq(Pieces) /\ Len(a \o b) = Len(a) + Len(b)
        /\ \A i \in 1 .. Len(a) : (a \o b)[i] = a[i]
        /\ \A i \in 1 .. Len(b) : (a \o b)[Len(a) + i] = b[i]
    BY <1>4, <1>5, Joined
  <2>2. Len(a \o b) = n
    <3>1. Len(a \o b) = f + (n - f)
      BY <1>4, <1>5, <2>1
    <3> QED
      BY <3>1
  <2>3. ASSUME NEW i \in 1 .. n PROVE (a \o b)[i] = text[i]
    <3>1. CASE i <= f
      BY <1>1, <1>4, <2>1, <3>1
    <3>2. CASE i > f
      <4>1. i - f \in 1 .. n - f /\ f + (i - f) = i
        BY <1>1, <3>2
      <4>2. i - f \in 1 .. Len(b)
        BY <1>5, <4>1
      <4>3. (a \o b)[Len(a) + (i - f)] = b[i - f]
        BY <2>1, <4>2
      <4>4. b[i - f] = text[f + (i - f)]
        BY <1>5, <4>1
      <4> QED
        BY <1>4, <4>1, <4>3, <4>4
    <3>3. i <= f \/ i > f
      OBVIOUS
    <3> QED
      BY <3>1, <3>2, <3>3, Zenon
  <2> QED
    BY <1>1, <2>1, <2>2, <2>3, SeqEqual
<1>7. ASSUME NEW j \in 1 .. f, a[j] = "end" PROVE j = f
  <2>1. j \in 1 .. f - 1 => FALSE
    BY <1>1, <1>4, <1>7
  <2> QED
    BY <1>1, <2>1
<1> QED
  BY <1>1, <1>2, <1>3, <1>4, <1>6, <1>7 DEF FirstLine, OtherLines

LEMMA Joining ==
    ASSUME NEW a \in Seq(Pieces), NEW b \in Seq(Pieces), NEW c \in Seq(Pieces)
    PROVE  /\ (a \o b) \o c = a \o (b \o c)
           /\ a \o <<>> = a
           /\ a \o b \in Seq(Pieces)
  BY ConcatAssociative, ConcatEmptySeq, ConcatProperties

LEMMA NextFollows ==
    ASSUME DailyInv, DailyInv', FollowInv, [Next]_vars
    PROVE  FollowInv'
<1>1. /\ FilesOK /\ HandlesOK /\ FilesOK' /\ HandlesOK'
      /\ heard \in [Writers -> Seq(Pieces)]
      /\ pending \in [Writers -> Seq(Pieces)]
      /\ script \in [Writers -> Seq(Seq(Pieces))]
      /\ filing \in [Writers -> Filings]
      /\ date \in [Writers -> Int]
      /\ today \in Days /\ today' \in Days
      /\ handle \in [Writers -> [day : Int, gen : Nat]]
  BY DEF DailyInv, TalksOK, HandlesOK, DatesOK, FollowInv
<1>2. \A w \in Writers : SaidOK(w)
  BY DEF FollowInv
<1>3. <<>> \in Seq(Pieces) /\ Ended(<<>>) /\ today <= today
  BY <1>1, EmptySeq DEF Ended, Days
<1>4. ASSUME NEW w \in Writers
      PROVE  /\ pending[w] \in Seq(Pieces) /\ heard[w] \in Seq(Pieces)
             /\ heard[w] = Settled(w) \o pending[w]
             /\ Settled(w) \in Seq(Pieces) /\ Ended(Settled(w))
             /\ Settled(w) \o <<>> = Settled(w)
  BY <1>1, <1>2, Joining DEF SaidOK
(* Steps that write nothing and settle nothing.                            *)
<1>5. ASSUME UNCHANGED files, today <= today', HandlesKept, DatesKept,
             heard' \in [Writers -> Seq(Pieces)], \A v \in Writers : SaidOK(v)',
             \A v \in Writers : Settled(v)' = Settled(v)
      PROVE  FollowInv'
  <2>1. ASSUME NEW v \in Writers
        PROVE  \E x \in Seq(Pieces) :
                 Settled(v)' = Settled(v) \o x /\ Worthy(Settled(v) \o x) = Worthy(Settled(v))
    BY <1>3, <1>4, <1>5
  <2> QED
    BY <1>1, <1>5, <2>1, QuietStep DEF HandlesKept
<1>6. ASSUME UNCHANGED <<heard, pending>>
      PROVE  /\ heard' \in [Writers -> Seq(Pieces)]
             /\ \A v \in Writers : SaidOK(v)' /\ Settled(v)' = Settled(v)
  <2>1. \A v \in Writers : Settled(v)' = Settled(v)
    BY <1>6 DEF Settled
  <2> QED
    BY <1>1, <1>2, <1>6, <2>1 DEF SaidOK, Ended
<1>7. ASSUME UNCHANGED <<files, heard, pending>>, today <= today', HandlesKept, DatesKept
      PROVE  FollowInv'
  BY <1>5, <1>6, <1>7
(* Steps that cut what a process said where it is settled.                 *)
<1>8. ASSUME NEW w \in Writers, NEW p \in Seq(Pieces),
             heard' = [heard EXCEPT ![w] = Settled(w) \o p],
             pending' = [pending EXCEPT ![w] = p],
             UNCHANGED <<files, today>>, HandlesKept, DatesKept
      PROVE  FollowInv'
  <2>1. /\ heard' \in [Writers -> Seq(Pieces)]
        /\ Settled(w)' = Settled(w)
        /\ \A v \in Writers \ {w} : Settled(v)' = Settled(v)
        /\ \A v \in Writers : SaidOK(v)'
    BY <1>1, <1>2, <1>4, <1>8, TextOfOne
  <2> QED
    BY <1>3, <1>5, <1>8, <2>1
(* Steps that settle the first of what is pending.                         *)
<1>9. ASSUME NEW w \in Writers, NEW a \in Seq(Pieces), Ended(a), NEW p \in Seq(Pieces),
             pending[w] = a \o p, heard' = heard,
             pending' = [pending EXCEPT ![w] = p]
      PROVE  /\ heard' \in [Writers -> Seq(Pieces)]
             /\ Settled(w)' = Settled(w) \o a
             /\ \A v \in Writers \ {w} : Settled(v)' = Settled(v)
             /\ \A v \in Writers : SaidOK(v)'
  <2>1. PICK b \in Seq(Pieces) : b = Settled(w) \o a /\ Ended(b)
    <3>1. CASE a = <<>>
      BY <1>4, <3>1
    <3>2. CASE a # <<>>
      BY <1>4, <1>9, <3>2, JoinEnded
    <3> QED
      BY <3>1, <3>2
  <2>2. heard[w] = b \o p
    <3>1. (Settled(w) \o a) \o p = Settled(w) \o (a \o p)
      BY <1>4, Joining
    <3> QED
      BY <1>4, <1>9, <2>1, <3>1, Zenon
  <2>3. heard' = [heard EXCEPT ![w] = b \o p]
    BY <1>1, <1>9, <2>2
  <2> QED
    BY <1>1, <1>2, <1>9, <2>1, <2>3, TextOfOne
(* The handle and the date of the others are theirs.                       *)
<1>10. ASSUME UNCHANGED handle \/ \E w \in Writers : handle' = [handle EXCEPT ![w] = Closed]
       PROVE  HandlesKept
  BY <1>1, <1>10 DEF HandlesKept
<1>11. ASSUME UNCHANGED <<filing, date>> PROVE DatesKept
  BY <1>11 DEF DatesKept
<1>12. ASSUME NEW w \in Writers,
              \/ Boot(w) \/ EndWrite(w) \/ Exit(w) \/ EndFlush(w)
              \/ (\E m \in Messages[w] : Say(w, m))
       PROVE  FollowInv'
  <2>1. /\ UNCHANGED <<files, heard, pending, today, filing, date>>
        /\ UNCHANGED handle \/ handle' = [handle EXCEPT ![w] = Closed]
    BY <1>12 DEF Boot, EndWrite, Exit, EndFlush, Say, writing, ensuring
  <2>2. HandlesKept /\ DatesKept
    BY <1>10, <1>11, <2>1
  <2> QED
    BY <1>3, <1>7, <2>1, <2>2
<1>13. ASSUME NEW w \in Writers, TeeWrite(w) PROVE FollowInv'
  <2>1. PICK h : h = Head(script[w])
    OBVIOUS
  <2>2. /\ heard' = [heard EXCEPT ![w] = heard[w] \o h]
        /\ pending' = [pending EXCEPT ![w] = pending[w] \o h]
        /\ UNCHANGED <<files, today, handle, filing, date>>
        /\ phase[w] = "writing"
    BY <1>13, <2>1 DEF TeeWrite, writing, ensuring
  <2>3. h \in Seq(Pieces)
    <3>1. script[w] \in Seq(Seq(Pieces)) /\ script[w] # <<>>
      BY <1>1, <2>2 DEF DailyInv, TalksOK, TalkOK
    <3> QED
      BY <2>1, <3>1, FirstWrite
  <2>4. /\ pending[w] \o h \in Seq(Pieces)
        /\ heard[w] \o h = Settled(w) \o (pending[w] \o h)
    <3>1. (Settled(w) \o pending[w]) \o h = Settled(w) \o (pending[w] \o h)
      <4>1. PICK s \in Seq(Pieces), q \in Seq(Pieces) : s = Settled(w) /\ q = pending[w]
        BY <1>4
      <4>2. (s \o q) \o h = s \o (q \o h)
        BY <2>3, Joining
      <4> QED
        BY <4>1, <4>2, Zenon
    <3>2. pending[w] \o h \in Seq(Pieces)
      BY <1>4, <2>3, Joining
    <3> QED
      BY <1>4, <3>1, <3>2, Zenon
  <2>5. heard' = [heard EXCEPT ![w] = Settled(w) \o (pending[w] \o h)]
    BY <2>2, <2>4
  <2>6. HandlesKept /\ DatesKept
    BY <1>10, <1>11, <2>2
  <2> QED
    BY <1>8, <2>2, <2>4, <2>5, <2>6
(* What is passed on, or dropped, is the first of what is pending.         *)
<1>14. ASSUME NEW w \in Writers, HasText(w)
       PROVE  /\ pending[w] = AtHand(w) \o Left(w)
              /\ AtHand(w) \in Seq(Pieces) /\ Ended(AtHand(w)) /\ Left(w) \in Seq(Pieces)
              /\ ~ Drops(w) => Passable(AtHand(w))
              /\ phase[w] = "splitting" =>
                    \A j \in 1 .. Len(AtHand(w)) : AtHand(w)[j] = "end" => j = Len(AtHand(w))
              /\ phase[w] # "splitting" => Left(w) = <<>>
  <2>1. /\ AtHand(w) \in Seq(Pieces) /\ Ended(AtHand(w)) /\ Left(w) \in Seq(Pieces)
        /\ ~ Drops(w) => Passable(AtHand(w))
    BY <1>14, TextAtHand DEF DailyInv, Ended
  <2>2. CASE phase[w] = "splitting"
    <3>1. HasLine(pending[w]) /\ AtHand(w) = FirstLine(pending[w])
                              /\ Left(w) = OtherLines(pending[w])
      BY <1>14, <2>2 DEF HasText, AtHand, Left
    <3> QED
      BY <1>4, <2>1, <2>2, <3>1, LinesJoined
  <2>3. CASE phase[w] # "splitting"
    <3>1. AtHand(w) = pending[w] /\ Left(w) = <<>>
      BY <2>3 DEF AtHand, Left
    <3>2. pending[w] \o <<>> = pending[w]
      BY <1>4, Joining
    <3> QED
      BY <2>1, <2>3, <3>1, <3>2
  <2> QED
    BY <2>2, <2>3
<1>15. ASSUME NEW w \in Writers, DropNoise(w) PROVE FollowInv'
  <2>1. /\ HasText(w) /\ IsNoise(AtHand(w))
        /\ pending' = [pending EXCEPT ![w] = Left(w)]
        /\ UNCHANGED <<files, today, handle, filing, date>>
    BY <1>15 DEF DropNoise, Drops, writing, ensuring
  <2>2. HandlesKept /\ DatesKept
    BY <1>10, <1>11, <2>1
  <2>3. CASE phase[w] # "splitting"
    <3>1. heard' = [heard EXCEPT ![w] = Settled(w) \o <<>>] /\ Left(w) = <<>>
      BY <1>4, <1>14, <1>15, <2>1, <2>3 DEF DropNoise
    <3> QED
      BY <1>3, <1>8, <2>1, <2>2, <3>1
  <2>4. CASE phase[w] = "splitting"
    <3>1. heard' = heard
      BY <1>1, <1>15, <2>4 DEF DropNoise
    <3>2. PICK a \in Seq(Pieces), p \in Seq(Pieces) :
            /\ a = AtHand(w) /\ p = Left(w) /\ pending[w] = a \o p /\ Ended(a)
            /\ \A j \in 1 .. Len(a) : a[j] = "end" => j = Len(a)
            /\ IsNoise(a)
      BY <1>14, <2>1, <2>4
    <3>3. /\ heard' \in [Writers -> Seq(Pieces)]
          /\ Settled(w)' = Settled(w) \o a
          /\ \A v \in Writers \ {w} : Settled(v)' = Settled(v)
          /\ \A v \in Writers : SaidOK(v)'
      BY <1>9, <2>1, <3>1, <3>2
    <3>4. Worthy(Settled(w) \o a) = Worthy(Settled(w))
      <4>1. Worthy(Settled(w) \o a) =
              Worthy(Settled(w)) \cup {Len(Settled(w)) + k : k \in Worthy(a)}
        BY <1>4, <3>2, WorthyJoined
      <4>2. Worthy(a) = {}
        BY <3>2, NoiseIsWorthless
      <4> QED
        BY <4>1, <4>2
    <3>5. ASSUME NEW v \in Writers
          PROVE  \E x \in Seq(Pieces) :
                   Settled(v)' = Settled(v) \o x /\ Worthy(Settled(v) \o x) = Worthy(Settled(v))
      <4>1. CASE v = w
        BY <3>2, <3>3, <3>4, <4>1
      <4>2. CASE v # w
        BY <1>3, <1>4, <3>3, <4>2
      <4> QED
        BY <4>1, <4>2
    <3> QED
      BY <1>1, <1>3, <2>1, <2>2, <3>3, <3>5, QuietStep DEF HandlesKept
  <2> QED
    BY <2>3, <2>4
<1>16. ASSUME NEW w \in Writers, Ensure(w) PROVE FollowInv'
  <2>1. UNCHANGED <<files, heard, pending, today>>
    BY <1>16 DEF Ensure
  <2>2. HandlesKept
    BY <1>1, <1>10, <1>16 DEF Ensure
  <2>3. DatesKept
    BY <1>1, <1>16, <2>1 DEF Ensure, DatesKept
  <2> QED
    BY <1>3, <1>7, <2>1, <2>2, <2>3
(* The file that is opened is the last of its day, and what the process    *)
(* wrote before was of no later day.                                       *)
<1>17. ASSUME NEW w \in Writers, OpenDay(w) PROVE FollowInv'
  <2>1. PICK F \in AllFiles, G \in AllFiles : F = files /\ G = files'
    BY <1>1 DEF FilesOK, AllFiles
  <2>2. PICK day \in Days : day = date[w]
    BY <1>1, <1>17, DailyAssumption DEF OpenDay, DailyInv, DatesOK, DateOK, Days
  <2>3. /\ G = F \/ G = [F EXCEPT ![day] = Append(F[day], <<>>)]
        /\ handle' = [handle EXCEPT ![w] = Opened(day)]
        /\ filing[w] = "opening"
        /\ filing' = [filing EXCEPT ![w] = "appending"]
        /\ date' = [date EXCEPT ![w] = NoDay]
        /\ UNCHANGED <<today, heard, pending>>
    BY <1>17, <2>1, <2>2 DEF OpenDay
  <2>4. \A v \in Writers : /\ OwnIn(G, v) = OwnIn(F, v)
                           /\ \A s \in OwnIn(F, v) : PieceAt(G, s) = PieceAt(F, s)
    BY <2>3, EmptyFileAdded
  <2>5. PICK at : at = Opened(day)
    OBVIOUS
  <2>6. /\ at.day = day /\ Len(F[day]) \in Nat /\ DOMAIN F[day] = 1 .. Len(F[day])
        /\ at.gen \in {Len(F[day]), Len(F[day]) + 1}
    BY <1>1, <2>1, <2>5, FilesOfDay DEF Opened
  <2>7. ASSUME NEW s \in OwnIn(F, w)
        PROVE  s[1] <= at.day /\ (s[1] = at.day => s[2] <= at.gen)
    <3>1. s[1] <= day
      BY <2>1, <2>2, <2>3 DEF FollowInv, OpenIsLast
    <3>2. s[2] \in DOMAIN F[s[1]]
      BY SpotsOfDays DEF OwnIn
    <3>3. s[1] = day => s[2] \in 1 .. Len(F[day])
      BY <2>6, <3>2
    <3> QED
      BY <2>6, <3>1, <3>3
  <2>8. ASSUME NEW v \in Writers
        PROVE  \/ handle'[v] \in {handle[v], Closed}
               \/ \A s \in OwnIn(files, v) :
                     /\ s[1] <= handle'[v].day
                     /\ s[1] = handle'[v].day => s[2] <= handle'[v].gen
    <3>1. handle'[v] = IF v = w THEN at ELSE handle[v]
      BY <1>1, <2>3, <2>5
    <3> QED
      BY <2>1, <2>7, <3>1
  <2>9. DatesKept
    BY <1>1, <2>3 DEF DatesKept
  <2>10. /\ heard' \in [Writers -> Seq(Pieces)]
         /\ \A v \in Writers : SaidOK(v)' /\ Settled(v)' = Settled(v)
    BY <1>6, <2>3
  <2>11. ASSUME NEW v \in Writers
         PROVE  \E x \in Seq(Pieces) :
                  Settled(v)' = Settled(v) \o x /\ Worthy(Settled(v) \o x) = Worthy(Settled(v))
    BY <1>3, <1>4, <2>10
  <2> QED
    BY <1>1, <1>3, <2>1, <2>3, <2>4, <2>8, <2>9, <2>10, <2>11, QuietStep
<1>18. ASSUME NEW w \in Writers, AppendText(w) PROVE FollowInv'
  <2>1. HasText(w) /\ ~ Drops(w)
    BY <1>18 DEF AppendText, DailyInv, TalksOK, TalkOK
  <2>2. PICK text \in Seq(Pieces), p \in Seq(Pieces) :
          /\ text = AtHand(w) /\ p = Left(w) /\ pending[w] = text \o p /\ Ended(text)
          /\ Passable(text)
    BY <1>14, <2>1
  <2>3. /\ pending' = [pending EXCEPT ![w] = p]
        /\ filing' = [filing EXCEPT ![w] = "no"]
        /\ UNCHANGED <<today, handle, date, heard>>
    BY <1>18, <2>2 DEF AppendText
  <2>4. files' = [files EXCEPT ![handle[w].day] =
                    [files[handle[w].day] EXCEPT ![handle[w].gen] =
                       files[handle[w].day][handle[w].gen]
                         \o SignedBy(w, text, Len(Settled(w)))]]
    BY <1>18, <2>2 DEF AppendText, SignedBy
  <2>5. /\ heard' \in [Writers -> Seq(Pieces)]
        /\ Settled(w)' = Settled(w) \o text
        /\ \A v \in Writers \ {w} : Settled(v)' = Settled(v)
        /\ \A v \in Writers : SaidOK(v)'
    BY <1>9, <2>2, <2>3
  <2>6. handle[w] # Closed
    <3>1. handle[w].day \in since[w] .. today /\ since[w] \in 0 .. today
      BY <1>18 DEF AppendText, DailyInv, DatesOK, DateOK
    <3> QED
      BY <3>1 DEF Closed, NoDay
  <2>7. /\ filing'[w] = "no"
        /\ \A v \in Writers \ {w} : filing'[v] = filing[v] /\ date'[v] = date[v]
    BY <1>1, <2>3
  <2>8. \A v \in Writers : FollowOK(v)' /\ OpenIsLast(v)'
    BY <1>1, <2>2, <2>3, <2>4, <2>5, <2>6, <2>7, WrittenFollows
  <2> QED
    BY <2>5, <2>8 DEF FollowInv
<1>19. ASSUME NEW w \in Writers, LoseLine(w) PROVE FollowInv'
  <2>1. HasText(w)
    BY <1>19 DEF LoseLine, DailyInv, TalksOK, TalkOK
  <2>2. PICK p \in Seq(Pieces) : p = Left(w)
    BY <1>14, <2>1
  <2>3. /\ heard' = [heard EXCEPT ![w] = Settled(w) \o p]
        /\ pending' = [pending EXCEPT ![w] = p]
        /\ filing' = [filing EXCEPT ![w] = "no"]
        /\ date' = [date EXCEPT ![w] = NoDay]
        /\ UNCHANGED <<files, today, handle>>
    BY <1>19, <2>2 DEF LoseLine, writing
  <2>4. HandlesKept
    BY <1>10, <2>3
  <2>5. DatesKept
    BY <1>1, <2>3 DEF DatesKept
  <2> QED
    BY <1>8, <2>3, <2>4, <2>5
<1>20. ASSUME NEW w \in Writers, Kill(w) PROVE FollowInv'
  <2>1. /\ heard' = [heard EXCEPT ![w] = Settled(w) \o <<>>]
        /\ pending' = [pending EXCEPT ![w] = <<>>]
        /\ filing' = [filing EXCEPT ![w] = "no"]
        /\ date' = [date EXCEPT ![w] = NoDay]
        /\ UNCHANGED <<files, today, handle>>
    BY <1>4, <1>20 DEF Kill, writing
  <2>2. HandlesKept
    BY <1>10, <2>1
  <2>3. DatesKept
    BY <1>1, <2>1 DEF DatesKept
  <2> QED
    BY <1>3, <1>8, <2>1, <2>2, <2>3
<1>21. CASE \/ Midnight \/ ReadDate \/ ListStale \/ EndClean
            \/ (\E d \in Days : RemoveStale(d))
            \/ UNCHANGED vars
  <2>1. /\ UNCHANGED <<files, heard, pending, handle, filing, date>>
        /\ today' \in {today, today + 1}
    BY <1>21 DEF Midnight, ReadDate, ListStale, EndClean, RemoveStale, vars, writing, tees,
                 ensuring
  <2>2. today <= today'
    BY <1>1, <2>1 DEF Days
  <2>3. HandlesKept /\ DatesKept
    BY <1>10, <1>11, <2>1
  <2> QED
    BY <1>7, <2>1, <2>2, <2>3
<1> QED
  BY <1>12, <1>13, <1>15, <1>16, <1>17, <1>18, <1>19, <1>20, <1>21 DEF Next

LEMMA InitFollows == Init => FollowInv
<1> SUFFICES ASSUME Init PROVE FollowInv
  OBVIOUS
<1>1. PICK F : F = files /\ SpotsOf(F) = {}
  BY DEF Init, SpotsOf
<1>2. ASSUME NEW w \in Writers
      PROVE  heard[w] = <<>> /\ pending[w] = <<>> /\ OwnIn(F, w) = {}
  BY <1>1 DEF Init, OwnIn
<1>3. <<>> \in Seq(Pieces) /\ <<>> \o <<>> = <<>> /\ Ended(<<>>)
  BY Joining, EmptySeq DEF Ended
<1>4. ASSUME NEW w \in Writers PROVE Settled(w) = <<>>
  <2>1. SubSeq(<<>> \o <<>>, 1, Len(<<>> \o <<>>) - Len(<<>>)) = <<>>
    BY <1>3, Undo
  <2> QED
    BY <1>2, <1>3, <2>1 DEF Settled
<1>5. Worthy(<<>>) = {}
  BY DEF Worthy
<1>6. ASSUME NEW w \in Writers PROVE SaidOK(w) /\ FollowOK(w) /\ OpenIsLast(w)
  <2>1. Follows(F, w, <<>>)
    BY <1>2, <1>5 DEF Follows
  <2>2. SaidOK(w)
    BY <1>2, <1>3, <1>4 DEF SaidOK
  <2> QED
    BY <1>1, <1>2, <1>4, <2>1, <2>2 DEF FollowOK, OpenIsLast
<1> QED
  BY <1>3, <1>6 DEF FollowInv, Init

LEMMA FollowInvariant == Spec => [](DailyInv /\ FollowInv)
<1>1. DailyInv /\ [Next]_vars => DailyInv'
  BY NextWriting, NextTalks, NextDates, NextCleaner DEF DailyInv
<1>2. DailyInv /\ DailyInv' /\ FollowInv /\ [Next]_vars => FollowInv'
  BY NextFollows
<1>3. Init => DailyInv /\ FollowInv
  BY InitDailyInv, InitFollows
<1> QED
  BY <1>1, <1>2, <1>3, PTL DEF Spec

-----------------------------------------------------------------------------
(* The theorems.                                                           *)

(* Whatever the writers, the messages and the faults, the state of the     *)
(* daily log is of its type.                                               *)
THEOREM DailyTypes == Spec => []DailyTypeOK
<1>1. DailyInv => DailyTypeOK
  <2> SUFFICES ASSUME DailyInv PROVE DailyTypeOK
    OBVIOUS
  <2>1. \A d \in Days : \A g \in DOMAIN files[d] :
          files[d][g] \in Seq([by : Writers, piece : Pieces, nth : Nat])
    BY FilesOfDay DEF DailyInv, SignedPieces
  <2>2. \A w \in Writers : \/ handle[w] = Closed
                           \/ /\ handle[w].day \in Days
                              /\ handle[w].gen \in DOMAIN files[handle[w].day]
    BY DailyAssumption DEF DailyInv, HandlesOK, Days
  <2>3. /\ today \in Days
        /\ linked \subseteq {d \in Days : files[d] # <<>>}
        /\ pending \in [Writers -> Seq(Pieces)]
        /\ phase \in [Writers -> Phases]
        /\ filing \in [Writers -> {"no", "opening", "appending"}]
        /\ cleaner.stale \subseteq Days
    BY DEF DailyInv, HandlesOK, TalksOK, CleanerOK, Filings
  <2>4. ASSUME NEW w \in Writers
        PROVE  /\ filing[w] = "appending" => handle[w] # Closed
               /\ IF filing[w] = "opening" THEN date[w] \in 0 .. today ELSE date[w] = NoDay
               /\ since[w] \in Days
    <3>1. /\ since[w] \in 0 .. today
          /\ IF filing[w] = "opening" THEN date[w] \in since[w] .. today ELSE date[w] = NoDay
          /\ filing[w] = "appending" => handle[w].day \in since[w] .. today
      BY DEF DailyInv, DatesOK, DateOK
    <3>2. today \in Nat /\ MaxDay \in Nat /\ today <= MaxDay
      BY <2>3, DailyAssumption DEF Days
    <3> QED
      BY <3>1, <3>2 DEF Closed, NoDay, Days
  <2>5. since \in [Writers -> Days]
    BY <2>4 DEF DailyInv, DatesOK
  <2> QED
    BY <2>1, <2>2, <2>3, <2>4, <2>5 DEF DailyTypeOK
<1> QED
  BY <1>1, DailyInvariant, PTL

(* The files hold whole lines of single processes and no noise, for any    *)
(* number of processes, splits, kills and failures to open.                *)
THEOREM FilesHoldWholeLines == Spec => []WholeLines
<1>1. DailyInv => WholeLines
  BY DEF DailyInv, FilesOK, Whole, WholeLines
<1> QED
  BY <1>1, DailyInvariant, PTL

(* A process that writes today writes to the file under today's name,      *)
(* unless a clean took another day for today.                              *)
THEOREM TodaysFileIsFound == Spec => []TodayIsFound
<1>1. DailyInv => TodayIsFound
  BY DEF DailyInv, HandlesOK
<1> QED
  BY <1>1, DailyInvariant, PTL

(* What the files hold of a process is what it said in complete lines that *)
(* are no noise, in the order it said it: nothing else, nothing twice and  *)
(* nothing out of order, for any number of processes and days, wherever    *)
(* the writes are cut, and whatever is killed, refused or removed.         *)
THEOREM LinesAreKept == Spec => []FollowsPrimary
<1>1. ASSUME DailyInv, FollowInv PROVE FollowsPrimary
  <2> SUFFICES ASSUME NEW w \in Writers
               PROVE  /\ {At(spot).nth : spot \in Own(w)} = Worthy(Settled(w))
                      /\ \A spot \in Own(w) : At(spot).piece = heard[w][At(spot).nth]
                      /\ \A s, t \in Own(w) : Before(s, t) => At(s).nth < At(t).nth
    BY DEF FollowsPrimary
  <2>1. PICK F : F = files
    OBVIOUS
  <2>2. Own(w) = OwnIn(F, w) /\ \A s : At(s) = PieceAt(F, s)
    BY <2>1 DEF Own, OwnIn, Spots, SpotsOf, At, PieceAt
  <2>3. PICK settled \in Seq(Pieces), rest \in Seq(Pieces) :
          /\ settled = Settled(w) /\ heard[w] = settled \o rest
          /\ Follows(F, w, settled)
    <3>1. pending[w] \in Seq(Pieces)
      BY <1>1 DEF DailyInv, TalksOK
    <3>2. /\ Settled(w) \in Seq(Pieces)
          /\ heard[w] = Settled(w) \o pending[w]
          /\ Follows(files, w, Settled(w))
      BY <1>1 DEF FollowInv, SaidOK, FollowOK
    <3> QED
      BY <2>1, <3>1, <3>2
  <2>4. \A i \in Worthy(settled) : heard[w][i] = settled[i]
    <3>1. Worthy(settled) \subseteq 1 .. Len(settled)
      BY WorthyLines
    <3> QED
      BY <2>3, <3>1, Joined
  <2> QED
    BY <2>2, <2>3, <2>4 DEF Follows
<1> QED
  BY <1>1, FollowInvariant, PTL

(* Whenever a write, or the flush of an exit, is about to append, the file *)
(* it has open is that of a day it lived to see: however the midnights     *)
(* fall between the look at the date, the opening of the file and the      *)
(* append, no text goes to the file of a day before its write began.       *)
THEOREM LinesGoToTheirDay == Spec => []RightDay
<1>1. DailyInv => RightDay
  BY DEF DailyInv, DatesOK, DateOK, RightDay
<1> QED
  BY <1>1, DailyInvariant, PTL
=============================================================================

------------------------------ MODULE DailyLog ------------------------------
(***************************************************************************)
(* The daily log of presentation/logging/daily.py.  Each worker process    *)
(* tees its stdout into the file of the day, whole lines only and without  *)
(* the lines of WARNING, ERROR, DEBUG and CRITICAL events; the processes   *)
(* that mount logs/ append to the same files, and `make app-clean` removes *)
(* what is not of its own today while they write.                          *)
(*                                                                         *)
(* Text is a sequence of pieces.  A line is noise when it holds the two    *)
(* halves of an event's mark side by side; a write can end between them.   *)
(***************************************************************************)
EXTENDS Integers, Sequences, SequencesExt

CONSTANTS
    Writers,    \* worker processes
    Messages,   \* what each says: the writes of one print or one log record
    Skews,      \* days from the writers' today to that of app-clean's timezone
    Faults,     \* "kill", "open" (the day's file cannot be opened)
    MaxDay,     \* bound: midnights
    MaxSaid,    \* bound: messages
    MaxCleans   \* bound: runs of app-clean

Pieces == {"words", "half", "rest", "end"}

(* print(..., flush=True) and StreamHandler.emit flush at the end of a     *)
(* line, so every message is whole lines.                                  *)
ASSUME DailyAssumption ==
    /\ \A w \in Writers : \A m \in Messages[w] :
          /\ m \in Seq(Seq(Pieces)) /\ m # <<>>
          /\ \A i \in DOMAIN m : m[i] # <<>>
          /\ Last(Last(m)) = "end"
    /\ Skews \subseteq Int
    /\ Faults \subseteq {"kill", "open"}
    /\ MaxDay \in Nat /\ MaxSaid \in Nat /\ MaxCleans \in Nat

VARIABLES
    today,      \* the date in WINDOW_TIMEZONE
    files,      \* per day, the files that have had its name, in order; history:
                \* the place of each piece in what the process said
    linked,     \* the days whose last file still has its name
    handle,     \* _day and the file _handle is open on
    pending,    \* _pending, and before it the line that is being filed
    script,     \* writes of the message at hand still to come
    phase,      \* where each process is
    filing,     \* where it is in DailyLogFile.write
    date,       \* the today of _ensure while it opens a file
    since,      \* history: the day its last write began, or its exit
    cleaner,    \* app-clean: its today, and the days it is yet to remove
    heard,      \* history: what the primary stream got, less what was lost
    said,       \* bound: messages so far
    cleans,     \* bound: runs of app-clean so far
    astray      \* history: days that app-clean took the file of

writing  == <<files, linked, handle>>
cleaning == <<cleaner, cleans, astray>>
ensuring == <<filing, date>>
tees     == <<pending, script, phase, ensuring, since, heard, said>>
vars     == <<today, writing, tees, cleaning>>

Days == 0 .. MaxDay

NoDay == -1

Closed == [day |-> NoDay, gen |-> 0]

Phases == {"down", "calm", "writing", "splitting", "flushing", "leaving"}

Idle == [step |-> "idle", day |-> 0, at |-> 0, stale |-> {}]

IsNoise(text) ==
    \E i \in 1 .. Len(text) - 1 : text[i] = "half" /\ text[i + 1] = "rest"

DailyTypeOK ==
    /\ today \in Days
    /\ \A d \in Days : \A g \in DOMAIN files[d] :
          files[d][g] \in Seq([by : Writers, piece : Pieces, nth : Nat])
    /\ linked \subseteq {d \in Days : files[d] # <<>>}
    /\ \A w \in Writers : \/ handle[w] = Closed
                          \/ /\ handle[w].day \in Days
                             /\ handle[w].gen \in DOMAIN files[handle[w].day]
    /\ pending \in [Writers -> Seq(Pieces)]
    /\ phase \in [Writers -> Phases]
    /\ filing \in [Writers -> {"no", "opening", "appending"}]
    /\ \A w \in Writers : filing[w] = "appending" => handle[w] # Closed
    /\ \A w \in Writers : IF filing[w] = "opening" THEN date[w] \in 0 .. today
                                                 ELSE date[w] = NoDay
    /\ since \in [Writers -> Days]
    /\ cleaner.stale \subseteq Days

Init ==
    /\ today = 0
    /\ files = [d \in Days |-> <<>>]
    /\ linked = {}
    /\ handle = [w \in Writers |-> Closed]
    /\ pending = [w \in Writers |-> <<>>]
    /\ script = [w \in Writers |-> <<>>]
    /\ phase = [w \in Writers |-> "down"]
    /\ filing = [w \in Writers |-> "no"]
    /\ date = [w \in Writers |-> NoDay]
    /\ since = [w \in Writers |-> 0]
    /\ cleaner = Idle
    /\ heard = [w \in Writers |-> <<>>]
    /\ said = 0
    /\ cleans = 0
    /\ astray = {}

Goto(w, place) == phase' = [phase EXCEPT ![w] = place]

-----------------------------------------------------------------------------
(* DailyLogFile.                                                           *)

(* Slip: the file is opened once and kept, whatever the day.               *)
IsCurrentOnce(w) == handle[w] # Closed

(* _ensure needs to open nothing.                                          *)
IsCurrent(w) == handle[w] # Closed /\ handle[w].day = today

(* Opening for append makes a file when no file has the name.              *)
Opened(d) ==
    [day |-> d, gen |-> IF d \in linked THEN Len(files[d]) ELSE Len(files[d]) + 1]

-----------------------------------------------------------------------------
(* TeeStream, in a process that logs and prints.                           *)

(* attach_daily_stdio: nothing is open until the first line.               *)
Boot(w) ==
    /\ phase[w] = "down"
    /\ handle' = [handle EXCEPT ![w] = Closed]
    /\ Goto(w, "calm")
    /\ UNCHANGED <<today, files, linked, pending, script, ensuring, since, cleaning,
                   heard, said>>

Say(w, message) ==
    /\ phase[w] = "calm"
    /\ said < MaxSaid
    /\ script' = [script EXCEPT ![w] = message]
    /\ said' = said + 1
    /\ Goto(w, "writing")
    /\ UNCHANGED <<today, writing, pending, ensuring, since, cleaning, heard>>

(* write(data): first the primary stream.                                  *)
TeeWrite(w) ==
    /\ phase[w] = "writing"
    /\ pending' = [pending EXCEPT ![w] = @ \o Head(script[w])]
    /\ heard' = [heard EXCEPT ![w] = @ \o Head(script[w])]
    /\ script' = [script EXCEPT ![w] = Tail(@)]
    /\ since' = [since EXCEPT ![w] = today]
    /\ Goto(w, "splitting")
    /\ UNCHANGED <<today, writing, ensuring, cleaning, said>>

HasLine(text) == \E i \in DOMAIN text : text[i] = "end"

FirstEnd(text) ==
    CHOOSE i \in DOMAIN text :
        text[i] = "end" /\ \A j \in 1 .. i - 1 : text[j] # "end"

FirstLine(text) == SubSeq(text, 1, FirstEnd(text))

OtherLines(text) == SubSeq(text, FirstEnd(text) + 1, Len(text))

(* What the tee is to pass on, and what then remains: a complete line of   *)
(* what a write left, or at a flush whatever there is.                     *)
AtHand(w) == IF phase[w] = "splitting" THEN FirstLine(pending[w]) ELSE pending[w]

Left(w) == IF phase[w] = "splitting" THEN OtherLines(pending[w]) ELSE <<>>

HasText(w) ==
    \/ phase[w] = "splitting" /\ HasLine(pending[w])
    \/ phase[w] \in {"flushing", "leaving"} /\ pending[w] # <<>>

(* Slip: the buffer is judged, and not the line.                           *)
DropsByBuffer(w) == IsNoise(pending[w])

Drops(w) == IsNoise(AtHand(w))

(* What w has passed on or dropped of what its primary stream got.         *)
Settled(w) == SubSeq(heard[w], 1, Len(heard[w]) - Len(pending[w]))

(* Noise goes nowhere.  Lines that a failure left waiting are judged, and  *)
(* dropped, as one.                                                        *)
DropNoise(w) ==
    /\ filing[w] = "no"
    /\ HasText(w)
    /\ Drops(w)
    /\ pending' = [pending EXCEPT ![w] = Left(w)]
    /\ heard' = [heard EXCEPT ![w] = IF phase[w] = "splitting" THEN @ ELSE Settled(w)]
    /\ UNCHANGED <<today, writing, script, phase, ensuring, since, cleaning, said>>

(* _ensure reads the date, and closes the file of another.                 *)
Ensure(w) ==
    /\ filing[w] = "no"
    /\ HasText(w)
    /\ ~ Drops(w)
    /\ date' = [date EXCEPT ![w] = IF IsCurrent(w) THEN @ ELSE today]
    /\ filing' = [filing EXCEPT ![w] = IF IsCurrent(w) THEN "appending" ELSE "opening"]
    /\ handle' = [handle EXCEPT ![w] = IF IsCurrent(w) THEN @ ELSE Closed]
    /\ UNCHANGED <<today, files, linked, pending, script, phase, since, cleaning,
                   heard, said>>

(* The file of that date is opened, whatever the date is by now.           *)
OpenDay(w) ==
    /\ filing[w] = "opening"
    /\ handle' = [handle EXCEPT ![w] = Opened(date[w])]
    /\ linked' = linked \cup {date[w]}
    /\ files' = IF date[w] \in linked THEN files
                ELSE [files EXCEPT ![date[w]] = Append(@, <<>>)]
    /\ date' = [date EXCEPT ![w] = NoDay]
    /\ filing' = [filing EXCEPT ![w] = "appending"]
    /\ UNCHANGED <<today, pending, script, phase, since, cleaning, heard, said>>

(* One append, flushed, to the file that is open, named or not.            *)
AppendText(w) ==
    /\ filing[w] = "appending"
    /\ LET text   == AtHand(w)
           signed == [i \in DOMAIN text |-> [by |-> w, piece |-> text[i],
                                             nth |-> Len(Settled(w)) + i]]
       IN  files' = [files EXCEPT ![handle[w].day][handle[w].gen] = @ \o signed]
    /\ pending' = [pending EXCEPT ![w] = Left(w)]
    /\ filing' = [filing EXCEPT ![w] = "no"]
    /\ UNCHANGED <<today, linked, handle, script, phase, date, since, cleaning,
                   heard, said>>

(* The program's own writes all end a line; a line in several writes is    *)
(* what the interpreter prints of an error, and what the tests do.         *)
WholeWrites(w) == \A m \in Messages[w] : \A i \in DOMAIN m : Last(m[i]) = "end"

(* Slip: _ensure sets the day before it opens.                             *)
LoseLineDayKept(w) ==
    /\ "open" \in Faults /\ WholeWrites(w)
    /\ filing[w] = "opening"
    /\ handle' = [handle EXCEPT ![w] = [day |-> date[w], gen |-> 0]]
    /\ pending' = [pending EXCEPT ![w] = Left(w)]
    /\ heard' = [heard EXCEPT ![w] = Settled(w) \o Left(w)]
    /\ script' = [script EXCEPT ![w] = <<>>]
    /\ filing' = [filing EXCEPT ![w] = "no"]
    /\ date' = [date EXCEPT ![w] = NoDay]
    /\ Goto(w, IF phase[w] = "leaving" THEN "down" ELSE "calm")
    /\ UNCHANGED <<today, files, linked, since, cleaning, said>>

(* The day's file cannot be opened: the line is gone, the handle closed,   *)
(* and the lines after it wait in _pending for the next write.             *)
LoseLine(w) ==
    /\ "open" \in Faults /\ WholeWrites(w)
    /\ filing[w] = "opening"
    /\ pending' = [pending EXCEPT ![w] = Left(w)]
    /\ heard' = [heard EXCEPT ![w] = Settled(w) \o Left(w)]
    /\ script' = [script EXCEPT ![w] = <<>>]
    /\ filing' = [filing EXCEPT ![w] = "no"]
    /\ date' = [date EXCEPT ![w] = NoDay]
    /\ Goto(w, IF phase[w] = "leaving" THEN "down" ELSE "calm")
    /\ UNCHANGED <<today, writing, since, cleaning, said>>

(* Slip: the tee flushes after every write.                                *)
EndWriteFlushing(w) ==
    /\ phase[w] = "splitting"
    /\ ~ HasLine(pending[w])
    /\ Goto(w, "flushing")
    /\ UNCHANGED <<today, writing, pending, script, ensuring, since, cleaning, heard, said>>

(* The next write of the message, or the flush that ends it.               *)
EndWrite(w) ==
    /\ phase[w] = "splitting"
    /\ ~ HasLine(pending[w])
    /\ Goto(w, CASE script[w] # <<>> -> "writing"
                 [] script[w] = <<>> /\ pending[w] = <<>> -> "calm"
                 [] OTHER -> "flushing")
    /\ UNCHANGED <<today, writing, pending, script, ensuring, since, cleaning, heard, said>>

(* The process returns, and the interpreter flushes its stdout.            *)
Exit(w) ==
    /\ phase[w] = "calm"
    /\ since' = [since EXCEPT ![w] = today]
    /\ Goto(w, IF pending[w] = <<>> THEN "down" ELSE "leaving")
    /\ UNCHANGED <<today, writing, pending, script, ensuring, cleaning, heard, said>>

(* flush() returns when what there was of a line is out as it was.         *)
EndFlush(w) ==
    /\ phase[w] \in {"flushing", "leaving"}
    /\ pending[w] = <<>>
    /\ Goto(w, CASE phase[w] = "leaving" -> "down"
                 [] phase[w] = "flushing" /\ script[w] = <<>> -> "calm"
                 [] OTHER -> "writing")
    /\ UNCHANGED <<today, writing, pending, script, ensuring, since, cleaning, heard, said>>

Kill(w) ==
    /\ "kill" \in Faults
    /\ phase[w] # "down"
    /\ heard' = [heard EXCEPT ![w] = Settled(w)]
    /\ pending' = [pending EXCEPT ![w] = <<>>]
    /\ script' = [script EXCEPT ![w] = <<>>]
    /\ filing' = [filing EXCEPT ![w] = "no"]
    /\ date' = [date EXCEPT ![w] = NoDay]
    /\ Goto(w, "down")
    /\ UNCHANGED <<today, writing, since, cleaning, said>>

Midnight ==
    /\ today < MaxDay
    /\ today' = today + 1
    /\ UNCHANGED <<writing, tees, cleaning>>

-----------------------------------------------------------------------------
(* make app-clean: stage_clean with stale_daily_log_paths.                 *)

(* datetime.now(...).date(), in the timezone of its own environment.       *)
ReadDate ==
    /\ cleaner.step = "idle"
    /\ cleans < MaxCleans
    /\ cleans' = cleans + 1
    /\ \E skew \in Skews :
         cleaner' = [step |-> "listing", day |-> today + skew, at |-> today, stale |-> {}]
    /\ UNCHANGED <<today, writing, tees, astray>>

(* Slip: the file of the day is not kept.                                  *)
StaleAll(day) == linked

Stale(day) == linked \ {day}

ListStale ==
    /\ cleaner.step = "listing"
    /\ cleaner' = [cleaner EXCEPT !.step = "removing", !.stale = Stale(cleaner.day)]
    /\ UNCHANGED <<today, writing, tees, cleans, astray>>

(* The cleaner's today was never the writers', or is so no more.           *)
Misdated == cleaner.day # cleaner.at \/ cleaner.at # today

(* One file after another; one that cannot be removed is left.             *)
RemoveStale(d) ==
    /\ d \in cleaner.stale
    /\ cleaner' = [cleaner EXCEPT !.stale = @ \ {d}]
    /\ linked' \in {linked, linked \ {d}}
    /\ astray' = astray \cup {e \in linked \ linked' : Misdated /\ e = today}
    /\ UNCHANGED <<today, files, handle, tees, cleans>>

EndClean ==
    /\ cleaner.step = "removing"
    /\ cleaner.stale = {}
    /\ cleaner' = Idle
    /\ UNCHANGED <<today, writing, tees, cleans, astray>>

Next ==
    \/ \E w \in Writers : Boot(w) \/ TeeWrite(w) \/ EndWrite(w) \/ Exit(w) \/ EndFlush(w)
    \/ \E w \in Writers : \E message \in Messages[w] : Say(w, message)
    \/ \E w \in Writers : DropNoise(w) \/ Ensure(w) \/ OpenDay(w) \/ AppendText(w)
    \/ \E w \in Writers : LoseLine(w) \/ Kill(w)
    \/ Midnight
    \/ ReadDate \/ ListStale \/ EndClean
    \/ \E d \in Days : RemoveStale(d)

Spec == Init /\ [][Next]_vars

-----------------------------------------------------------------------------
(* Properties.                                                             *)

(* The files hold whole lines, each of one process, and no noise, whatever *)
(* the splits, kills and failures: "omite WARNING/ERROR/DEBUG/CRITICAL     *)
(* semanticos" (engineering-logging).                                      *)
WholeLines ==
    \A d \in Days : \A g \in DOMAIN files[d] :
        LET text == files[d][g] IN
        \A i \in DOMAIN text :
            text[i].piece # "end" =>
                /\ i < Len(text)
                /\ text[i + 1].by = text[i].by
                /\ ~ (text[i].piece = "half" /\ text[i + 1].piece = "rest")

(* The places in the files, and what is there.                             *)
Spots ==
    UNION {UNION {{<<d, g, i>> : i \in DOMAIN files[d][g]} : g \in DOMAIN files[d]} :
              d \in Days}

At(spot) == files[spot[1]][spot[2]][spot[3]]

Own(w) == {spot \in Spots : At(spot).by = w}

(* The files of a day in the order they were made, and the days in theirs. *)
Before(s, t) ==
    \/ s[1] < t[1]
    \/ s[1] = t[1] /\ s[2] < t[2]
    \/ s[1] = t[1] /\ s[2] = t[2] /\ s[3] < t[3]

(* The positions of the lines of a text that are complete and no noise.    *)
Worthy(text) ==
    {i \in DOMAIN text :
        \E b, e \in DOMAIN text :
            /\ i \in b .. e
            /\ b = 1 \/ text[b - 1] = "end"
            /\ \A j \in b .. e : text[j] = "end" <=> j = e
            /\ ~ IsNoise(SubSeq(text, b, e))}

(* The files of the days, read in order, say what the primary stream of    *)
(* the process said, less the noise: no line twice, none out of order,     *)
(* none missing across midnights, restarts and files removed under it, but *)
(* those that a kill or a file that would not open took, or kept waiting   *)
(* until the process ended.                                                *)
FollowsPrimary ==
    \A w \in Writers :
        /\ {At(spot).nth : spot \in Own(w)} = Worthy(Settled(w))
        /\ \A spot \in Own(w) : At(spot).piece = heard[w][At(spot).nth]
        /\ \A s, t \in Own(w) : Before(s, t) => At(s).nth < At(t).nth

(* A process that writes today writes to the file that bears today's name  *)
(* ("o arquivo vigente", README), app-clean running or not, unless its run *)
(* took another day for today.                                             *)
TodayIsFound ==
    \A w \in Writers :
        phase[w] # "down" /\ handle[w].day = today /\ today \notin astray =>
            today \in linked /\ handle[w].gen = Len(files[today])

(* What a write hands to a file goes to that of a day it saw: the date is  *)
(* read before the file is opened and its line appended, so midnight may   *)
(* leave a line in the file of the day before, but never of one before the *)
(* write, however long the file was open.                                  *)
RightDay ==
    \A w \in Writers : filing[w] = "appending" => handle[w].day \in since[w] .. today
=============================================================================

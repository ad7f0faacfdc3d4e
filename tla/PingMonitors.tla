---------------------------- MODULE PingMonitors ----------------------------
(***************************************************************************)
(* The one-shot ping: ping_monitors.py probes every configured monitor in  *)
(* parallel and, as the answers come, records each one as the `enabled` of *)
(* its .conf file through ini_server_config.py.  The files are shared with *)
(* the polling worker, which reads them each cycle, with the Nagstamon GUI *)
(* that owns them, and with any other ping.                                *)
(*                                                                         *)
(* A path holds an inode: a file opened for writing stays the file it was  *)
(* when a rename moves it, so the handle of one process can outlive its    *)
(* name for another.                                                       *)
(***************************************************************************)
EXTENDS Integers

CONSTANTS
    Pings,      \* processes running the ping
    Servers,    \* the sections of the .conf files
    Confs,      \* the .conf files
    ConfOf,     \* the file of each section
    NameOf,     \* file name less "server_" and ".conf": MonitorServer.name
    OrderOf,    \* the place of each file in sorted(iterdir())
    Inodes,
    Torn,       \* the content of a file opened and not yet filled
    None,
    Faults      \* which of "kill", "io", "raise" and "edit" happen

ASSUME PingAssumption ==
    /\ ConfOf \in [Servers -> Confs]
    /\ OrderOf \in [Confs -> Nat]
    /\ \A c, d \in Confs : OrderOf[c] = OrderOf[d] => c = d
    /\ DOMAIN NameOf = Confs
    /\ Faults \subseteq {"kill", "io", "raise", "edit"}
    /\ None \notin Inodes \cup Confs

VARIABLES
    disk,       \* the content of each inode
    path,       \* the inode of each .conf file, None for one that is not there
    tmp,        \* the inode of the temporary file beside it, or None
    pc,         \* where each ping is
    listed,     \* the `enabled` list_all read, per server
    verdict,    \* the results of its probes
    handled,    \* servers whose result execute() has handled
    target,     \* the file set_enabled is at
    text,       \* its new_text
    fd,         \* the inode it has open for writing
    excused,    \* history: files others wrote, or it failed to read or write
    late,       \* history: pings whose file another hand wrote since they read it
    clashed     \* history: files two pings were writing at once

vars ==
    <<disk, path, tmp, pc, listed, verdict, handled, target, text, fd, excused, late, clashed>>

Flags == {"True", "False", "missing"}

In(c) == {s \in Servers : ConfOf[s] = c}

(* `mine` stands for everything else the user keeps in the file. *)
Content(c) == [enabled : [In(c) -> Flags], mine : {"old", "edited"}]

ASSUME TornAssumption == \A c \in Confs : Torn \notin Content(c)

Files == {c \in Confs : path[c] # None}

Conf(c) == disk[path[c]]

AtRest == {"idle", "done", "failed"}

Init ==
    /\ path \in [Confs -> Inodes \cup {None}]
    /\ \A c, d \in Files : path[c] = path[d] => c = d
    /\ \E flags \in [Servers -> Flags] :
         disk = [i \in Inodes |->
                   IF \E c \in Files : path[c] = i
                   THEN LET c == CHOOSE c \in Files : path[c] = i
                        IN  [enabled |-> [s \in In(c) |-> flags[s]], mine |-> "old"]
                   ELSE Torn]
    /\ tmp = [c \in Confs |-> None]
    /\ pc = [p \in Pings |-> "idle"]
    /\ listed = [p \in Pings |-> [s \in Servers |-> "unlisted"]]
    /\ verdict = [p \in Pings |-> [s \in Servers |-> "unknown"]]
    /\ handled = [p \in Pings |-> {}]
    /\ target = [p \in Pings |-> None]
    /\ text = [p \in Pings |-> Torn]
    /\ fd = [p \in Pings |-> None]
    /\ excused = [p \in Pings |-> {}]
    /\ late = {}
    /\ clashed = {}

Goto(p, place) == pc' = [pc EXCEPT ![p] = place]

Excuse(pings, c) ==
    excused' = [p \in Pings |-> IF p \in pings THEN excused[p] \cup {c} ELSE excused[p]]

(* A ping between its read of c and its rename has not seen this write. *)
Overtake(pings, c) ==
    late' = late \cup {p \in pings : /\ pc[p] \in {"opening", "filling", "replacing"}
                                    /\ target[p] = c}

-----------------------------------------------------------------------------
(* What happens around a ping.                                             *)

(* The GUI saves its settings over the file. *)
Edit(c) ==
    /\ "edit" \in Faults
    /\ c \in Files
    /\ \E flags \in [In(c) -> {"True", "False"}] :
         disk' = [disk EXCEPT ![path[c]] = [enabled |-> flags, mine |-> "edited"]]
    /\ Excuse(Pings, c)
    /\ Overtake(Pings, c)
    /\ UNCHANGED <<path, tmp, pc, listed, verdict, handled, target, text, fd, clashed>>

-----------------------------------------------------------------------------
(* PingMonitorsUseCase.execute.                                            *)

(* list_all: a section without `enabled` is read as disabled; a file that  *)
(* cannot be parsed contributes nothing.                                   *)
ListAll(p) ==
    /\ pc[p] \in AtRest
    /\ listed' = [listed EXCEPT ![p] =
                    [s \in Servers |->
                       IF ConfOf[s] \notin Files \/ Conf(ConfOf[s]) = Torn
                       THEN "unlisted"
                       ELSE IF Conf(ConfOf[s]).enabled[s] = "True" THEN "True"
                       ELSE "False"]]
    /\ verdict' = [verdict EXCEPT ![p] = [s \in Servers |-> "unknown"]]
    /\ handled' = [handled EXCEPT ![p] = {}]
    /\ excused' = [excused EXCEPT ![p] = {}]
    /\ Goto(p, "collecting")
    /\ UNCHANGED <<disk, path, tmp, target, text, fd, late, clashed>>

(* A thread of the pool ends its probe: whether the monitor answered 2xx.  *)
(* What probe() does not catch comes out of future.result().               *)
Probe(p, s) ==
    /\ pc[p] \notin AtRest
    /\ listed[p][s] # "unlisted"
    /\ verdict[p][s] = "unknown"
    /\ \E answer \in {"True", "False"}
                       \cup (IF "raise" \in Faults THEN {"raised"} ELSE {}) :
         verdict' = [verdict EXCEPT ![p][s] = answer]
    /\ UNCHANGED <<disk, path, tmp, pc, listed, handled, target, text, fd, excused, late, clashed>>

Completed(p) ==
    {s \in Servers : verdict[p][s] \in {"True", "False"} /\ s \notin handled[p]}

(* Back in the loop over the results. *)
Resume(p) ==
    /\ target' = [target EXCEPT ![p] = None]
    /\ text' = [text EXCEPT ![p] = Torn]
    /\ Goto(p, "collecting")

Handle(p, s) == handled' = [handled EXCEPT ![p] = @ \cup {s}]

(* A result that agrees with what was listed changes nothing. *)
LeaveUnchanged(p, s) ==
    /\ pc[p] = "collecting"
    /\ s \in Completed(p)
    /\ listed[p][s] = verdict[p][s]
    /\ Handle(p, s)
    /\ UNCHANGED <<disk, path, tmp, pc, listed, verdict, target, text, fd, excused, late, clashed>>

(* Slip: a value that is written as True whatever it is. *)
RewrittenAlways(content, value) ==
    IF content = Torn THEN Torn ELSE
    [content EXCEPT !.enabled = [s \in DOMAIN content.enabled |-> "True"]]

(* Slip: the file is written anew, with what the program knows of it. *)
RewrittenAnew(content, value) ==
    IF content = Torn THEN Torn ELSE
    [mine |-> "old",
     enabled |-> [s \in DOMAIN content.enabled |->
                    IF content.enabled[s] = "missing" THEN "missing" ELSE value]]

(* Every `enabled` line of the file, its sections notwithstanding; a file  *)
(* opened and not yet filled has none.                                     *)
Rewritten(content, value) ==
    IF content = Torn THEN Torn ELSE
    [content EXCEPT !.enabled =
       [s \in DOMAIN content.enabled |->
          IF content.enabled[s] = "missing" THEN "missing" ELSE value]]

(* The first file, in sorted order, whose name reads as the server's. *)
PathForName(name) ==
    CHOOSE c \in Files :
        /\ NameOf[c] = name
        /\ \A d \in Files : NameOf[d] = name => OrderOf[c] <= OrderOf[d]

(* set_enabled: find the file, read it and rewrite its text.  A text       *)
(* without an `enabled` line, or one that says so already, is left alone,  *)
(* as is a file that cannot be read.                                       *)
SetEnabled(p, s) ==
    /\ pc[p] = "collecting"
    /\ s \in Completed(p)
    /\ listed[p][s] # verdict[p][s]
    /\ Handle(p, s)
    /\ late' = late \ {p}
    /\ LET c       == PathForName(NameOf[ConfOf[s]])
           newText == Rewritten(Conf(c), verdict[p][s])
       IN  \/ /\ newText # Conf(c)
              /\ target' = [target EXCEPT ![p] = c]
              /\ text' = [text EXCEPT ![p] = newText]
              /\ Goto(p, "opening")
              /\ UNCHANGED excused
           \/ /\ newText = Conf(c)
              /\ UNCHANGED <<target, text, pc, excused>>
           \/ /\ "io" \in Faults
              /\ Excuse({p}, c)  \* read_text raises
              /\ UNCHANGED <<target, text, pc>>
    /\ UNCHANGED <<disk, path, tmp, listed, verdict, fd, clashed>>

Free == {i \in Inodes : /\ \A c \in Confs : i \notin {path[c], tmp[c]}
                        /\ \A p \in Pings : fd[p] # i}

(* Slip: the .conf file itself is opened for writing. *)
OpenConf(p) ==
    /\ pc[p] = "opening"
    /\ fd' = [fd EXCEPT ![p] = path[target[p]]]
    /\ disk' = [disk EXCEPT ![path[target[p]]] = Torn]
    /\ Goto(p, "filling")
    /\ UNCHANGED <<path, tmp, listed, verdict, handled, target, text, excused, late, clashed>>

(* tmp.write_text creates or truncates the file of that name. *)
OpenTmp(p) ==
    /\ pc[p] = "opening"
    /\ LET c == target[p]
           i == IF tmp[c] # None THEN tmp[c] ELSE CHOOSE f \in Free : TRUE
       IN  /\ tmp[c] # None \/ Free # {}
           /\ tmp' = [tmp EXCEPT ![c] = i]
           /\ fd' = [fd EXCEPT ![p] = i]
           /\ disk' = [disk EXCEPT ![i] = Torn]
           /\ clashed' = IF \E q \in Pings \ {p} :
                               target[q] = c /\ pc[q] \in {"filling", "replacing"}
                         THEN clashed \cup {c}
                         ELSE clashed
    /\ Goto(p, "filling")
    /\ UNCHANGED <<path, listed, verdict, handled, target, text, excused, late>>

(* Filled and closed: if another ping has moved the file onto the .conf    *)
(* meanwhile, it is the .conf that is filled.                              *)
FillTmp(p) ==
    /\ pc[p] = "filling"
    /\ disk' = [disk EXCEPT ![fd[p]] = text[p]]
    /\ fd' = [fd EXCEPT ![p] = None]
    /\ Goto(p, "replacing")
    /\ Excuse(Pings \ {p}, target[p])
    /\ Overtake(Pings \ {p}, target[p])
    /\ UNCHANGED <<path, tmp, listed, verdict, handled, target, text, clashed>>

(* os.replace: without a file of that name it raises, and set_enabled goes *)
(* to its except clause.                                                   *)
ReplaceConf(p) ==
    /\ pc[p] = "replacing"
    /\ LET c == target[p]
       IN  \/ /\ tmp[c] # None
              /\ path' = [path EXCEPT ![c] = tmp[c]]
              /\ tmp' = [tmp EXCEPT ![c] = None]
              /\ disk' = [disk EXCEPT ![path[c]] = Torn]  \* let go
              /\ Excuse(Pings \ {p}, c)
              /\ Overtake(Pings \ {p}, c)
              /\ Resume(p)
           \/ /\ tmp[c] = None
              /\ Excuse({p}, c)
              /\ Goto(p, "unlinking")
              /\ UNCHANGED <<disk, path, tmp, target, text, late>>
    /\ UNCHANGED <<listed, verdict, handled, fd, clashed>>

WriteFails(p) ==
    /\ "io" \in Faults
    /\ pc[p] \in {"opening", "filling", "replacing"}
    /\ fd' = [fd EXCEPT ![p] = None]
    /\ Excuse({p}, target[p])
    /\ Goto(p, "unlinking")
    /\ UNCHANGED <<disk, path, tmp, listed, verdict, handled, target, text, late, clashed>>

(* The failure is logged and the next result handled. *)
UnlinkTmp(p) ==
    /\ pc[p] = "unlinking"
    /\ tmp' = [tmp EXCEPT ![target[p]] = None]
    /\ Resume(p)
    /\ UNCHANGED <<disk, path, listed, verdict, handled, fd, excused, late, clashed>>

(* Every result handled: exit 0.  One that raises ends the ping, the rest  *)
(* of the pool awaited, with the results after it unhandled: exit 1.       *)
EndPing(p) ==
    /\ pc[p] = "collecting"
    /\ \A s \in Servers : listed[p][s] # "unlisted" => verdict[p][s] # "unknown"
    /\ \/ /\ \A s \in Servers : listed[p][s] # "unlisted" => s \in handled[p]
          /\ Goto(p, "done")
       \/ /\ \E s \in Servers : verdict[p][s] = "raised"
          /\ Goto(p, "failed")
    /\ UNCHANGED <<disk, path, tmp, listed, verdict, handled, target, text, fd>>
    /\ UNCHANGED <<excused, late, clashed>>

Kill(p) ==
    /\ "kill" \in Faults
    /\ pc[p] \notin AtRest
    /\ fd' = [fd EXCEPT ![p] = None]
    /\ target' = [target EXCEPT ![p] = None]
    /\ text' = [text EXCEPT ![p] = Torn]
    /\ listed' = [listed EXCEPT ![p] = [s \in Servers |-> "unlisted"]]
    /\ verdict' = [verdict EXCEPT ![p] = [s \in Servers |-> "unknown"]]
    /\ handled' = [handled EXCEPT ![p] = {}]
    /\ excused' = [excused EXCEPT ![p] = {}]
    /\ Goto(p, "idle")
    /\ UNCHANGED <<disk, path, tmp, late, clashed>>

Write(p) ==
    \/ OpenTmp(p)
    \/ FillTmp(p)
    \/ ReplaceConf(p)
    \/ WriteFails(p)
    \/ UnlinkTmp(p)

Next ==
    \/ \E c \in Confs : Edit(c)
    \/ \E p \in Pings : ListAll(p) \/ EndPing(p) \/ Kill(p)
    \/ \E p \in Pings, s \in Servers :
          Probe(p, s) \/ LeaveUnchanged(p, s) \/ SetEnabled(p, s)
    \/ \E p \in Pings : Write(p)

Spec == Init /\ [][Next]_vars

-----------------------------------------------------------------------------
(* Properties.                                                             *)

(* A reader never finds a file half written, wherever a ping is killed or  *)
(* fails: the polling worker would drop its monitors, and their alerts     *)
(* with them.  The one way is two pings at once, through the name their    *)
(* temporary files share.                                                  *)
ConfsReadable == \A c \in Files : Conf(c) = Torn => c \in clashed

(* A ping that ends well has left in each file the result of its own probe *)
(* of that monitor, unless another hand changed the file meanwhile or the  *)
(* write failed: "set_enabled conforme 2xx" (arquitetura).                 *)
Settled ==
    \A p \in Pings, s \in Servers :
        /\ pc[p] = "done"
        /\ listed[p][s] # "unlisted"
        /\ ConfOf[s] \notin excused[p]
        /\ Conf(ConfOf[s]) # Torn
        => Conf(ConfOf[s]).enabled[s] \in {"missing", verdict[p][s]}

(* What the user saved is undone only where it was saved between a ping's  *)
(* read of the file and its rename, or where two pings write at once:      *)
(* set_enabled "preserves other lines" (test_ini_and_sink).                *)
EditsKept ==
    [][\A c \in Files :
         Conf(c) # Torn /\ Conf(c)' # Torn /\ Conf(c).mine = "edited" =>
            \/ Conf(c)'.mine = "edited"
            \/ c \in clashed
            \/ \E p \in late : pc[p] = "replacing" /\ target[p] = c]_vars
=============================================================================

----------------------------- MODULE LedgerFile -----------------------------
(***************************************************************************)
(* How file_alert_dispatch_ledger.py runs one call: the instance's thread  *)
(* lock, flock on a file beside the ledger, load, dump to a temporary file *)
(* and os.replace, by the threads of several processes that can die at any *)
(* point.  The kernel drops the flock of a dead process; a temporary file  *)
(* it left half written stays.                                             *)
(***************************************************************************)
EXTENDS LedgerCalls

CONSTANTS
    Processes,
    ProcessOf,  \* the process of each thread: one ledger instance, one lock
    Missing,    \* a file that does not exist
    Torn,       \* a file whose content is not a whole JSON object
    Nobody

ASSUME FileAssumption ==
    /\ ProcessOf \in [Threads -> Processes]
    /\ Missing \notin Store /\ Torn \notin Store /\ Missing # Torn
    /\ Nobody \notin Threads

VARIABLES
    file,     \* the ledger file
    tmp,      \* the temporary file beside it
    mutex,    \* holder of each process's threading.Lock
    flock,    \* holder of the exclusive flock
    pc,       \* where each thread is in its call
    records,  \* its local records
    call,     \* the call it is in
    answer,   \* "none" while the call has not taken effect
    unread    \* history: the threads whose call could not read the ledger

fileVars == <<file, tmp, mutex, flock, pc, records, call, answer, unread>>

Inside == {"loading", "dumping", "writing", "replacing"}
Places == {"idle", "locking", "flocking", "unlocking"} \cup Inside

FileTypeOK ==
    /\ file \in Store \cup {Missing}
    /\ tmp \in Store \cup {Missing, Torn}
    /\ mutex \in [Processes -> Threads \cup {Nobody}]
    /\ flock \in Threads \cup {Nobody}
    /\ pc \in [Threads -> Places]
    /\ records \in [Threads -> Store]
    /\ call \in [Threads -> Calls \cup {NoCall}]
    /\ answer \in [Threads -> {"none", "denied", "done", "raised"}]
    /\ unread \subseteq Threads

FileInit ==
    /\ file = Missing
    /\ tmp = Missing
    /\ mutex = [p \in Processes |-> Nobody]
    /\ flock = Nobody
    /\ pc = [t \in Threads |-> "idle"]
    /\ records = [t \in Threads |-> Empty]
    /\ call = [t \in Threads |-> NoCall]
    /\ answer = [t \in Threads |-> "none"]
    /\ unread = {}

At(t, from, to) ==
    /\ pc[t] = from
    /\ pc' = [pc EXCEPT ![t] = to]

(* _load: a missing or a broken file is an empty ledger. *)
Loaded(content) == IF content \in {Missing, Torn} THEN Empty ELSE content

(* So is one that cannot be read or decoded: what t loads, or has loaded.  *)
LoadedBy(t) == IF t \in unread THEN Empty ELSE Loaded(file)

BeginCall(t) ==
    /\ At(t, "idle", "locking")
    /\ \E c \in Calls : call' = [call EXCEPT ![t] = c]
    /\ UNCHANGED <<file, tmp, mutex, flock, records, answer, unread>>

TakeMutex(t) ==
    /\ At(t, "locking", "flocking")
    /\ mutex[ProcessOf[t]] = Nobody
    /\ mutex' = [mutex EXCEPT ![ProcessOf[t]] = t]
    /\ UNCHANGED <<file, tmp, flock, records, call, answer, unread>>

(* Slip: the thread lock alone, which other processes do not share.        *)
TakeNoFlock(t) ==
    /\ At(t, "flocking", "loading")
    /\ UNCHANGED <<file, tmp, mutex, flock, records, call, answer, unread>>

TakeFlock(t) ==
    /\ At(t, "flocking", "loading")
    /\ flock = Nobody
    /\ flock' = t
    /\ UNCHANGED <<file, tmp, mutex, records, call, answer, unread>>

(* Slip: try_claim that does not look for the key before it claims. *)
LoadUnchecked(t) ==
    /\ At(t, "loading", "dumping")
    /\ unread' \in {unread, unread \cup {t}}
    /\ LET loaded == IF t \in unread' THEN Empty ELSE Loaded(file)
       IN  records' = [records EXCEPT ![t] = Effect(loaded, call[t])]
    /\ UNCHANGED <<file, tmp, mutex, flock, call, answer>>

(* The read can fail, and the call goes on with no records.  A denied      *)
(* claim returns without dumping what it pruned. *)
LoadRecords(t) ==
    /\ pc[t] = "loading"
    /\ unread' \in {unread, unread \cup {t}}
    /\ LET loaded == IF t \in unread' THEN Empty ELSE Loaded(file)
       IN  \/ /\ Denies(loaded, call[t])
              /\ pc' = [pc EXCEPT ![t] = "unlocking"]
              /\ answer' = [answer EXCEPT ![t] = "denied"]
              /\ UNCHANGED records
           \/ /\ ~ Denies(loaded, call[t])
              /\ pc' = [pc EXCEPT ![t] = "dumping"]
              /\ records' = [records EXCEPT ![t] = Effect(loaded, call[t])]
              /\ UNCHANGED answer
    /\ UNCHANGED <<file, tmp, mutex, flock, call>>

(* Slip: the ledger file itself is opened for writing.                     *)
OpenInPlace(t) ==
    /\ At(t, "dumping", "writing")
    /\ file' = Torn
    /\ UNCHANGED <<tmp, mutex, flock, records, call, answer, unread>>

(* write_text truncates the temporary file, then fills it. *)
OpenTmp(t) ==
    /\ At(t, "dumping", "writing")
    /\ tmp' = Torn
    /\ UNCHANGED <<file, mutex, flock, records, call, answer, unread>>

FillTmp(t) ==
    /\ At(t, "writing", "replacing")
    /\ tmp' = records[t]
    /\ UNCHANGED <<file, mutex, flock, records, call, answer, unread>>

ReplaceFile(t) ==
    /\ At(t, "replacing", "unlocking")
    /\ file' = tmp
    /\ tmp' = Missing
    /\ answer' = [answer EXCEPT ![t] = "done"]
    /\ UNCHANGED <<mutex, flock, records, call, unread>>

(* An OSError from the lock file, from looking for the ledger, from the    *)
(* temporary file or the replacement (full or read-only disk) leaves the   *)
(* ledger as it is.                                                        *)
CallRaises(t) ==
    /\ pc[t] \in {"flocking", "loading", "dumping", "writing", "replacing"}
    /\ pc' = [pc EXCEPT ![t] = "unlocking"]
    /\ answer' = [answer EXCEPT ![t] = "raised"]
    /\ UNCHANGED <<file, tmp, mutex, flock, records, call, unread>>

(* Slip: unlocking also when the flock was never taken.                    *)
EndCallUnlocking(t) ==
    /\ At(t, "unlocking", "idle")
    /\ flock' = Nobody
    /\ mutex' = [mutex EXCEPT ![ProcessOf[t]] = Nobody]
    /\ records' = [records EXCEPT ![t] = Empty]
    /\ call' = [call EXCEPT ![t] = NoCall]
    /\ answer' = [answer EXCEPT ![t] = "none"]
    /\ unread' = unread \ {t}
    /\ UNCHANGED <<file, tmp>>

(* Whether the call returns or raises, both locks are let go.              *)
EndCall(t) ==
    /\ At(t, "unlocking", "idle")
    /\ flock' = IF flock = t THEN Nobody ELSE flock
    /\ mutex' = [mutex EXCEPT ![ProcessOf[t]] = Nobody]
    /\ records' = [records EXCEPT ![t] = Empty]
    /\ call' = [call EXCEPT ![t] = NoCall]
    /\ answer' = [answer EXCEPT ![t] = "none"]
    /\ unread' = unread \ {t}
    /\ UNCHANGED <<file, tmp>>

(* Slip: a lock that outlives its process, such as a lock file with a pid. *)
KillKeepsFlock(p) ==
    LET lost == {t \in Threads : ProcessOf[t] = p}
    IN  /\ mutex' = [mutex EXCEPT ![p] = Nobody]
        /\ pc' = [t \in Threads |-> IF t \in lost THEN "idle" ELSE pc[t]]
        /\ records' = [t \in Threads |-> IF t \in lost THEN Empty ELSE records[t]]
        /\ call' = [t \in Threads |-> IF t \in lost THEN NoCall ELSE call[t]]
        /\ answer' = [t \in Threads |-> IF t \in lost THEN "none" ELSE answer[t]]
        /\ unread' = unread \ lost
        /\ UNCHANGED <<file, tmp, flock>>

(* A process dies and is started again; its threads hold nothing.          *)
Kill(p) ==
    LET lost == {t \in Threads : ProcessOf[t] = p}
    IN  /\ flock' = IF flock \in lost THEN Nobody ELSE flock
        /\ mutex' = [mutex EXCEPT ![p] = Nobody]
        /\ pc' = [t \in Threads |-> IF t \in lost THEN "idle" ELSE pc[t]]
        /\ records' = [t \in Threads |-> IF t \in lost THEN Empty ELSE records[t]]
        /\ call' = [t \in Threads |-> IF t \in lost THEN NoCall ELSE call[t]]
        /\ answer' = [t \in Threads |-> IF t \in lost THEN "none" ELSE answer[t]]
        /\ unread' = unread \ lost
        /\ UNCHANGED <<file, tmp>>

Advance(t) ==
    \/ TakeMutex(t)
    \/ TakeFlock(t)
    \/ LoadRecords(t)
    \/ OpenTmp(t)
    \/ FillTmp(t)
    \/ ReplaceFile(t)
    \/ CallRaises(t)
    \/ EndCall(t)

FileNext ==
    \/ \E t \in Threads : BeginCall(t)
    \/ \E t \in Threads : Advance(t)
    \/ \E p \in Processes : Kill(p)

(* A thread inside the section, or next for a free lock, goes on.          *)
FileSpec ==
    /\ FileInit
    /\ [][FileNext]_fileVars
    /\ \A t \in Threads : WF_fileVars(Advance(t))

-----------------------------------------------------------------------------
(* Properties.                                                             *)

(* Between its flock and its last touch of the ledger file, a thread is    *)
(* alone, whatever process it is in.                                       *)
OneInside ==
    \A s, t \in Threads : pc[s] \in Inside /\ pc[t] \in Inside => s = t

(* What a thread is about to dump was computed from the records the file   *)
(* still holds: no update of another process is lost, but to a call that   *)
(* could not read the ledger itself, and took it for empty.                *)
NothingLost ==
    \A t \in Threads :
        pc[t] \in {"dumping", "writing", "replacing"} =>
            records[t] = Effect(LoadedBy(t), call[t])

(* Each call takes effect at one instant, on what the ledger holds or, if  *)
(* it cannot read it, on none; or not at all when it raises or its process *)
(* dies: the step PollDispatch makes of a ledger call.                     *)
Atomic == INSTANCE AtomicLedger WITH
              ledger <- Loaded(file),
              unread <- {t \in unread : answer[t] # "none"}

ImplementsCalls == Atomic!Spec

(* Nobody keeps the ledger locked for ever, a killed worker included.      *)
FlockIsFreed == \A t \in Threads : flock = t ~> flock # t
=============================================================================

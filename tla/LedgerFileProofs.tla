-------------------------- MODULE LedgerFileProofs --------------------------
(***************************************************************************)
(* One ledger call is atomic: proofs for any number of processes and of    *)
(* threads, any keys and any instants.                                     *)
(***************************************************************************)
EXTENDS LedgerFile, TLAPS

-----------------------------------------------------------------------------
(* What the ledger operations do to the shape of a store.                  *)

LEMMA EmptyStore == Empty \in Store
  BY DEF Empty, Absent, Store, Record

LEMMA EffectStore ==
    ASSUME NEW recs \in Store, NEW c \in Calls
    PROVE  Effect(recs, c) \in Store
  <1>1. c.now \in Int
    BY CallsAssumption DEF Calls
  <1>2. CASE c.kind = "try_claim"
    <2>1. Effect(recs, c) = TryClaim(recs, c.key, c.now)
      BY <1>2 DEF Effect
    <2>2. Prune(recs, c.now) \in Store
      BY DEF Prune, Absent, Store, Record
    <2>3. Pending(c.now) \in Record
      BY <1>1 DEF Pending, Record
    <2> QED  BY <2>1, <2>2, <2>3 DEF TryClaim, Store
  <1>3. CASE c.kind = "confirm"
    <2>1. Effect(recs, c) = Confirm(recs, c.key, c.now)
      BY <1>3 DEF Effect
    <2>2. Sent(c.now) \in Record
      BY <1>1 DEF Sent, Record
    <2> QED  BY <2>1, <2>2 DEF Confirm, Store
  <1>4. CASE c.kind = "release"
    <2>1. Effect(recs, c) = Release(recs, c.key)
      BY <1>4 DEF Effect
    <2>2. Absent \in Record
      BY DEF Absent, Record
    <2> QED  BY <2>1, <2>2 DEF Release, Store
  <1>5. CASE c.kind = "reconcile_active"
    BY <1>5 DEF Effect, Reconcile, Absent, Store, Record
  <1> QED  BY <1>2, <1>3, <1>4, <1>5 DEF Calls

LEMMA LoadedStore ==
    ASSUME NEW content \in Store \cup {Missing, Torn}
    PROVE  Loaded(content) \in Store
  BY EmptyStore DEF Loaded

LEMMA LoadedByStore ==
    ASSUME NEW t, file \in Store \cup {Missing, Torn}
    PROVE  LoadedBy(t) \in Store
  BY EmptyStore, LoadedStore DEF LoadedBy

-----------------------------------------------------------------------------
(* The invariant: who is inside holds the flock, and what it is about to   *)
(* dump is the effect of its call on what the file still holds.            *)

InsideHolds == \A t \in Threads : pc[t] \in Inside => flock = t

Dumping == {"dumping", "writing", "replacing"}

Granted ==
    \A t \in Threads : pc[t] \in Dumping => ~ Denies(LoadedBy(t), call[t])

Filled == \A t \in Threads : pc[t] = "replacing" => tmp = records[t]

(* A thread is in a call from its invocation, and answered at its end.     *)
InCall ==
    \A t \in Threads : /\ pc[t] = "idle" <=> call[t] = NoCall
                       /\ pc[t] = "unlocking" <=> answer[t] # "none"

FileInv ==
    /\ FileTypeOK
    /\ InsideHolds
    /\ NothingLost
    /\ Granted
    /\ Filled
    /\ InCall

USE FileAssumption DEF FileInv

LEMMA FileInvInit == FileInit => FileInv
  BY EmptyStore
  DEF FileInit, FileTypeOK, InsideHolds, NothingLost, Granted, Filled, InCall,
      Inside, Dumping, Places

LEMMA FileTypeStep ==
    ASSUME FileInv, FileNext
    PROVE  FileTypeOK'
  <1> USE DEF FileTypeOK, Places, Inside
  <1>1. ASSUME NEW t \in Threads, BeginCall(t) PROVE FileTypeOK'
    BY <1>1 DEF BeginCall, At
  <1>2. ASSUME NEW t \in Threads, TakeMutex(t) PROVE FileTypeOK'
    BY <1>2 DEF TakeMutex, At
  <1>3. ASSUME NEW t \in Threads, TakeFlock(t) PROVE FileTypeOK'
    BY <1>3 DEF TakeFlock, At
  <1>4. ASSUME NEW t \in Threads, LoadRecords(t) PROVE FileTypeOK'
    <2>1. call[t] \in Calls
      BY <1>4 DEF LoadRecords, InCall
    <2>2. /\ Effect(Empty, call[t]) \in Store
          /\ Effect(Loaded(file), call[t]) \in Store
      BY <2>1, EffectStore, EmptyStore, LoadedStore
    <2> QED  BY <1>4, <2>2 DEF LoadRecords
  <1>5. ASSUME NEW t \in Threads, OpenTmp(t) PROVE FileTypeOK'
    BY <1>5 DEF OpenTmp, At
  <1>6. ASSUME NEW t \in Threads, FillTmp(t) PROVE FileTypeOK'
    BY <1>6 DEF FillTmp, At
  <1>7. ASSUME NEW t \in Threads, ReplaceFile(t) PROVE FileTypeOK'
    BY <1>7 DEF ReplaceFile, At, Filled
  <1>8. ASSUME NEW t \in Threads, CallRaises(t) PROVE FileTypeOK'
    BY <1>8 DEF CallRaises
  <1>9. ASSUME NEW t \in Threads, EndCall(t) PROVE FileTypeOK'
    BY <1>9, EmptyStore DEF EndCall, At
  <1>10. ASSUME NEW p \in Processes, Kill(p) PROVE FileTypeOK'
    BY <1>10, EmptyStore DEF Kill
  <1> QED
    BY <1>1, <1>2, <1>3, <1>4, <1>5, <1>6, <1>7, <1>8, <1>9, <1>10
    DEF FileNext, Advance

LEMMA FileInvStep == FileInv /\ [FileNext]_fileVars => FileInv'
  <1> SUFFICES ASSUME FileInv, [FileNext]_fileVars PROVE FileInv'
    OBVIOUS
  <1> USE DEF FileTypeOK, InsideHolds, NothingLost, Granted, Filled, InCall,
              Inside, Dumping
  <1>0. CASE UNCHANGED fileVars
    BY <1>0 DEF fileVars, LoadedBy
  <1> SUFFICES ASSUME FileNext PROVE FileInv'
    BY <1>0
  <1>1. FileTypeOK'
    BY FileTypeStep
  <1>2. ASSUME NEW t \in Threads, BeginCall(t) PROVE FileInv'
    BY <1>1, <1>2, CallsAssumption DEF BeginCall, At, LoadedBy
  <1>3. ASSUME NEW t \in Threads, TakeMutex(t) PROVE FileInv'
    BY <1>1, <1>3 DEF TakeMutex, At, LoadedBy
  <1>4. ASSUME NEW t \in Threads, TakeFlock(t) PROVE FileInv'
    BY <1>1, <1>4 DEF TakeFlock, At, LoadedBy
  <1>5. ASSUME NEW t \in Threads, LoadRecords(t) PROVE FileInv'
    BY <1>1, <1>5 DEF LoadRecords, LoadedBy
  <1>6. ASSUME NEW t \in Threads, OpenTmp(t) PROVE FileInv'
    BY <1>1, <1>6 DEF OpenTmp, At, LoadedBy
  <1>7. ASSUME NEW t \in Threads, FillTmp(t) PROVE FileInv'
    BY <1>1, <1>7 DEF FillTmp, At, LoadedBy
  <1>8. ASSUME NEW t \in Threads, ReplaceFile(t) PROVE FileInv'
    BY <1>1, <1>8 DEF ReplaceFile, At, LoadedBy
  <1>9. ASSUME NEW t \in Threads, CallRaises(t) PROVE FileInv'
    BY <1>1, <1>9 DEF CallRaises, LoadedBy
  <1>10. ASSUME NEW t \in Threads, EndCall(t) PROVE FileInv'
    BY <1>1, <1>10 DEF EndCall, At, LoadedBy
  <1>11. ASSUME NEW p \in Processes, Kill(p) PROVE FileInv'
    BY <1>1, <1>11 DEF Kill, LoadedBy
  <1> QED
    BY <1>2, <1>3, <1>4, <1>5, <1>6, <1>7, <1>8, <1>9, <1>10, <1>11
    DEF FileNext, Advance

LEMMA AlwaysFileInv == FileSpec => []FileInv
  <1>1. FileInit /\ [][FileNext]_fileVars => []FileInv
    BY FileInvInit, FileInvStep, PTL
  <1> QED  BY <1>1, PTL DEF FileSpec

(* The locks, the temporary file and the records keep their shapes; the    *)
(* ledger file itself is never a torn one.                                 *)
THEOREM FileTypeCorrect == FileSpec => []FileTypeOK
  BY AlwaysFileInv, PTL

(* No two threads, of one process or of two, are between the load and the  *)
(* replacement at once.                                                    *)
THEOREM OneThreadInside == FileSpec => []OneInside
  <1>1. FileInv => OneInside
    BY DEF InsideHolds, OneInside
  <1> QED  BY <1>1, AlwaysFileInv, PTL

(* No update made between a thread's load and its replacement is lost, but *)
(* to a thread that could not read the ledger (_load answers {}).          *)
THEOREM NoLostUpdate == FileSpec => []NothingLost
  BY AlwaysFileInv, PTL

-----------------------------------------------------------------------------
(* Refinement: the locked read-modify-write is one atomic call.            *)

(* The abstract module's calls are the same calls.                         *)
LEMMA SameCalls ==
    /\ Atomic!Empty = Empty
    /\ Atomic!Calls = Calls
    /\ \A recs, c : /\ Atomic!Denies(recs, c) <=> Denies(recs, c)
                    /\ Atomic!Effect(recs, c) = Effect(recs, c)
  BY DEF Atomic!Empty, Atomic!Calls, Atomic!Denies, Atomic!Effect,
         Atomic!CanClaim, Atomic!TryClaim, Atomic!Confirm, Atomic!Release,
         Atomic!Reconcile, Atomic!Prune, Atomic!Expired, Atomic!Retired,
         Atomic!Absent, Atomic!Pending, Atomic!Sent,
         Empty, Calls, Denies, Effect, CanClaim, TryClaim, Confirm, Release,
         Reconcile, Prune, Expired, Retired, Absent, Pending, Sent

(* The abstract ledger knows of a failed read once the call has its answer. *)
Failed == {t \in unread : answer[t] # "none"}

LEMMA FileInitMaps == FileInit => Atomic!Init
  BY SameCalls DEF FileInit, Atomic!Init, Loaded

LEMMA FileStepMaps ==
    ASSUME FileInv, [FileNext]_fileVars
    PROVE  [Atomic!Next]_(Atomic!vars)
  <1> USE DEF FileTypeOK, InCall, Atomic!vars
  <1>1. ASSUME NEW t \in Threads, BeginCall(t) PROVE Atomic!Invoke(t)
    BY <1>1, SameCalls DEF BeginCall, At, Atomic!Invoke
  <1>2. ASSUME NEW t \in Threads, LoadRecords(t)
        PROVE  Atomic!Perform(t) \/ UNCHANGED Atomic!vars
    <2>1. call[t] # NoCall /\ answer[t] = "none"
      BY <1>2 DEF LoadRecords
    <2> DEFINE loaded == IF t \in unread' THEN Empty ELSE Loaded(file)
    <2>2. CASE Denies(loaded, call[t])
      <3>1. /\ answer' = [answer EXCEPT ![t] = "denied"]
            /\ call' = call /\ file' = file
            /\ unread' \in {unread, unread \cup {t}}
        BY <1>2, <2>2 DEF LoadRecords
      <3>2. /\ Failed' \in {Failed, Failed \cup {t}}
            /\ t \in Failed' <=> t \in unread'
        BY <2>1, <3>1 DEF Failed
      <3>3. Loaded(file)' = Loaded(file)
        BY <3>1 DEF Loaded
      <3> QED
        BY <2>1, <2>2, <3>1, <3>2, <3>3, SameCalls DEF Failed, Atomic!Perform
    <2>3. CASE ~ Denies(loaded, call[t])
      <3>1. /\ answer' = answer /\ call' = call /\ file' = file
            /\ unread' \in {unread, unread \cup {t}}
        BY <1>2, <2>3 DEF LoadRecords
      <3>2. Failed' = Failed
        BY <2>1, <3>1 DEF Failed
      <3> QED BY <3>1, <3>2 DEF Loaded, Failed
    <2> QED  BY <2>2, <2>3
  <1>3. ASSUME NEW t \in Threads, ReplaceFile(t) PROVE Atomic!Perform(t)
    <2>1. pc[t] = "replacing" /\ file' = tmp /\ call' = call
      BY <1>3 DEF ReplaceFile, At
    <2>2. /\ call[t] # NoCall /\ answer[t] = "none"
          /\ answer' = [answer EXCEPT ![t] = "done"]
      BY <1>3, <2>1 DEF ReplaceFile
    <2>3. ~ Denies(LoadedBy(t), call[t])
      BY <2>1 DEF Granted, Dumping
    <2>4. tmp = Effect(LoadedBy(t), call[t])
      BY <2>1 DEF Filled, NothingLost
    <2>5. Loaded(file)' = tmp
      BY <2>1 DEF Filled, Loaded
    <2>6. Failed' = IF t \in unread THEN Failed \cup {t} ELSE Failed
      BY <1>3, <2>2 DEF ReplaceFile, Failed
    <2>7. LoadedBy(t) = IF t \in Failed' THEN Empty ELSE Loaded(file)
      BY <2>2, <2>6 DEF LoadedBy, Failed
    <2> QED
      BY <2>1, <2>2, <2>3, <2>4, <2>5, <2>6, <2>7, SameCalls DEF Failed, Atomic!Perform
  <1>4. ASSUME NEW t \in Threads, CallRaises(t) PROVE Atomic!Perform(t)
    BY <1>4 DEF CallRaises, Atomic!Perform
  <1>5. ASSUME NEW t \in Threads, EndCall(t) PROVE Atomic!Return(t)
    BY <1>5 DEF EndCall, At, Atomic!Return
  <1>6. ASSUME NEW p \in Processes, Kill(p)
        PROVE  \E S \in SUBSET Threads : Atomic!Die(S)
    <2> DEFINE lost == {t \in Threads : ProcessOf[t] = p}
    <2>1. Atomic!Die(lost)
      BY <1>6 DEF Kill, Atomic!Die
    <2> QED  BY <2>1
  <1>7. ASSUME NEW t \in Threads,
               \/ TakeMutex(t) \/ TakeFlock(t) \/ OpenTmp(t) \/ FillTmp(t)
        PROVE  UNCHANGED Atomic!vars
    BY <1>7 DEF TakeMutex, TakeFlock, OpenTmp, FillTmp
  <1>8. CASE UNCHANGED fileVars
    BY <1>8 DEF fileVars
  <1> QED
    BY <1>1, <1>2, <1>3, <1>4, <1>5, <1>6, <1>7, <1>8
    DEF FileNext, Advance, Atomic!Next

(* A ledger call of the file ledger is atomic, on the records it could     *)
(* read: this is what lets PollDispatch take it as one step.               *)
THEOREM CallsAreAtomic == FileSpec => ImplementsCalls
  <1>1. FileInv /\ [FileNext]_fileVars => [Atomic!Next]_(Atomic!vars)
    BY FileStepMaps
  <1> QED
    BY <1>1, FileInitMaps, AlwaysFileInv, PTL
    DEF FileSpec, ImplementsCalls, Atomic!Spec
=============================================================================

------------------------- MODULE PollDispatchProofs -------------------------
(***************************************************************************)
(* Proofs about the poll cycle over the shared ledger file, for any number *)
(* of workers, monitors and problems and any durations; last, that it      *)
(* implements AlertLease.                                                  *)
(***************************************************************************)
EXTENDS PollDispatchLease, TLAPS

-----------------------------------------------------------------------------
(* Every ledger operation returns a store whose instants are in the past.  *)

LEMMA PastHasNow == 0 \in Past
  BY ModelAssumption DEF Past

LEMMA EmptyType == Empty \in PastStore
  BY PastHasNow DEF Empty, Absent, PastStore

LEMMA PruneType ==
    ASSUME NEW records \in PastStore, NEW t \in Past
    PROVE  Prune(records, t) \in PastStore
  BY PastHasNow DEF Prune, Absent, PastStore

LEMMA TryClaimType ==
    ASSUME NEW records \in PastStore, NEW k, NEW t \in Past
    PROVE  TryClaim(records, k, t) \in PastStore
  BY PruneType DEF TryClaim, Pending, PastStore

LEMMA ConfirmType ==
    ASSUME NEW records \in PastStore, NEW k, NEW t \in Past
    PROVE  Confirm(records, k, t) \in PastStore
  BY DEF Confirm, Sent, PastStore

LEMMA ReleaseType ==
    ASSUME NEW records \in PastStore, NEW k
    PROVE  Release(records, k) \in PastStore
  BY PastHasNow DEF Release, Absent, PastStore

LEMMA ReconcileType ==
    ASSUME NEW records \in PastStore, NEW S, NEW t \in Past
    PROVE  Reconcile(records, S, t) \in PastStore
  BY PastHasNow DEF Reconcile, Absent, PastStore

LEMMA OlderType == ASSUME NEW t \in Past PROVE Older(t) \in Past
  BY ModelAssumption DEF Past, Older

LEMMA AgedType ==
    ASSUME ledger \in PastStore
    PROVE  [k \in Keys |-> Aged(ledger[k])] \in PastStore
  <1> SUFFICES ASSUME NEW k \in Keys
               PROVE  Aged(ledger[k]) \in
                        [status : {"absent", "pending", "sent"}, at : Past]
    BY DEF PastStore
  <1>1. ledger[k] \in [status : {"absent", "pending", "sent"}, at : Past]
    BY DEF PastStore
  <1> QED  BY <1>1, OlderType DEF Aged

LEMMA LoadsType == TypeOK => \A records \in Loads : records \in PastStore
  BY EmptyType DEF TypeOK, Loads
-----------------------------------------------------------------------------
(* Type correctness.                                                       *)

LEMMA CycleStepType ==
    ASSUME TypeOK, NEW w \in Workers, Step(w)
    PROVE  TypeOK'
  <1>1. ASSUME Fetch(w) PROVE TypeOK'
    BY <1>1, PastHasNow DEF TypeOK, Fetch, Goto, Phases, Running
  <1>2. ASSUME ReadClock(w) PROVE TypeOK'
    BY <1>2, PastHasNow DEF TypeOK, ReadClock, Goto, Phases, Running
  <1>3. ASSUME ReconcileActive(w) PROVE TypeOK'
    <2>1. ledger' \in PastStore
      BY <1>3, LoadsType, ReconcileType DEF TypeOK, ReconcileActive
    <2>2. told' \in [Keys -> BOOLEAN]
      BY <1>3 DEF TypeOK, ReconcileActive
    <2> QED  BY <1>3, <2>1, <2>2 DEF TypeOK, ReconcileActive, Goto, Phases, Running
  <1>4. ASSUME NEW k \in Keys, Claim(w, k) PROVE TypeOK'
    <2>1. ledger' \in PastStore
      BY <1>4, LoadsType, TryClaimType DEF TypeOK, Claim
    <2>2. cur' \in [Workers -> Keys \cup {NoKey}] /\ pc' \in [Workers -> Phases]
      BY <1>4 DEF TypeOK, Claim, Goto, Phases, Running, Owning
    <2> QED  BY <1>4, <2>1, <2>2 DEF TypeOK, Claim
  <1>5. ASSUME NEW k \in Keys, PrintAlert(w, k) PROVE TypeOK'
    BY <1>5 DEF TypeOK, PrintAlert, Carried, Goto, Phases, Running, Owning
  <1>6. ASSUME NEW k \in Keys, PostAlert(w, k) PROVE TypeOK'
    BY <1>6 DEF TypeOK, PostAlert, Carried, Goto, Phases, Running, Owning
  <1>7. ASSUME PublishFails(w) PROVE TypeOK'
    BY <1>7 DEF TypeOK, PublishFails, Carried, Goto, Phases, Running, Owning
  <1>8. ASSUME ConfirmSent(w) PROVE TypeOK'
    <2>1. ledger' \in PastStore
      BY <1>8, LoadsType, ConfirmType DEF TypeOK, ConfirmSent
    <2> QED  BY <1>8, <2>1 DEF TypeOK, ConfirmSent, NextAlert, Goto, Phases, Running
  <1>9. ASSUME ReleaseClaim(w) PROVE TypeOK'
    <2>1. ledger' \in PastStore
      BY <1>9, LoadsType, ReleaseType DEF TypeOK, ReleaseClaim
    <2> QED  BY <1>9, <2>1 DEF TypeOK, ReleaseClaim, NextAlert, Goto, Phases, Running
  <1>10. ASSUME EndCycle(w) PROVE TypeOK'
    BY <1>10, PastHasNow DEF TypeOK, EndCycle, Forget, Goto, Phases
  <1> QED
    BY <1>1, <1>2, <1>3, <1>4, <1>5, <1>6, <1>7, <1>8, <1>9, <1>10 DEF Step

LEMMA EnvironmentStepType ==
    ASSUME TypeOK,
           \/ \E k \in Keys : Change(k)
           \/ Tick
           \/ \E w \in Workers : Crash(w) \/ Restart(w)
    PROVE  TypeOK'
  <1>1. ASSUME NEW k \in Keys, Change(k) PROVE TypeOK'
    BY <1>1, ModelAssumption DEF TypeOK, Change
  <1>2. ASSUME Tick PROVE TypeOK'
    <2>1. ledger' \in PastStore
      BY <1>2, AgedType DEF TypeOK, Tick
    <2>2. now' \in [Workers -> Past]
      BY <1>2, OlderType DEF TypeOK, Tick
    <2>3. clearFor' \in [Keys -> 0 .. Grace]
      BY <1>2, ModelAssumption DEF TypeOK, Tick
    <2>4. seen' \in [Keys -> BOOLEAN]
      BY <1>2 DEF TypeOK, Tick
    <2> QED  BY <1>2, <2>1, <2>2, <2>3, <2>4 DEF TypeOK, Tick
  <1>3. ASSUME NEW w \in Workers, Crash(w) PROVE TypeOK'
    BY <1>3, PastHasNow DEF TypeOK, Crash, Forget, Goto, Phases
  <1>4. ASSUME NEW w \in Workers, Restart(w) PROVE TypeOK'
    BY <1>4 DEF TypeOK, Restart, Goto, Phases
  <1> QED  BY <1>1, <1>2, <1>3, <1>4

(* The state of the cycle always has the shape the code gives it.          *)
THEOREM TypeCorrect == Spec => []TypeOK
  <1>1. Init => TypeOK
    BY PastHasNow, EmptyType, ModelAssumption DEF Init, TypeOK, Phases
  <1>2. TypeOK /\ [Next]_vars => TypeOK'
    <2> SUFFICES ASSUME TypeOK, [Next]_vars PROVE TypeOK'
      OBVIOUS
    <2>1. CASE UNCHANGED vars
      BY <2>1 DEF TypeOK, vars
    <2>2. CASE Next
      BY <2>2, CycleStepType, EnvironmentStepType DEF Next
    <2> QED  BY <2>1, <2>2
  <1> QED  BY <1>1, <1>2, PTL DEF Spec

-----------------------------------------------------------------------------
(* The dispatch invariant.                                                 *)

LEMMA HeldClaim ==
    ASSUME DispatchInv, NEW w \in Workers, Owns(w)
    PROVE  /\ cur[w] \in Keys
           /\ ledger[cur[w]] = Pending(now[w])
           /\ ledger[cur[w]].status = "pending"
  <1>1. cur[w] \in Keys
    BY DEF DispatchInv, AtAlert
  <1>2. ledger[cur[w]] = Pending(now[w])
    BY DEF DispatchInv, ClaimHeld
  <1> QED  BY <1>1, <1>2 DEF Pending

(* A held claim outlives every reader's clock.                             *)
LEMMA HeldClaimLive ==
    ASSUME DispatchInv, ShortCycles, NEW w \in Workers, Owns(w), NEW t \in Past
    PROVE  ~ Expired(ledger[cur[w]], t)
  <1>1. ledger[cur[w]] = Pending(now[w]) /\ now[w] \in Past /\ now[w] >= -MaxCycle
    BY HeldClaim DEF DispatchInv, TypeOK, InTime, Owns, Running
  <1> QED
    BY <1>1, DurationsAssumption, ModelAssumption
    DEF Expired, Pending, Past, ShortCycles

LEMMA LoadsLedger == ReadableLedger => Loads = {ledger}
  BY DEF ReadableLedger, Loads

(* A step that leaves the ledger alone and moves no worker into or out of  *)
(* a claim.                                                                *)
LEMMA QuietStep ==
    ASSUME DispatchInv, TypeOK', UNCHANGED <<ledger, told>>,
           \A w \in Workers :
              \/ pc'[w] = pc[w] /\ now'[w] = now[w] /\ cur'[w] = cur[w]
              \/ /\ ~ Owns(w) /\ ~ Owns(w)'
                 /\ pc'[w] \in Running => now'[w] >= -MaxCycle
    PROVE  DispatchInv'
  BY ModelAssumption
  DEF DispatchInv, InTime, AtAlert, ClaimHeld, OneOwner, ToldIsRecorded,
      ConfirmsTold, SentWasTold, Owns, Owning, TypeOK

LEMMA DispatchInvInit == Init => DispatchInv
  <1> SUFFICES ASSUME Init PROVE DispatchInv
    OBVIOUS
  <1>1. TypeOK
    BY PastHasNow, EmptyType, ModelAssumption DEF Init, TypeOK, Phases
  <1>2. \A w \in Workers : ~ Owns(w) /\ pc[w] \notin Running
    BY DEF Init, Owns, Owning, Running
  <1>3. \A k \in Keys : ~ told[k] /\ ledger[k].status # "sent"
    BY DEF Init, Empty, Absent
  <1>4. \A w \in Workers : pc[w] # "confirming"
    BY DEF Init
  <1> QED
    BY <1>1, <1>2, <1>3, <1>4
    DEF DispatchInv, InTime, AtAlert, ClaimHeld, OneOwner, ToldIsRecorded,
        ConfirmsTold, SentWasTold

LEMMA TickKeepsInv ==
    ASSUME DispatchInv, TypeOK', Tick
    PROVE  DispatchInv'
  <1>1. \A w \in Workers : pc[w] \in Running =>
            now[w] > -MaxCycle /\ now'[w] = Older(now[w])
    BY DEF Tick, Running, Owning, DispatchInv, TypeOK
  <1>2. \A k \in Keys : ledger'[k] = Aged(ledger[k])
    BY DEF Tick
  <1>3. \A w \in Workers : Owns(w) => pc[w] \in Running
    BY DEF Owns, Running
  <1>4. pc' = pc /\ cur' = cur /\ told' = told
    BY DEF Tick
  <1>5. InTime'
    BY <1>1, <1>4, ModelAssumption DEF DispatchInv, TypeOK, InTime, Older, Past
  <1>6. ClaimHeld'
    <2> SUFFICES ASSUME NEW w \in Workers, Owns(w)
                 PROVE  ledger'[cur[w]] = Pending(now'[w])
      BY <1>4 DEF ClaimHeld, Owns
    <2>1. ledger[cur[w]] = Pending(now[w]) /\ cur[w] \in Keys
      BY DEF DispatchInv, ClaimHeld, AtAlert
    <2> QED  BY <2>1, <1>1, <1>2, <1>3 DEF Aged, Pending
  <1>7. \A k \in Keys : ledger'[k].status = ledger[k].status
    <2> SUFFICES ASSUME NEW k \in Keys
                 PROVE  ledger'[k].status = ledger[k].status
      OBVIOUS
    <2>1. ledger[k] \in [status : {"absent", "pending", "sent"}, at : Past]
      BY DEF DispatchInv, TypeOK, PastStore
    <2> QED  BY <2>1, <1>2 DEF Aged
  <1> QED
    BY <1>4, <1>5, <1>6, <1>7
    DEF DispatchInv, AtAlert, OneOwner, ToldIsRecorded, ConfirmsTold,
        SentWasTold, Owns

(* A pass over the ledger leaves every held claim as it is.                *)
LEMMA PassSparesHeld ==
    ASSUME DispatchInv, ShortCycles, NEW w \in Workers, Owns(w),
           NEW S, NEW t \in Past
    PROVE  /\ Prune(ledger, t)[cur[w]] = ledger[cur[w]]
           /\ Reconcile(ledger, S, t)[cur[w]] = ledger[cur[w]]
  <1>1. ~ Expired(ledger[cur[w]], t)
    BY HeldClaimLive
  <1>2. ledger[cur[w]].status = "pending" /\ cur[w] \in Keys
    BY HeldClaim
  <1> QED
    BY <1>1, <1>2 DEF Prune, Reconcile, Retired

LEMMA ReconcileKeepsInv ==
    ASSUME DispatchInv, ShortCycles, ReadableLedger, TypeOK',
           NEW w \in Workers, ReconcileActive(w)
    PROVE  DispatchInv'
  <1> DEFINE L == Reconcile(ledger, raw[w], now[w])
  <1>1. /\ ledger' = L
        /\ told' = [k \in Keys |->
                      told[k] /\ ~ Retired(ledger[k], k \in raw[w], now[w])]
        /\ pc' = [pc EXCEPT ![w] = "claiming"]
        /\ pc[w] = "reconciling"
        /\ now' = now /\ cur' = cur
    BY LoadsLedger DEF ReconcileActive, Goto
  <1>2. now[w] \in Past
    BY DEF DispatchInv, TypeOK
  <1>3. \A v \in Workers : Owns(v)' = Owns(v)
    BY <1>1 DEF Owns, Owning, DispatchInv, TypeOK
  <1>4. \A v \in Workers : Owns(v) => ledger'[cur[v]] = ledger[cur[v]]
    BY <1>1, <1>2, PassSparesHeld
  <1>5. InTime' /\ AtAlert' /\ OneOwner'
    BY <1>1, <1>3
    DEF InTime, AtAlert, OneOwner, DispatchInv, TypeOK, Running
  <1>6. ClaimHeld'
    BY <1>1, <1>3, <1>4 DEF ClaimHeld, DispatchInv
  <1>7. ToldIsRecorded'
    <2> SUFFICES ASSUME NEW k \in Keys, told'[k]
                 PROVE  \/ ledger'[k].status = "sent"
                        \/ \E v \in Workers : pc'[v] = "confirming" /\ cur'[v] = k
      BY DEF ToldIsRecorded
    <2>1. told[k] /\ ~ Retired(ledger[k], k \in raw[w], now[w])
      BY <1>1
    <2>2. CASE ledger[k].status = "sent"
      BY <1>1, <2>1, <2>2 DEF Reconcile, Expired
    <2>3. CASE \E v \in Workers : pc[v] = "confirming" /\ cur[v] = k
      BY <1>1, <2>3 DEF DispatchInv, TypeOK
    <2> QED  BY <2>1, <2>2, <2>3 DEF DispatchInv, ToldIsRecorded
  <1>8. ConfirmsTold'
    <2> SUFFICES ASSUME NEW v \in Workers, pc'[v] = "confirming"
                 PROVE  told'[cur'[v]]
      BY DEF ConfirmsTold
    <2>1. pc[v] = "confirming" /\ cur'[v] = cur[v]
      BY <1>1 DEF DispatchInv, TypeOK
    <2>2. cur[v] \in Keys /\ told[cur[v]] /\ ledger[cur[v]].status = "pending"
      BY <2>1, HeldClaim DEF DispatchInv, ConfirmsTold, Owns, Owning
    <2> QED  BY <1>1, <2>1, <2>2 DEF Retired
  <1>9. SentWasTold'
    <2> SUFFICES ASSUME NEW k \in Keys, ledger'[k].status = "sent"
                 PROVE  told'[k]
      BY DEF SentWasTold
    <2>1. ledger'[k] = ledger[k] /\ ~ Retired(ledger[k], k \in raw[w], now[w])
      BY <1>1 DEF Reconcile, Absent
    <2> QED  BY <1>1, <2>1 DEF DispatchInv, SentWasTold
  <1> QED
    BY <1>5, <1>6, <1>7, <1>8, <1>9 DEF DispatchInv

(* A claim is granted only for a key nobody holds.                         *)
LEMMA ClaimKeepsInv ==
    ASSUME DispatchInv, ShortCycles, ReadableLedger, TypeOK',
           NEW w \in Workers, NEW k \in Keys, Claim(w, k)
    PROVE  DispatchInv'
  <1>1. CASE ~ CanClaim(ledger, k, now[w])
    <2>1. UNCHANGED <<ledger, told, pc, now, cur>>
      BY <1>1, LoadsLedger DEF Claim
    <2> QED  BY <2>1, QuietStep
  <1>2. CASE CanClaim(ledger, k, now[w])
    <2>1. /\ ledger' = [Prune(ledger, now[w]) EXCEPT ![k] = Pending(now[w])]
          /\ cur' = [cur EXCEPT ![w] = k]
          /\ pc' = [pc EXCEPT ![w] = "printing"]
          /\ pc[w] = "claiming"
          /\ UNCHANGED <<now, told>>
      BY <1>2, LoadsLedger DEF Claim, TryClaim, Goto
    <2>2. pc \in [Workers -> Phases] /\ cur \in [Workers -> Keys \cup {NoKey}]
      BY DEF DispatchInv, TypeOK
    <2>3. now[w] \in Past
      BY DEF DispatchInv, TypeOK
    <2>4. ASSUME NEW v \in Workers, Owns(v) PROVE cur[v] # k
      <3>1. Prune(ledger, now[w])[cur[v]].status = "pending"
        BY <2>3, <2>4, PassSparesHeld, HeldClaim
      <3> QED  BY <3>1, <1>2 DEF CanClaim, Absent
    <2>5. ASSUME NEW v \in Workers, v # w
          PROVE  Owns(v)' = Owns(v) /\ cur'[v] = cur[v] /\ pc'[v] = pc[v]
      BY <2>1, <2>2, <2>5 DEF Owns
    <2>6. cur'[w] = k /\ pc'[w] = "printing" /\ ~ Owns(w)
      BY <2>1, <2>2 DEF Owns, Owning
    <2>7. InTime' /\ AtAlert'
      BY <2>1, <2>5, <2>6 DEF DispatchInv, InTime, AtAlert, Running
    <2>8. ClaimHeld'
      <3> SUFFICES ASSUME NEW v \in Workers, Owns(v)'
                   PROVE  ledger'[cur'[v]] = Pending(now'[v])
        BY DEF ClaimHeld
      <3>1. CASE v = w
        BY <3>1, <2>1, <2>6 DEF Prune
      <3>2. CASE v # w
        <4>1. Owns(v) /\ cur'[v] = cur[v] /\ cur[v] # k /\ cur[v] \in Keys
          BY <3>2, <2>4, <2>5, HeldClaim
        <4>2. Prune(ledger, now[w])[cur[v]] = Pending(now[v])
          BY <4>1, <2>3, PassSparesHeld, HeldClaim
        <4> QED  BY <4>1, <4>2, <2>1 DEF Prune
      <3> QED  BY <3>1, <3>2
    <2>9. OneOwner'
      BY <2>4, <2>5, <2>6 DEF DispatchInv, OneOwner
    <2>10. ASSUME NEW j \in Keys
           PROVE  (ledger'[j].status = "sent") <=> (ledger[j].status = "sent")
      <3>1. CASE j = k
        <4>1. ledger'[k].status = "pending"
          BY <2>1 DEF Prune, Pending
        <4>2. ledger[k].status # "sent"
          BY <1>2 DEF CanClaim, Prune, Expired, Absent
        <4> QED  BY <3>1, <4>1, <4>2
      <3>2. CASE j # k
        BY <3>2, <2>1 DEF Prune, Expired, Absent
      <3> QED  BY <3>1, <3>2
    <2>11. \A v \in Workers :
              (pc'[v] = "confirming") <=> (pc[v] = "confirming")
      BY <2>1, <2>5, <2>6
    <2>12. ToldIsRecorded'
      BY <2>1, <2>5, <2>6, <2>10, <2>11 DEF DispatchInv, ToldIsRecorded
    <2>13. ConfirmsTold' /\ SentWasTold'
      BY <2>1, <2>5, <2>6, <2>10, <2>11
      DEF DispatchInv, ConfirmsTold, SentWasTold
    <2> QED  BY <2>7, <2>8, <2>9, <2>12, <2>13 DEF DispatchInv
  <1> QED  BY <1>1, <1>2

LEMMA PrintKeepsInv ==
    ASSUME DispatchInv, TypeOK', NEW w \in Workers, NEW k \in Keys,
           PrintAlert(w, k)
    PROVE  DispatchInv'
  <1>1. /\ pc' = [pc EXCEPT ![w] = "posting"]
        /\ pc[w] = "printing"
        /\ UNCHANGED <<ledger, now, cur, told>>
    BY DEF PrintAlert, Goto
  <1>2. pc \in [Workers -> Phases]
    BY DEF DispatchInv, TypeOK
  <1>3. \A v \in Workers : /\ Owns(v)' = Owns(v)
                           /\ (pc'[v] \in Running) = (pc[v] \in Running)
                           /\ (pc'[v] = "confirming") = (pc[v] = "confirming")
    BY <1>1, <1>2 DEF Owns, Owning, Running
  <1> QED
    BY <1>1, <1>3
    DEF DispatchInv, InTime, AtAlert, ClaimHeld, OneOwner, ToldIsRecorded,
        ConfirmsTold, SentWasTold

LEMMA PostKeepsInv ==
    ASSUME DispatchInv, TypeOK', NEW w \in Workers, NEW k \in Keys,
           PostAlert(w, k)
    PROVE  DispatchInv'
  <1>1. /\ pc' = [pc EXCEPT ![w] = "confirming"]
        /\ told' = [told EXCEPT ![k] = TRUE]
        /\ pc[w] = "posting" /\ cur[w] = k
        /\ UNCHANGED <<ledger, now, cur>>
    BY DEF PostAlert, Goto
  <1>2. pc \in [Workers -> Phases] /\ told \in [Keys -> BOOLEAN]
    BY DEF DispatchInv, TypeOK
  <1>3. \A v \in Workers : /\ Owns(v)' = Owns(v)
                           /\ (pc'[v] \in Running) = (pc[v] \in Running)
                           /\ v # w => pc'[v] = pc[v]
    BY <1>1, <1>2 DEF Owns, Owning, Running
  <1>4. pc'[w] = "confirming" /\ \A j \in Keys : told'[j] <=> told[j] \/ j = k
    BY <1>1, <1>2
  <1>5. InTime' /\ AtAlert' /\ ClaimHeld' /\ OneOwner'
    BY <1>1, <1>3 DEF DispatchInv, InTime, AtAlert, ClaimHeld, OneOwner
  <1>6. ToldIsRecorded' /\ SentWasTold'
    BY <1>1, <1>3, <1>4 DEF DispatchInv, ToldIsRecorded, SentWasTold
  <1>7. ConfirmsTold'
    <2> SUFFICES ASSUME NEW v \in Workers, pc'[v] = "confirming"
                 PROVE  told'[cur[v]]
      BY <1>1 DEF ConfirmsTold
    <2>1. Owns(v) /\ cur[v] \in Keys
      BY <1>3, HeldClaim DEF Owns, Owning
    <2> QED  BY <1>1, <1>3, <1>4, <2>1 DEF DispatchInv, ConfirmsTold
  <1> QED  BY <1>5, <1>6, <1>7 DEF DispatchInv

LEMMA FailKeepsInv ==
    ASSUME DispatchInv, TypeOK', NEW w \in Workers, PublishFails(w)
    PROVE  DispatchInv'
  <1>1. /\ pc' = [pc EXCEPT ![w] = "releasing"]
        /\ pc[w] \in {"printing", "posting"}
        /\ told' = told \/ told' = [told EXCEPT ![cur[w]] = FALSE]
        /\ UNCHANGED <<ledger, now, cur>>
    BY DEF PublishFails, Goto
  <1>2. pc \in [Workers -> Phases] /\ told \in [Keys -> BOOLEAN]
    BY DEF DispatchInv, TypeOK
  <1>3. \A v \in Workers : /\ Owns(v)' = Owns(v)
                           /\ (pc'[v] \in Running) = (pc[v] \in Running)
                           /\ (pc'[v] = "confirming") = (pc[v] = "confirming")
    BY <1>1, <1>2 DEF Owns, Owning, Running
  <1>4. Owns(w) /\ cur[w] \in Keys /\ ledger[cur[w]].status = "pending"
    BY <1>1, HeldClaim DEF Owns, Owning
  <1>5. ~ told[cur[w]]
    <2>1. ASSUME NEW v \in Workers, pc[v] = "confirming" PROVE cur[v] # cur[w]
      BY <2>1, <1>1, <1>4 DEF DispatchInv, OneOwner, Owns, Owning
    <2> QED  BY <2>1, <1>4 DEF DispatchInv, ToldIsRecorded
  <1>6. told' = told
    BY <1>1, <1>2, <1>5
  <1> QED
    BY <1>1, <1>3, <1>6
    DEF DispatchInv, InTime, AtAlert, ClaimHeld, OneOwner, ToldIsRecorded,
        ConfirmsTold, SentWasTold

LEMMA ConfirmKeepsInv ==
    ASSUME DispatchInv, ReadableLedger, TypeOK', NEW w \in Workers,
           ConfirmSent(w)
    PROVE  DispatchInv'
  <1>1. /\ ledger' = [ledger EXCEPT ![cur[w]] = Sent(now[w])]
        /\ cur' = [cur EXCEPT ![w] = NoKey]
        /\ pc' = [pc EXCEPT ![w] = "claiming"]
        /\ pc[w] = "confirming"
        /\ UNCHANGED <<now, told>>
    BY LoadsLedger DEF ConfirmSent, Confirm, NextAlert, Goto
  <1>2. /\ pc \in [Workers -> Phases] /\ cur \in [Workers -> Keys \cup {NoKey}]
        /\ ledger \in PastStore
    BY DEF DispatchInv, TypeOK
  <1>3. Owns(w) /\ ~ Owns(w)' /\ cur[w] \in Keys
    BY <1>1, <1>2, HeldClaim DEF Owns, Owning
  <1>4. \A v \in Workers : /\ (pc'[v] \in Running) = (pc[v] \in Running)
                           /\ v # w => /\ Owns(v)' = Owns(v)
                                       /\ pc'[v] = pc[v] /\ cur'[v] = cur[v]
    BY <1>1, <1>2 DEF Owns, Owning, Running
  <1>5. \A v \in Workers : Owns(v)' => v # w /\ cur[v] # cur[w]
    BY <1>3, <1>4 DEF DispatchInv, OneOwner
  <1>6. /\ ledger'[cur[w]].status = "sent"
        /\ \A k \in Keys : k # cur[w] => ledger'[k] = ledger[k]
    BY <1>1, <1>2, <1>3 DEF Sent, PastStore
  <1>7. InTime' /\ AtAlert' /\ ClaimHeld' /\ OneOwner'
    BY <1>1, <1>3, <1>4, <1>5, <1>6
    DEF DispatchInv, InTime, AtAlert, ClaimHeld, OneOwner
  <1>8. ToldIsRecorded'
    BY <1>1, <1>4, <1>6 DEF DispatchInv, ToldIsRecorded
  <1>9. ConfirmsTold' /\ SentWasTold'
    BY <1>1, <1>2, <1>4, <1>6 DEF DispatchInv, ConfirmsTold, SentWasTold
  <1> QED  BY <1>7, <1>8, <1>9 DEF DispatchInv

LEMMA ReleaseKeepsInv ==
    ASSUME DispatchInv, ReadableLedger, TypeOK', NEW w \in Workers,
           ReleaseClaim(w)
    PROVE  DispatchInv'
  <1>1. /\ ledger' = [ledger EXCEPT ![cur[w]] = Absent]
        /\ cur' = [cur EXCEPT ![w] = NoKey]
        /\ pc' = [pc EXCEPT ![w] = "claiming"]
        /\ pc[w] = "releasing"
        /\ UNCHANGED <<now, told>>
    BY LoadsLedger DEF ReleaseClaim, Release, NextAlert, Goto
  <1>2. /\ pc \in [Workers -> Phases] /\ cur \in [Workers -> Keys \cup {NoKey}]
        /\ ledger \in PastStore
    BY DEF DispatchInv, TypeOK
  <1>3. Owns(w) /\ ~ Owns(w)' /\ cur[w] \in Keys /\ ledger[cur[w]].status = "pending"
    BY <1>1, <1>2, HeldClaim DEF Owns, Owning
  <1>4. \A v \in Workers : /\ (pc'[v] \in Running) = (pc[v] \in Running)
                           /\ (pc'[v] = "confirming") = (pc[v] = "confirming")
                           /\ v # w => /\ Owns(v)' = Owns(v)
                                       /\ pc'[v] = pc[v] /\ cur'[v] = cur[v]
    BY <1>1, <1>2 DEF Owns, Owning, Running
  <1>5. \A v \in Workers : Owns(v)' => v # w /\ cur[v] # cur[w]
    BY <1>3, <1>4 DEF DispatchInv, OneOwner
  <1>6. /\ ledger'[cur[w]].status = "absent"
        /\ \A k \in Keys : k # cur[w] => ledger'[k] = ledger[k]
    BY <1>1, <1>2, <1>3 DEF Absent, PastStore
  <1>7. InTime' /\ AtAlert' /\ ClaimHeld' /\ OneOwner'
    BY <1>1, <1>3, <1>4, <1>5, <1>6
    DEF DispatchInv, InTime, AtAlert, ClaimHeld, OneOwner
  <1>8. ~ told[cur[w]]
    <2>1. ASSUME NEW v \in Workers, pc[v] = "confirming" PROVE cur[v] # cur[w]
      BY <2>1, <1>1, <1>3 DEF DispatchInv, OneOwner, Owns, Owning
    <2> QED  BY <2>1, <1>3 DEF DispatchInv, ToldIsRecorded
  <1>9. ToldIsRecorded'
    BY <1>1, <1>4, <1>6, <1>8 DEF DispatchInv, ToldIsRecorded
  <1>10. ConfirmsTold' /\ SentWasTold'
    BY <1>1, <1>2, <1>4, <1>6 DEF DispatchInv, ConfirmsTold, SentWasTold
  <1> QED  BY <1>7, <1>9, <1>10 DEF DispatchInv

LEMMA CrashKeepsInv ==
    ASSUME DispatchInv, TypeOK', NEW w \in Workers, Crash(w)
    PROVE  DispatchInv'
  <1>1. /\ cur' = [cur EXCEPT ![w] = NoKey]
        /\ now' = [now EXCEPT ![w] = 0]
        /\ pc' = [pc EXCEPT ![w] = "down"]
        /\ told' = IF pc[w] = "confirming" THEN [told EXCEPT ![cur[w]] = FALSE]
                                           ELSE told
        /\ UNCHANGED ledger
    BY DEF Crash, Forget, Goto
  <1>2. /\ pc \in [Workers -> Phases] /\ cur \in [Workers -> Keys \cup {NoKey}]
        /\ now \in [Workers -> Past] /\ told \in [Keys -> BOOLEAN]
    BY DEF DispatchInv, TypeOK
  <1>3. pc'[w] \notin Running /\ ~ Owns(w)'
    BY <1>1, <1>2 DEF Owns, Owning, Running
  <1>4. \A v \in Workers : v # w => /\ Owns(v)' = Owns(v) /\ pc'[v] = pc[v]
                                    /\ cur'[v] = cur[v] /\ now'[v] = now[v]
    BY <1>1, <1>2 DEF Owns
  <1>5. InTime' /\ AtAlert' /\ ClaimHeld' /\ OneOwner'
    BY <1>1, <1>3, <1>4 DEF DispatchInv, InTime, AtAlert, ClaimHeld, OneOwner
  <1>6. \A k \in Keys : told'[k] <=> told[k] /\ ~ (pc[w] = "confirming" /\ cur[w] = k)
    BY <1>1, <1>2
  <1>7. ToldIsRecorded'
    BY <1>1, <1>4, <1>6 DEF DispatchInv, ToldIsRecorded
  <1>8. ConfirmsTold'
    <2> SUFFICES ASSUME NEW v \in Workers, pc'[v] = "confirming"
                 PROVE  told'[cur'[v]]
      BY DEF ConfirmsTold
    <2>1. v # w /\ pc[v] = "confirming" /\ cur'[v] = cur[v]
      BY <1>3, <1>4 DEF Running, Owning
    <2>2. cur[v] \in Keys /\ Owns(v)
      BY <2>1, HeldClaim DEF Owns, Owning
    <2>3. ~ (pc[w] = "confirming" /\ cur[w] = cur[v])
      BY <2>1, <2>2 DEF DispatchInv, OneOwner, Owns, Owning
    <2> QED  BY <1>6, <2>1, <2>2, <2>3 DEF DispatchInv, ConfirmsTold
  <1>9. SentWasTold'
    <2> SUFFICES ASSUME NEW k \in Keys, ledger[k].status = "sent"
                 PROVE  told'[k]
      BY <1>1 DEF SentWasTold
    <2>1. ~ (pc[w] = "confirming" /\ cur[w] = k)
      BY HeldClaim DEF Owns, Owning
    <2> QED  BY <1>6, <2>1 DEF DispatchInv, SentWasTold
  <1> QED  BY <1>5, <1>7, <1>8, <1>9 DEF DispatchInv

LEMMA DispatchInvStep ==
    ASSUME DispatchInv, ShortCycles, ReadableLedger, [Next]_vars
    PROVE  DispatchInv'
  <1>1. TypeOK'
    BY CycleStepType, EnvironmentStepType DEF DispatchInv, Next, vars, TypeOK
  <1>2. CASE UNCHANGED vars
    BY <1>1, <1>2, QuietStep DEF vars
  <1>3. ASSUME NEW k \in Keys, Change(k) PROVE DispatchInv'
    BY <1>1, <1>3, QuietStep DEF Change
  <1>4. CASE Tick
    BY <1>1, <1>4, TickKeepsInv
  <1>5. ASSUME NEW w \in Workers, Step(w) PROVE DispatchInv'
    <2>1. pc \in [Workers -> Phases] /\ now \in [Workers -> Past]
      BY DEF DispatchInv, TypeOK
    <2>2. CASE Fetch(w)
      BY <1>1, <2>1, <2>2, QuietStep DEF Fetch, Goto, Owns, Owning, Running
    <2>3. CASE ReadClock(w)
      BY <1>1, <2>1, <2>3, QuietStep, ModelAssumption
      DEF ReadClock, Goto, Owns, Owning, Running
    <2>4. CASE EndCycle(w)
      <3>1. \A v \in Workers :
               \/ pc'[v] = pc[v] /\ now'[v] = now[v] /\ cur'[v] = cur[v]
               \/ ~ Owns(v) /\ ~ Owns(v)' /\ pc'[v] \notin Running
        BY <2>1, <2>4 DEF EndCycle, Forget, Goto, Owns, Owning, Running
      <3> QED  BY <1>1, <3>1, <2>4, QuietStep DEF EndCycle
    <2> QED
      BY <1>1, <1>5, <2>2, <2>3, <2>4, ReconcileKeepsInv, ClaimKeepsInv,
         PrintKeepsInv, PostKeepsInv, FailKeepsInv, ConfirmKeepsInv,
         ReleaseKeepsInv
      DEF Step
  <1>6. ASSUME NEW w \in Workers, Crash(w) PROVE DispatchInv'
    BY <1>1, <1>6, CrashKeepsInv
  <1>7. ASSUME NEW w \in Workers, Restart(w) PROVE DispatchInv'
    <2>1. \A v \in Workers :
             \/ pc'[v] = pc[v] /\ now'[v] = now[v] /\ cur'[v] = cur[v]
             \/ ~ Owns(v) /\ ~ Owns(v)' /\ pc'[v] \notin Running
      BY <1>7 DEF DispatchInv, TypeOK, Restart, Goto, Owns, Owning, Running
    <2> QED  BY <1>1, <1>7, <2>1, QuietStep DEF Restart
  <1> QED  BY <1>2, <1>3, <1>4, <1>5, <1>6, <1>7 DEF Next

(* The dispatch invariant holds of every reachable state when a cycle ends *)
(* within the pending TTL and the ledger file can be read.                 *)
THEOREM DispatchInvariant ==
    ASSUME ShortCycles, ReadableLedger
    PROVE  Spec => []DispatchInv
  <1>1. DispatchInv /\ [Next]_vars => DispatchInv'
    BY DispatchInvStep
  <1> QED  BY <1>1, DispatchInvInit, PTL DEF Spec

(* A claim stays its worker's until the worker confirms or releases it:    *)
(* pending records in the file are never stolen from a live cycle.         *)
THEOREM ClaimsAreHeld ==
    ASSUME ShortCycles, ReadableLedger
    PROVE  Spec => []ClaimHeld
  BY DispatchInvariant, PTL DEF DispatchInv

(* No two workers publish the same problem at once.                        *)
THEOREM OnePublisher ==
    ASSUME ShortCycles, ReadableLedger
    PROVE  Spec => []OneOwner
  BY DispatchInvariant, PTL DEF DispatchInv

(* A problem recorded as sent was told to the room.                        *)
THEOREM NothingSilenced ==
    ASSUME ShortCycles, ReadableLedger
    PROVE  Spec => []SentWasTold
  BY DispatchInvariant, PTL DEF DispatchInv

(* The POST of a problem is never sent while the room already knows of it. *)
THEOREM ToldAtMostOnce ==
    ASSUME ShortCycles, ReadableLedger
    PROVE  Spec => []NeverToldTwice
  <1>1. DispatchInv => NeverToldTwice
    <2> SUFFICES ASSUME DispatchInv, NEW w \in Workers, pc[w] = "posting",
                        told[cur[w]]
                 PROVE  FALSE
      BY DEF NeverToldTwice
    <2>1. Owns(w) /\ cur[w] \in Keys /\ ledger[cur[w]].status = "pending"
      BY HeldClaim DEF Owns, Owning
    <2>2. PICK v \in Workers : pc[v] = "confirming" /\ cur[v] = cur[w]
      BY <2>1 DEF DispatchInv, ToldIsRecorded
    <2> QED  BY <2>1, <2>2 DEF DispatchInv, OneOwner, Owns, Owning
  <1> QED  BY <1>1, DispatchInvariant, PTL

(* A sent record leaves the ledger only through a reconciliation, for a    *)
(* key its fetch did not list, a whole window after the confirmation.      *)
THEOREM SentRecordsSurvive ==
    ASSUME ShortCycles, ReadableLedger
    PROVE  Spec => SentSurvives
  <1> DEFINE Leaves(k) == /\ ledger[k].status = "sent"
                          /\ ledger'[k].status # "sent"
             Allowed(k) == \E w \in Workers : /\ pc[w] = "reconciling"
                                              /\ k \notin raw[w]
                                              /\ ledger[k].at <= now[w] - Window
  <1>1. DispatchInv /\ [Next]_vars => [KeepsSent]_vars
    <2> SUFFICES ASSUME DispatchInv, Next, NEW k \in Keys, Leaves(k)
                 PROVE  Allowed(k)
      BY DEF KeepsSent
    <2>1. ASSUME NEW j \in Keys, Change(j) PROVE FALSE
      BY <2>1 DEF Change
    <2>2. ASSUME Tick PROVE FALSE
      <3>1. ledger[k] \in [status : {"absent", "pending", "sent"}, at : Past]
        BY DEF DispatchInv, TypeOK, PastStore
      <3> QED  BY <2>2, <3>1 DEF Tick, Aged
    <2>3. ASSUME NEW w \in Workers, ReconcileActive(w) PROVE Allowed(k)
      <3>1. /\ ledger' = Reconcile(ledger, raw[w], now[w])
            /\ pc[w] = "reconciling"
        BY <2>3, LoadsLedger DEF ReconcileActive
      <3>2. Retired(ledger[k], k \in raw[w], now[w])
        BY <3>1 DEF Reconcile, Expired
      <3> QED  BY <3>1, <3>2 DEF Retired
    <2>4. ASSUME NEW w \in Workers, NEW j \in Keys, Claim(w, j) PROVE FALSE
      <3>1. \/ ledger' = ledger
            \/ /\ CanClaim(ledger, j, now[w])
               /\ ledger' = TryClaim(ledger, j, now[w])
        BY <2>4, LoadsLedger DEF Claim
      <3>2. CanClaim(ledger, j, now[w]) => j # k
        BY DEF CanClaim, Prune, Expired, Absent
      <3> QED  BY <3>1, <3>2 DEF TryClaim, Prune, Expired
    <2>5. ASSUME NEW w \in Workers, ConfirmSent(w) PROVE FALSE
      BY <2>5, LoadsLedger DEF ConfirmSent, Confirm, Sent, DispatchInv, TypeOK, PastStore
    <2>6. ASSUME NEW w \in Workers, ReleaseClaim(w) PROVE FALSE
      <3>1. cur[w] # k
        BY <2>6, HeldClaim DEF ReleaseClaim, Owns, Owning
      <3> QED
        BY <2>6, <3>1, LoadsLedger DEF ReleaseClaim, Release, DispatchInv, TypeOK, PastStore
    <2>7. ASSUME UNCHANGED ledger PROVE FALSE
      BY <2>7
    <2> QED
      BY <2>1, <2>2, <2>3, <2>4, <2>5, <2>6, <2>7
      DEF Next, Step, Fetch, ReadClock, PrintAlert, PostAlert, PublishFails,
          EndCycle, Crash, Restart
  <1> QED  BY <1>1, DispatchInvariant, PTL DEF Spec, SentSurvives

-----------------------------------------------------------------------------
(* The room hears of a problem once while the monitors keep reporting it,  *)
(* when monitors answer, workers live and sinks that raise have delivered  *)
(* nothing.                                                                *)

(* Only refusals: no lost fetch, no crash, no unanswered POST.             *)
NoLoss == Faults \subseteq {"refused"}

(* A record outlives the time from a fetch to the end of its cycle.        *)
LongRetention == Window > MaxFetch + MaxCycle

(* Episodes of the chat that end as soon as the problem clears.            *)
ChatEpisodes == Watched = "chat" /\ Grace = 0

Hypotheses == ShortCycles /\ NoLoss /\ LongRetention /\ ChatEpisodes

-----------------------------------------------------------------------------
(* The invariant.                                                          *)

SeenIsListed == \A k \in Keys : seen[k] => problem[k] # "clear"

(* A problem the room saw is recorded, or about to be.                     *)
Recorded(k) ==
    \/ ledger[k].status = "sent"
    \/ \E v \in Workers : pc[v] = "confirming" /\ cur[v] = k

SeenIsRecorded == \A k \in Keys : seen[k] => Recorded(k)

(* Its record bears an instant no earlier than t.                          *)
StampedSince(k, t) ==
    /\ ledger[k].status = "sent" => ledger[k].at >= t
    /\ \A v \in Workers : pc[v] = "confirming" /\ cur[v] = k => now[v] >= t

(* A fetch that missed a problem the room has seen was made before it was  *)
(* seen, so the record is too young for that fetch to retire it.           *)
MissedIsYoung ==
    \A w \in Workers, k \in Keys :
        seen[k] /\ k \notin raw[w] =>
            /\ pc[w] = "fetched" => StampedSince(k, now[w] - MaxCycle)
            /\ pc[w] = "reconciling" => StampedSince(k, now[w] - MaxFetch - MaxCycle)

FetchInTime == \A w \in Workers : pc[w] = "fetched" => now[w] >= -MaxFetch

EpisodeInv ==
    /\ SeenIsListed
    /\ SeenIsRecorded
    /\ MissedIsYoung
    /\ FetchInTime

LEMMA OnlyRefused ==
    ASSUME NoLoss
    PROVE  ReadableLedger /\ "fetch" \notin Faults /\ "crash" \notin Faults
             /\ "unsure" \notin Faults
  BY DEF NoLoss, ReadableLedger

LEMMA EpisodeInvInit == Init => EpisodeInv
  BY DEF Init, EpisodeInv, SeenIsListed, SeenIsRecorded, MissedIsYoung, FetchInTime

(* Most steps show the room nothing, keep what is recorded and stamped,    *)
(* and leave alone the workers that have yet to reconcile.                 *)
LEMMA EpisodeKept ==
    ASSUME TypeOK, TypeOK', EpisodeInv,
           \A k \in Keys : seen'[k] => seen[k] /\ problem'[k] # "clear",
           \A k \in Keys : seen[k] /\ Recorded(k) => Recorded(k)',
           \A k \in Keys, t \in Int : StampedSince(k, t) => StampedSince(k, t)',
           \A w \in Workers : pc'[w] \in {"fetched", "reconciling"} =>
               pc'[w] = pc[w] /\ now'[w] = now[w] /\ raw'[w] = raw[w]
    PROVE  EpisodeInv'
  <1>1. SeenIsListed' /\ SeenIsRecorded'
    BY DEF EpisodeInv, SeenIsListed, SeenIsRecorded
  <1>2. FetchInTime'
    BY DEF EpisodeInv, FetchInTime
  <1>3. MissedIsYoung'
    <2> SUFFICES ASSUME NEW w \in Workers, NEW k \in Keys,
                        seen'[k], k \notin raw'[w]
                 PROVE  /\ pc'[w] = "fetched" => StampedSince(k, now[w] - MaxCycle)'
                        /\ pc'[w] = "reconciling" =>
                             StampedSince(k, now[w] - MaxFetch - MaxCycle)'
      BY DEF MissedIsYoung
    <2>1. now[w] \in Int /\ MaxCycle \in Int /\ MaxFetch \in Int
      BY ModelAssumption DEF TypeOK, Past
    <2>2. ASSUME pc'[w] = "fetched" PROVE StampedSince(k, now[w] - MaxCycle)'
      <3>1. StampedSince(k, now[w] - MaxCycle) /\ now'[w] = now[w]
        BY <2>2 DEF EpisodeInv, MissedIsYoung
      <3> DEFINE t == now[w] - MaxCycle
      <3>2. t \in Int
        BY <2>1
      <3> QED  BY <2>1, <3>1, <3>2 DEF StampedSince
    <2>3. ASSUME pc'[w] = "reconciling"
          PROVE  StampedSince(k, now[w] - MaxFetch - MaxCycle)'
      <3>1. StampedSince(k, now[w] - MaxFetch - MaxCycle) /\ now'[w] = now[w]
        BY <2>3 DEF EpisodeInv, MissedIsYoung
      <3> QED  BY <2>1, <3>1 DEF StampedSince
    <2> QED  BY <2>2, <2>3
  <1> QED  BY <1>1, <1>2, <1>3 DEF EpisodeInv

-----------------------------------------------------------------------------
(* The steps that read a clock, or show the room something.                *)

LEMMA FetchEpisode ==
    ASSUME NoLoss, TypeOK, EpisodeInv, NEW w \in Workers, Fetch(w)
    PROVE  EpisodeInv'
  <1>1. /\ raw' = [raw EXCEPT ![w] = {k \in Keys : problem[k] # "clear"
                                                     /\ ServerOf[k] \in Servers}]
        /\ now' = [now EXCEPT ![w] = 0]
        /\ pc' = [pc EXCEPT ![w] = "fetched"]
        /\ pc[w] = "idle"
        /\ UNCHANGED <<problem, ledger, cur, seen>>
    BY OnlyRefused DEF Fetch, Goto
  <1>2. /\ pc \in [Workers -> Phases] /\ now \in [Workers -> Past]
        /\ raw \in [Workers -> SUBSET Keys]
    BY DEF TypeOK
  <1>3. \A v \in Workers : v # w => pc'[v] = pc[v] /\ now'[v] = now[v] /\ raw'[v] = raw[v]
    BY <1>1, <1>2
  <1>4. pc'[w] = "fetched" /\ now'[w] = 0
    BY <1>1, <1>2
  <1>5. \A k \in Keys : seen[k] => k \in raw'[w]
    BY <1>1, <1>2, ModelAssumption DEF EpisodeInv, SeenIsListed
  <1>6. SeenIsListed' /\ SeenIsRecorded'
    BY <1>1, <1>3, <1>4 DEF EpisodeInv, SeenIsListed, SeenIsRecorded, Recorded
  <1>7. FetchInTime'
    BY <1>3, <1>4, ModelAssumption DEF EpisodeInv, FetchInTime
  <1>8. MissedIsYoung'
    <2> SUFFICES ASSUME NEW v \in Workers, NEW k \in Keys, seen[k], k \notin raw'[v]
                 PROVE  /\ pc'[v] = "fetched" => StampedSince(k, now[v] - MaxCycle)'
                        /\ pc'[v] = "reconciling" =>
                             StampedSince(k, now[v] - MaxFetch - MaxCycle)'
      BY <1>1 DEF MissedIsYoung
    <2>1. v # w
      BY <1>5
    <2>2. /\ pc[v] = "fetched" => StampedSince(k, now[v] - MaxCycle)
          /\ pc[v] = "reconciling" => StampedSince(k, now[v] - MaxFetch - MaxCycle)
      BY <1>3, <2>1 DEF EpisodeInv, MissedIsYoung
    <2> QED  BY <1>1, <1>3, <1>4, <2>1, <2>2 DEF StampedSince
  <1> QED  BY <1>6, <1>7, <1>8 DEF EpisodeInv

LEMMA ReadClockEpisode ==
    ASSUME TypeOK, EpisodeInv, NEW w \in Workers, ReadClock(w)
    PROVE  EpisodeInv'
  <1>1. /\ now' = [now EXCEPT ![w] = 0]
        /\ pc' = [pc EXCEPT ![w] = "reconciling"]
        /\ pc[w] = "fetched"
        /\ UNCHANGED <<problem, ledger, raw, cur, seen>>
    BY DEF ReadClock, Goto
  <1>2. /\ pc \in [Workers -> Phases] /\ now \in [Workers -> Past]
        /\ ledger \in PastStore
    BY DEF TypeOK
  <1>3. \A v \in Workers : v # w => pc'[v] = pc[v] /\ now'[v] = now[v]
    BY <1>1, <1>2
  <1>4. pc'[w] = "reconciling" /\ now'[w] = 0
    BY <1>1, <1>2
  <1>5. SeenIsListed' /\ SeenIsRecorded' /\ FetchInTime'
    BY <1>1, <1>3, <1>4
    DEF EpisodeInv, SeenIsListed, SeenIsRecorded, Recorded, FetchInTime
  <1>6. MissedIsYoung'
    <2> SUFFICES ASSUME NEW v \in Workers, NEW k \in Keys, seen[k], k \notin raw[v]
                 PROVE  /\ pc'[v] = "fetched" => StampedSince(k, now[v] - MaxCycle)'
                        /\ pc'[v] = "reconciling" =>
                             StampedSince(k, now[v] - MaxFetch - MaxCycle)'
      BY <1>1 DEF MissedIsYoung
    <2>1. CASE v # w
      <3>1. /\ pc[v] = "fetched" => StampedSince(k, now[v] - MaxCycle)
            /\ pc[v] = "reconciling" => StampedSince(k, now[v] - MaxFetch - MaxCycle)
        BY DEF EpisodeInv, MissedIsYoung
      <3> QED  BY <1>1, <1>3, <1>4, <2>1, <3>1 DEF StampedSince
    <2>2. CASE v = w
      <3>1. StampedSince(k, now[w] - MaxCycle) /\ now[w] >= -MaxFetch
        BY <1>1, <2>2 DEF EpisodeInv, MissedIsYoung, FetchInTime
      <3>2. now[w] \in Int /\ MaxCycle \in Int /\ MaxFetch \in Int
              /\ (\A u \in Workers : now[u] \in Int) /\ ledger[k].at \in Int
        BY <1>2, ModelAssumption DEF Past, PastStore
      <3>3. ledger[k].status = "sent" => ledger[k].at >= 0 - MaxFetch - MaxCycle
        BY <3>1, <3>2 DEF StampedSince
      <3>4. \A u \in Workers : pc[u] = "confirming" /\ cur[u] = k
                                 => now[u] >= 0 - MaxFetch - MaxCycle
        BY <3>1, <3>2 DEF StampedSince
      <3>5. \A u \in Workers : pc'[u] = "confirming" => pc[u] = "confirming" /\ u # w
        BY <1>3, <1>4
      <3> QED  BY <1>1, <1>3, <1>4, <2>2, <3>3, <3>4, <3>5 DEF StampedSince
    <2> QED  BY <2>1, <2>2
  <1> QED  BY <1>5, <1>6 DEF EpisodeInv

LEMMA PostEpisode ==
    ASSUME ChatEpisodes, DispatchInv, EpisodeInv,
           NEW w \in Workers, NEW k \in Keys, PostAlert(w, k)
    PROVE  EpisodeInv'
  <1>1. /\ pc' = [pc EXCEPT ![w] = "confirming"]
        /\ seen' = [seen EXCEPT ![k] = @ \/ problem[k] # "clear"]
        /\ pc[w] = "posting" /\ cur[w] = k
        /\ UNCHANGED <<problem, ledger, now, raw, cur>>
    BY DEF PostAlert, Carried, Goto, ChatEpisodes
  <1>2. /\ pc \in [Workers -> Phases] /\ now \in [Workers -> Past]
        /\ seen \in [Keys -> BOOLEAN]
    BY DEF DispatchInv, TypeOK
  <1>3. /\ \A v \in Workers : v # w => pc'[v] = pc[v]
        /\ \A j \in Keys : j # k => seen'[j] = seen[j]
        /\ pc'[w] = "confirming"
        /\ seen'[k] => seen[k] \/ problem[k] # "clear"
    BY <1>1, <1>2
  <1>4. ledger[k].status = "pending" /\ now[w] >= -MaxCycle
    BY <1>1, HeldClaim DEF DispatchInv, InTime, Owns, Owning, Running
  <1>5. SeenIsListed'
    BY <1>1, <1>3 DEF EpisodeInv, SeenIsListed
  <1>6. SeenIsRecorded'
    <2> SUFFICES ASSUME NEW j \in Keys, seen'[j] PROVE Recorded(j)'
      BY DEF SeenIsRecorded
    <2>1. CASE j = k
      BY <1>1, <1>3, <2>1 DEF Recorded
    <2>2. CASE j # k
      BY <1>1, <1>3, <2>2 DEF EpisodeInv, SeenIsRecorded, Recorded
    <2> QED  BY <2>1, <2>2
  <1>7. FetchInTime'
    BY <1>1, <1>3 DEF EpisodeInv, FetchInTime
  <1>8. MissedIsYoung'
    <2> SUFFICES ASSUME NEW v \in Workers, NEW j \in Keys, seen'[j], j \notin raw[v]
                 PROVE  /\ pc'[v] = "fetched" => StampedSince(j, now[v] - MaxCycle)'
                        /\ pc'[v] = "reconciling" =>
                             StampedSince(j, now[v] - MaxFetch - MaxCycle)'
      BY <1>1 DEF MissedIsYoung
    <2>1. CASE j # k
      <3>1. /\ pc[v] = "fetched" => StampedSince(j, now[v] - MaxCycle)
            /\ pc[v] = "reconciling" => StampedSince(j, now[v] - MaxFetch - MaxCycle)
        BY <1>3, <2>1 DEF EpisodeInv, MissedIsYoung
      <3>2. \A u \in Workers : pc'[u] = "confirming" /\ cur[u] = j => pc[u] = "confirming"
        BY <1>1, <1>3, <2>1
      <3>3. pc'[v] \in {"fetched", "reconciling"} => pc'[v] = pc[v]
        BY <1>3
      <3> QED  BY <1>1, <3>1, <3>2, <3>3 DEF StampedSince
    <2>2. CASE j = k
      <3>1. \A u \in Workers : pc'[u] = "confirming" /\ cur[u] = k => u = w
        <4> SUFFICES ASSUME NEW u \in Workers, pc'[u] = "confirming", cur[u] = k, u # w
                     PROVE  FALSE
          OBVIOUS
        <4>1. Owns(u) /\ Owns(w)
          BY <1>1, <1>3 DEF Owns, Owning
        <4> QED  BY <1>1, <4>1 DEF DispatchInv, OneOwner
      <3>2. /\ now[v] \in Int /\ now[v] <= 0 /\ now[w] \in Int
            /\ MaxCycle \in Int /\ MaxFetch \in Int /\ MaxFetch >= 0
        BY <1>2, ModelAssumption DEF Past
      <3>3. now[w] >= now[v] - MaxCycle /\ now[w] >= now[v] - MaxFetch - MaxCycle
        BY <1>4, <3>2
      <3> QED  BY <1>1, <1>4, <2>2, <3>1, <3>3 DEF StampedSince
    <2> QED  BY <2>1, <2>2
  <1> QED  BY <1>5, <1>6, <1>7, <1>8 DEF EpisodeInv

LEMMA TickEpisode ==
    ASSUME TypeOK, EpisodeInv, Tick
    PROVE  EpisodeInv'
  <1>1. /\ UNCHANGED <<problem, pc, raw, cur>>
        /\ \A k \in Keys : ledger'[k] = Aged(ledger[k]) /\ (seen'[k] => seen[k])
        /\ \A w \in Workers : /\ pc[w] = "fetched" => now[w] > -MaxFetch
                              /\ pc[w] \notin {"down", "idle"} => now'[w] = Older(now[w])
                              /\ pc[w] \in Running => now[w] > -MaxCycle
    BY DEF Tick, TypeOK
  <1>2. /\ \A w \in Workers : now[w] \in Int /\ now[w] >= -Horizon /\ pc[w] \in Phases
        /\ MaxCycle \in Nat /\ MaxFetch \in Nat /\ Horizon \in Nat
        /\ Horizon >= MaxFetch /\ Horizon >= MaxCycle
        /\ \A k \in Keys : ledger[k] \in [status : {"absent", "pending", "sent"}, at : Past]
    BY ModelAssumption, DurationsAssumption DEF TypeOK, Past, PastStore
  <1>3. \A w \in Workers : pc[w] \in {"fetched", "reconciling", "confirming"} =>
            now'[w] = now[w] - 1
    BY <1>1, <1>2 DEF Older, Running, Owning
  <1>4. ASSUME NEW k \in Keys
        PROVE  /\ ledger[k].at \in Int /\ ledger'[k].at \in Int
               /\ ledger'[k].status = ledger[k].status
               /\ ledger'[k].at >= ledger[k].at - 1
    <2>1. /\ ledger[k] \in [status : {"absent", "pending", "sent"}, at : Past]
          /\ ledger[k].at \in Int
      BY <1>2 DEF Past
    <2>2. CASE ledger[k].status = "absent"
      <3>1. ledger'[k] = ledger[k]
        BY <1>1, <2>2 DEF Aged
      <3> QED  BY <2>1, <3>1
    <2>3. CASE ledger[k].status # "absent"
      <3>1. ledger'[k] = [ledger[k] EXCEPT !.at = Older(ledger[k].at)]
        BY <1>1, <2>3 DEF Aged
      <3>2. /\ ledger'[k].status = ledger[k].status
            /\ ledger'[k].at = Older(ledger[k].at)
        BY <2>1, <3>1
      <3> QED  BY <1>2, <2>1, <3>2 DEF Older
    <2> QED  BY <2>2, <2>3
  <1>5. SeenIsListed' /\ SeenIsRecorded'
    BY <1>1, <1>4 DEF EpisodeInv, SeenIsListed, SeenIsRecorded, Recorded
  <1>6. FetchInTime'
    <2> SUFFICES ASSUME NEW w \in Workers, pc[w] = "fetched" PROVE now'[w] >= -MaxFetch
      BY <1>1 DEF FetchInTime
    <2> QED  BY <1>1, <1>2, <1>3
  <1>7. ASSUME NEW k \in Keys, NEW t \in Int, NEW u \in Int, u = t - 1, StampedSince(k, t)
        PROVE  /\ ledger'[k].status = "sent" => ledger'[k].at >= u
               /\ \A v \in Workers : pc'[v] = "confirming" /\ cur'[v] = k => now'[v] >= u
    <2>3. ledger'[k].status = "sent" => ledger'[k].at >= u
      BY <1>4, <1>7 DEF StampedSince
    <2>4. \A v \in Workers : pc'[v] = "confirming" /\ cur'[v] = k => now'[v] >= u
      BY <1>1, <1>2, <1>3, <1>7 DEF StampedSince
    <2> QED  BY <2>3, <2>4
  <1>8. MissedIsYoung'
    <2> SUFFICES ASSUME NEW w \in Workers, NEW k \in Keys, seen'[k], k \notin raw[w]
                 PROVE  /\ pc[w] = "fetched" => StampedSince(k, now[w] - MaxCycle)'
                        /\ pc[w] = "reconciling" =>
                             StampedSince(k, now[w] - MaxFetch - MaxCycle)'
      BY <1>1 DEF MissedIsYoung
    <2>1. CASE pc[w] = "fetched"
      <3>1. StampedSince(k, now[w] - MaxCycle)
        BY <1>1, <2>1 DEF EpisodeInv, MissedIsYoung
      <3>2. /\ now[w] - MaxCycle \in Int
            /\ now'[w] - MaxCycle = (now[w] - MaxCycle) - 1
            /\ now'[w] - MaxCycle \in Int
        BY <1>2, <1>3, <2>1
      <3>3. StampedSince(k, now[w] - MaxCycle)'
        BY <1>7, <3>1, <3>2 DEF StampedSince
      <3> QED  BY <2>1, <3>3
    <2>2. CASE pc[w] = "reconciling"
      <3>1. StampedSince(k, now[w] - MaxFetch - MaxCycle)
        BY <1>1, <2>2 DEF EpisodeInv, MissedIsYoung
      <3>2. /\ now[w] - MaxFetch - MaxCycle \in Int
            /\ now'[w] - MaxFetch - MaxCycle = (now[w] - MaxFetch - MaxCycle) - 1
            /\ now'[w] - MaxFetch - MaxCycle \in Int
        BY <1>2, <1>3, <2>2
      <3>3. StampedSince(k, now[w] - MaxFetch - MaxCycle)'
        BY <1>7, <3>1, <3>2 DEF StampedSince
      <3> QED  BY <2>2, <3>3
    <2> QED  BY <2>1, <2>2
  <1> QED  BY <1>5, <1>6, <1>8 DEF EpisodeInv

-----------------------------------------------------------------------------
(* The steps that change a record.                                         *)

LEMMA ReconcileEpisode ==
    ASSUME Hypotheses, DispatchInv, TypeOK', EpisodeInv,
           NEW w \in Workers, ReconcileActive(w)
    PROVE  EpisodeInv'
  <1>1. /\ ledger' = Reconcile(ledger, raw[w], now[w])
        /\ pc' = [pc EXCEPT ![w] = "claiming"]
        /\ pc[w] = "reconciling"
        /\ UNCHANGED <<problem, now, raw, cur, seen>>
    BY LoadsLedger, OnlyRefused DEF ReconcileActive, Goto, Hypotheses
  <1>2. /\ pc \in [Workers -> Phases] /\ now \in [Workers -> Past]
        /\ ledger \in PastStore
    BY DEF DispatchInv, TypeOK
  <1>3. \A v \in Workers : /\ pc'[v] = "confirming" <=> pc[v] = "confirming"
                           /\ pc'[v] \in {"fetched", "reconciling"} => pc'[v] = pc[v]
    BY <1>1, <1>2
  <1>4. \A k \in Keys : ledger'[k] = ledger[k] \/ ledger'[k].status = "absent"
    BY <1>1 DEF Reconcile, Absent
  <1>5. ASSUME NEW k \in Keys, seen[k], ledger[k].status = "sent"
        PROVE  ledger'[k].status = "sent"
    <2>1. k \notin raw[w] => ledger[k].at >= now[w] - MaxFetch - MaxCycle
      BY <1>1, <1>5 DEF EpisodeInv, MissedIsYoung, StampedSince
    <2>2. /\ now[w] \in Int /\ ledger[k].at \in Int
          /\ MaxFetch \in Int /\ MaxCycle \in Int /\ Window \in Int
      BY <1>2, ModelAssumption, DurationsAssumption DEF Past, PastStore
    <2>3. k \notin raw[w] => ~ (ledger[k].at <= now[w] - Window)
      BY <2>1, <2>2 DEF Hypotheses, LongRetention
    <2>4. ~ Retired(ledger[k], k \in raw[w], now[w])
      BY <2>3 DEF Retired
    <2> QED  BY <1>1, <1>5, <2>4 DEF Reconcile, Expired
  <1>6. \A k \in Keys : seen[k] /\ Recorded(k) => Recorded(k)'
    BY <1>1, <1>3, <1>5 DEF Recorded
  <1>7. \A k \in Keys, t \in Int : StampedSince(k, t) => StampedSince(k, t)'
    BY <1>1, <1>3, <1>4 DEF StampedSince
  <1>8. \A k \in Keys : seen'[k] => seen[k] /\ problem'[k] # "clear"
    BY <1>1 DEF EpisodeInv, SeenIsListed
  <1> QED
    BY <1>1, <1>3, <1>6, <1>7, <1>8, EpisodeKept DEF DispatchInv

LEMMA ClaimEpisode ==
    ASSUME NoLoss, DispatchInv, TypeOK', EpisodeInv,
           NEW w \in Workers, NEW k \in Keys, Claim(w, k)
    PROVE  EpisodeInv'
  <1>1. /\ \/ UNCHANGED <<ledger, cur, pc>>
           \/ /\ CanClaim(ledger, k, now[w])
              /\ ledger' = [Prune(ledger, now[w]) EXCEPT ![k] = Pending(now[w])]
              /\ cur' = [cur EXCEPT ![w] = k]
              /\ pc' = [pc EXCEPT ![w] = "printing"]
        /\ pc[w] = "claiming"
        /\ UNCHANGED <<problem, now, raw, seen>>
    BY LoadsLedger, OnlyRefused DEF Claim, TryClaim, Goto
  <1>2. pc \in [Workers -> Phases] /\ cur \in [Workers -> Keys \cup {NoKey}]
    BY DEF DispatchInv, TypeOK
  <1>3. \A v \in Workers : /\ pc'[v] = "confirming" <=> pc[v] = "confirming"
                           /\ pc[v] = "confirming" => cur'[v] = cur[v]
                           /\ pc'[v] \in {"fetched", "reconciling"} => pc'[v] = pc[v]
    BY <1>1, <1>2
  <1>4. CanClaim(ledger, k, now[w]) => ledger[k].status # "sent"
    BY DEF CanClaim, Prune, Expired, Absent
  <1>5. ASSUME NEW j \in Keys
        PROVE  /\ ledger[j].status = "sent" => ledger'[j] = ledger[j]
               /\ ledger'[j].status = "sent" => ledger'[j] = ledger[j]
    <2>1. CASE UNCHANGED ledger
      BY <2>1
    <2>2. CASE ledger' = [Prune(ledger, now[w]) EXCEPT ![k] = Pending(now[w])]
                 /\ CanClaim(ledger, k, now[w])
      <3>1. j = k => ledger'[j].status = "pending"
        BY <2>2 DEF Prune, Pending
      <3>2. j # k => ledger'[j] = Prune(ledger, now[w])[j]
        BY <2>2 DEF Prune
      <3>3. Prune(ledger, now[w])[j] = ledger[j] \/
              (/\ ledger[j].status = "pending"
               /\ Prune(ledger, now[w])[j].status = "absent")
        BY DEF Prune, Expired, Absent
      <3> QED  BY <1>4, <2>2, <3>1, <3>2, <3>3
    <2> QED  BY <1>1, <2>1, <2>2
  <1>6. \A j \in Keys : seen[j] /\ Recorded(j) => Recorded(j)'
    BY <1>3, <1>5 DEF Recorded
  <1>7. \A j \in Keys, t \in Int : StampedSince(j, t) => StampedSince(j, t)'
    BY <1>1, <1>3, <1>5 DEF StampedSince
  <1>8. \A j \in Keys : seen'[j] => seen[j] /\ problem'[j] # "clear"
    BY <1>1 DEF EpisodeInv, SeenIsListed
  <1> QED
    BY <1>1, <1>3, <1>6, <1>7, <1>8, EpisodeKept DEF DispatchInv

LEMMA ConfirmEpisode ==
    ASSUME NoLoss, DispatchInv, TypeOK', EpisodeInv,
           NEW w \in Workers, ConfirmSent(w)
    PROVE  EpisodeInv'
  <1>1. /\ ledger' = [ledger EXCEPT ![cur[w]] = Sent(now[w])]
        /\ cur' = [cur EXCEPT ![w] = NoKey]
        /\ pc' = [pc EXCEPT ![w] = "claiming"]
        /\ pc[w] = "confirming"
        /\ UNCHANGED <<problem, now, raw, seen>>
    BY LoadsLedger, OnlyRefused DEF ConfirmSent, Confirm, NextAlert, Goto
  <1>2. /\ pc \in [Workers -> Phases] /\ cur \in [Workers -> Keys \cup {NoKey}]
        /\ ledger \in PastStore
    BY DEF DispatchInv, TypeOK
  <1>3. \A v \in Workers :
           /\ pc'[v] = "confirming" <=> v # w /\ pc[v] = "confirming"
           /\ v # w => cur'[v] = cur[v]
           /\ pc'[v] \in {"fetched", "reconciling"} => pc'[v] = pc[v]
    BY <1>1, <1>2
  <1>4. \A j \in Keys : /\ j # cur[w] => ledger'[j] = ledger[j]
                        /\ j = cur[w] => ledger'[j] = Sent(now[w])
    BY <1>1, <1>2 DEF PastStore
  <1>5. ASSUME NEW j \in Keys, Recorded(j) PROVE Recorded(j)'
    <2>1. CASE j = cur[w]
      BY <1>4, <2>1 DEF Recorded, Sent
    <2>2. CASE j # cur[w]
      BY <1>3, <1>4, <1>5, <2>2 DEF Recorded
    <2> QED  BY <2>1, <2>2
  <1>6. ASSUME NEW j \in Keys, NEW t \in Int, StampedSince(j, t)
        PROVE  StampedSince(j, t)'
    <2>1. ledger'[j].status = "sent" => ledger'[j].at >= t
      <3>1. CASE j = cur[w]
        BY <1>1, <1>4, <1>6, <3>1 DEF StampedSince, Sent
      <3>2. CASE j # cur[w]
        BY <1>4, <1>6, <3>2 DEF StampedSince
      <3> QED  BY <3>1, <3>2
    <2>2. \A v \in Workers : pc'[v] = "confirming" /\ cur'[v] = j => now'[v] >= t
      BY <1>1, <1>3, <1>6 DEF StampedSince
    <2> QED  BY <2>1, <2>2 DEF StampedSince
  <1>7. \A j \in Keys : seen'[j] => seen[j] /\ problem'[j] # "clear"
    BY <1>1 DEF EpisodeInv, SeenIsListed
  <1> QED
    BY <1>1, <1>3, <1>5, <1>6, <1>7, EpisodeKept DEF DispatchInv

LEMMA ReleaseEpisode ==
    ASSUME NoLoss, DispatchInv, TypeOK', EpisodeInv,
           NEW w \in Workers, ReleaseClaim(w)
    PROVE  EpisodeInv'
  <1>1. /\ ledger' = [ledger EXCEPT ![cur[w]] = Absent]
        /\ cur' = [cur EXCEPT ![w] = NoKey]
        /\ pc' = [pc EXCEPT ![w] = "claiming"]
        /\ pc[w] = "releasing"
        /\ UNCHANGED <<problem, now, raw, seen>>
    BY LoadsLedger, OnlyRefused DEF ReleaseClaim, Release, NextAlert, Goto
  <1>2. /\ pc \in [Workers -> Phases] /\ cur \in [Workers -> Keys \cup {NoKey}]
        /\ ledger \in PastStore
    BY DEF DispatchInv, TypeOK
  <1>3. \A v \in Workers :
           /\ pc'[v] = "confirming" <=> pc[v] = "confirming"
           /\ pc[v] = "confirming" => cur'[v] = cur[v]
           /\ pc'[v] \in {"fetched", "reconciling"} => pc'[v] = pc[v]
    BY <1>1, <1>2
  <1>4. ledger[cur[w]].status = "pending"
    BY <1>1, HeldClaim DEF Owns, Owning
  <1>5. \A j \in Keys : /\ ledger[j].status = "sent" => ledger'[j] = ledger[j]
                        /\ ledger'[j].status = "sent" => ledger'[j] = ledger[j]
    BY <1>1, <1>2, <1>4 DEF Absent, PastStore
  <1>6. \A j \in Keys : seen[j] /\ Recorded(j) => Recorded(j)'
    BY <1>3, <1>5 DEF Recorded
  <1>7. \A j \in Keys, t \in Int : StampedSince(j, t) => StampedSince(j, t)'
    BY <1>1, <1>3, <1>5 DEF StampedSince
  <1>8. \A j \in Keys : seen'[j] => seen[j] /\ problem'[j] # "clear"
    BY <1>1 DEF EpisodeInv, SeenIsListed
  <1> QED
    BY <1>1, <1>3, <1>6, <1>7, <1>8, EpisodeKept DEF DispatchInv

(* The steps that change no record and show the room nothing.              *)
LEMMA PlainEpisode ==
    ASSUME Hypotheses, DispatchInv, TypeOK', EpisodeInv,
           \/ \E k \in Keys : Change(k)
           \/ \E w \in Workers : \/ PublishFails(w) \/ EndCycle(w) \/ Restart(w)
                                 \/ \E k \in Keys : PrintAlert(w, k)
           \/ UNCHANGED vars
    PROVE  EpisodeInv'
  <1>1. /\ pc \in [Workers -> Phases] /\ cur \in [Workers -> Keys \cup {NoKey}]
        /\ seen \in [Keys -> BOOLEAN] /\ now \in [Workers -> Past]
        /\ raw \in [Workers -> SUBSET Keys] /\ problem \in [Keys -> Conditions]
    BY DEF DispatchInv, TypeOK
  <1>2. ASSUME ledger' = ledger,
               \A k \in Keys : seen'[k] => seen[k] /\ problem'[k] # "clear",
               \A v \in Workers :
                  /\ pc'[v] = "confirming" <=> pc[v] = "confirming"
                  /\ pc[v] = "confirming" => cur'[v] = cur[v] /\ now'[v] = now[v]
                  /\ pc'[v] \in {"fetched", "reconciling"} =>
                       pc'[v] = pc[v] /\ now'[v] = now[v] /\ raw'[v] = raw[v]
        PROVE  EpisodeInv'
    <2>1. \A k \in Keys : seen[k] /\ Recorded(k) => Recorded(k)'
      BY <1>2 DEF Recorded
    <2>2. \A k \in Keys, t \in Int : StampedSince(k, t) => StampedSince(k, t)'
      BY <1>2 DEF StampedSince
    <2> QED  BY <1>2, <2>1, <2>2, EpisodeKept DEF DispatchInv
  <1>3. ASSUME NEW k \in Keys, Change(k) PROVE EpisodeInv'
    <2>1. \A j \in Keys : seen'[j] => seen[j] /\ problem'[j] # "clear"
      BY <1>1, <1>3
      DEF Change, EpisodeInv, SeenIsListed, Hypotheses, ChatEpisodes
    <2> QED  BY <1>2, <1>3, <2>1 DEF Change
  <1>4. \A k \in Keys : seen[k] => problem[k] # "clear"
    BY DEF EpisodeInv, SeenIsListed
  <1>5. ASSUME NEW w \in Workers, NEW k \in Keys, PrintAlert(w, k) PROVE EpisodeInv'
    <2>1. \A j \in Keys : seen'[j] => seen[j]
      BY <1>1, <1>5 DEF PrintAlert, Carried, Hypotheses, ChatEpisodes
    <2>2. UNCHANGED <<ledger, problem, cur, now, raw>>
      BY <1>5 DEF PrintAlert
    <2>3. \A v \in Workers : /\ pc'[v] = "confirming" <=> pc[v] = "confirming"
                             /\ pc'[v] \in {"fetched", "reconciling"} => pc'[v] = pc[v]
      BY <1>1, <1>5 DEF PrintAlert, Goto
    <2> QED  BY <1>2, <1>4, <2>1, <2>2, <2>3
  <1>6. ASSUME NEW w \in Workers, PublishFails(w) PROVE EpisodeInv'
    <2>1. UNCHANGED <<ledger, problem, cur, now, raw, seen>>
      BY <1>6, OnlyRefused DEF PublishFails, Hypotheses
    <2>2. \A v \in Workers : /\ pc'[v] = "confirming" <=> pc[v] = "confirming"
                             /\ pc'[v] \in {"fetched", "reconciling"} => pc'[v] = pc[v]
      BY <1>1, <1>6 DEF PublishFails, Goto
    <2> QED  BY <1>2, <1>4, <2>1, <2>2
  <1>7. ASSUME NEW w \in Workers, EndCycle(w) \/ Restart(w) PROVE EpisodeInv'
    <2>1. UNCHANGED <<ledger, problem, seen>>
      BY <1>7 DEF EndCycle, Restart
    <2>2. /\ pc[w] \in {"claiming", "down"} /\ pc'[w] = "idle"
          /\ \A v \in Workers \ {w} : /\ pc'[v] = pc[v] /\ cur'[v] = cur[v]
                                      /\ now'[v] = now[v] /\ raw'[v] = raw[v]
      BY <1>1, <1>7 DEF EndCycle, Restart, Forget, Goto
    <2> QED  BY <1>2, <1>4, <2>1, <2>2
  <1>8. ASSUME UNCHANGED vars PROVE EpisodeInv'
    BY <1>2, <1>4, <1>8 DEF vars
  <1> QED  BY <1>3, <1>5, <1>6, <1>7, <1>8

LEMMA EpisodeInvStep ==
    ASSUME Hypotheses, DispatchInv, DispatchInv', EpisodeInv, [Next]_vars
    PROVE  EpisodeInv'
  <1>1. TypeOK /\ TypeOK' /\ NoLoss /\ ChatEpisodes
    BY DEF DispatchInv, Hypotheses
  <1>2. ASSUME NEW w \in Workers, Step(w) PROVE EpisodeInv'
    BY <1>1, <1>2, FetchEpisode, ReadClockEpisode, ReconcileEpisode, ClaimEpisode,
       PlainEpisode, PostEpisode, ConfirmEpisode, ReleaseEpisode
    DEF Step
  <1>3. \A w \in Workers : ~ Crash(w)
    BY <1>1, OnlyRefused DEF Crash
  <1> QED  BY <1>1, <1>2, <1>3, TickEpisode, PlainEpisode DEF Next

-----------------------------------------------------------------------------
(* The chat carries a problem once while the monitors keep reporting it,   *)
(* through the filter's changes of mind, refused messages, other workers   *)
(* and the retirement of records.                                          *)
THEOREM ToldOncePerEpisode ==
    ASSUME Hypotheses
    PROVE  Spec => []OncePerEpisode
  <1>1. ShortCycles /\ ReadableLedger
    BY OnlyRefused DEF Hypotheses
  <1>2. Spec => []DispatchInv
    BY <1>1, DispatchInvariant
  <1>3. DispatchInv /\ DispatchInv' /\ EpisodeInv /\ [Next]_vars => EpisodeInv'
    BY EpisodeInvStep
  <1>4. DispatchInv /\ EpisodeInv => OncePerEpisode
    <2> SUFFICES ASSUME DispatchInv, EpisodeInv, NEW w \in Workers,
                        pc[w] = "posting", seen[cur[w]]
                 PROVE  FALSE
      BY DEF OncePerEpisode, Hypotheses, ChatEpisodes
    <2>1. Owns(w) /\ cur[w] \in Keys /\ ledger[cur[w]].status = "pending"
      BY HeldClaim DEF Owns, Owning
    <2>2. PICK v \in Workers : pc[v] = "confirming" /\ cur[v] = cur[w]
      BY <2>1 DEF EpisodeInv, SeenIsRecorded, Recorded
    <2> QED  BY <2>1, <2>2 DEF DispatchInv, OneOwner, Owns, Owning
  <1> QED  BY <1>2, <1>3, <1>4, EpisodeInvInit, PTL DEF Spec

-----------------------------------------------------------------------------
(* The lease of a problem, told from its owner and its record.             *)

Unheld(k) == \A w \in Workers : ~ Holds(w, k)

LEMMA LeaseIsFunction ==
    /\ Lease = [k \in Keys |-> Lease[k]]
    /\ Lease' = [k \in Keys |-> Lease'[k]]
  BY DEF Lease

LEMMA LeaseHeld ==
    ASSUME OneOwner, NEW w \in Workers, NEW k \in Keys, Holds(w, k)
    PROVE  Lease[k] = w
  <1>1. Lease[k] = CHOOSE v \in Workers : Holds(v, k)
    BY DEF Lease
  <1>2. \A v \in Workers : Holds(v, k) => v = w
    BY DEF OneOwner, Holds
  <1> QED  BY <1>1, <1>2

LEMMA LeaseHeldAfter ==
    ASSUME OneOwner', NEW w \in Workers, NEW k \in Keys, Holds(w, k)'
    PROVE  Lease'[k] = w
  <1>1. Lease'[k] = CHOOSE v \in Workers : Holds(v, k)'
    BY DEF Lease
  <1>2. \A v \in Workers : Holds(v, k)' => v = w
    BY DEF OneOwner, Holds
  <1> QED  BY <1>1, <1>2

LEMMA LeaseUnheld ==
    ASSUME NEW k \in Keys, Unheld(k)
    PROVE  Lease[k] = ByRecord(ledger[k].status)
  BY DEF Lease, Unheld

LEMMA LeaseUnheldAfter ==
    ASSUME NEW k \in Keys, Unheld(k)'
    PROVE  Lease'[k] = ByRecord(ledger'[k].status)
  BY DEF Lease, Unheld

(* The lease of a key changes only with its holder or its record.          *)
LEMMA LeaseKept ==
    ASSUME OneOwner, OneOwner', NEW k \in Keys,
           \A w \in Workers : Holds(w, k)' <=> Holds(w, k),
           ledger'[k].status = ledger[k].status
    PROVE  Lease'[k] = Lease[k]
  <1>1. CASE Unheld(k)
    <2>1. Unheld(k)'
      BY <1>1 DEF Unheld
    <2> QED  BY <1>1, <2>1, LeaseUnheld, LeaseUnheldAfter
  <1>2. ASSUME NEW w \in Workers, Holds(w, k) PROVE Lease'[k] = Lease[k]
    BY <1>2, LeaseHeld, LeaseHeldAfter
  <1> QED  BY <1>1, <1>2 DEF Unheld

(* A step that disturbs no record's status and no holder.                  *)
LEMMA LeaseStutters ==
    ASSUME OneOwner, OneOwner', told' = told,
           \A k \in Keys : ledger'[k].status = ledger[k].status,
           \A w \in Workers : /\ Owns(w)' <=> Owns(w)
                              /\ Owns(w) => cur'[w] = cur[w]
    PROVE  UNCHANGED Abstract!vars
  <1>1. \A k \in Keys, w \in Workers : Holds(w, k)' <=> Holds(w, k)
    BY DEF Holds
  <1>2. \A k \in Keys : Lease'[k] = Lease[k]
    BY <1>1, LeaseKept
  <1> QED  BY <1>2, LeaseIsFunction DEF Abstract!vars

(* Who is about to act on a claim holds a pending record, and the room     *)
(* knows of the problem only once it is confirming.                        *)
LEMMA HolderToldOnlyConfirming ==
    ASSUME DispatchInv, NEW w \in Workers, Owns(w)
    PROVE  /\ Holds(w, cur[w]) /\ cur[w] \in Keys
           /\ ledger[cur[w]].status = "pending"
           /\ told[cur[w]] <=> pc[w] = "confirming"
  <1>1. cur[w] \in Keys /\ ledger[cur[w]].status = "pending"
    BY HeldClaim
  <1>2. ASSUME told[cur[w]] PROVE pc[w] = "confirming"
    <2>1. PICK v \in Workers : pc[v] = "confirming" /\ cur[v] = cur[w]
      BY <1>1, <1>2 DEF DispatchInv, ToldIsRecorded
    <2> QED  BY <2>1 DEF DispatchInv, OneOwner, Owns, Owning
  <1> QED  BY <1>1, <1>2 DEF DispatchInv, ConfirmsTold, Holds

-----------------------------------------------------------------------------
(* Each step of the cycle maps to a step of the lease, or to none.         *)

LEMMA InitMaps == Init => Abstract!Init
  <1> SUFFICES ASSUME Init PROVE Abstract!Init
    OBVIOUS
  <1>1. \A k \in Keys : Unheld(k) /\ ledger[k].status = "absent"
    BY DEF Init, Unheld, Holds, Owns, Owning, Empty, Absent
  <1>2. \A k \in Keys : Lease[k] = Free
    BY <1>1, LeaseUnheld DEF ByRecord
  <1> QED  BY <1>2, LeaseIsFunction DEF Init, Abstract!Init

LEMMA ReconcileMaps ==
    ASSUME DispatchInv, DispatchInv', ShortCycles, ReadableLedger,
           NEW w \in Workers, ReconcileActive(w)
    PROVE  Abstract!Reclaim
  <1> DEFINE Gone == {k \in Keys : /\ Unheld(k)
                                   /\ ledger[k].status # "absent"
                                   /\ ledger'[k].status = "absent"}
  <1>1. /\ ledger' = Reconcile(ledger, raw[w], now[w])
        /\ told' = [k \in Keys |->
                      told[k] /\ ~ Retired(ledger[k], k \in raw[w], now[w])]
        /\ pc' = [pc EXCEPT ![w] = "claiming"]
        /\ pc[w] = "reconciling"
        /\ cur' = cur
    BY LoadsLedger DEF ReconcileActive, Goto
  <1>2. now[w] \in Past /\ told \in [Keys -> BOOLEAN]
    BY DEF DispatchInv, TypeOK
  <1>3. \A k \in Keys, v \in Workers : Holds(v, k)' <=> Holds(v, k)
    BY <1>1 DEF Holds, Owns, Owning, DispatchInv, TypeOK
  <1>4. \A k \in Keys : \/ ledger'[k] = ledger[k]
                        \/ ledger'[k].status = "absent"
    BY <1>1 DEF Reconcile, Absent
  <1>5. ASSUME NEW k \in Keys, ~ Unheld(k)
        PROVE  ledger'[k] = ledger[k] /\ ledger[k].status = "pending"
    <2>1. PICK v \in Workers : Holds(v, k)
      BY <1>5 DEF Unheld
    <2> QED  BY <1>1, <1>2, <2>1, PassSparesHeld, HeldClaim DEF Holds
  <1>6. ASSUME NEW k \in Keys
        PROVE  Lease'[k] = IF k \in Gone THEN Free ELSE Lease[k]
    <2>1. CASE k \in Gone
      <3>1. Unheld(k)'
        BY <2>1, <1>3 DEF Unheld
      <3> QED  BY <2>1, <3>1, LeaseUnheldAfter DEF ByRecord
    <2>2. CASE k \notin Gone
      <3>1. ledger'[k].status = ledger[k].status
        BY <2>2, <1>4, <1>5
      <3> QED  BY <2>2, <3>1, <1>3, LeaseKept DEF DispatchInv
    <2> QED  BY <2>1, <2>2
  <1>7. \A k \in Gone : Lease[k] \in {Orphan, Done}
    <2> SUFFICES ASSUME NEW k \in Gone PROVE Lease[k] \in {Orphan, Done}
      OBVIOUS
    <2>1. ledger[k].status \in {"pending", "sent"}
      BY DEF DispatchInv, TypeOK, PastStore
    <2> QED  BY <2>1, LeaseUnheld DEF ByRecord
  <1>8. ASSUME NEW k \in Keys PROVE told'[k] = (told[k] /\ k \notin Gone)
    <2>1. CASE Retired(ledger[k], k \in raw[w], now[w])
      <3>1. k \in Gone
        BY <2>1, <1>1, <1>5 DEF Retired, Reconcile, Absent
      <3> QED  BY <2>1, <3>1, <1>1
    <2>2. CASE ~ Retired(ledger[k], k \in raw[w], now[w])
      <3>1. k \in Gone => ledger[k].status = "pending"
        BY <2>2, <1>1 DEF Reconcile, Expired
      <3>2. k \in Gone => ~ told[k]
        BY <3>1 DEF DispatchInv, ToldIsRecorded, Unheld, Holds, Owns, Owning
      <3> QED  BY <2>2, <3>2, <1>1, <1>2
    <2> QED  BY <2>1, <2>2
  <1>9. Lease' = Abstract!Lapsed(Gone, Lease)
    BY <1>6, LeaseIsFunction DEF Abstract!Lapsed
  <1>10. told' = [k \in Keys |-> told[k] /\ k \notin Gone]
    BY <1>1, <1>8
  <1>11. Gone \in SUBSET {k \in Keys : Lease[k] \in {Orphan, Done}}
    BY <1>7
  <1> QED  BY <1>9, <1>10, <1>11 DEF Abstract!Reclaim

LEMMA ClaimMaps ==
    ASSUME DispatchInv, DispatchInv', ShortCycles, ReadableLedger,
           NEW w \in Workers, NEW k \in Keys, Claim(w, k)
    PROVE  [Abstract!Next]_(Abstract!vars)
  <1>1. CASE ~ CanClaim(ledger, k, now[w])
    <2>1. UNCHANGED <<ledger, told, pc, cur>>
      BY <1>1, LoadsLedger DEF Claim
    <2> QED  BY <2>1, LeaseStutters DEF DispatchInv, Owns
  <1>2. CASE CanClaim(ledger, k, now[w])
    <2> DEFINE Gone == {j \in Keys \ {k} : /\ Unheld(j)
                                           /\ ledger[j].status # "absent"
                                           /\ ledger'[j].status = "absent"}
    <2>1. /\ ledger' = [Prune(ledger, now[w]) EXCEPT ![k] = Pending(now[w])]
          /\ cur' = [cur EXCEPT ![w] = k]
          /\ pc' = [pc EXCEPT ![w] = "printing"]
          /\ pc[w] = "claiming"
          /\ told' = told
      BY <1>2, LoadsLedger DEF Claim, TryClaim, Goto
    <2>2. /\ pc \in [Workers -> Phases] /\ cur \in [Workers -> Keys \cup {NoKey}]
          /\ now[w] \in Past
      BY DEF DispatchInv, TypeOK
    <2>3. Holds(w, k)' /\ ~ Owns(w)
      BY <2>1, <2>2 DEF Holds, Owns, Owning
    <2>4. Unheld(k) /\ ledger[k].status \in {"absent", "pending"}
      <3>1. ASSUME NEW v \in Workers, Holds(v, k) PROVE FALSE
        <4>1. Prune(ledger, now[w])[k].status = "pending"
          BY <3>1, <2>2, PassSparesHeld, HeldClaim DEF Holds
        <4> QED  BY <4>1, <1>2 DEF CanClaim, Absent
      <3>2. ledger[k].status \in {"absent", "pending", "sent"}
        BY DEF DispatchInv, TypeOK, PastStore
      <3>3. ledger[k].status # "sent"
        BY <1>2 DEF CanClaim, Prune, Expired, Absent
      <3> QED  BY <3>1, <3>2, <3>3 DEF Unheld
    <2>5. Lease[k] \in {Free, Orphan}
      BY <2>4, LeaseUnheld DEF ByRecord
    <2>6. \A v \in Workers, j \in Keys \ {k} : Holds(v, j)' <=> Holds(v, j)
      BY <2>1, <2>2, <2>3 DEF Holds, Owns
    <2>7. \A j \in Keys \ {k} : \/ ledger'[j] = ledger[j]
                                \/ /\ ledger[j].status = "pending"
                                   /\ ledger'[j].status = "absent"
      BY <2>1 DEF Prune, Expired, Absent
    <2>8. ASSUME NEW j \in Keys \ {k}, ~ Unheld(j)
          PROVE  ledger'[j] = ledger[j]
      <3>1. PICK v \in Workers : Holds(v, j)
        BY <2>8 DEF Unheld
      <3> QED  BY <2>1, <2>2, <3>1, PassSparesHeld DEF Holds, Prune
    <2>9. ASSUME NEW j \in Keys \ {k}
          PROVE  Lease'[j] = IF j \in Gone THEN Free ELSE Lease[j]
      <3>1. CASE j \in Gone
        <4>1. Unheld(j)'
          BY <3>1, <2>6 DEF Unheld
        <4> QED  BY <3>1, <4>1, LeaseUnheldAfter DEF ByRecord
      <3>2. CASE j \notin Gone
        <4>1. ledger'[j].status = ledger[j].status
          BY <3>2, <2>7, <2>8
        <4> QED  BY <3>2, <4>1, <2>6, LeaseKept DEF DispatchInv
      <3> QED  BY <3>1, <3>2
    <2>10. Lease'[k] = w
      BY <2>3, LeaseHeldAfter DEF DispatchInv
    <2>11. Lease' = [Abstract!Lapsed(Gone, Lease) EXCEPT ![k] = w]
      BY <2>9, <2>10, LeaseIsFunction DEF Abstract!Lapsed
    <2>12. Gone \in SUBSET Abstract!Orphans
      <3> SUFFICES ASSUME NEW j \in Gone PROVE Lease[j] = Orphan
        BY DEF Abstract!Orphans
      <3>1. ledger[j].status = "pending"
        BY <2>7
      <3> QED  BY <3>1, LeaseUnheld DEF ByRecord
    <2>13. Abstract!Acquire(w, k)
      BY <2>1, <2>5, <2>11, <2>12 DEF Abstract!Acquire
    <2> QED  BY <2>13 DEF Abstract!Next
  <1> QED  BY <1>1, <1>2

LEMMA PostMaps ==
    ASSUME DispatchInv, DispatchInv', NEW w \in Workers, NEW k \in Keys,
           PostAlert(w, k)
    PROVE  Abstract!Tell(w, k)
  <1>1. /\ pc' = [pc EXCEPT ![w] = "confirming"]
        /\ told' = [told EXCEPT ![k] = TRUE]
        /\ pc[w] = "posting" /\ cur[w] = k
        /\ UNCHANGED <<ledger, cur>>
    BY DEF PostAlert, Goto
  <1>2. Owns(w) /\ Holds(w, k) /\ ~ told[k]
    BY <1>1, HolderToldOnlyConfirming DEF Owns, Owning
  <1>3. \A v \in Workers, j \in Keys : Holds(v, j)' <=> Holds(v, j)
    BY <1>1 DEF Holds, Owns, Owning, DispatchInv, TypeOK
  <1>4. \A j \in Keys : Lease'[j] = Lease[j]
    BY <1>1, <1>3, LeaseKept DEF DispatchInv
  <1>5. Lease[k] = w
    BY <1>2, LeaseHeld DEF DispatchInv
  <1> QED  BY <1>1, <1>2, <1>4, <1>5, LeaseIsFunction DEF Abstract!Tell

(* What leaving a claim does to the leases: that key's alone.              *)
LEMMA LetGo ==
    ASSUME DispatchInv, DispatchInv', NEW w \in Workers, NEW k \in Keys,
           Holds(w, k), ~ Owns(w)',
           \A v \in Workers \ {w} : (Owns(v)' <=> Owns(v)) /\ cur'[v] = cur[v],
           \A j \in Keys \ {k} : ledger'[j] = ledger[j]
    PROVE  /\ Lease[k] = w
           /\ Lease' = [Lease EXCEPT ![k] = ByRecord(ledger'[k].status)]
  <1>1. Lease[k] = w
    BY LeaseHeld DEF DispatchInv
  <1>2. Unheld(k)'
    <2> SUFFICES ASSUME NEW v \in Workers, Owns(v)', cur'[v] = k PROVE FALSE
      BY DEF Unheld, Holds
    <2> QED  BY DEF DispatchInv, OneOwner, Holds
  <1>3. ASSUME NEW j \in Keys \ {k} PROVE Lease'[j] = Lease[j]
    <2>1. \A v \in Workers : Holds(v, j)' <=> Holds(v, j)
      BY DEF Holds
    <2> QED  BY <2>1, LeaseKept DEF DispatchInv
  <1>4. Lease'[k] = ByRecord(ledger'[k].status)
    BY <1>2, LeaseUnheldAfter
  <1> QED  BY <1>1, <1>3, <1>4, LeaseIsFunction

LEMMA ConfirmMaps ==
    ASSUME DispatchInv, DispatchInv', ReadableLedger, NEW w \in Workers,
           ConfirmSent(w)
    PROVE  Abstract!Finish(w, cur[w]) /\ cur[w] \in Keys
  <1>1. /\ ledger' = [ledger EXCEPT ![cur[w]] = Sent(now[w])]
        /\ cur' = [cur EXCEPT ![w] = NoKey]
        /\ pc' = [pc EXCEPT ![w] = "claiming"]
        /\ pc[w] = "confirming"
        /\ told' = told
    BY LoadsLedger DEF ConfirmSent, Confirm, NextAlert, Goto
  <1>2. /\ pc \in [Workers -> Phases] /\ cur \in [Workers -> Keys \cup {NoKey}]
        /\ ledger \in PastStore
    BY DEF DispatchInv, TypeOK
  <1>3. Owns(w) /\ ~ Owns(w)'
    BY <1>1, <1>2 DEF Owns, Owning
  <1>4. told[cur[w]] /\ cur[w] \in Keys
    BY <1>1, <1>3, HolderToldOnlyConfirming
  <1>5. /\ \A v \in Workers \ {w} : (Owns(v)' <=> Owns(v)) /\ cur'[v] = cur[v]
        /\ \A j \in Keys \ {cur[w]} : ledger'[j] = ledger[j]
    BY <1>1, <1>2 DEF Owns, PastStore
  <1>6. ledger'[cur[w]].status = "sent"
    BY <1>1, <1>2, <1>4 DEF Sent, PastStore
  <1>7. Lease[cur[w]] = w /\ Lease' = [Lease EXCEPT ![cur[w]] = Done]
    BY <1>3, <1>4, <1>5, <1>6, LetGo DEF ByRecord, Holds
  <1> QED  BY <1>1, <1>4, <1>7 DEF Abstract!Finish

LEMMA ReleaseMaps ==
    ASSUME DispatchInv, DispatchInv', ReadableLedger, NEW w \in Workers,
           ReleaseClaim(w)
    PROVE  Abstract!Abandon(w, cur[w]) /\ cur[w] \in Keys
  <1>1. /\ ledger' = [ledger EXCEPT ![cur[w]] = Absent]
        /\ cur' = [cur EXCEPT ![w] = NoKey]
        /\ pc' = [pc EXCEPT ![w] = "claiming"]
        /\ pc[w] = "releasing"
        /\ told' = told
    BY LoadsLedger DEF ReleaseClaim, Release, NextAlert, Goto
  <1>2. /\ pc \in [Workers -> Phases] /\ cur \in [Workers -> Keys \cup {NoKey}]
        /\ ledger \in PastStore
    BY DEF DispatchInv, TypeOK
  <1>3. Owns(w) /\ ~ Owns(w)'
    BY <1>1, <1>2 DEF Owns, Owning
  <1>4. ~ told[cur[w]] /\ cur[w] \in Keys
    BY <1>1, <1>3, HolderToldOnlyConfirming
  <1>5. /\ \A v \in Workers \ {w} : (Owns(v)' <=> Owns(v)) /\ cur'[v] = cur[v]
        /\ \A j \in Keys \ {cur[w]} : ledger'[j] = ledger[j]
    BY <1>1, <1>2 DEF Owns, PastStore
  <1>6. ledger'[cur[w]].status = "absent"
    BY <1>1, <1>2, <1>4 DEF Absent, PastStore
  <1>7. Lease[cur[w]] = w /\ Lease' = [Lease EXCEPT ![cur[w]] = Free]
    BY <1>3, <1>4, <1>5, <1>6, LetGo DEF ByRecord, Holds
  <1> QED  BY <1>1, <1>4, <1>7 DEF Abstract!Abandon

LEMMA CrashMaps ==
    ASSUME DispatchInv, DispatchInv', NEW w \in Workers, Crash(w)
    PROVE  [Abstract!Next]_(Abstract!vars)
  <1>1. /\ cur' = [cur EXCEPT ![w] = NoKey]
        /\ pc' = [pc EXCEPT ![w] = "down"]
        /\ told' = IF pc[w] = "confirming" THEN [told EXCEPT ![cur[w]] = FALSE]
                                           ELSE told
        /\ ledger' = ledger
    BY DEF Crash, Forget, Goto
  <1>2. /\ pc \in [Workers -> Phases] /\ cur \in [Workers -> Keys \cup {NoKey}]
        /\ told \in [Keys -> BOOLEAN]
    BY DEF DispatchInv, TypeOK
  <1>3. /\ ~ Owns(w)'
        /\ \A v \in Workers \ {w} : (Owns(v)' <=> Owns(v)) /\ cur'[v] = cur[v]
    BY <1>1, <1>2 DEF Owns, Owning
  <1>4. CASE Owns(w)
    <2>1. /\ cur[w] \in Keys
          /\ ledger[cur[w]].status = "pending"
          /\ told[cur[w]] <=> pc[w] = "confirming"
      BY <1>4, HolderToldOnlyConfirming
    <2>2. Lease[cur[w]] = w /\ Lease' = [Lease EXCEPT ![cur[w]] = Orphan]
      BY <1>1, <1>3, <1>4, <2>1, LetGo DEF ByRecord, Holds
    <2>3. told' = [told EXCEPT ![cur[w]] = FALSE]
      BY <1>1, <1>2, <2>1
    <2>4. Abstract!Die(w, cur[w])
      BY <2>2, <2>3 DEF Abstract!Die
    <2> QED  BY <2>1, <2>4 DEF Abstract!Next
  <1>5. CASE ~ Owns(w)
    <2>1. told' = told
      BY <1>1, <1>5 DEF Owns, Owning
    <2> QED  BY <1>1, <1>3, <1>5, <2>1, LeaseStutters DEF DispatchInv
  <1> QED  BY <1>4, <1>5

(* The steps that touch no claim, and those a holder takes within its own. *)
LEMMA OtherStepsMap ==
    ASSUME DispatchInv, DispatchInv',
           \/ \E k \in Keys : Change(k)
           \/ Tick
           \/ \E w \in Workers : \/ Fetch(w) \/ ReadClock(w) \/ EndCycle(w)
                                 \/ Restart(w) \/ PublishFails(w)
                                 \/ \E k \in Keys : PrintAlert(w, k)
           \/ UNCHANGED vars
    PROVE  UNCHANGED Abstract!vars
  <1>1. pc \in [Workers -> Phases] /\ told \in [Keys -> BOOLEAN]
    BY DEF DispatchInv, TypeOK
  <1>2. ASSUME UNCHANGED <<ledger, told, pc, cur>> PROVE UNCHANGED Abstract!vars
    BY <1>2, LeaseStutters DEF DispatchInv, Owns
  <1>3. ASSUME Tick PROVE UNCHANGED Abstract!vars
    <2>1. UNCHANGED <<told, pc, cur>>
      BY <1>3 DEF Tick
    <2>2. ASSUME NEW k \in Keys PROVE ledger'[k].status = ledger[k].status
      <3>1. ledger[k] \in [status : {"absent", "pending", "sent"}, at : Past]
        BY DEF DispatchInv, TypeOK, PastStore
      <3> QED  BY <3>1, <1>3 DEF Tick, Aged
    <2> QED  BY <2>1, <2>2, LeaseStutters DEF DispatchInv, Owns
  <1>4. ASSUME NEW w \in Workers, Fetch(w) \/ ReadClock(w) \/ EndCycle(w) \/ Restart(w)
        PROVE  UNCHANGED Abstract!vars
    <2>1. /\ ~ Owns(w) /\ ~ Owns(w)'
          /\ \A v \in Workers \ {w} : (Owns(v)' <=> Owns(v)) /\ cur'[v] = cur[v]
          /\ UNCHANGED <<ledger, told>>
      BY <1>1, <1>4
      DEF Fetch, ReadClock, EndCycle, Restart, Forget, Goto, Owns, Owning,
          DispatchInv, TypeOK
    <2> QED  BY <2>1, LeaseStutters DEF DispatchInv
  <1>5. ASSUME NEW w \in Workers, NEW k \in Keys, PrintAlert(w, k)
        PROVE  UNCHANGED Abstract!vars
    <2>1. /\ \A v \in Workers : (Owns(v)' <=> Owns(v))
          /\ UNCHANGED <<ledger, told, cur>>
      BY <1>1, <1>5 DEF PrintAlert, Goto, Owns, Owning
    <2> QED  BY <2>1, LeaseStutters DEF DispatchInv
  <1>6. ASSUME NEW w \in Workers, PublishFails(w) PROVE UNCHANGED Abstract!vars
    <2>1. /\ \A v \in Workers : Owns(v)' <=> Owns(v)
          /\ UNCHANGED <<ledger, cur>>
      BY <1>1, <1>6 DEF PublishFails, Goto, Owns, Owning
    <2>2. told' = told
      <3>1. /\ Owns(w) /\ pc[w] # "confirming"
            /\ told' = told \/ told' = [told EXCEPT ![cur[w]] = FALSE]
        BY <1>6 DEF PublishFails, Owns, Owning
      <3>2. ~ told[cur[w]]
        BY <3>1, HolderToldOnlyConfirming
      <3> QED  BY <1>1, <3>1, <3>2
    <2> QED  BY <2>1, <2>2, LeaseStutters DEF DispatchInv
  <1> QED
    BY <1>2, <1>3, <1>4, <1>5, <1>6 DEF Change, vars

LEMMA StepMaps ==
    ASSUME DispatchInv, DispatchInv', ShortCycles, ReadableLedger, [Next]_vars
    PROVE  [Abstract!Next]_(Abstract!vars)
  <1>1. ASSUME NEW w \in Workers, ReconcileActive(w) PROVE Abstract!Next
    BY <1>1, ReconcileMaps DEF Abstract!Next
  <1>2. ASSUME NEW w \in Workers, NEW k \in Keys, Claim(w, k)
        PROVE  [Abstract!Next]_(Abstract!vars)
    BY <1>2, ClaimMaps
  <1>3. ASSUME NEW w \in Workers, NEW k \in Keys, PostAlert(w, k)
        PROVE  Abstract!Next
    BY <1>3, PostMaps DEF Abstract!Next
  <1>4. ASSUME NEW w \in Workers, ConfirmSent(w) PROVE Abstract!Next
    BY <1>4, ConfirmMaps DEF Abstract!Next
  <1>5. ASSUME NEW w \in Workers, ReleaseClaim(w) PROVE Abstract!Next
    BY <1>5, ReleaseMaps DEF Abstract!Next
  <1>6. ASSUME NEW w \in Workers, Crash(w)
        PROVE  [Abstract!Next]_(Abstract!vars)
    BY <1>6, CrashMaps
  <1> QED
    BY <1>1, <1>2, <1>3, <1>4, <1>5, <1>6, OtherStepsMap DEF Next, Step

(* The poll cycle over the ledger file keeps what the lease promises: one  *)
(* holder per problem, one message under a lease, done only once told.     *)
THEOREM CycleImplementsLease ==
    ASSUME ShortCycles, ReadableLedger
    PROVE  Spec => ImplementsLease
  <1>1. DispatchInv /\ DispatchInv' /\ [Next]_vars => [Abstract!Next]_(Abstract!vars)
    BY StepMaps
  <1> QED
    BY <1>1, InitMaps, DispatchInvariant, PTL
    DEF Spec, ImplementsLease, Abstract!Spec
=============================================================================

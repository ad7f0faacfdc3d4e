-------------------------- MODULE WorkerLoopProofs --------------------------
(***************************************************************************)
(* Proofs about loops that share a guard and fetch over pools of threads,  *)
(* for any number of loops, monitors and threads and any limits.           *)
(***************************************************************************)
EXTENDS WorkerLoop, TLAPS

LEMMA MaxOfTwo ==
    ASSUME NEW a \in Nat, NEW b \in Nat
    PROVE  Max({a, b}) \in Nat /\ Max({a, b}) >= a /\ Max({a, b}) >= b
  <1>1. \E x \in {a, b} : \A y \in {a, b} : x >= y
    <2>1. CASE a >= b
      BY <2>1
    <2>2. CASE b >= a
      BY <2>2
    <2> QED  BY <2>1, <2>2
  <1>2. Max({a, b}) \in {a, b} /\ \A y \in {a, b} : Max({a, b}) >= y
    BY <1>1 DEF Max
  <1> QED  BY <1>2

-----------------------------------------------------------------------------
(* The invariant: besides the properties, that a loop still running has a  *)
(* round left, that only monitors asked for are fetched, and that no fetch *)
(* hands an exception to its caller.                                       *)

RoundsLeft ==
    \A c \in Limited : pc[c] # "returned" => rounds[c] < Max({1, MaxCycles[c]})

TasksAsked ==
    \A c \in Callers, s \in Servers :
        task[c][s] \in {"queued", "asking"} => s \in asked[c]

NoneRaised == \A c \in Callers, s \in Servers : chunk[c][s] # "raised"

LoopInv ==
    /\ TypeOK
    /\ RoundsLeft
    /\ OneCycleAtATime
    /\ GuardIsTrue
    /\ TasksAsked
    /\ NoneRaised
    /\ FetchIsWhole
    /\ FailsOnItsOwn

LEMMA LimitIsNat == \A c \in Limited : c \in Callers /\ MaxCycles[c] \in Nat
  BY LoopAssumption DEF Limited

LEMMA LoopInvInit == Init => LoopInv
  <1> SUFFICES ASSUME Init PROVE LoopInv
    OBVIOUS
  <1>1. \A c \in Limited : Max({1, MaxCycles[c]}) \in Nat /\ 0 < Max({1, MaxCycles[c]})
    BY LimitIsNat, MaxOfTwo
  <1>2. TypeOK /\ RoundsLeft
    <2>1. FetchTypeOK
      BY DEF Init, FetchInit, FetchTypeOK
    <2>2. \A c \in Limited : rounds[c] = 0
      BY LimitIsNat DEF Init
    <2>3. RoundsLeft /\ \A c \in Limited : rounds[c] <= Max({1, MaxCycles[c]})
      BY <1>1, <2>2 DEF RoundsLeft
    <2> QED  BY <2>1, <2>3 DEF Init, TypeOK, Places
  <1>3. OneCycleAtATime /\ GuardIsTrue
    BY DEF Init, OneCycleAtATime, GuardIsTrue, Inside
  <1>4. TasksAsked /\ NoneRaised /\ FetchIsWhole /\ FailsOnItsOwn
    BY DEF Init, FetchInit, TasksAsked, NoneRaised, FetchIsWhole, FailsOnItsOwn
  <1> QED  BY <1>2, <1>3, <1>4 DEF LoopInv

-----------------------------------------------------------------------------
(* Types and rounds.                                                       *)

LEMMA EndRoundType ==
    ASSUME TypeOK, RoundsLeft, NEW c \in Callers, NEW sleep \in Places,
           pc[c] # "returned", EndRound(c, sleep)
    PROVE  /\ pc' \in [Callers -> Places]
           /\ rounds' \in [Callers -> Nat]
           /\ code' \in [Callers -> {"none", "0", "1"}]
           /\ \A d \in Limited : rounds'[d] <= Max({1, MaxCycles[d]})
           /\ RoundsLeft'
  <1>1. /\ rounds' = IF c \in Limited THEN [rounds EXCEPT ![c] = @ + 1] ELSE rounds
        /\ \/ LastRound(c) /\ pc' = [pc EXCEPT ![c] = "returned"]
                           /\ code' = [code EXCEPT ![c] = "0"]
           \/ ~ LastRound(c) /\ pc' = [pc EXCEPT ![c] = sleep] /\ code' = code
    BY DEF EndRound, Return, Goto
  <1>2. /\ pc \in [Callers -> Places] /\ rounds \in [Callers -> Nat]
        /\ code \in [Callers -> {"none", "0", "1"}]
        /\ \A d \in Limited : rounds[d] <= Max({1, MaxCycles[d]})
    BY DEF TypeOK
  <1>3. \A d \in Limited : /\ d \in Callers
                           /\ Max({1, MaxCycles[d]}) \in Nat
                           /\ Max({1, MaxCycles[d]}) >= MaxCycles[d]
                           /\ MaxCycles[d] \in Nat
    BY LimitIsNat, MaxOfTwo
  <1>4. pc' \in [Callers -> Places] /\ code' \in [Callers -> {"none", "0", "1"}]
    BY <1>1, <1>2 DEF Places
  <1>5. rounds' \in [Callers -> Nat]
    BY <1>1, <1>2
  <1>6. ASSUME NEW d \in Limited
        PROVE  /\ rounds'[d] <= Max({1, MaxCycles[d]})
               /\ pc'[d] # "returned" => rounds'[d] < Max({1, MaxCycles[d]})
    <2>1. CASE d = c
      <3>1. rounds'[d] = rounds[d] + 1 /\ rounds[d] \in Nat
        BY <1>1, <1>2, <1>3, <2>1
      <3>2. rounds[d] < Max({1, MaxCycles[d]})
        BY <2>1 DEF RoundsLeft
      <3>3. pc'[d] # "returned" => rounds[d] + 1 < MaxCycles[d]
        <4>1. MaxCycles[d] \in Nat /\ ~ (rounds[d] + 1 >= MaxCycles[d])
                 => rounds[d] + 1 < MaxCycles[d]
          BY <3>1
        <4>2. ~ LastRound(c) => rounds[d] + 1 < MaxCycles[d]
          BY <1>3, <2>1, <4>1 DEF LastRound
        <4> QED  BY <1>1, <1>2, <2>1, <4>2
      <3> QED  BY <1>3, <3>1, <3>2, <3>3
    <2>2. CASE d # c
      BY <1>1, <1>2, <1>3, <2>2 DEF RoundsLeft
    <2> QED  BY <2>1, <2>2
  <1> QED  BY <1>4, <1>5, <1>6 DEF RoundsLeft

LEMMA SubmitType ==
    ASSUME FetchTypeOK, NEW c \in Callers, NEW servers \in SUBSET Servers,
           Submit(c, servers)
    PROVE  FetchTypeOK'
  BY DEF FetchTypeOK, Submit

LEMMA WorkType ==
    ASSUME FetchTypeOK, NEW c \in Callers, NEW s \in Servers,
           StartFetch(c, s) \/ EndFetch(c, s)
    PROVE  FetchTypeOK'
  <1> USE DEF FetchTypeOK
  <1>1. CASE StartFetch(c, s)
    BY <1>1 DEF StartFetch
  <1>2. CASE EndFetch(c, s)
    <2>1. PICK outcome \in Outcomes :
             chunk' = [chunk EXCEPT ![c][s] = Returned(outcome)]
      BY <1>2 DEF EndFetch
    <2>2. Returned(outcome) \in {"none", "alerts", "empty", "raised"}
      BY DEF Returned
    <2>3. chunk' \in [Callers -> [Servers -> {"none", "alerts", "empty", "raised"}]]
      BY <2>1, <2>2
    <2> QED  BY <1>2, <2>3 DEF EndFetch
  <1> QED  BY <1>1, <1>2

LEMMA TypeStep ==
    ASSUME TypeOK, RoundsLeft, [Next]_vars
    PROVE  TypeOK' /\ RoundsLeft'
  <1> USE DEF TypeOK, Places, Inside
  <1>1. ASSUME NEW c \in Callers, Skip(c) \/ (Dispatch(c) /\ EndRound(c, "sleeping"))
        PROVE  TypeOK' /\ RoundsLeft'
    <2>1. /\ pc[c] # "returned"
          /\ EndRound(c, "waiting") \/ EndRound(c, "sleeping")
          /\ UNCHANGED <<asked, task, chunk, got>>
          /\ busy' \in BOOLEAN /\ broken' \in [Callers -> BOOLEAN]
      BY <1>1 DEF Skip, Dispatch, Fail, Break, fetchVars
    <2> QED  BY <2>1, EndRoundType DEF FetchTypeOK
  <1>2. ASSUME NEW c \in Callers,
               \/ Boot(c) \/ TryEnter(c) \/ Retry(c) \/ Wake(c)
               \/ ListEnabled(c) \/ EndFetchAll(c)
               \/ (Dispatch(c) /\ Fail(c) /\ Break(c))
        PROVE  TypeOK' /\ RoundsLeft'
    <2>1. FetchTypeOK'
      BY <1>2, SubmitType
      DEF Boot, TryEnter, Retry, Wake, ListEnabled, EndFetchAll, Dispatch,
          FetchTypeOK, fetchVars
    <2>2. got' \in [Callers -> SUBSET Servers]
      BY <1>2
      DEF Boot, TryEnter, Retry, Wake, ListEnabled, EndFetchAll, Dispatch,
          Fail, Collected, FetchTypeOK
    <2>3. /\ busy' \in BOOLEAN /\ broken' \in [Callers -> BOOLEAN]
          /\ pc' \in [Callers -> Places]
          /\ code' \in [Callers -> {"none", "0", "1"}]
      BY <1>2
      DEF Boot, TryEnter, Retry, Wake, ListEnabled, EndFetchAll, Dispatch,
          Fail, Break, Return, Goto
    <2>4. /\ rounds' = rounds
          /\ pc[c] # "returned"
          /\ \A d \in Callers \ {c} : pc'[d] = pc[d]
      BY <1>2
      DEF Boot, TryEnter, Retry, Wake, ListEnabled, EndFetchAll, Dispatch,
          Fail, Return, Goto
    <2>5. RoundsLeft'
      BY <2>4, LimitIsNat DEF RoundsLeft
    <2> QED  BY <2>1, <2>2, <2>3, <2>4, <2>5
  <1>3. ASSUME NEW c \in Callers, NEW s \in Servers, Work(c, s)
        PROVE  TypeOK' /\ RoundsLeft'
    BY <1>3, WorkType DEF Work, loopVars, RoundsLeft
  <1>4. ASSUME UNCHANGED vars PROVE TypeOK' /\ RoundsLeft'
    BY <1>4 DEF vars, RoundsLeft, FetchTypeOK
  <1> QED
    BY <1>1, <1>2, <1>3, <1>4 DEF Next, Run, Dispatch, Finished

-----------------------------------------------------------------------------
(* The guard.                                                              *)

In(c) == pc[c] \in Inside

LEMMA GuardStep ==
    ASSUME TypeOK, OneCycleAtATime, GuardIsTrue, [Next]_vars
    PROVE  OneCycleAtATime' /\ GuardIsTrue'
  <1>1. pc \in [Callers -> Places] /\ busy \in BOOLEAN
    BY DEF TypeOK
  <1>2. ASSUME NEW c \in Callers,
               \A d \in Callers \ {c} : pc'[d] = pc[d],
               \/ ~ busy /\ busy' /\ In(c)'
               \/ In(c) /\ ~ busy' /\ ~ In(c)'
               \/ busy' = busy /\ (In(c)' <=> In(c))
        PROVE  OneCycleAtATime' /\ GuardIsTrue'
    BY <1>2 DEF OneCycleAtATime, GuardIsTrue, In
  <1>3. ASSUME NEW c \in Callers,
               \/ Boot(c) \/ TryEnter(c) \/ Skip(c) \/ Retry(c)
               \/ ListEnabled(c) \/ EndFetchAll(c) \/ Wake(c)
        PROVE  OneCycleAtATime' /\ GuardIsTrue'
    <2>1. \A d \in Callers \ {c} : pc'[d] = pc[d]
      BY <1>1, <1>3
      DEF Boot, TryEnter, Skip, Retry, ListEnabled, EndFetchAll, Wake, EndRound,
          Fail, Return, Goto
    <2>2. \/ ~ busy /\ busy' /\ In(c)'
          \/ In(c) /\ ~ busy' /\ ~ In(c)'
          \/ busy' = busy /\ (In(c)' <=> In(c))
      BY <1>1, <1>3
      DEF Boot, TryEnter, Skip, Retry, ListEnabled, EndFetchAll, Wake, EndRound,
          Fail, Return, Goto, In, Inside
    <2> QED  BY <1>2, <2>1, <2>2
  <1>4. ASSUME NEW c \in Callers, Dispatch(c)
        PROVE  OneCycleAtATime' /\ GuardIsTrue'
    <2>1. \A d \in Callers \ {c} : pc'[d] = pc[d]
      BY <1>1, <1>4 DEF Dispatch, EndRound, Fail, Return, Goto
    <2>2. In(c) /\ busy
      BY <1>4 DEF Dispatch, In, Inside, GuardIsTrue
    <2>3. \/ In(c) /\ ~ busy' /\ ~ In(c)'
          \/ busy' = busy /\ (In(c)' <=> In(c))
      BY <1>1, <1>4, <2>2
      DEF Dispatch, EndRound, Fail, Return, Goto, In, Inside
    <2> QED  BY <1>2, <2>1, <2>3
  <1>5. ASSUME UNCHANGED <<pc, busy>> PROVE OneCycleAtATime' /\ GuardIsTrue'
    BY <1>5 DEF OneCycleAtATime, GuardIsTrue
  <1> QED
    BY <1>3, <1>4, <1>5 DEF Next, Run, Work, Finished, loopVars, vars

-----------------------------------------------------------------------------
(* The fetch.                                                              *)

LEMMA FetchStep ==
    ASSUME TypeOK, TasksAsked, NoneRaised, FetchIsWhole, [Next]_vars
    PROVE  TasksAsked' /\ NoneRaised' /\ FetchIsWhole'
  <1> USE DEF TypeOK, FetchTypeOK
  <1>1. ASSUME UNCHANGED fetchVars,
               \A d \in Callers : pc'[d] = "dispatching" =>
                                    pc[d] = "dispatching" /\ got'[d] = got[d]
        PROVE  TasksAsked' /\ NoneRaised' /\ FetchIsWhole'
    BY <1>1 DEF fetchVars, TasksAsked, NoneRaised, FetchIsWhole
  <1>2. ASSUME NEW c \in Callers,
               \/ Boot(c) \/ TryEnter(c) \/ Skip(c) \/ Retry(c) \/ Wake(c)
               \/ Dispatch(c)
        PROVE  TasksAsked' /\ NoneRaised' /\ FetchIsWhole'
    <2>1. \A d \in Callers : pc'[d] = "dispatching" =>
                               pc[d] = "dispatching" /\ got'[d] = got[d]
      BY <1>2
      DEF Boot, TryEnter, Skip, Retry, Wake, Dispatch, EndRound, Fail, Return, Goto
    <2> QED
      BY <1>1, <1>2, <2>1
      DEF Boot, TryEnter, Skip, Retry, Wake, Dispatch
  <1>3. ASSUME NEW c \in Callers, ListEnabled(c)
        PROVE  TasksAsked' /\ NoneRaised' /\ FetchIsWhole'
    <2>1. \A d \in Callers : pc'[d] = "dispatching" =>
                               d # c /\ pc[d] = "dispatching"
      BY <1>3 DEF ListEnabled, Fail, Return, Goto
    <2>2. got' = got
      BY <1>3 DEF ListEnabled, Fail
    <2>3. CASE UNCHANGED fetchVars
      BY <1>1, <2>1, <2>2, <2>3
    <2>4. CASE \E enabled \in SUBSET Servers : Submit(c, enabled)
      <3>1. TasksAsked'
        BY <2>4 DEF Submit, TasksAsked
      <3>2. NoneRaised'
        BY <2>4 DEF Submit, NoneRaised
      <3>3. FetchIsWhole'
        BY <2>1, <2>2, <2>4 DEF Submit, FetchIsWhole
      <3> QED  BY <3>1, <3>2, <3>3
    <2> QED  BY <1>3, <2>3, <2>4 DEF ListEnabled
  <1>4. ASSUME NEW c \in Callers, EndFetchAll(c)
        PROVE  TasksAsked' /\ NoneRaised' /\ FetchIsWhole'
    <2>1. UNCHANGED <<asked, task, chunk>> /\ pc[c] = "fetching" /\ Joined(c)
      BY <1>4 DEF EndFetchAll, fetchVars
    <2>2. TasksAsked' /\ NoneRaised'
      BY <2>1 DEF TasksAsked, NoneRaised
    <2>3. /\ pc' = [pc EXCEPT ![c] = "dispatching"]
          /\ got' = [got EXCEPT ![c] = Collected(c)]
      BY <1>4 DEF EndFetchAll, Raises, NoneRaised, Goto
    <2>4. \A s \in Servers : task[c][s] \notin {"queued", "asking"}
      BY <2>1 DEF Joined, TasksAsked
    <2>5. FetchIsWhole'
      BY <2>1, <2>3, <2>4 DEF FetchIsWhole, Collected
    <2> QED  BY <2>2, <2>5
  <1>5. ASSUME NEW c \in Callers, NEW s \in Servers, Work(c, s)
        PROVE  TasksAsked' /\ NoneRaised' /\ FetchIsWhole'
    <2>1. /\ task[c][s] \in {"queued", "asking"}
          /\ UNCHANGED <<asked, pc, got>>
          /\ \A d \in Callers, r \in Servers :
                d # c \/ r # s => task'[d][r] = task[d][r] /\ chunk'[d][r] = chunk[d][r]
      BY <1>5 DEF Work, StartFetch, EndFetch, loopVars
    <2>2. chunk'[c][s] # "raised"
      BY <1>5 DEF Work, StartFetch, EndFetch, Returned, NoneRaised
    <2>3. pc[c] # "dispatching"
      BY <2>1 DEF FetchIsWhole
    <2>4. TasksAsked'
      <3> SUFFICES ASSUME NEW d \in Callers, NEW r \in Servers,
                          task'[d][r] \in {"queued", "asking"}
                   PROVE  r \in asked[d]
        BY <2>1 DEF TasksAsked
      <3>1. task[d][r] \in {"queued", "asking"}
        BY <2>1
      <3> QED  BY <3>1 DEF TasksAsked
    <2>5. NoneRaised'
      <3> SUFFICES ASSUME NEW d \in Callers, NEW r \in Servers
                   PROVE  chunk'[d][r] # "raised"
        BY DEF NoneRaised
      <3> QED  BY <2>1, <2>2 DEF NoneRaised
    <2>6. FetchIsWhole'
      <3> SUFFICES ASSUME NEW d \in Callers, pc[d] = "dispatching"
                   PROVE  /\ got[d] = {r \in asked[d] : chunk'[d][r] = "alerts"}
                          /\ \A r \in Servers : task'[d][r] \notin {"queued", "asking"}
        BY <2>1 DEF FetchIsWhole
      <3>1. \A r \in Servers : task'[d][r] = task[d][r] /\ chunk'[d][r] = chunk[d][r]
        BY <2>1, <2>3
      <3>2. asked[d] \subseteq Servers
        OBVIOUS
      <3> QED  BY <3>1, <3>2 DEF FetchIsWhole
    <2> QED  BY <2>4, <2>5, <2>6
  <1>6. ASSUME UNCHANGED vars
        PROVE  TasksAsked' /\ NoneRaised' /\ FetchIsWhole'
    BY <1>6, <1>1 DEF vars, fetchVars
  <1> QED
    BY <1>2, <1>3, <1>4, <1>5, <1>6 DEF Next, Run, Finished

-----------------------------------------------------------------------------
(* The exit code.                                                          *)

LEMMA CodeStep ==
    ASSUME TypeOK, NoneRaised, FailsOnItsOwn, [Next]_vars
    PROVE  FailsOnItsOwn'
  <1> USE DEF TypeOK, FetchTypeOK
  <1>1. ASSUME NEW c \in Callers,
               \/ code' = code \/ code' = [code EXCEPT ![c] = "0"]
               \/ code' = [code EXCEPT ![c] = "1"] /\ broken' = [broken EXCEPT ![c] = TRUE],
               broken' = broken \/ broken' = [broken EXCEPT ![c] = TRUE]
        PROVE  FailsOnItsOwn'
    BY <1>1 DEF FailsOnItsOwn
  <1>2. ASSUME NEW c \in Callers, Run(c) PROVE FailsOnItsOwn'
    <2>1. ~ Raises(c)
      BY DEF Raises, NoneRaised
    <2>2. /\ \/ code' = code \/ code' = [code EXCEPT ![c] = "0"]
             \/ /\ code' = [code EXCEPT ![c] = "1"]
                /\ broken' = [broken EXCEPT ![c] = TRUE]
          /\ broken' = broken \/ broken' = [broken EXCEPT ![c] = TRUE]
      BY <1>2, <2>1
      DEF Run, Boot, TryEnter, Skip, Retry, ListEnabled, EndFetchAll, Dispatch,
          Wake, EndRound, Fail, Break, Return
    <2> QED  BY <1>1, <2>2
  <1>3. ASSUME UNCHANGED <<code, broken>> PROVE FailsOnItsOwn'
    BY <1>3 DEF FailsOnItsOwn
  <1> QED
    BY <1>2, <1>3 DEF Next, Work, Finished, loopVars, vars

-----------------------------------------------------------------------------
(* The theorems.                                                           *)

LEMMA AlwaysLoopInv == Spec => []LoopInv
  <1>1. LoopInv /\ [Next]_vars => LoopInv'
    BY TypeStep, GuardStep, FetchStep, CodeStep DEF LoopInv
  <1>2. Init /\ [][Next]_vars => []LoopInv
    BY <1>1, LoopInvInit, PTL
  <1> QED  BY <1>2, PTL DEF Spec

(* The loop's and the pool's state keeps its shape, and no loop runs past  *)
(* its --max-cycles.                                                       *)
THEOREM LoopTypeCorrect == Spec => []TypeOK
  BY AlwaysLoopInv, PTL DEF LoopInv

(* However many loops share a guard, one is in a cycle or its sleep.       *)
THEOREM OneCycle == Spec => []OneCycleAtATime
  BY AlwaysLoopInv, PTL DEF LoopInv

(* The guard is freed on every way out of a round, and never early.        *)
THEOREM GuardFreed == Spec => []GuardIsTrue
  BY AlwaysLoopInv, PTL DEF LoopInv

(* However many monitors and threads, a cycle dispatches every answer.     *)
THEOREM FetchComplete == Spec => []FetchIsWhole
  BY AlwaysLoopInv, PTL DEF LoopInv

(* No monitor's failure, expected or not, ends a worker.                   *)
THEOREM MonitorsCannotEndTheWorker == Spec => []FailsOnItsOwn
  BY AlwaysLoopInv, PTL DEF LoopInv
=============================================================================

---------------------------- MODULE AtomicLedger ----------------------------
(***************************************************************************)
(* The ledger as its callers see it: each call of a thread takes effect at *)
(* one instant between its invocation and its return, or not at all when   *)
(* it raises or its process dies.  A call that cannot read the ledger      *)
(* takes it for empty, and what it does not know of is gone.               *)
(***************************************************************************)
EXTENDS LedgerCalls

VARIABLES
    ledger,  \* the records
    call,    \* the call each thread is in
    answer,  \* "none" while the call has not taken effect
    unread   \* history: the threads whose call could not read the ledger

vars == <<ledger, call, answer, unread>>

Init ==
    /\ ledger = Empty
    /\ call = [t \in Threads |-> NoCall]
    /\ answer = [t \in Threads |-> "none"]
    /\ unread = {}

Invoke(t) ==
    /\ call[t] = NoCall
    /\ \E c \in Calls : call' = [call EXCEPT ![t] = c]
    /\ UNCHANGED <<ledger, answer, unread>>

Perform(t) ==
    /\ call[t] # NoCall
    /\ answer[t] = "none"
    /\ unread' \in {unread, unread \cup {t}}
    /\ LET records == IF t \in unread' THEN Empty ELSE ledger
       IN  \/ /\ Denies(records, call[t])
              /\ answer' = [answer EXCEPT ![t] = "denied"]
              /\ UNCHANGED ledger
           \/ /\ ~ Denies(records, call[t])
              /\ answer' = [answer EXCEPT ![t] = "done"]
              /\ ledger' = Effect(records, call[t])
           \/ /\ answer' = [answer EXCEPT ![t] = "raised"]
              /\ UNCHANGED ledger
    /\ UNCHANGED call

Return(t) ==
    /\ answer[t] # "none"
    /\ call' = [call EXCEPT ![t] = NoCall]
    /\ answer' = [answer EXCEPT ![t] = "none"]
    /\ unread' = unread \ {t}
    /\ UNCHANGED ledger

(* The threads of a process die together, each before or after its effect. *)
Die(S) ==
    /\ call' = [t \in Threads |-> IF t \in S THEN NoCall ELSE call[t]]
    /\ answer' = [t \in Threads |-> IF t \in S THEN "none" ELSE answer[t]]
    /\ unread' = unread \ S
    /\ UNCHANGED ledger

Next ==
    \/ \E t \in Threads : Invoke(t) \/ Perform(t) \/ Return(t)
    \/ \E S \in SUBSET Threads : Die(S)

Spec == Init /\ [][Next]_vars
=============================================================================

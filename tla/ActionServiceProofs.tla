--------------------------- MODULE ActionServiceProofs ---------------------------
(***************************************************************************)
(* Proofs about ActionService for every set of actions, requests, calls    *)
(* and timestamps, and any number of crashes and database faults.          *)
(***************************************************************************)
EXTENDS ActionService, SequenceTheorems, TLAPS

USE DEF NoState, NoCategory

(* Every event the store appends is well formed. *)
LEMMA EventsTyped ==
  /\ \A s \in States : CreationEvent(s) \in Events
  /\ ConfirmationEvent \in Events
  /\ CancellationEvent \in Events
  /\ ExecutionStartedEvent \in Events
  /\ ExecutionSucceededEvent \in Events
  /\ \A c \in FailureCategories \cup {NoCategory} : ExecutionFailedEvent(c) \in Events
BY DEF Events, Event, States, EventTypes, FailureCategories, CreationEvent,
       ConfirmationEvent, CancellationEvent, ExecutionStartedEvent,
       ExecutionSucceededEvent, ExecutionFailedEvent

LEMMA PolicyTyped ==
  ASSUME NEW origin \in Origins, NEW kind \in Kinds
  PROVE  /\ Policy(origin, kind).initialState \in {"awaiting_confirmation", "authorized"}
         /\ LookupDefinition[kind].supportsExecution \in BOOLEAN
BY DEF Policy, EvaluateConfirmationPolicy, Decision, LookupDefinition, Definition,
       Kinds, Origins

(* The guarded update of an existing row keeps the tables well typed and   *)
(* changes one row's state from event.from to event.to.                    *)
LEMMA TransitionTyped ==
  ASSUME StoreTypeOK, NEW id \in ActionIDs, Exists(id),
         NEW event \in Events, NEW now \in Times, Transition(id, event, now)
  PROVE  StoreTypeOK'
<1>1. rows[id] \in Rows
  BY DEF StoreTypeOK, Exists
<1>2. Stamp(id, now) \in Times
  BY <1>1 DEF Stamp, Rows
<1>3. event.to \in States
  BY DEF Events
<1>4. rows' \in [ActionIDs -> Rows \cup {NoRow}]
  BY <1>1, <1>2, <1>3 DEF Transition, StoreTypeOK, Rows
<1>5. [event |-> event, at |-> Stamp(id, now)] \in LogEntries
  BY <1>2 DEF LogEntries
<1>6. logs' \in [ActionIDs -> Seq(LogEntries)]
  BY <1>5 DEF Transition, StoreTypeOK
<1>. QED
  BY <1>4, <1>6 DEF StoreTypeOK

LEMMA InsertTyped ==
  ASSUME StoreTypeOK, NEW id \in ActionIDs, NEW kind \in Kinds, NEW origin \in Origins,
         NEW target \in Targets, NEW history \in Histories \cup {NoHistory},
         NEW now \in Times, Insert(id, kind, origin, target, history, now)
  PROVE  StoreTypeOK'
<1> DEFINE initial == Policy(origin, kind).initialState
<1>1. initial \in States
  BY PolicyTyped DEF States
<1>2. LookupDefinition[kind].supportsExecution \in BOOLEAN
  BY PolicyTyped
<1>3. CreationEvent(initial) \in Events
  BY <1>1, EventsTyped
<1> HIDE DEF initial
<1>4. [kind |-> kind, origin |-> origin, target |-> target, history |-> history,
       supportsExecution |-> LookupDefinition[kind].supportsExecution,
       state |-> initial, createdAt |-> now, updatedAt |-> now] \in Rows
  BY <1>1, <1>2 DEF Rows
<1>5. <<[event |-> CreationEvent(initial), at |-> now]>> \in Seq(LogEntries)
  BY <1>3 DEF LogEntries
<1> USE DEF initial
<1>. QED
  BY <1>4, <1>5 DEF Insert, StoreTypeOK

(* The request variables a handler step writes through Finish or Continue. *)
LEMMA FinishTyped ==
  ASSUME TypeOK, NEW r \in Requests, NEW status \in Answers, Finish(r, status)
  PROVE  /\ pc' \in [Requests -> PCs]
         /\ answer' \in [Requests -> Answers]
         /\ suggestionLock' \in Requests \cup {NoRequest}
BY DEF TypeOK, Finish, Goto, PCs

LEMMA ContinueTyped ==
  ASSUME TypeOK, NEW r \in Requests, NEW step \in PCs, Continue(r, step)
  PROVE  /\ pc' \in [Requests -> PCs]
         /\ answer' \in [Requests -> Answers]
         /\ suggestionLock' \in Requests \cup {NoRequest}
BY DEF TypeOK, Continue, Goto
USE TimesAssumption, NoRowAssumption, CallsAssumption, NoRequestAssumption,
    BoundsAssumption

LEMMA InitTyped == Init => TypeOK
<1> SUFFICES ASSUME Init PROVE TypeOK
  OBVIOUS
<1>1. StoreTypeOK
  <2>1. PICK stored \in SUBSET LegacyIDs, origin \in Origins, target \in Targets, now \in Times :
          LET legacy == LegacyRow(origin, target, now)
          IN  /\ rows = [id \in ActionIDs |-> IF id \in stored THEN legacy ELSE NoRow]
              /\ logs = [id \in ActionIDs |->
                            IF id \in stored
                              THEN <<[event |-> CreationEvent(legacy.state), at |-> now]>>
                              ELSE <<>>]
    BY DEF Init, StoreInit
  <2>2. LegacyRow(origin, target, now) \in Rows
    BY PolicyTyped DEF LegacyRow, Rows, Kinds, States
  <2>3. [event |-> CreationEvent(LegacyRow(origin, target, now).state), at |-> now]
          \in LogEntries
    BY <2>2, EventsTyped DEF LogEntries, Rows
  <2>. QED
    BY <2>1, <2>2, <2>3 DEF StoreTypeOK
<1>2. (CHOOSE c \in Calls : TRUE) \in CallRecords
  OBVIOUS
<1>. QED
  BY <1>1, <1>2 DEF Init, TypeOK, PCs, Answers, WireStates

LEMMA NextTyped == TypeOK /\ [Next]_vars => TypeOK'
<1> SUFFICES ASSUME TypeOK, [Next]_vars PROVE TypeOK'
  OBVIOUS
<1> USE DEF requestVars, upstreamVars, boundVars, storeVars
<1>0. CASE UNCHANGED vars
  BY <1>0 DEF TypeOK, StoreTypeOK, vars
<1>a. ASSUME NEW r \in Requests, Start(r) PROVE TypeOK'
  <2>1. PICK c \in Calls : call' = [call EXCEPT ![r] = c] /\ Goto(r, FirstStep[c.op])
    BY <1>a DEF Start
  <2>2. c \in CallRecords /\ FirstStep[c.op] \in PCs
    BY DEF CallRecords, Operations, FirstStep, PCs
  <2>. QED
    BY <1>a, <2>1, <2>2 DEF Start, Goto, TypeOK, StoreTypeOK
<1>b. ASSUME NEW r \in Requests, CreateTx(r) PROVE TypeOK'
  <2>1. call[r] \in CallRecords
    BY DEF TypeOK
  <2>2. StoreTypeOK'
    <3>1. PICK now \in Times :
            IF call[r].op = "suggest"
              THEN Insert(call[r].id, "restart_application", "assistant_suggested",
                          call[r].target, call[r].history, now)
              ELSE Insert(call[r].id, call[r].kind, "direct_user", call[r].target,
                          NoHistory, now)
      BY <1>b DEF CreateTx
    <3>2. CASE call[r].op = "suggest"
      BY <2>1, <3>1, <3>2, InsertTyped DEF CallRecords, Kinds, Origins, TypeOK
    <3>3. CASE call[r].op # "suggest"
      BY <2>1, <3>1, <3>3, InsertTyped DEF CallRecords, Origins, TypeOK
    <3>. QED
      BY <3>2, <3>3
  <2>3. PICK status \in Answers : Finish(r, status)
    BY <1>b DEF CreateTx, Answers
  <2>. QED
    BY <1>b, <2>2, <2>3, FinishTyped DEF CreateTx, TypeOK
<1>c. ASSUME NEW r \in Requests, LoadRow(r) PROVE TypeOK'
  <2>1. Id(r) \in ActionIDs
    BY DEF Id, TypeOK, CallRecords
  <2>2. CASE Exists(Id(r))
    BY <1>c, <2>1, <2>2, ContinueTyped DEF LoadRow, TypeOK, StoreTypeOK, PCs
  <2>3. CASE ~Exists(Id(r))
    BY <1>c, <2>1, <2>3, FinishTyped DEF LoadRow, TypeOK, StoreTypeOK, Answers
  <2>. QED
    BY <2>2, <2>3
<1>d. ASSUME NEW r \in Requests, LoadAccepted(r) PROVE TypeOK'
  <2>1. \/ \E status \in Answers : Finish(r, status)
        \/ \E step \in PCs : Continue(r, step)
    BY <1>d DEF LoadAccepted, HandleConfirm, HandleExecute, HandleSuggest, Answers, PCs
  <2>. QED
    BY <1>d, <2>1, FinishTyped, ContinueTyped DEF LoadAccepted, TypeOK, StoreTypeOK
<1>e. ASSUME NEW r \in Requests, LoadRejected(r) PROVE TypeOK'
  <2>1. PICK status \in Answers : Finish(r, status)
    BY <1>e DEF LoadRejected, LoadFailed, Answers
  <2>. QED
    BY <1>e, <2>1, FinishTyped DEF LoadRejected, TypeOK, StoreTypeOK
<1>f. ASSUME NEW r \in Requests, ConfirmTx(r) PROVE TypeOK'
  <2>1. Id(r) \in ActionIDs
    BY DEF Id, TypeOK, CallRecords
  <2>2. PICK status \in Answers : Finish(r, status)
    BY <1>f DEF ConfirmTx, Refuse, Answers
  <2>3. StoreTypeOK'
    BY <1>f, <2>1, TransitionTyped, EventsTyped
    DEF ConfirmTx, Refuse, Awaiting, Loadable, TypeOK, StoreTypeOK
  <2>. QED
    BY <1>f, <2>2, <2>3, FinishTyped DEF ConfirmTx, TypeOK
<1>g. ASSUME NEW r \in Requests, CancelTx(r) PROVE TypeOK'
  <2>1. Id(r) \in ActionIDs
    BY DEF Id, TypeOK, CallRecords
  <2>2. PICK status \in Answers : Finish(r, status)
    BY <1>g DEF CancelTx, Refuse, Answers
  <2>3. StoreTypeOK'
    BY <1>g, <2>1, TransitionTyped, EventsTyped
    DEF CancelTx, Refuse, Awaiting, Loadable, TypeOK, StoreTypeOK
  <2>. QED
    BY <1>g, <2>2, <2>3, FinishTyped DEF CancelTx, TypeOK
<1>h. ASSUME NEW r \in Requests, BeginTx(r) PROVE TypeOK'
  <2>1. Id(r) \in ActionIDs
    BY DEF Id, TypeOK, CallRecords
  <2>2. CASE BeginAllowed(Id(r), snap[r])
    <3>1. StoreTypeOK'
      BY <1>h, <2>1, <2>2, TransitionTyped, EventsTyped
      DEF BeginTx, BeginAllowed, Loadable, TypeOK
    <3>. QED
      BY <1>h, <2>2, <3>1, ContinueTyped DEF BeginTx, TypeOK, PCs
  <2>3. CASE ~BeginAllowed(Id(r), snap[r])
    BY <1>h, <2>3, FinishTyped DEF BeginTx, TypeOK, StoreTypeOK, Answers
  <2>. QED
    BY <2>2, <2>3
<1>i. ASSUME NEW r \in Requests, SendFails(r) PROVE TypeOK'
  BY <1>i, ContinueTyped DEF SendFails, TypeOK, StoreTypeOK, PCs, FailureCategories
<1>j. ASSUME NEW r \in Requests, SendWrites(r) PROVE TypeOK'
  BY <1>j, ContinueTyped DEF SendWrites, TypeOK, StoreTypeOK, PCs, WireStates
<1>k. ASSUME NEW r \in Requests, MiniDeployRestarts(r) PROVE TypeOK'
  <2>1. Id(r) \in ActionIDs
    BY DEF Id, TypeOK, CallRecords
  <2>2. restarts' \in [ActionIDs -> Nat]
    BY <1>k, <2>1 DEF MiniDeployRestarts, TypeOK
  <2>. QED
    BY <1>k, <2>2 DEF MiniDeployRestarts, TypeOK, StoreTypeOK, WireStates
<1>l. ASSUME NEW r \in Requests, MiniDeployRefuses(r) PROVE TypeOK'
  BY <1>l DEF MiniDeployRefuses, TypeOK, StoreTypeOK, WireStates
<1>m. ASSUME NEW r \in Requests, ReplySuccess(r) PROVE TypeOK'
  BY <1>m, ContinueTyped DEF ReplySuccess, TypeOK, StoreTypeOK, PCs
<1>n. ASSUME NEW r \in Requests, ReplyRefused(r) PROVE TypeOK'
  BY <1>n, ContinueTyped DEF ReplyRefused, TypeOK, StoreTypeOK, PCs, FailureCategories
<1>o. ASSUME NEW r \in Requests, ReplyUnknown(r) PROVE TypeOK'
  BY <1>o, FinishTyped DEF ReplyUnknown, TypeOK, StoreTypeOK, Answers, FailureCategories
<1>p. ASSUME NEW r \in Requests, CompleteSuccess(r) PROVE TypeOK'
  <2>1. Id(r) \in ActionIDs
    BY DEF Id, TypeOK, CallRecords
  <2>2. PICK status \in Answers : Finish(r, status)
    BY <1>p DEF CompleteSuccess, Answers
  <2>3. StoreTypeOK'
    BY <1>p, <2>1, TransitionTyped, EventsTyped
    DEF CompleteSuccess, CompleteAllowed, Loadable, TypeOK, StoreTypeOK
  <2>. QED
    BY <1>p, <2>2, <2>3, FinishTyped DEF CompleteSuccess, TypeOK
<1>q. ASSUME NEW r \in Requests, CompleteFailure(r) PROVE TypeOK'
  <2>1. Id(r) \in ActionIDs /\ category[r] \in FailureCategories \cup {NoCategory}
    BY DEF Id, TypeOK, CallRecords
  <2>2. PICK status \in Answers : Finish(r, status)
    BY <1>q DEF CompleteFailure, Answers
  <2>3. StoreTypeOK'
    BY <1>q, <2>1, TransitionTyped, EventsTyped
    DEF CompleteFailure, CompleteAllowed, Loadable, TypeOK, StoreTypeOK
  <2>. QED
    BY <1>q, <2>2, <2>3, FinishTyped DEF CompleteFailure, TypeOK
<1>r. ASSUME NEW r \in Requests, LockSuggestion(r) PROVE TypeOK'
  BY <1>r DEF LockSuggestion, Goto, TypeOK, StoreTypeOK, PCs
<1>s. ASSUME NEW r \in Requests, QuerySuggestions(r) PROVE TypeOK'
  <2>1. call' \in [Requests -> CallRecords]
    BY <1>s DEF QuerySuggestions, SuggestionsFor, TypeOK, CallRecords
  <2>2. \/ \E status \in Answers : Finish(r, status)
        \/ \E step \in PCs : Continue(r, step)
    BY <1>s DEF QuerySuggestions, Answers, PCs
  <2>. QED
    BY <1>s, <2>1, <2>2, FinishTyped, ContinueTyped DEF QuerySuggestions, TypeOK, StoreTypeOK
<1>t. ASSUME NEW r \in Requests, StorageFault(r) PROVE TypeOK'
  <2>1. PICK status \in Answers : Finish(r, status)
    BY <1>t DEF StorageFault, FaultAnswer, Answers
  <2>2. faults' \in 0 .. MaxFaults
    BY <1>t DEF StorageFault, TypeOK
  <2>. QED
    BY <1>t, <2>1, <2>2, FinishTyped DEF StorageFault, TypeOK, StoreTypeOK
<1>u. CASE Crash
  <2>1. crashes' \in 0 .. MaxCrashes
    BY <1>u DEF Crash, TypeOK
  <2>. QED
    BY <1>u, <2>1 DEF Crash, TypeOK, StoreTypeOK, PCs
<1>. QED
  BY <1>0, <1>a, <1>b, <1>c, <1>d, <1>e, <1>f, <1>g, <1>h, <1>i, <1>j, <1>k, <1>l,
     <1>m, <1>n, <1>o, <1>p, <1>q, <1>r, <1>s, <1>t, <1>u
  DEF Next, Handler, MiniDeploy

(* TypeOK holds in every reachable state, for all parameters. *)
THEOREM TypeInvariant == Spec => []TypeOK
BY InitTyped, NextTyped, PTL DEF Spec
--------------------------------------------------------------------------------
(***************************************************************************)
(* The one-shot execution invariant.                                       *)
(***************************************************************************)

LEMMA InitExecution == Init => ExecutionInv
<1> SUFFICES ASSUME Init PROVE ExecutionInv
  OBVIOUS
<1>1. \A r \in Requests : ~Begun(r)
  BY DEF Init, Begun, ExecutingPCs
<1>2. \A id \in ActionIDs : restarts[id] = 0
  BY DEF Init
<1>3. \A id \in ActionIDs : Exists(id) =>
         rows[id].state \in {"awaiting_confirmation", "authorized"}
  BY PolicyTyped DEF Init, StoreInit, LegacyRow, Exists, Kinds
<1>. QED
  BY <1>1, <1>2, <1>3
  DEF Init, ExecutionInv, BegunIsRecorded, OneExecution, HandlerHoldsExecution,
      WireHoldsExecution, RestartsAreOwned, Begun, ExecutingPCs

(* The facts every step needs about the request that takes it. *)
LEMMA IdTyped == TypeOK => \A r \in Requests : Id(r) \in ActionIDs
BY DEF TypeOK, Id, CallRecords

(* A step of handler r that changes no row, no wire and no identity and    *)
(* does not put r inside an execution.                                     *)
LEMMA QuietStep ==
  ASSUME TypeOK, ExecutionInv, NEW r \in Requests, NEW step \in PCs \ ExecutingPCs,
         Goto(r, step), UNCHANGED <<rows, wire, restarts, call>>,
         pc[r] \in ExecutingPCs \cup {"done", "gone"} => step \in {"done", "gone"}
  PROVE  ExecutionInv'
<1>1. \A q \in Requests : pc'[q] = IF q = r THEN step ELSE pc[q]
  BY DEF Goto, TypeOK
<1>2. \A q \in Requests : Begun(q)' => Begun(q)
  BY <1>1 DEF Begun
<1>3. \A q \in Requests : Id(q)' = Id(q)
  BY DEF Id
<1>4. \A id \in ActionIDs : Exists(id)' <=> Exists(id)
  BY DEF Exists
<1>5. BegunIsRecorded' /\ OneExecution'
  BY <1>2, <1>3, IdTyped DEF ExecutionInv, BegunIsRecorded, OneExecution, Exists
<1>6. HandlerHoldsExecution'
  BY <1>1, <1>3 DEF ExecutionInv, HandlerHoldsExecution, ExecutingPCs
<1>7. WireHoldsExecution'
  BY <1>1, <1>3 DEF ExecutionInv, WireHoldsExecution, ExecutingPCs
<1>8. RestartsAreOwned'
  BY <1>3, <1>4 DEF ExecutionInv, RestartsAreOwned
<1>. QED
  BY <1>5, <1>6, <1>7, <1>8 DEF ExecutionInv
(* What a transition does to the states of all rows. *)
LEMMA TransitionStates ==
  ASSUME TypeOK, NEW id \in ActionIDs, Exists(id), NEW event \in Events,
         NEW now \in Times, Transition(id, event, now)
  PROVE  /\ rows[id].state = event.from
         /\ rows'[id].state = event.to
         /\ \A other \in ActionIDs : other # id => rows'[other] = rows[other]
         /\ \A other \in ActionIDs : Exists(other)' <=> Exists(other)
<1>1. rows[id] \in Rows
  BY DEF TypeOK, StoreTypeOK, Exists
<1>2. rows'[id] = [rows[id] EXCEPT !.state = event.to, !.updatedAt = Stamp(id, now)]
  BY DEF Transition, TypeOK, StoreTypeOK
<1>3. rows'[id].state = event.to
  BY <1>1, <1>2 DEF Rows
<1>4. StoreTypeOK'
  BY TransitionTyped DEF TypeOK
<1>5. Stamp(id, now) \in Times
  BY <1>1 DEF Stamp, Rows
<1>6. rows'[id] \in Rows
  BY <1>1, <1>2, <1>5 DEF Rows, Events
<1>7. \A other \in ActionIDs : other # id => rows'[other] = rows[other]
  BY DEF Transition, TypeOK, StoreTypeOK
<1>. QED
  BY <1>3, <1>6, <1>7 DEF Transition, Exists

(* A transition that no begun execution can suffer: the row leaves         *)
(* awaiting_confirmation, and the handler returns.                         *)
LEMMA DecisionStep ==
  ASSUME TypeOK, ExecutionInv, NEW r \in Requests, Goto(r, "done"),
         pc[r] \notin ExecutingPCs, Exists(Id(r)),
         NEW event \in {ConfirmationEvent, CancellationEvent}, NEW now \in Times,
         Transition(Id(r), event, now), UNCHANGED <<wire, restarts, call>>
  PROVE  ExecutionInv'
<1>1. Id(r) \in ActionIDs /\ event \in Events
  BY IdTyped, EventsTyped
<1>2. /\ rows[Id(r)].state = "awaiting_confirmation"
      /\ rows'[Id(r)].state \in {"authorized", "cancelled"}
      /\ \A other \in ActionIDs : other # Id(r) => rows'[other] = rows[other]
      /\ \A other \in ActionIDs : Exists(other)' <=> Exists(other)
  BY <1>1, TransitionStates DEF ConfirmationEvent, CancellationEvent, Event
<1>3. \A q \in Requests : Id(q)' = Id(q) /\ Id(q) \in ActionIDs
  BY IdTyped DEF Id
<1>4. \A q \in Requests : pc'[q] = IF q = r THEN "done" ELSE pc[q]
  BY DEF Goto, TypeOK
<1>5. \A q \in Requests : Begun(q)' => Begun(q)
  BY <1>4 DEF Begun, ExecutingPCs
<1>6. \A q \in Requests : Begun(q) => Id(q) # Id(r)
  BY <1>2 DEF ExecutionInv, BegunIsRecorded, ExecutionStates
<1>7. BegunIsRecorded' /\ OneExecution'
  BY <1>2, <1>3, <1>5, <1>6 DEF ExecutionInv, BegunIsRecorded, OneExecution
<1>8. HandlerHoldsExecution'
  BY <1>2, <1>3, <1>4, <1>6 DEF ExecutionInv, HandlerHoldsExecution, Begun, ExecutingPCs
<1>9. WireHoldsExecution'
  BY <1>2, <1>3, <1>4, <1>6 DEF ExecutionInv, WireHoldsExecution, Begun
<1>10. RestartsAreOwned'
  BY <1>2, <1>3 DEF ExecutionInv, RestartsAreOwned
<1>. QED
  BY <1>7, <1>8, <1>9, <1>10 DEF ExecutionInv

LEMMA BeginStep ==
  ASSUME TypeOK, ExecutionInv, NEW r \in Requests, BeginTx(r)
  PROVE  ExecutionInv'
<1>1. CASE ~BeginAllowed(Id(r), snap[r])
  BY <1>1, QuietStep DEF BeginTx, Finish, PCs, ExecutingPCs, storeVars, upstreamVars
<1>2. CASE BeginAllowed(Id(r), snap[r])
  <2>1. PICK now \in Times : Transition(Id(r), ExecutionStartedEvent, now)
    BY <1>2 DEF BeginTx
  <2>2. Exists(Id(r)) /\ Id(r) \in ActionIDs
    BY <1>2, IdTyped DEF BeginAllowed, Loadable
  <2>3. /\ rows[Id(r)].state = "authorized"
        /\ rows'[Id(r)].state = "executing"
        /\ \A other \in ActionIDs : other # Id(r) => rows'[other] = rows[other]
        /\ \A other \in ActionIDs : Exists(other)' <=> Exists(other)
    BY <2>1, <2>2, TransitionStates, EventsTyped DEF ExecutionStartedEvent, Event
  <2>4. /\ UNCHANGED <<wire, restarts, call>>
        /\ pc[r] = "begin_tx"
        /\ \A q \in Requests : pc'[q] = IF q = r THEN "send" ELSE pc[q]
    BY <1>2 DEF BeginTx, Continue, Goto, TypeOK, upstreamVars
  <2>5. \A q \in Requests : Id(q)' = Id(q) /\ Id(q) \in ActionIDs
    BY <2>4, IdTyped DEF Id
  <2>6. \A q \in Requests : Begun(q) => Id(q) # Id(r)
    BY <2>3 DEF ExecutionInv, BegunIsRecorded, ExecutionStates
  <2>7. wire[r] = "none"
    BY <2>4 DEF ExecutionInv, WireHoldsExecution, ExecutingPCs
  <2>8. \A q \in Requests : Begun(q)' => q = r \/ Begun(q)
    BY <2>4 DEF Begun
  <2>9. BegunIsRecorded' /\ OneExecution'
    BY <2>2, <2>3, <2>5, <2>6, <2>8
    DEF ExecutionInv, BegunIsRecorded, OneExecution, ExecutionStates
  <2>10. HandlerHoldsExecution'
    BY <2>3, <2>4, <2>5, <2>6, <2>7
    DEF ExecutionInv, HandlerHoldsExecution, Begun, ExecutingPCs
  <2>11. WireHoldsExecution'
    BY <2>3, <2>4, <2>5, <2>6, <2>7 DEF ExecutionInv, WireHoldsExecution, Begun, ExecutingPCs
  <2>12. RestartsAreOwned'
    BY <2>3, <2>4, <2>5 DEF ExecutionInv, RestartsAreOwned
  <2>. QED
    BY <2>9, <2>10, <2>11, <2>12 DEF ExecutionInv
<1>. QED
  BY <1>1, <1>2
(* Completing the execution this handler holds: succeeded after a restart, *)
(* failed when the POST was never written or was refused.                  *)
LEMMA CompleteStep ==
  ASSUME TypeOK, ExecutionInv, NEW r \in Requests, Goto(r, "done"),
         Exists(Id(r)), NEW event \in Events, NEW now \in Times,
         Transition(Id(r), event, now), UNCHANGED <<wire, restarts, call>>,
         \/ pc[r] = "complete_success" /\ event.to = "succeeded"
         \/ pc[r] = "complete_failure" /\ event.to = "failed"
  PROVE  ExecutionInv'
<1>1. Id(r) \in ActionIDs
  BY IdTyped
<1>2. /\ rows'[Id(r)].state = event.to
      /\ \A other \in ActionIDs : other # Id(r) => rows'[other] = rows[other]
      /\ \A other \in ActionIDs : Exists(other)' <=> Exists(other)
  BY <1>1, TransitionStates
<1>3. \A q \in Requests : Id(q)' = Id(q) /\ Id(q) \in ActionIDs
  BY IdTyped DEF Id
<1>4. \A q \in Requests : pc'[q] = IF q = r THEN "done" ELSE pc[q]
  BY DEF Goto, TypeOK
<1>5. \A q \in Requests : Begun(q)' => Begun(q)
  BY <1>4 DEF Begun, ExecutingPCs
<1>6. \A q \in Requests : Begun(q) /\ Id(q) = Id(r) => q = r
  BY DEF ExecutionInv, OneExecution, Begun, ExecutingPCs
<1>7. BegunIsRecorded' /\ OneExecution'
  BY <1>2, <1>3, <1>5, <1>6
  DEF ExecutionInv, BegunIsRecorded, OneExecution, ExecutionStates
<1>8. HandlerHoldsExecution'
  BY <1>2, <1>3, <1>4, <1>6 DEF ExecutionInv, HandlerHoldsExecution, Begun, ExecutingPCs
<1>9. WireHoldsExecution'
  BY <1>2, <1>3, <1>4, <1>6
  DEF ExecutionInv, WireHoldsExecution, HandlerHoldsExecution, Begun, ExecutingPCs
<1>10. RestartsAreOwned'
  BY <1>2, <1>3
  DEF ExecutionInv, RestartsAreOwned, HandlerHoldsExecution, WireHoldsExecution
<1>. QED
  BY <1>7, <1>8, <1>9, <1>10 DEF ExecutionInv

(* The two steps of the wire that matter: the POST is written, MiniDeploy  *)
(* restarts the application.                                               *)
LEMMA WriteStep ==
  ASSUME TypeOK, ExecutionInv, NEW r \in Requests, SendWrites(r)
  PROVE  ExecutionInv'
<1>1. /\ pc[r] = "send"
      /\ UNCHANGED <<rows, restarts, call>>
      /\ \A q \in Requests : pc'[q] = IF q = r THEN "await" ELSE pc[q]
      /\ \A q \in Requests : wire'[q] = IF q = r THEN "written" ELSE wire[q]
  BY DEF SendWrites, Continue, Goto, TypeOK, storeVars
<1>2. \A q \in Requests : Id(q)' = Id(q) /\ Id(q) \in ActionIDs
  BY <1>1, IdTyped DEF Id
<1>3. \A id \in ActionIDs : Exists(id)' <=> Exists(id)
  BY <1>1 DEF Exists
<1>4. \A q \in Requests : Begun(q)' <=> Begun(q)
  BY <1>1 DEF Begun, ExecutingPCs
<1>5. BegunIsRecorded' /\ OneExecution'
  BY <1>1, <1>2, <1>3, <1>4 DEF ExecutionInv, BegunIsRecorded, OneExecution
<1>6. HandlerHoldsExecution'
  BY <1>1, <1>2 DEF ExecutionInv, HandlerHoldsExecution, ExecutingPCs
<1>7. WireHoldsExecution'
  BY <1>1, <1>2 DEF ExecutionInv, WireHoldsExecution, HandlerHoldsExecution, ExecutingPCs
<1>8. RestartsAreOwned'
  BY <1>1, <1>2, <1>3 DEF ExecutionInv, RestartsAreOwned, HandlerHoldsExecution
<1>. QED
  BY <1>5, <1>6, <1>7, <1>8 DEF ExecutionInv

(* A written POST is that of the action's only execution, so no restart    *)
(* was performed for the action before this one.                           *)
LEMMA NoEarlierRestart ==
  ASSUME TypeOK, ExecutionInv, NEW r \in Requests, wire[r] = "written"
  PROVE  restarts[Id(r)] = 0
<1>1. \A q \in Requests : wire[q] = "restarted" => Id(q) # Id(r)
  BY DEF ExecutionInv, OneExecution, Begun
<1>. QED
  BY <1>1, IdTyped DEF ExecutionInv, RestartsAreOwned

LEMMA RestartStep ==
  ASSUME TypeOK, ExecutionInv, NEW r \in Requests, MiniDeployRestarts(r)
  PROVE  ExecutionInv'
<1>1. /\ wire[r] = "written"
      /\ UNCHANGED <<rows, call, pc>>
      /\ \A q \in Requests : wire'[q] = IF q = r THEN "restarted" ELSE wire[q]
  BY DEF MiniDeployRestarts, TypeOK, storeVars, requestVars
<1>2. \A q \in Requests : Id(q)' = Id(q) /\ Id(q) \in ActionIDs
  BY <1>1, IdTyped DEF Id
<1>3. \A id \in ActionIDs : restarts'[id] = IF id = Id(r) THEN 1 ELSE restarts[id]
  BY <1>1, <1>2, NoEarlierRestart DEF MiniDeployRestarts, TypeOK
<1>4. \A id \in ActionIDs : Exists(id)' <=> Exists(id)
  BY <1>1 DEF Exists
<1>5. \A q \in Requests : Begun(q)' <=> Begun(q)
  BY <1>1 DEF Begun
<1>6. BegunIsRecorded' /\ OneExecution'
  BY <1>1, <1>2, <1>4, <1>5 DEF ExecutionInv, BegunIsRecorded, OneExecution
<1>7. HandlerHoldsExecution'
  BY <1>1, <1>2 DEF ExecutionInv, HandlerHoldsExecution, ExecutingPCs
<1>8. WireHoldsExecution'
  BY <1>1, <1>2, <1>3 DEF ExecutionInv, WireHoldsExecution
<1>9. RestartsAreOwned'
  BY <1>1, <1>2, <1>3, <1>4 DEF ExecutionInv, RestartsAreOwned
<1>. QED
  BY <1>6, <1>7, <1>8, <1>9 DEF ExecutionInv

LEMMA RefuseStep ==
  ASSUME TypeOK, ExecutionInv, NEW r \in Requests, MiniDeployRefuses(r)
  PROVE  ExecutionInv'
<1>1. /\ wire[r] = "written"
      /\ UNCHANGED <<rows, call, pc, restarts>>
      /\ \A q \in Requests : wire'[q] = IF q = r THEN "refused" ELSE wire[q]
  BY DEF MiniDeployRefuses, TypeOK, storeVars, requestVars
<1>2. \A q \in Requests : Id(q)' = Id(q) /\ Id(q) \in ActionIDs
  BY <1>1, IdTyped DEF Id
<1>3. \A id \in ActionIDs : Exists(id)' <=> Exists(id)
  BY <1>1 DEF Exists
<1>4. \A q \in Requests : Begun(q)' <=> Begun(q)
  BY <1>1 DEF Begun
<1>5. BegunIsRecorded' /\ OneExecution'
  BY <1>1, <1>2, <1>3, <1>4 DEF ExecutionInv, BegunIsRecorded, OneExecution
<1>6. HandlerHoldsExecution'
  BY <1>1, <1>2 DEF ExecutionInv, HandlerHoldsExecution, ExecutingPCs
<1>7. WireHoldsExecution'
  BY <1>1, <1>2 DEF ExecutionInv, WireHoldsExecution
<1>8. RestartsAreOwned'
  BY <1>1, <1>2, <1>3 DEF ExecutionInv, RestartsAreOwned
<1>. QED
  BY <1>5, <1>6, <1>7, <1>8 DEF ExecutionInv
(* A handler moves on inside its execution. *)
LEMMA AdvanceStep ==
  ASSUME TypeOK, ExecutionInv, NEW r \in Requests, NEW step \in ExecutingPCs,
         Goto(r, step), UNCHANGED <<rows, wire, restarts, call>>,
         pc[r] \in ExecutingPCs,
         \/ step = "complete_success" /\ wire[r] = "restarted"
         \/ step = "complete_failure" /\ wire[r] \in {"none", "refused"}
  PROVE  ExecutionInv'
<1>1. \A q \in Requests : pc'[q] = IF q = r THEN step ELSE pc[q]
  BY DEF Goto, TypeOK
<1>2. \A q \in Requests : Id(q)' = Id(q) /\ Id(q) \in ActionIDs
  BY IdTyped DEF Id
<1>3. \A id \in ActionIDs : Exists(id)' <=> Exists(id)
  BY DEF Exists
<1>4. \A q \in Requests : Begun(q)' <=> Begun(q)
  BY <1>1 DEF Begun
<1>5. BegunIsRecorded' /\ OneExecution'
  BY <1>2, <1>3, <1>4 DEF ExecutionInv, BegunIsRecorded, OneExecution
<1>6. HandlerHoldsExecution'
  BY <1>1, <1>2 DEF ExecutionInv, HandlerHoldsExecution
<1>7. WireHoldsExecution'
  BY <1>1, <1>2 DEF ExecutionInv, WireHoldsExecution
<1>8. RestartsAreOwned'
  BY <1>2, <1>3 DEF ExecutionInv, RestartsAreOwned
<1>. QED
  BY <1>5, <1>6, <1>7, <1>8 DEF ExecutionInv

(* A request that is not inside an execution takes on another identity:    *)
(* when it arrives, or when it finds the existing suggestion.              *)
LEMMA RenameStep ==
  ASSUME TypeOK, ExecutionInv, NEW r \in Requests, NEW step \in PCs \ ExecutingPCs,
         Goto(r, step), UNCHANGED <<rows, wire, restarts>>, NEW c \in CallRecords,
         call' = [call EXCEPT ![r] = c],
         pc[r] \notin ExecutingPCs \cup {"done", "gone"}
  PROVE  ExecutionInv'
<1>1. \A q \in Requests : pc'[q] = IF q = r THEN step ELSE pc[q]
  BY DEF Goto, TypeOK
<1>2. \A q \in Requests : q # r => Id(q)' = Id(q)
  BY DEF Id, TypeOK
<1>3. \A id \in ActionIDs : Exists(id)' <=> Exists(id)
  BY DEF Exists
<1>4. ~Begun(r) /\ ~Begun(r)' /\ wire[r] = "none"
  BY <1>1 DEF ExecutionInv, WireHoldsExecution, Begun
<1>5. \A q \in Requests : Begun(q)' <=> Begun(q)
  BY <1>1, <1>4 DEF Begun
<1>6. BegunIsRecorded' /\ OneExecution'
  BY <1>2, <1>3, <1>4, <1>5, IdTyped DEF ExecutionInv, BegunIsRecorded, OneExecution
<1>7. HandlerHoldsExecution'
  BY <1>1, <1>2, <1>4 DEF ExecutionInv, HandlerHoldsExecution, Begun, ExecutingPCs
<1>8. WireHoldsExecution'
  BY <1>1, <1>2, <1>4 DEF ExecutionInv, WireHoldsExecution
<1>9. RestartsAreOwned'
  BY <1>2, <1>3, <1>4 DEF ExecutionInv, RestartsAreOwned
<1>. QED
  BY <1>6, <1>7, <1>8, <1>9 DEF ExecutionInv

LEMMA CreateStep ==
  ASSUME TypeOK, ExecutionInv, NEW r \in Requests, CreateTx(r), TypeOK'
  PROVE  ExecutionInv'
<1>1. Id(r) \in ActionIDs /\ ~Exists(Id(r)) /\ pc[r] = "create_tx"
  BY IdTyped DEF CreateTx
<1>2. call[r] \in CallRecords
  BY DEF TypeOK
<1>3. PICK kind \in Kinds, origin \in Origins, target \in Targets,
           history \in Histories \cup {NoHistory}, now \in Times :
        Insert(Id(r), kind, origin, target, history, now)
  BY <1>2 DEF CreateTx, CallRecords, Kinds, Origins, Id
<1>4. /\ rows'[Id(r)].state \in {"awaiting_confirmation", "authorized"}
      /\ \A other \in ActionIDs : other # Id(r) => rows'[other] = rows[other]
  BY <1>1, <1>3, PolicyTyped DEF Insert, TypeOK, StoreTypeOK
<1>5. /\ UNCHANGED <<wire, restarts, call>>
      /\ \A q \in Requests : pc'[q] = IF q = r THEN "done" ELSE pc[q]
  BY DEF CreateTx, Finish, Goto, TypeOK, upstreamVars
<1>6. \A q \in Requests : Id(q)' = Id(q) /\ Id(q) \in ActionIDs
  BY <1>5, IdTyped DEF Id
<1>7. \A q \in Requests : Begun(q)' => Begun(q)
  BY <1>5 DEF Begun, ExecutingPCs
<1>8. \A q \in Requests : Begun(q) => Id(q) # Id(r)
  BY <1>1 DEF ExecutionInv, BegunIsRecorded
<1>9. BegunIsRecorded' /\ OneExecution'
  BY <1>4, <1>6, <1>7, <1>8 DEF ExecutionInv, BegunIsRecorded, OneExecution, Exists
<1>10. HandlerHoldsExecution'
  BY <1>4, <1>5, <1>6, <1>8 DEF ExecutionInv, HandlerHoldsExecution, Begun, ExecutingPCs
<1>11. WireHoldsExecution'
  BY <1>4, <1>5, <1>6, <1>8 DEF ExecutionInv, WireHoldsExecution, Begun, ExecutingPCs
<1>12. RestartsAreOwned'
  BY <1>4, <1>5, <1>6 DEF ExecutionInv, RestartsAreOwned, Exists
<1>. QED
  BY <1>9, <1>10, <1>11, <1>12 DEF ExecutionInv

LEMMA CrashStep ==
  ASSUME TypeOK, ExecutionInv, Crash
  PROVE  ExecutionInv'
<1>1. /\ UNCHANGED <<rows, wire, restarts, call>>
      /\ \A q \in Requests :
           pc'[q] = IF pc[q] \in {"idle", "done"} THEN pc[q] ELSE "gone"
  BY DEF Crash, storeVars, upstreamVars
<1>2. \A q \in Requests : Id(q)' = Id(q)
  BY <1>1 DEF Id
<1>3. \A id \in ActionIDs : Exists(id)' <=> Exists(id)
  BY <1>1 DEF Exists
<1>4. \A q \in Requests : Begun(q)' => Begun(q)
  BY <1>1 DEF Begun, ExecutingPCs
<1>5. BegunIsRecorded' /\ OneExecution'
  BY <1>1, <1>2, <1>3, <1>4, IdTyped DEF ExecutionInv, BegunIsRecorded, OneExecution
<1>6. HandlerHoldsExecution'
  BY <1>1, <1>2 DEF ExecutionInv, HandlerHoldsExecution, ExecutingPCs
<1>7. WireHoldsExecution'
  BY <1>1, <1>2 DEF ExecutionInv, WireHoldsExecution, ExecutingPCs
<1>8. RestartsAreOwned'
  BY <1>1, <1>2, <1>3 DEF ExecutionInv, RestartsAreOwned
<1>. QED
  BY <1>5, <1>6, <1>7, <1>8 DEF ExecutionInv

LEMMA NextExecution == TypeOK /\ TypeOK' /\ ExecutionInv /\ [Next]_vars => ExecutionInv'
<1> SUFFICES ASSUME TypeOK, TypeOK', ExecutionInv, [Next]_vars PROVE ExecutionInv'
  OBVIOUS
<1> USE DEF storeVars, upstreamVars, Finish, Continue
<1>0. CASE UNCHANGED vars
  BY <1>0 DEF vars, requestVars, ExecutionInv, BegunIsRecorded, OneExecution,
     HandlerHoldsExecution, WireHoldsExecution, RestartsAreOwned, Begun, Exists, Id
<1>a. ASSUME NEW r \in Requests, Start(r) PROVE ExecutionInv'
  <2>1. PICK c \in Calls : call' = [call EXCEPT ![r] = c] /\ Goto(r, FirstStep[c.op])
    BY <1>a DEF Start
  <2>2. FirstStep[c.op] \in PCs \ ExecutingPCs
    BY DEF CallRecords, Operations, FirstStep, PCs, ExecutingPCs
  <2>. QED
    BY <1>a, <2>1, <2>2, RenameStep DEF Start, ExecutingPCs
<1>b. ASSUME NEW r \in Requests, CreateTx(r) PROVE ExecutionInv'
  BY <1>b, CreateStep
<1>c. ASSUME NEW r \in Requests, LoadRow(r) PROVE ExecutionInv'
  BY <1>c, QuietStep DEF LoadRow, PCs, ExecutingPCs
<1>d. ASSUME NEW r \in Requests, LoadAccepted(r) PROVE ExecutionInv'
  <2>1. PICK step \in {"done", "confirm_tx", "begin_tx"} : Goto(r, step)
    BY <1>d DEF LoadAccepted, HandleConfirm, HandleExecute, HandleSuggest
  <2>. QED
    BY <1>d, <2>1, QuietStep DEF LoadAccepted, PCs, ExecutingPCs
<1>e. ASSUME NEW r \in Requests, LoadRejected(r) PROVE ExecutionInv'
  BY <1>e, QuietStep DEF LoadRejected, LoadFailed, PCs, ExecutingPCs
<1>f. ASSUME NEW r \in Requests, ConfirmTx(r) PROVE ExecutionInv'
  <2>1. CASE Awaiting(Id(r))
    BY <1>f, <2>1, DecisionStep DEF ConfirmTx, Awaiting, Loadable, ExecutingPCs
  <2>2. CASE ~Awaiting(Id(r))
    BY <1>f, <2>2, QuietStep DEF ConfirmTx, Refuse, PCs, ExecutingPCs
  <2>. QED
    BY <2>1, <2>2
<1>g. ASSUME NEW r \in Requests, CancelTx(r) PROVE ExecutionInv'
  <2>1. CASE Awaiting(Id(r))
    BY <1>g, <2>1, DecisionStep DEF CancelTx, Awaiting, Loadable, ExecutingPCs
  <2>2. CASE ~Awaiting(Id(r))
    BY <1>g, <2>2, QuietStep DEF CancelTx, Refuse, PCs, ExecutingPCs
  <2>. QED
    BY <2>1, <2>2
<1>h. ASSUME NEW r \in Requests, BeginTx(r) PROVE ExecutionInv'
  BY <1>h, BeginStep
<1>i. ASSUME NEW r \in Requests, SendFails(r) PROVE ExecutionInv'
  BY <1>i, AdvanceStep DEF SendFails, ExecutingPCs, ExecutionInv, HandlerHoldsExecution
<1>j. ASSUME NEW r \in Requests, SendWrites(r) PROVE ExecutionInv'
  BY <1>j, WriteStep
<1>k. ASSUME NEW r \in Requests, MiniDeploy(r) PROVE ExecutionInv'
  BY <1>k, RestartStep, RefuseStep DEF MiniDeploy
<1>m. ASSUME NEW r \in Requests, ReplySuccess(r) PROVE ExecutionInv'
  <2>1. "complete_success" \in ExecutingPCs /\ pc[r] \in ExecutingPCs
    BY <1>m DEF ReplySuccess, ExecutingPCs
  <2>2. /\ Goto(r, "complete_success") /\ wire[r] = "restarted"
        /\ UNCHANGED <<rows, wire, restarts, call>>
    BY <1>m DEF ReplySuccess
  <2>. QED
    BY <2>1, <2>2, AdvanceStep
<1>n. ASSUME NEW r \in Requests, ReplyRefused(r) PROVE ExecutionInv'
  BY <1>n, AdvanceStep DEF ReplyRefused, ExecutingPCs
<1>o. ASSUME NEW r \in Requests, ReplyUnknown(r) PROVE ExecutionInv'
  BY <1>o, QuietStep DEF ReplyUnknown, PCs, ExecutingPCs
<1>p. ASSUME NEW r \in Requests, CompleteSuccess(r) PROVE ExecutionInv'
  <2>1. CASE CompleteAllowed(Id(r))
    <3>1. ExecutionSucceededEvent \in Events /\ ExecutionSucceededEvent.to = "succeeded"
      BY EventsTyped DEF ExecutionSucceededEvent, Event
    <3>. QED
      BY <1>p, <2>1, <3>1, CompleteStep DEF CompleteSuccess, CompleteAllowed, Loadable
  <2>2. CASE ~CompleteAllowed(Id(r))
    BY <1>p, <2>2, QuietStep DEF CompleteSuccess, PCs, ExecutingPCs
  <2>. QED
    BY <2>1, <2>2
<1>q. ASSUME NEW r \in Requests, CompleteFailure(r) PROVE ExecutionInv'
  <2>1. CASE CompleteAllowed(Id(r))
    <3>1. /\ ExecutionFailedEvent(category[r]) \in Events
          /\ ExecutionFailedEvent(category[r]).to = "failed"
      BY EventsTyped DEF ExecutionFailedEvent, Event, TypeOK
    <3>. QED
      BY <1>q, <2>1, <3>1, CompleteStep DEF CompleteFailure, CompleteAllowed, Loadable
  <2>2. CASE ~CompleteAllowed(Id(r))
    BY <1>q, <2>2, QuietStep DEF CompleteFailure, PCs, ExecutingPCs
  <2>. QED
    BY <2>1, <2>2
<1>r. ASSUME NEW r \in Requests, LockSuggestion(r) PROVE ExecutionInv'
  BY <1>r, QuietStep DEF LockSuggestion, PCs, ExecutingPCs
<1>s. ASSUME NEW r \in Requests, QuerySuggestions(r) PROVE ExecutionInv'
  <2>1. PICK c \in CallRecords : call' = [call EXCEPT ![r] = c]
    BY <1>s DEF QuerySuggestions, SuggestionsFor, TypeOK, CallRecords
  <2>2. PICK step \in {"create_tx", "load_row", "done"} : Goto(r, step)
    BY <1>s DEF QuerySuggestions
  <2>. QED
    BY <1>s, <2>1, <2>2, RenameStep DEF QuerySuggestions, PCs, ExecutingPCs
<1>t. ASSUME NEW r \in Requests, StorageFault(r) PROVE ExecutionInv'
  BY <1>t, QuietStep DEF StorageFault, PCs, ExecutingPCs
<1>u. CASE Crash
  BY <1>u, CrashStep
<1>. QED
  BY <1>0, <1>a, <1>b, <1>c, <1>d, <1>e, <1>f, <1>g, <1>h, <1>i, <1>j, <1>k,
     <1>m, <1>n, <1>o, <1>p, <1>q, <1>r, <1>s, <1>t, <1>u
  DEF Next, Handler

(* The execution invariant holds in every reachable state. *)
THEOREM ExecutionInvariant == Spec => []ExecutionInv
BY InitTyped, NextTyped, InitExecution, NextExecution, PTL DEF Spec

(* No action ever restarts its application twice. *)
THEOREM OneShotRestart == Spec => []AtMostOneRestart
<1>1. TypeOK /\ ExecutionInv => AtMostOneRestart
  BY DEF AtMostOneRestart, TypeOK, ExecutionInv, RestartsAreOwned, WireHoldsExecution
<1>. QED
  BY <1>1, TypeInvariant, ExecutionInvariant, PTL

(* A recorded outcome is what happened to the application. *)
THEOREM OutcomesAreTrue == Spec => []OutcomeIsTrue
<1>1. TypeOK /\ ExecutionInv => OutcomeIsTrue
  BY IdTyped DEF OutcomeIsTrue, ExecutionInv, RestartsAreOwned, WireHoldsExecution
<1>. QED
  BY <1>1, TypeInvariant, ExecutionInvariant, PTL
--------------------------------------------------------------------------------
(***************************************************************************)
(* The service implements the lifecycle of RestartLifecycle.               *)
(***************************************************************************)

Status == [id \in ActionIDs |-> IF Exists(id) THEN rows[id].state ELSE "absent"]

LEMMA InitRefines == Init => Lifecycle!Init
<1> SUFFICES ASSUME Init PROVE Lifecycle!Init
  OBVIOUS
<1>1. \A id \in ActionIDs : Exists(id) =>
         rows[id].state \in {"awaiting_confirmation", "authorized"}
  BY PolicyTyped DEF Init, StoreInit, LegacyRow, Exists, Kinds
<1>2. restarts = [id \in ActionIDs |-> 0]
  BY DEF Init
<1>. QED
  BY <1>1, <1>2 DEF Lifecycle!Init

(* A transition of one row is a move of one action. *)
LEMMA TransitionMoves ==
  ASSUME TypeOK, NEW id \in ActionIDs, Exists(id), NEW event \in Events,
         NEW now \in Times, Transition(id, event, now), UNCHANGED restarts
  PROVE  Lifecycle!Move(id, event.from, event.to)
<1>1. /\ rows[id].state = event.from
      /\ rows'[id].state = event.to
      /\ \A other \in ActionIDs : other # id => rows'[other] = rows[other]
      /\ \A other \in ActionIDs : Exists(other)' <=> Exists(other)
  BY TransitionStates
<1>2. Status[id] = event.from
  BY <1>1 DEF Status
<1>3. Status' = [Status EXCEPT ![id] = event.to]
  BY <1>1 DEF Status
<1>. QED
  BY <1>2, <1>3 DEF Lifecycle!Move, Status

LEMMA CreateMoves ==
  ASSUME TypeOK, NEW r \in Requests, CreateTx(r), NEW id \in ActionIDs, id = Id(r)
  PROVE  Lifecycle!Propose(id)
<1>1. ~Exists(id) /\ UNCHANGED restarts
  BY IdTyped DEF CreateTx, upstreamVars
<1>2. call[r] \in CallRecords
  BY DEF TypeOK
<1>3. PICK kind \in Kinds, origin \in Origins, target \in Targets,
           history \in Histories \cup {NoHistory}, now \in Times :
        Insert(id, kind, origin, target, history, now)
  BY <1>2 DEF CreateTx, CallRecords, Kinds, Origins, Id
<1> DEFINE initial == Policy(origin, kind).initialState
           row == [kind |-> kind, origin |-> origin, target |-> target,
                   history |-> history,
                   supportsExecution |-> LookupDefinition[kind].supportsExecution,
                   state |-> initial, createdAt |-> now, updatedAt |-> now]
<1>4. initial \in {"awaiting_confirmation", "authorized"}
  BY PolicyTyped
<1>5. LookupDefinition[kind].supportsExecution \in BOOLEAN
  BY PolicyTyped
<1>6. rows' = [rows EXCEPT ![id] = row]
  BY <1>3 DEF Insert
<1> HIDE DEF initial
<1>7. row \in Rows /\ row.state = initial
  BY <1>4, <1>5 DEF Rows, States
<1> HIDE DEF row
<1>8. /\ rows'[id] = row
      /\ \A other \in ActionIDs : other # id => rows'[other] = rows[other]
  BY <1>1, <1>6 DEF TypeOK, StoreTypeOK
<1>9. Status[id] = "absent" /\ Status' = [Status EXCEPT ![id] = initial]
  BY <1>1, <1>7, <1>8 DEF Status, Exists
<1>. QED
  BY <1>1, <1>4, <1>9 DEF Lifecycle!Propose, Lifecycle!Move, Status

LEMMA NextRefines ==
  TypeOK /\ ExecutionInv /\ [Next]_vars => [Lifecycle!Next]_(Lifecycle!lifecycleVars)
<1> SUFFICES ASSUME TypeOK, ExecutionInv, [Next]_vars
             PROVE  [Lifecycle!Next]_(Lifecycle!lifecycleVars)
  OBVIOUS
<1> USE DEF storeVars, upstreamVars
<1>1. CASE UNCHANGED <<rows, restarts>>
  BY <1>1 DEF Lifecycle!lifecycleVars, Exists
<1>2. ASSUME NEW r \in Requests, CreateTx(r) PROVE Lifecycle!Next
  <2>0. PICK id \in ActionIDs : id = Id(r)
    BY IdTyped
  <2>1. Lifecycle!Propose(id)
    BY <1>2, <2>0, CreateMoves
  <2>. QED
    BY <2>1 DEF Lifecycle!Next
<1>3. ASSUME NEW r \in Requests, ConfirmTx(r), Awaiting(Id(r)) PROVE Lifecycle!Next
  <2>0. PICK id \in ActionIDs : id = Id(r)
    BY IdTyped
  <2>1. PICK now \in Times : Transition(id, ConfirmationEvent, now)
    BY <1>3, <2>0 DEF ConfirmTx
  <2>2. Lifecycle!Confirm(id)
    BY <1>3, <2>0, <2>1, TransitionMoves, EventsTyped, IdTyped
    DEF ConfirmTx, Awaiting, Loadable, ConfirmationEvent, Event, Lifecycle!Confirm
  <2>. QED
    BY <2>2 DEF Lifecycle!Next
<1>4. ASSUME NEW r \in Requests, CancelTx(r), Awaiting(Id(r)) PROVE Lifecycle!Next
  <2>0. PICK id \in ActionIDs : id = Id(r)
    BY IdTyped
  <2>1. PICK now \in Times : Transition(id, CancellationEvent, now)
    BY <1>4, <2>0 DEF CancelTx
  <2>2. Lifecycle!Cancel(id)
    BY <1>4, <2>0, <2>1, TransitionMoves, EventsTyped, IdTyped
    DEF CancelTx, Awaiting, Loadable, CancellationEvent, Event, Lifecycle!Cancel
  <2>. QED
    BY <2>2 DEF Lifecycle!Next
<1>5. ASSUME NEW r \in Requests, BeginTx(r), BeginAllowed(Id(r), snap[r])
      PROVE  Lifecycle!Next
  <2>0. PICK id \in ActionIDs : id = Id(r)
    BY IdTyped
  <2>1. PICK now \in Times : Transition(id, ExecutionStartedEvent, now)
    BY <1>5, <2>0 DEF BeginTx
  <2>2. Lifecycle!Begin(id)
    BY <1>5, <2>0, <2>1, TransitionMoves, EventsTyped, IdTyped
    DEF BeginTx, BeginAllowed, Loadable, ExecutionStartedEvent, Event, Lifecycle!Begin
  <2>. QED
    BY <2>2 DEF Lifecycle!Next
<1>6. ASSUME NEW r \in Requests, MiniDeployRestarts(r) PROVE Lifecycle!Next
  <2>0. PICK id \in ActionIDs : id = Id(r)
    BY IdTyped
  <2>1a. restarts[id] = 0
    BY <1>6, <2>0, NoEarlierRestart DEF MiniDeployRestarts
  <2>1b. restarts' = [restarts EXCEPT ![id] = restarts[id] + 1]
    BY <1>6, <2>0 DEF MiniDeployRestarts
  <2>1. restarts[id] = 0 /\ restarts' = [restarts EXCEPT ![id] = 1]
    BY <2>1a, <2>1b
  <2>2. Exists(id) /\ rows[id].state = "executing" /\ UNCHANGED rows
    BY <1>6, <2>0 DEF MiniDeployRestarts, ExecutionInv, BegunIsRecorded, WireHoldsExecution, Begun
  <2>3. Lifecycle!TakeEffect(id)
    BY <2>1, <2>2 DEF Lifecycle!TakeEffect, Exists
  <2>. QED
    BY <2>1, <2>3 DEF Lifecycle!Next
<1>7. ASSUME NEW r \in Requests, CompleteSuccess(r), CompleteAllowed(Id(r))
      PROVE  Lifecycle!Next
  <2>0. PICK id \in ActionIDs : id = Id(r)
    BY IdTyped
  <2>1. PICK now \in Times : Transition(id, ExecutionSucceededEvent, now)
    BY <1>7, <2>0 DEF CompleteSuccess
  <2>2. restarts[id] = 1
    BY <1>7, <2>0 DEF CompleteSuccess, ExecutionInv, HandlerHoldsExecution, WireHoldsExecution
  <2>3. Lifecycle!Succeed(id)
    BY <1>7, <2>0, <2>1, <2>2, TransitionMoves, EventsTyped, IdTyped
    DEF CompleteSuccess, CompleteAllowed, Loadable, ExecutionSucceededEvent, Event,
        Lifecycle!Succeed
  <2>. QED
    BY <2>3 DEF Lifecycle!Next
<1>8. ASSUME NEW r \in Requests, CompleteFailure(r), CompleteAllowed(Id(r))
      PROVE  Lifecycle!Next
  <2>0. PICK id \in ActionIDs : id = Id(r)
    BY IdTyped
  <2>1. PICK now \in Times : Transition(id, ExecutionFailedEvent(category[r]), now)
    BY <1>8, <2>0 DEF CompleteFailure
  <2>2. /\ ExecutionFailedEvent(category[r]) \in Events
        /\ ExecutionFailedEvent(category[r]).from = "executing"
        /\ ExecutionFailedEvent(category[r]).to = "failed"
    BY EventsTyped DEF ExecutionFailedEvent, Event, TypeOK
  <2>3. restarts[id] = 0
    <3>1. pc[r] = "complete_failure" /\ wire[r] # "restarted"
      BY <1>8, <2>0 DEF CompleteFailure, ExecutionInv, HandlerHoldsExecution
    <3>2. \A q \in Requests : wire[q] = "restarted" => Id(q) # id
      BY <2>0, <3>1 DEF ExecutionInv, OneExecution, Begun, ExecutingPCs
    <3>. QED
      BY <3>2, IdTyped DEF ExecutionInv, RestartsAreOwned
  <2>4. Lifecycle!Fail(id)
    BY <1>8, <2>0, <2>1, <2>2, <2>3, TransitionMoves, IdTyped
    DEF CompleteFailure, CompleteAllowed, Loadable, Lifecycle!Fail
  <2>. QED
    BY <2>4 DEF Lifecycle!Next
<1>9. ASSUME NEW r \in Requests, Start(r) \/ Handler(r) \/ MiniDeploy(r) \/ StorageFault(r)
      PROVE  [Lifecycle!Next]_(Lifecycle!lifecycleVars)
  <2>1. CASE Handler(r)
    BY <1>1, <1>2, <1>3, <1>4, <1>5, <1>7, <1>8, <2>1
    DEF Handler, LoadRow, LoadAccepted, LoadRejected, ConfirmTx, CancelTx, Refuse, BeginTx,
        SendFails, SendWrites, ReplySuccess, ReplyRefused, ReplyUnknown, CompleteSuccess,
        CompleteFailure, LockSuggestion, QuerySuggestions
  <2>2. CASE MiniDeploy(r)
    BY <1>1, <1>6, <2>2 DEF MiniDeploy, MiniDeployRefuses
  <2>3. CASE Start(r) \/ StorageFault(r)
    BY <1>1, <2>3 DEF Start, StorageFault
  <2>. QED
    BY <1>9, <2>1, <2>2, <2>3
<1>10. CASE Crash \/ UNCHANGED vars
  BY <1>1, <1>10 DEF Crash, vars
<1>. QED
  BY <1>9, <1>10 DEF Next

(* Every behaviour of the service is, action by action, a behaviour of the *)
(* one-shot lifecycle: an effect only while executing, at most once, and   *)
(* an end state that agrees with it.                                       *)
THEOREM ServiceImplementsLifecycle == Spec => LifecycleSpec
BY InitRefines, NextRefines, TypeInvariant, ExecutionInvariant, PTL
DEF Spec, LifecycleSpec, Lifecycle!Spec
--------------------------------------------------------------------------------
(***************************************************************************)
(* The audit trail: what a load accepts, every transaction keeps acceptable. *)
(***************************************************************************)

(* The events of a log, in order. *)
LEMMA StoredEventsTyped ==
  ASSUME NEW log \in Seq(LogEntries)
  PROVE  StoredEvents(log) \in Seq(Events) /\ Len(StoredEvents(log)) = Len(log)
<1>1. \A i \in 1 .. Len(log) : log[i] \in LogEntries
  BY ElementOfSeq
<1>1a. \A e \in LogEntries : e.event \in Events
  BY DEF LogEntries
<1>2. StoredEvents(log) = [i \in 1 .. Len(log) |-> log[i].event] /\ Len(log) \in Nat
  BY LenProperties DEF StoredEvents
<1>3. StoredEvents(log) \in Seq(Events)
  BY <1>1, <1>1a, <1>2, IsASeq
<1>4. DOMAIN StoredEvents(log) = 1 .. Len(log)
  BY <1>2
<1>. QED
  BY <1>2, <1>3, <1>4, LenProperties

LEMMA StoredEventsGrow ==
  ASSUME NEW log \in Seq(LogEntries), NEW entry \in LogEntries
  PROVE  StoredEvents(Append(log, entry)) = Append(StoredEvents(log), entry.event)
<1>1. Append(log, entry) \in Seq(LogEntries) /\ entry.event \in Events
  BY DEF LogEntries
<1>2. \A i \in 1 .. Len(log) + 1 :
        StoredEvents(Append(log, entry))[i] = Append(StoredEvents(log), entry.event)[i]
  BY <1>1, StoredEventsTyped DEF StoredEvents
<1>3. /\ Append(StoredEvents(log), entry.event) \in Seq(Events)
      /\ StoredEvents(Append(log, entry)) \in Seq(Events)
  <2>1. StoredEvents(log) \in Seq(Events)
    BY StoredEventsTyped
  <2>2. Append(StoredEvents(log), entry.event) \in Seq(Events)
    BY <1>1, <2>1, AppendProperties
  <2>. QED
    BY <1>1, <2>2, StoredEventsTyped
<1>4. /\ Len(Append(StoredEvents(log), entry.event)) = Len(log) + 1
      /\ Len(StoredEvents(Append(log, entry))) = Len(log) + 1
  <2>1. Len(Append(StoredEvents(log), entry.event)) = Len(StoredEvents(log)) + 1
    BY <1>1, StoredEventsTyped, AppendProperties
  <2>2. Len(Append(log, entry)) = Len(log) + 1
    BY AppendProperties
  <2>. QED
    BY <1>1, <2>1, <2>2, StoredEventsTyped
<1>. QED
  BY <1>2, <1>3, <1>4, SeqEqual

LEMMA AppendAfter ==
  ASSUME NEW s \in Seq(Events), NEW e \in Events
  PROVE  Append(s, e) = s \o <<e>> /\ s \o <<>> = s /\ s \o <<e>> \in Seq(Events)
  BY AppendIsConcat, ConcatEmptySeq

(* The head of a chain: the creation and the decision on the action. *)
DecisionEvents(initial, current) ==
  <<CreationEvent(initial)>>
    \o (IF initial = "authorized" \/ current = "awaiting_confirmation" THEN <<>>
        ELSE IF current = "cancelled" THEN <<CancellationEvent>>
        ELSE <<ConfirmationEvent>>)

LEMMA DecisionEventsTyped ==
  ASSUME NEW initial \in States, NEW current \in States
  PROVE  DecisionEvents(initial, current) \in Seq(Events)
<1>1. <<CreationEvent(initial)>> \in Seq(Events)
  BY EventsTyped
<1>. QED
  BY <1>1, EventsTyped, AppendAfter DEF DecisionEvents

(* The chain of a state: the decision, then the execution as far as it got. *)
LEMMA ExpectedChains ==
  ASSUME NEW initial \in States, NEW current \in States,
         NEW c \in FailureCategories \cup {NoCategory}
  PROVE  LET decided == DecisionEvents(initial, current)
         IN  /\ current \notin ExecutionStates => ExpectedEvents(initial, current, c) = decided
             /\ current = "executing" =>
                  ExpectedEvents(initial, current, c) = Append(decided, ExecutionStartedEvent)
             /\ current = "succeeded" => ExpectedEvents(initial, current, c) =
                  Append(Append(decided, ExecutionStartedEvent), ExecutionSucceededEvent)
             /\ current = "failed" => ExpectedEvents(initial, current, c) =
                  Append(Append(decided, ExecutionStartedEvent), ExecutionFailedEvent(c))
<1> DEFINE decided == DecisionEvents(initial, current)
<1>1. decided \in Seq(Events)
  BY DecisionEventsTyped
<1>2. ExpectedEvents(initial, current, c) =
        (decided \o (IF current \in ExecutionStates THEN <<ExecutionStartedEvent>> ELSE <<>>))
          \o (IF current = "succeeded" THEN <<ExecutionSucceededEvent>>
              ELSE IF current = "failed" THEN <<ExecutionFailedEvent(c)>> ELSE <<>>)
  BY DEF ExpectedEvents, DecisionEvents
<1> HIDE DEF decided
<1>3. decided \o <<>> = decided
  BY <1>1, AppendAfter
<1>4. /\ decided \o <<ExecutionStartedEvent>> = Append(decided, ExecutionStartedEvent)
      /\ Append(decided, ExecutionStartedEvent) \in Seq(Events)
  BY <1>1, AppendAfter, EventsTyped
<1>5. \A e \in Events : Append(decided, ExecutionStartedEvent) \o <<e>>
           = Append(Append(decided, ExecutionStartedEvent), e)
  BY <1>4, AppendAfter
<1>6. Append(decided, ExecutionStartedEvent) \o <<>> = Append(decided, ExecutionStartedEvent)
  BY <1>4, AppendAfter
<1>7. CASE current \notin ExecutionStates
  BY <1>2, <1>3, <1>7 DEF ExecutionStates, decided
<1>8. CASE current = "executing"
  BY <1>2, <1>4, <1>6, <1>8 DEF ExecutionStates, decided
<1>9. CASE current = "succeeded"
  BY <1>2, <1>4, <1>5, <1>9, EventsTyped DEF ExecutionStates, decided
<1>10. CASE current = "failed"
  BY <1>2, <1>4, <1>5, <1>10, EventsTyped DEF ExecutionStates, decided
<1>. QED
  BY <1>7, <1>8, <1>9, <1>10 DEF ExecutionStates

LEMMA DecisionsTaken ==
  /\ \A current \in States : DecisionEvents("authorized", current) = <<CreationEvent("authorized")>>
  /\ DecisionEvents("awaiting_confirmation", "awaiting_confirmation")
       = <<CreationEvent("awaiting_confirmation")>>
  /\ DecisionEvents("awaiting_confirmation", "cancelled")
       = Append(<<CreationEvent("awaiting_confirmation")>>, CancellationEvent)
  /\ \A current \in {"authorized"} \cup ExecutionStates :
       DecisionEvents("awaiting_confirmation", current)
         = Append(<<CreationEvent("awaiting_confirmation")>>, ConfirmationEvent)
<1>1. \A initial \in States : <<CreationEvent(initial)>> \in Seq(Events)
  BY EventsTyped
<1>2. "authorized" \in States /\ "awaiting_confirmation" \in States
  BY DEF States
<1>. QED
  BY <1>1, <1>2, EventsTyped, AppendAfter DEF DecisionEvents, ExecutionStates

(* Appending the event of a move of the lifecycle to the chain of the      *)
(* state it leaves gives the chain of the state it enters.                 *)
Moves == {ConfirmationEvent, CancellationEvent, ExecutionStartedEvent, ExecutionSucceededEvent}
           \cup {ExecutionFailedEvent(c) : c \in FailureCategories}

LEMMA MoveEnds ==
  /\ ConfirmationEvent.from = "awaiting_confirmation" /\ ConfirmationEvent.to = "authorized"
  /\ CancellationEvent.from = "awaiting_confirmation" /\ CancellationEvent.to = "cancelled"
  /\ ExecutionStartedEvent.from = "authorized" /\ ExecutionStartedEvent.to = "executing"
  /\ ExecutionSucceededEvent.from = "executing" /\ ExecutionSucceededEvent.to = "succeeded"
  /\ \A c : ExecutionFailedEvent(c).from = "executing" /\ ExecutionFailedEvent(c).to = "failed"
BY DEF Event, ConfirmationEvent, CancellationEvent, ExecutionStartedEvent,
    ExecutionSucceededEvent, ExecutionFailedEvent

LEMMA ChainsGrow ==
  ASSUME NEW initial \in {"awaiting_confirmation", "authorized"}, NEW event \in Moves,
         NEW events, ValidateRestorationEvents(initial, event.from, events)
  PROVE  ValidateRestorationEvents(initial, event.to, Append(events, event))
<1>1. StateReachableFromInitial(initial, event.to)
  BY MoveEnds DEF ValidateRestorationEvents, StateReachableFromInitial, Moves
<1>2. event.from # "failed" /\ events = ExpectedEvents(initial, event.from, NoCategory)
  BY MoveEnds DEF ValidateRestorationEvents, Moves
<1>3. event.from \in States /\ event.to \in States /\ initial \in States
  BY MoveEnds DEF Moves, States
<1>4. CASE event = ConfirmationEvent
  <2>1. initial = "awaiting_confirmation"
    BY <1>4, MoveEnds DEF ValidateRestorationEvents, StateReachableFromInitial
  <2>2. events = DecisionEvents(initial, "awaiting_confirmation")
    BY <1>2, <1>3, <1>4, ExpectedChains, MoveEnds DEF ExecutionStates
  <2>3. ExpectedEvents(initial, "authorized", NoCategory) = DecisionEvents(initial, "authorized")
    BY <1>3, <1>4, ExpectedChains, MoveEnds DEF ExecutionStates
  <2>. QED
    BY <1>1, <1>4, <2>1, <2>2, <2>3, DecisionsTaken, MoveEnds DEF ValidateRestorationEvents
<1>5. CASE event = CancellationEvent
  <2>1. initial = "awaiting_confirmation"
    BY <1>5, MoveEnds DEF ValidateRestorationEvents, StateReachableFromInitial
  <2>2. events = DecisionEvents(initial, "awaiting_confirmation")
    BY <1>2, <1>3, <1>5, ExpectedChains, MoveEnds DEF ExecutionStates
  <2>3. ExpectedEvents(initial, "cancelled", NoCategory) = DecisionEvents(initial, "cancelled")
    BY <1>3, <1>5, ExpectedChains, MoveEnds DEF ExecutionStates
  <2>. QED
    BY <1>1, <1>5, <2>1, <2>2, <2>3, DecisionsTaken, MoveEnds DEF ValidateRestorationEvents
<1>6. \A current \in ExecutionStates :
        DecisionEvents(initial, current) = DecisionEvents(initial, "authorized")
  BY DecisionsTaken DEF ExecutionStates, States
<1>7. CASE event = ExecutionStartedEvent
  <2>1. events = DecisionEvents(initial, "authorized")
    BY <1>2, <1>3, <1>7, ExpectedChains, MoveEnds DEF ExecutionStates
  <2>2. ExpectedEvents(initial, "executing", NoCategory)
          = Append(DecisionEvents(initial, "executing"), ExecutionStartedEvent)
    BY <1>3, <1>7, ExpectedChains, MoveEnds
  <2>. QED
    BY <1>1, <1>6, <1>7, <2>1, <2>2, MoveEnds DEF ValidateRestorationEvents, ExecutionStates
<1>8. CASE event.from = "executing"
  <2>1. events = Append(DecisionEvents(initial, "authorized"), ExecutionStartedEvent)
    BY <1>2, <1>3, <1>6, <1>8, ExpectedChains DEF ExecutionStates
  <2>2. CASE event = ExecutionSucceededEvent
    <3>1. ExpectedEvents(initial, "succeeded", NoCategory) = Append(Append(
             DecisionEvents(initial, "succeeded"), ExecutionStartedEvent), event)
      BY <1>3, <2>2, ExpectedChains, MoveEnds
    <3>. QED
      BY <1>1, <1>6, <2>1, <2>2, <3>1, MoveEnds DEF ValidateRestorationEvents, ExecutionStates
  <2>3. ASSUME NEW f \in FailureCategories, event = ExecutionFailedEvent(f)
        PROVE  ValidateRestorationEvents(initial, event.to, Append(events, event))
    <3>1. ExpectedEvents(initial, "failed", f) = Append(Append(
             DecisionEvents(initial, "failed"), ExecutionStartedEvent), event)
      <4>1. "failed" \in States /\ f \in FailureCategories \cup {NoCategory}
        BY DEF States
      <4>2. ExpectedEvents(initial, "failed", f) = Append(Append(
               DecisionEvents(initial, "failed"), ExecutionStartedEvent), ExecutionFailedEvent(f))
        BY <1>3, <4>1, ExpectedChains
      <4>. QED
        BY <2>3, <4>2
    <3>. QED
      BY <1>1, <1>6, <2>1, <2>3, <3>1, MoveEnds DEF ValidateRestorationEvents, ExecutionStates
  <2>. QED
    BY <1>8, <2>2, <2>3, MoveEnds DEF Moves
<1>. QED
  BY <1>4, <1>5, <1>7, <1>8, MoveEnds DEF Moves

(* An event stamped no earlier than the last update keeps the timestamps   *)
(* of a row and its log in agreement.                                      *)
LEMMA TimestampsGrow ==
  ASSUME NEW row \in Rows, NEW log \in Seq(LogEntries), TimestampsMatch(row, log),
         NEW at \in Times, row.updatedAt <= at, NEW event \in Events, NEW grown \in Rows,
         grown.createdAt = row.createdAt, grown.updatedAt = at
  PROVE  TimestampsMatch(grown, Append(log, [event |-> event, at |-> at]))
<1> DEFINE entry == [event |-> event, at |-> at]
           longer == Append(log, entry)
<1>1. entry \in LogEntries /\ entry.at = at
  BY DEF LogEntries
<1> HIDE DEF entry
<1>2. /\ longer # <<>> /\ Len(longer) = Len(log) + 1
      /\ \A i \in 1 .. Len(log) : longer[i] = log[i]
      /\ longer[Len(log) + 1] = entry
  BY <1>1, AppendProperties
<1>3. Len(log) \in Nat \ {0}
  BY EmptySeq DEF TimestampsMatch
<1> HIDE DEF longer
<1>4. /\ row.createdAt \in Nat /\ row.updatedAt \in Nat /\ at \in Nat
  BY TimesAssumption DEF Rows
<1>5. \A i \in 1 .. Len(log) : log[i].at \in Nat
  <2>1. \A i \in 1 .. Len(log) : log[i] \in LogEntries
    BY ElementOfSeq
  <2>. QED
    BY <2>1, TimesAssumption DEF LogEntries
<1>6. \A i \in 1 .. Len(longer) - 1 : longer[i].at <= longer[i + 1].at
  <2>1. TAKE i \in 1 .. Len(longer) - 1
  <2>2. CASE i = Len(log)
    BY <1>1, <1>2, <1>3, <2>2 DEF TimestampsMatch
  <2>3. CASE i # Len(log)
    BY <1>2, <1>3, <2>3 DEF TimestampsMatch
  <2>. QED
    BY <2>2, <2>3
<1>7. longer[1].at = grown.createdAt /\ longer[Len(longer)].at = grown.updatedAt
  BY <1>1, <1>2, <1>3 DEF TimestampsMatch
<1>8. grown.createdAt <= grown.updatedAt
  BY <1>4 DEF TimestampsMatch
<1>9. TimestampsMatch(grown, longer)
  BY <1>2, <1>6, <1>7, <1>8 DEF TimestampsMatch
<1>. QED
  BY <1>9 DEF longer, entry

(* A guarded move keeps a readable action readable. *)
LEMMA ReadableGrows ==
  ASSUME TypeOK, NEW id \in ActionIDs, Loadable(id), NEW event \in Moves,
         NEW now \in Times, Transition(id, event, now),
         event.to \in ExecutionStates => rows[id].kind = "restart_application"
  PROVE  Readable(rows'[id], logs'[id])
<1>1. rows[id] \in Rows /\ logs[id] \in Seq(LogEntries)
  BY DEF Loadable, Exists, TypeOK, StoreTypeOK
<1>2. event \in Events /\ event.to \in States \ {"proposed"}
  BY EventsTyped, MoveEnds DEF Moves, States
<1>3. Stamp(id, now) \in Times /\ rows[id].updatedAt <= Stamp(id, now)
  <2>1. rows[id].updatedAt \in Times
    BY <1>1 DEF Rows
  <2>2. rows[id].updatedAt \in Nat /\ now \in Nat
    BY <2>1, TimesAssumption
  <2>. QED
    BY <2>1, <2>2 DEF Stamp
<1> DEFINE grown == [rows[id] EXCEPT !.state = event.to, !.updatedAt = Stamp(id, now)]
           entry == [event |-> event, at |-> Stamp(id, now)]
<1>4. rows'[id] = grown /\ logs'[id] = Append(logs[id], entry)
  BY DEF Transition, TypeOK, StoreTypeOK
<1>5. /\ grown \in Rows /\ grown.createdAt = rows[id].createdAt
      /\ grown.updatedAt = Stamp(id, now) /\ grown.state = event.to
      /\ grown.kind = rows[id].kind /\ grown.origin = rows[id].origin
      /\ grown.supportsExecution = rows[id].supportsExecution
  BY <1>1, <1>2, <1>3 DEF Rows
<1>6. entry \in LogEntries /\ entry.event = event
  BY <1>2, <1>3 DEF LogEntries
<1> HIDE DEF grown
<1>7. TimestampsMatch(grown, Append(logs[id], entry))
  BY <1>1, <1>2, <1>3, <1>5, TimestampsGrow DEF Loadable, Readable
<1> HIDE DEF entry
<1>8. StoredEvents(Append(logs[id], entry)) = Append(StoredEvents(logs[id]), event)
  BY <1>1, <1>6, StoredEventsGrow
<1>9. rows[id].kind \in Kinds /\ rows[id].origin \in Origins /\ rows[id].state = event.from
  BY <1>1 DEF Rows, Transition
<1>10. RestoreProposal(grown.kind, grown.origin, event.to,
                       Append(StoredEvents(logs[id]), event))
  <2>1. Policy(rows[id].origin, rows[id].kind).initialState
          \in {"awaiting_confirmation", "authorized"}
    BY <1>9, PolicyTyped
  <2>. QED
    BY <1>2, <1>5, <1>9, <2>1, ChainsGrow DEF Loadable, Readable, RestoreProposal
<1>11. ValidStoredActionExecutionPolicy(grown)
  BY <1>5 DEF Loadable, Readable, ValidStoredActionExecutionPolicy
<1>. QED
  BY <1>4, <1>5, <1>7, <1>8, <1>10, <1>11 DEF Readable

(* A new row and its creation event are readable. *)
LEMMA NewIsReadable ==
  ASSUME NEW row \in Rows, NEW at \in Times,
         row.state = Policy(row.origin, row.kind).initialState,
         ValidStoredActionExecutionPolicy(row), row.createdAt = at, row.updatedAt = at
  PROVE  Readable(row, <<[event |-> CreationEvent(row.state), at |-> at]>>)
<1> DEFINE log == <<[event |-> CreationEvent(row.state), at |-> at]>>
<1>1. row.state \in {"awaiting_confirmation", "authorized"} /\ row.state \in States
  BY PolicyTyped DEF Rows
<1>2. TimestampsMatch(row, log)
  BY TimesAssumption DEF TimestampsMatch
<1>3. StoredEvents(log) = <<CreationEvent(row.state)>>
  BY DEF StoredEvents
<1>4. ExpectedEvents(row.state, row.state, NoCategory) = <<CreationEvent(row.state)>>
  BY <1>1, ExpectedChains, DecisionsTaken DEF ExecutionStates
<1>5. StateReachableFromInitial(row.state, row.state)
  BY <1>1 DEF StateReachableFromInitial
<1>. QED
  BY <1>1, <1>2, <1>3, <1>4, <1>5
  DEF Readable, RestoreProposal, ValidateRestorationEvents, ExecutionStates

(* The table changes only by the insertion of a proposal and by a guarded  *)
(* move of a readable row; an execution state is entered only by a restart *)
(* that supports execution.                                                *)
StoreMoves(id) ==
  /\ Loadable(id)
  /\ \E event \in Moves, now \in Times :
       /\ Transition(id, event, now)
       /\ event.to \in ExecutionStates =>
            rows[id].kind = "restart_application" /\ rows[id].supportsExecution

(* A handler about to record a failure knows its category. *)
CategoryKnown ==
  \A r \in Requests : pc[r] = "complete_failure" => category[r] \in FailureCategories

LEMMA StoreSteps ==
  ASSUME TypeOK, CategoryKnown, [Next]_vars
  PROVE  \/ UNCHANGED <<rows, logs>>
         \/ \E r \in Requests : CreateTx(r)
         \/ \E id \in ActionIDs : StoreMoves(id)
<1> USE DEF storeVars
<1>1. ASSUME NEW r \in Requests, ConfirmTx(r) \/ CancelTx(r), Awaiting(Id(r))
      PROVE  StoreMoves(Id(r))
  BY <1>1, MoveEnds DEF StoreMoves, ConfirmTx, CancelTx, Awaiting, Moves, ExecutionStates
<1>2. ASSUME NEW r \in Requests, BeginTx(r), BeginAllowed(Id(r), snap[r])
      PROVE  StoreMoves(Id(r))
  BY <1>2 DEF StoreMoves, BeginTx, BeginAllowed, ValidateRestartExecutionFoundation, Moves
<1>3. ASSUME NEW r \in Requests, CompleteSuccess(r), CompleteAllowed(Id(r))
      PROVE  StoreMoves(Id(r))
  BY <1>3 DEF StoreMoves, CompleteSuccess, CompleteAllowed,
              ValidateRestartExecutionFoundation, Moves
<1>4. ASSUME NEW r \in Requests, CompleteFailure(r), CompleteAllowed(Id(r))
      PROVE  StoreMoves(Id(r))
  BY <1>4 DEF StoreMoves, CompleteFailure, CompleteAllowed, CategoryKnown,
              ValidateRestartExecutionFoundation, Moves
<1>5. ASSUME NEW r \in Requests, Start(r) \/ Handler(r) \/ MiniDeploy(r) \/ StorageFault(r),
             ~CreateTx(r), ~UNCHANGED <<rows, logs>>
      PROVE  StoreMoves(Id(r))
  BY <1>1, <1>2, <1>3, <1>4, <1>5
  DEF Start, Handler, LoadRow, LoadAccepted, LoadRejected, ConfirmTx, CancelTx, Refuse,
      BeginTx, SendFails, SendWrites, ReplySuccess, ReplyRefused, ReplyUnknown,
      CompleteSuccess, CompleteFailure, LockSuggestion, QuerySuggestions,
      MiniDeploy, MiniDeployRestarts, MiniDeployRefuses, StorageFault
<1>6. CASE Crash \/ UNCHANGED vars
  BY <1>6 DEF Crash, vars
<1>. QED
  BY <1>5, <1>6, IdTyped DEF Next

(* What the two kinds of store step do to each row. *)
LEMMA MoveChanges ==
  ASSUME TypeOK, NEW id \in ActionIDs, StoreMoves(id)
  PROVE  /\ Readable(rows'[id], logs'[id])
         /\ Exists(id) /\ rows'[id] \in Rows
         /\ rows'[id].kind = rows[id].kind /\ rows'[id].origin = rows[id].origin
         /\ rows'[id].history = rows[id].history
         /\ rows'[id].supportsExecution = rows[id].supportsExecution
         /\ rows'[id].state \in ExecutionStates => rows[id].supportsExecution
         /\ ValidateStateTransition(rows[id].state, rows'[id].state)
         /\ \A other \in ActionIDs \ {id} :
              rows'[other] = rows[other] /\ logs'[other] = logs[other]
<1>1. PICK event \in Moves, now \in Times :
        /\ Transition(id, event, now)
        /\ event.to \in ExecutionStates =>
             rows[id].kind = "restart_application" /\ rows[id].supportsExecution
  BY DEF StoreMoves
<1>2. Readable(rows'[id], logs'[id])
  BY <1>1, ReadableGrows DEF StoreMoves
<1>3. rows[id] \in Rows /\ Exists(id)
  BY DEF StoreMoves, Loadable, Exists, TypeOK, StoreTypeOK
<1>4. event.to \in States
  BY EventsTyped, MoveEnds DEF Moves, States
<1>5. Stamp(id, now) \in Times
  BY <1>3 DEF Stamp, Rows
<1>6. rows' = [rows EXCEPT ![id] =
         [rows[id] EXCEPT !.state = event.to, !.updatedAt = Stamp(id, now)]]
  BY <1>1 DEF Transition, TypeOK, StoreTypeOK
<1>7. rows'[id] = [rows[id] EXCEPT !.state = event.to, !.updatedAt = Stamp(id, now)]
  BY <1>6 DEF TypeOK, StoreTypeOK
<1>8. /\ rows'[id] \in Rows /\ rows'[id].state = event.to
      /\ rows'[id].kind = rows[id].kind /\ rows'[id].origin = rows[id].origin
      /\ rows'[id].history = rows[id].history
      /\ rows'[id].supportsExecution = rows[id].supportsExecution
  BY <1>3, <1>4, <1>5, <1>7 DEF Rows
<1>9. ValidateStateTransition(rows[id].state, rows'[id].state)
  BY <1>1, <1>8 DEF Transition
<1>10. \A other \in ActionIDs \ {id} :
         rows'[other] = rows[other] /\ logs'[other] = logs[other]
  BY <1>1 DEF Transition, TypeOK, StoreTypeOK
<1>. QED
  BY <1>1, <1>2, <1>3, <1>8, <1>9, <1>10

LEMMA CreateChanges ==
  ASSUME TypeOK, NEW r \in Requests, CreateTx(r)
  PROVE  LET row == rows'[Id(r)]
         IN  /\ ~Exists(Id(r)) /\ row \in Rows
             /\ row.state = Policy(row.origin, row.kind).initialState
             /\ row.supportsExecution = LookupDefinition[row.kind].supportsExecution
             /\ Readable(row, logs'[Id(r)])
             /\ row.origin = "assistant_suggested" =>
                  call[r].op = "suggest" /\ row.history = call[r].history
             /\ \A other \in ActionIDs \ {Id(r)} :
                  rows'[other] = rows[other] /\ logs'[other] = logs[other]
<1>1. call[r] \in CallRecords /\ Id(r) \in ActionIDs /\ call[r].id = Id(r)
  BY IdTyped DEF TypeOK, Id
<1> DEFINE suggestion == call[r].op = "suggest"
<1>2. PICK kind \in Kinds, origin \in Origins, history \in Histories \cup {NoHistory},
           now \in Times :
        /\ Insert(Id(r), kind, origin, call[r].target, history, now)
        /\ origin = "assistant_suggested" => suggestion /\ history = call[r].history
  <2>1. PICK now \in Times :
          IF suggestion
            THEN Insert(Id(r), "restart_application", "assistant_suggested",
                        call[r].target, call[r].history, now)
            ELSE Insert(Id(r), call[r].kind, "direct_user", call[r].target, NoHistory, now)
    BY <1>1 DEF CreateTx
  <2>2. /\ "restart_application" \in Kinds /\ call[r].kind \in Kinds
        /\ "assistant_suggested" \in Origins /\ "direct_user" \in Origins
        /\ call[r].history \in Histories \cup {NoHistory}
    BY <1>1 DEF CallRecords, Kinds, Origins
  <2>3. CASE suggestion
    BY <2>1, <2>2, <2>3
  <2>4. CASE ~suggestion
    BY <2>1, <2>2, <2>4
  <2>. QED
    BY <2>3, <2>4
<1> DEFINE initial == Policy(origin, kind).initialState
           supports == LookupDefinition[kind].supportsExecution
           row == [kind |-> kind, origin |-> origin, target |-> call[r].target,
                   history |-> history, supportsExecution |-> supports,
                   state |-> initial, createdAt |-> now, updatedAt |-> now]
<1>3. initial \in States /\ supports \in BOOLEAN
  BY PolicyTyped DEF States
<1>4. /\ rows' = [rows EXCEPT ![Id(r)] = row]
      /\ logs' = [logs EXCEPT ![Id(r)] = <<[event |-> CreationEvent(initial), at |-> now]>>]
  BY <1>2 DEF Insert
<1>5. /\ rows'[Id(r)] = row
      /\ logs'[Id(r)] = <<[event |-> CreationEvent(initial), at |-> now]>>
      /\ \A other \in ActionIDs \ {Id(r)} :
           rows'[other] = rows[other] /\ logs'[other] = logs[other]
  BY <1>1, <1>4 DEF TypeOK, StoreTypeOK
<1> HIDE DEF initial, supports
<1>6. row \in Rows
  BY <1>1, <1>3 DEF Rows, CallRecords
<1>7. row.kind = kind /\ row.origin = origin /\ row.supportsExecution = supports
      /\ row.state = initial /\ row.history = history
      /\ row.createdAt = now /\ row.updatedAt = now
  OBVIOUS
<1> HIDE DEF row
<1>8. row.state = Policy(row.origin, row.kind).initialState
      /\ row.supportsExecution = LookupDefinition[row.kind].supportsExecution
  BY <1>7 DEF initial, supports
<1>9. ValidStoredActionExecutionPolicy(row)
  BY <1>8 DEF ValidStoredActionExecutionPolicy
<1>10. Readable(row, <<[event |-> CreationEvent(row.state), at |-> now]>>)
  BY <1>6, <1>7, <1>8, <1>9, NewIsReadable
<1>11. ~Exists(Id(r))
  BY DEF CreateTx
<1>. QED
  BY <1>2, <1>5, <1>6, <1>7, <1>8, <1>10, <1>11

(* The inductive invariant behind AuditTrailIntact. *)
AuditInv == AuditTrailIntact /\ CategoryKnown

LEMMA InitAudit == Init => AuditInv
<1> SUFFICES ASSUME Init PROVE AuditInv
  OBVIOUS
<1>1. PICK stored \in SUBSET LegacyIDs, origin \in Origins, target \in Targets, now \in Times :
        LET legacy == LegacyRow(origin, target, now)
        IN  /\ rows = [id \in ActionIDs |-> IF id \in stored THEN legacy ELSE NoRow]
            /\ logs = [id \in ActionIDs |->
                          IF id \in stored
                            THEN <<[event |-> CreationEvent(legacy.state), at |-> now]>>
                            ELSE <<>>]
  BY DEF Init, StoreInit
<1> DEFINE legacy == LegacyRow(origin, target, now)
<1>2. /\ legacy \in Rows /\ legacy.state = Policy(legacy.origin, legacy.kind).initialState
      /\ ValidStoredActionExecutionPolicy(legacy)
      /\ legacy.createdAt = now /\ legacy.updatedAt = now
  BY PolicyTyped DEF LegacyRow, Rows, Kinds, States, ValidStoredActionExecutionPolicy
<1> HIDE DEF legacy
<1>3. Readable(legacy, <<[event |-> CreationEvent(legacy.state), at |-> now]>>)
  BY <1>2, NewIsReadable
<1>4. AuditTrailIntact
  BY <1>1, <1>3 DEF AuditTrailIntact, Exists, legacy
<1>5. CategoryKnown
  BY DEF Init, CategoryKnown
<1>. QED
  BY <1>4, <1>5 DEF AuditInv

(* A step of one request leaves the others as they are. *)
LEMMA OthersKeep ==
  ASSUME TypeOK, NEW r \in Requests,
         Start(r) \/ Handler(r) \/ MiniDeploy(r) \/ StorageFault(r),
         NEW q \in Requests, q # r
  PROVE  /\ pc'[q] = pc[q] /\ call'[q] = call[q] /\ answer'[q] = answer[q]
         /\ snap'[q] = snap[q] /\ category'[q] = category[q]
BY DEF Start, Handler, CreateTx, LoadRow, LoadAccepted, LoadRejected, HandleConfirm,
       HandleExecute, HandleSuggest, LoadFailed, ConfirmTx, CancelTx, Refuse, BeginTx,
       SendFails, SendWrites, ReplySuccess, ReplyRefused, ReplyUnknown, CompleteSuccess,
       CompleteFailure, LockSuggestion, QuerySuggestions, MiniDeploy, MiniDeployRestarts,
       MiniDeployRefuses, StorageFault, Finish, Continue, Goto, requestVars, TypeOK

LEMMA NextAudit == TypeOK /\ AuditInv /\ [Next]_vars => AuditInv'
<1> SUFFICES ASSUME TypeOK, AuditInv, [Next]_vars PROVE AuditInv'
  OBVIOUS
<1>1. AuditTrailIntact'
  <2>1. CASE UNCHANGED <<rows, logs>>
    BY <2>1 DEF AuditInv, AuditTrailIntact, Exists
  <2>2. ASSUME NEW r \in Requests, CreateTx(r) PROVE AuditTrailIntact'
    BY <2>2, CreateChanges, IdTyped DEF AuditInv, AuditTrailIntact, Exists
  <2>3. ASSUME NEW id \in ActionIDs, StoreMoves(id) PROVE AuditTrailIntact'
    BY <2>3, MoveChanges DEF AuditInv, AuditTrailIntact, Exists
  <2>. QED
    BY <2>1, <2>2, <2>3, StoreSteps DEF AuditInv
<1>2. CategoryKnown'
  <2>1. ASSUME NEW r \in Requests, Start(r) \/ Handler(r) \/ MiniDeploy(r) \/ StorageFault(r)
        PROVE  CategoryKnown'
    <3>1. ASSUME NEW q \in Requests, q # r PROVE pc'[q] = pc[q] /\ category'[q] = category[q]
      BY <2>1, <3>1, OthersKeep
    <3>2. pc'[r] = "complete_failure" => category'[r] \in FailureCategories
      <4>1. FirstStep \in [Operations -> PCs \ {"complete_failure"}]
        BY DEF FirstStep, Operations, PCs
      <4>2. CASE Start(r)
        <5>1. PICK c \in Calls : Goto(r, FirstStep[c.op])
          BY <4>2 DEF Start
        <5>2. c.op \in Operations
          BY CallsAssumption DEF CallRecords
        <5>. QED
          BY <4>1, <5>1, <5>2 DEF Goto, TypeOK
      <4>3. CASE SendFails(r) \/ ReplyRefused(r)
        BY <4>3 DEF SendFails, ReplyRefused, TypeOK, FailureCategories
      <4>4. CASE MiniDeploy(r)
        BY <4>4 DEF MiniDeploy, MiniDeployRestarts, MiniDeployRefuses, requestVars,
                    AuditInv, CategoryKnown
      <4>5. CASE Handler(r) /\ ~SendFails(r) /\ ~ReplyRefused(r)
        BY <4>5
        DEF Handler, CreateTx, LoadRow, LoadAccepted, LoadRejected, HandleConfirm,
            HandleExecute, HandleSuggest, LoadFailed, ConfirmTx, CancelTx, Refuse, BeginTx,
            SendWrites, ReplySuccess, ReplyUnknown, CompleteSuccess,
            CompleteFailure, LockSuggestion, QuerySuggestions, Finish, Continue, Goto, TypeOK
      <4>6. CASE StorageFault(r)
        BY <4>6 DEF StorageFault, Finish, Goto, TypeOK
      <4>. QED
        BY <2>1, <4>2, <4>3, <4>4, <4>5, <4>6
    <3>. QED
      BY <3>1, <3>2 DEF AuditInv, CategoryKnown
  <2>2. CASE Crash
    BY <2>2 DEF Crash, AuditInv, CategoryKnown
  <2>3. CASE UNCHANGED vars
    BY <2>3 DEF vars, requestVars, AuditInv, CategoryKnown
  <2>. QED
    BY <2>1, <2>2, <2>3 DEF Next
<1>. QED
  BY <1>1, <1>2 DEF AuditInv

(* The audit trail stays readable, and a failure recorded has a category. *)
THEOREM AuditInvariant == Spec => []AuditInv
BY TypeInvariant, InitAudit, NextAudit, PTL DEF Spec

(* No sequence of calls, faults, crashes and clock readings makes a stored *)
(* action unreadable for loadActionProposal.                               *)
THEOREM AuditTrailReadable == Spec => []AuditTrailIntact
BY AuditInvariant, PTL DEF AuditInv

--------------------------------------------------------------------------------
(***************************************************************************)
(* Who confirmed what: authority, and the answers given.                   *)
(***************************************************************************)


(* What is stored stays stored: kind, origin, history and support never    *)
(* change, the state only along the lifecycle.                             *)
LEMMA RowsKept ==
  ASSUME TypeOK, CategoryKnown, [Next]_vars, NEW id \in ActionIDs, Exists(id)
  PROVE  /\ Exists(id)' /\ rows'[id] \in Rows
         /\ rows'[id].kind = rows[id].kind /\ rows'[id].origin = rows[id].origin
         /\ rows'[id].history = rows[id].history
         /\ rows'[id].supportsExecution = rows[id].supportsExecution
         /\ \/ rows'[id].state = rows[id].state
            \/ /\ ValidateStateTransition(rows[id].state, rows'[id].state)
               /\ rows'[id].state \in ExecutionStates => rows[id].supportsExecution
               /\ Readable(rows[id], logs[id])
<1>1. rows[id] \in Rows
  BY DEF Exists, TypeOK, StoreTypeOK
<1>2. CASE rows'[id] = rows[id]
  BY <1>1, <1>2 DEF Exists
<1>3. CASE StoreMoves(id)
  BY <1>3, MoveChanges, NoRowAssumption DEF Exists, StoreMoves, Loadable
<1>4. ASSUME rows'[id] # rows[id] PROVE StoreMoves(id)
  <2>1. ASSUME NEW r \in Requests, CreateTx(r) PROVE FALSE
    BY <1>4, <2>1, CreateChanges
  <2>2. ASSUME NEW other \in ActionIDs, StoreMoves(other), other # id PROVE FALSE
    BY <1>4, <2>2, MoveChanges
  <2>. QED
    BY <1>4, <2>1, <2>2, StoreSteps
<1>. QED
  BY <1>2, <1>3, <1>4

(* A handler runs the steps of its own operation, and answers once. *)
LEMMA NextKeepsToCall ==
  ASSUME TypeOK, HandlersKeepToTheirCall, [Next]_vars
  PROVE  HandlersKeepToTheirCall'
<1> DEFINE Keeps(r) == /\ pc[r] \in {"idle", "done", "gone"} \cup StepsOf[call[r].op]
                       /\ answer[r] # "none" => pc[r] = "done"
<1>1. ASSUME NEW r \in Requests, Start(r) \/ Handler(r) \/ MiniDeploy(r) \/ StorageFault(r)
      PROVE  HandlersKeepToTheirCall'
  <2>1. ASSUME NEW q \in Requests, q # r PROVE Keeps(q)'
    BY <1>1, <2>1, OthersKeep DEF HandlersKeepToTheirCall
  <2> SUFFICES Keeps(r)'
    BY <2>1 DEF HandlersKeepToTheirCall
  <2>2. call[r].op \in Operations /\ Keeps(r)
    BY DEF TypeOK, CallRecords, HandlersKeepToTheirCall
  <2>3. CASE Start(r)
    <3>1. PICK c \in Calls : Goto(r, FirstStep[c.op]) /\ call' = [call EXCEPT ![r] = c]
      BY <2>3 DEF Start
    <3>2. c.op \in Operations
      BY CallsAssumption DEF CallRecords
    <3>3. FirstStep[c.op] \in StepsOf[c.op]
      BY <3>2 DEF FirstStep, StepsOf, Operations
    <3>4. pc'[r] = FirstStep[c.op] /\ call'[r] = c /\ answer'[r] = answer[r] /\ pc[r] = "idle"
      BY <2>3, <3>1 DEF Start, Goto, TypeOK
    <3>. QED
      BY <2>2, <3>3, <3>4
  <2>4. CASE Handler(r)
    <3> USE DEF StepsOf, Operations, ExecutingPCs, Finish, Continue, Goto
    <3>0. pc[r] \in StepsOf[call[r].op] /\ pc[r] # "done" /\ answer[r] = "none"
      BY <2>2, <2>4
      DEF Handler, CreateTx, LoadRow, LoadAccepted, LoadRejected, ConfirmTx, CancelTx, BeginTx,
          SendFails, SendWrites, ReplySuccess, ReplyRefused, ReplyUnknown, CompleteSuccess,
          CompleteFailure, LockSuggestion, QuerySuggestions
    <3>1. CASE CreateTx(r) \/ LoadRejected(r) \/ ConfirmTx(r) \/ CancelTx(r) \/ ReplyUnknown(r)
               \/ CompleteSuccess(r) \/ CompleteFailure(r)
      <4>1. pc'[r] = "done"
        BY <3>1 DEF CreateTx, LoadRejected, LoadFailed, ConfirmTx, CancelTx, Refuse,
                    ReplyUnknown, CompleteSuccess, CompleteFailure, TypeOK
      <4>. QED
        BY <4>1
    <3>2. CASE LoadRow(r)
      BY <2>2, <3>0, <3>2 DEF LoadRow, TypeOK
    <3>3. CASE LoadAccepted(r)
      BY <2>2, <3>0, <3>3 DEF LoadAccepted, HandleConfirm, HandleExecute, HandleSuggest, TypeOK
    <3>4. CASE BeginTx(r)
      BY <2>2, <3>0, <3>4 DEF BeginTx, TypeOK
    <3>5. CASE SendFails(r) \/ SendWrites(r) \/ ReplySuccess(r) \/ ReplyRefused(r)
      BY <2>2, <3>0, <3>5 DEF SendFails, SendWrites, ReplySuccess, ReplyRefused, TypeOK
    <3>6. CASE LockSuggestion(r)
      BY <2>2, <3>0, <3>6 DEF LockSuggestion, TypeOK
    <3>7. CASE QuerySuggestions(r)
      <4>1. call'[r].op = call[r].op
        BY <3>7 DEF QuerySuggestions, TypeOK, CallRecords
      <4>. QED
        BY <2>2, <3>0, <3>7, <4>1 DEF QuerySuggestions, TypeOK
    <3>. QED
      BY <2>4, <3>1, <3>2, <3>3, <3>4, <3>5, <3>6, <3>7 DEF Handler
  <2>5. CASE MiniDeploy(r)
    BY <2>2, <2>5 DEF MiniDeploy, MiniDeployRestarts, MiniDeployRefuses, requestVars
  <2>6. CASE StorageFault(r)
    BY <2>6 DEF StorageFault, Finish, Goto, TypeOK
  <2>. QED
    BY <1>1, <2>3, <2>4, <2>5, <2>6
<1>2. CASE Crash
  <2>1. \A q \in Requests : pc'[q] = (IF pc[q] \in {"idle", "done"} THEN pc[q] ELSE "gone")
                            /\ call'[q] = call[q] /\ answer'[q] = answer[q]
    BY <1>2 DEF Crash
  <2>. QED
    BY <2>1 DEF HandlersKeepToTheirCall
<1>3. CASE UNCHANGED vars
  BY <1>3 DEF vars, requestVars, HandlersKeepToTheirCall
<1>. QED
  BY <1>1, <1>2, <1>3 DEF Next

(* What a stale row says of kind and origin is still true. *)
LEMMA NextSnapshots ==
  ASSUME TypeOK, CategoryKnown, HandlersKeepToTheirCall, SnapshotsHold, [Next]_vars
  PROVE  SnapshotsHold'
<1> DEFINE Holds(r) ==
      /\ pc[r] \in {"load_events", "confirm_tx"} =>
           /\ Exists(Id(r))
           /\ snap[r].kind = rows[Id(r)].kind
           /\ snap[r].origin = rows[Id(r)].origin
      /\ (pc[r] = "confirm_tx" /\ WarningRequired(snap[r])) => call[r].acknowledge
<1>1. ASSUME NEW r \in Requests, pc'[r] = pc[r], snap'[r] = snap[r], call'[r] = call[r]
      PROVE  Holds(r)'
  BY <1>1, RowsKept, IdTyped DEF SnapshotsHold, Id, WarningRequired
<1>2. ASSUME NEW r \in Requests, pc'[r] \notin {"load_events", "confirm_tx"}
      PROVE  Holds(r)'
  BY <1>2
<1>3. ASSUME NEW r \in Requests, Start(r) \/ Handler(r) \/ MiniDeploy(r) \/ StorageFault(r)
      PROVE  SnapshotsHold'
  <2>1. ASSUME NEW q \in Requests, q # r PROVE Holds(q)'
    BY <1>1, <1>3, <2>1, OthersKeep
  <2> SUFFICES Holds(r)'
    BY <2>1 DEF SnapshotsHold
  <2> USE DEF Finish, Continue, Goto
  <2>2. CASE LoadRow(r)
    <3>1. CASE Exists(Id(r))
      BY <2>2, <3>1 DEF LoadRow, TypeOK, StoreTypeOK, storeVars, Id, Exists
    <3>2. CASE ~Exists(Id(r))
      BY <1>2, <2>2, <3>2 DEF LoadRow, TypeOK
    <3>. QED
      BY <3>1, <3>2
  <2>3. CASE LoadAccepted(r)
    <3>1. UNCHANGED <<rows, call, snap>> /\ pc[r] = "load_events"
      BY <2>3 DEF LoadAccepted, storeVars
    <3>2. pc'[r] = "confirm_tx" =>
            (WarningRequired(snap[r]) => call[r].acknowledge)
      BY <2>3 DEF LoadAccepted, HandleConfirm, HandleExecute, HandleSuggest, TypeOK
    <3>. QED
      BY <3>1, <3>2 DEF SnapshotsHold, Id, Exists, WarningRequired
  <2>4. CASE Start(r)
    <3>1. PICK c \in Calls : Goto(r, FirstStep[c.op])
      BY <2>4 DEF Start
    <3>2. c.op \in Operations
      BY CallsAssumption DEF CallRecords
    <3>3. FirstStep[c.op] \notin {"load_events", "confirm_tx"}
      BY <3>2 DEF FirstStep, Operations
    <3>. QED
      BY <1>2, <3>1, <3>3 DEF TypeOK
  <2>5. CASE Handler(r) /\ ~LoadRow(r) /\ ~LoadAccepted(r)
    <3>1. pc'[r] \notin {"load_events", "confirm_tx"}
      BY <2>5
      DEF Handler, CreateTx, LoadRejected, LoadFailed, ConfirmTx, CancelTx, Refuse, BeginTx,
          SendFails, SendWrites, ReplySuccess, ReplyRefused, ReplyUnknown, CompleteSuccess,
          CompleteFailure, LockSuggestion, QuerySuggestions, TypeOK
    <3>. QED
      BY <1>2, <3>1
  <2>6. CASE MiniDeploy(r)
    BY <1>1, <2>6 DEF MiniDeploy, MiniDeployRestarts, MiniDeployRefuses, requestVars
  <2>7. CASE StorageFault(r)
    BY <1>2, <2>7 DEF StorageFault, TypeOK
  <2>. QED
    BY <1>3, <2>2, <2>3, <2>4, <2>5, <2>6, <2>7
<1>4. CASE Crash
  <2>1. \A q \in Requests : pc'[q] \notin {"load_events", "confirm_tx"}
    BY <1>4 DEF Crash
  <2>. QED
    BY <1>2, <2>1 DEF SnapshotsHold
<1>5. CASE UNCHANGED vars
  BY <1>1, <1>5 DEF vars, requestVars, SnapshotsHold
<1>. QED
  BY <1>3, <1>4, <1>5 DEF Next

(* Only the confirmation transaction authorizes an action that awaits it. *)
LEMMA ConfirmationAuthorizes ==
  ASSUME TypeOK, CategoryKnown, [Next]_vars, NEW id \in ActionIDs, Exists(id),
         rows[id].state = "awaiting_confirmation", rows'[id].state = "authorized"
  PROVE  \E r \in Requests : ConfirmTx(r) /\ Id(r) = id /\ answer'[r] = "ok"
<1>0. rows'[id] # rows[id]
  OBVIOUS
<1>1. ASSUME NEW r \in Requests, CreateTx(r) PROVE FALSE
  BY <1>0, <1>1, CreateChanges
<1>2. ASSUME NEW r \in Requests, ConfirmTx(r)
      PROVE  Id(r) = id /\ answer'[r] = "ok"
  <2>1. Awaiting(Id(r))
    BY <1>0, <1>2 DEF ConfirmTx, Refuse, storeVars
  <2>2. PICK now \in Times : Transition(Id(r), ConfirmationEvent, now)
    BY <1>2, <2>1 DEF ConfirmTx
  <2>3. Id(r) \in ActionIDs
    BY IdTyped
  <2>4. Id(r) = id
    BY <1>0, <2>2, <2>3 DEF Transition, TypeOK, StoreTypeOK
  <2>. QED
    BY <1>2, <2>1, <2>4 DEF ConfirmTx, Finish, TypeOK
<1>3. ASSUME NEW other \in ActionIDs, Exists(other), NEW event \in Events, NEW now \in Times,
             Transition(other, event, now), event.to # "authorized"
      PROVE  FALSE
  BY <1>0, <1>3, TransitionStates
<1>4. ASSUME NEW r \in Requests, CancelTx(r) PROVE FALSE
  BY <1>0, <1>3, <1>4, EventsTyped, MoveEnds, IdTyped
  DEF CancelTx, Awaiting, Loadable, Refuse, storeVars
<1>5. ASSUME NEW r \in Requests, BeginTx(r) PROVE FALSE
  BY <1>0, <1>3, <1>5, EventsTyped, MoveEnds, IdTyped
  DEF BeginTx, BeginAllowed, Loadable, storeVars
<1>6. ASSUME NEW r \in Requests, CompleteSuccess(r) PROVE FALSE
  BY <1>0, <1>3, <1>6, EventsTyped, MoveEnds, IdTyped
  DEF CompleteSuccess, CompleteAllowed, Loadable, storeVars
<1>7. ASSUME NEW r \in Requests, CompleteFailure(r) PROVE FALSE
  <2>1. ExecutionFailedEvent(category[r]) \in Events
    BY EventsTyped DEF TypeOK
  <2>. QED
    BY <1>0, <1>3, <1>7, <2>1, MoveEnds, IdTyped
    DEF CompleteFailure, CompleteAllowed, Loadable, storeVars
<1>8. ASSUME NEW r \in Requests, Start(r) \/ Handler(r) \/ MiniDeploy(r) \/ StorageFault(r)
      PROVE  ConfirmTx(r)
  BY <1>0, <1>1, <1>4, <1>5, <1>6, <1>7, <1>8
  DEF Start, Handler, LoadRow, LoadAccepted, LoadRejected, SendFails, SendWrites,
      ReplySuccess, ReplyRefused, ReplyUnknown, LockSuggestion, QuerySuggestions,
      MiniDeploy, MiniDeployRestarts, MiniDeployRefuses, StorageFault, storeVars
<1>9. ~Crash /\ ~UNCHANGED vars
  BY <1>0 DEF Crash, vars, storeVars
<1>. QED
  BY <1>2, <1>8, <1>9 DEF Next

(* An answer, once given, stands, and so does the call it answers. *)
LEMMA AnswersStand ==
  ASSUME TypeOK, HandlersKeepToTheirCall, [Next]_vars, NEW r \in Requests,
         answer[r] # "none"
  PROVE  answer'[r] = answer[r] /\ call'[r] = call[r] /\ pc'[r] = "done"
<1>1. pc[r] = "done"
  BY DEF HandlersKeepToTheirCall
<1>2. ASSUME NEW q \in Requests, Start(q) \/ Handler(q) \/ StorageFault(q) PROVE q # r
  BY <1>1, <1>2
  DEF Start, Handler, CreateTx, LoadRow, LoadAccepted, LoadRejected, ConfirmTx, CancelTx,
      BeginTx, SendFails, SendWrites, ReplySuccess, ReplyRefused, ReplyUnknown,
      CompleteSuccess, CompleteFailure, LockSuggestion, QuerySuggestions, StorageFault
<1>3. CASE Crash \/ UNCHANGED vars
  BY <1>1, <1>3 DEF Crash, vars, requestVars
<1>4. ASSUME NEW q \in Requests, MiniDeploy(q)
      PROVE answer'[r] = answer[r] /\ call'[r] = call[r] /\ pc'[r] = "done"
  BY <1>1, <1>4 DEF MiniDeploy, MiniDeployRestarts, MiniDeployRefuses, requestVars
<1>. QED
  BY <1>1, <1>2, <1>3, <1>4, OthersKeep DEF Next

(* What the policy says of the actions OnlyWarranted and                   *)
(* AssistantNeverActsAlone are about.                                      *)
LEMMA PolicyConfirms ==
  ASSUME NEW origin \in Origins, NEW kind \in Kinds
  PROVE  /\ Policy(origin, kind).confirmationRequired =>
              Policy(origin, kind).initialState = "awaiting_confirmation"
         /\ origin = "assistant_suggested" => Policy(origin, kind).confirmationRequired
         /\ kind = "rollback_deployment" => /\ Policy(origin, kind).confirmationRequired
                                            /\ Policy(origin, kind).warningRequired
BY DEF Policy, EvaluateConfirmationPolicy, Decision, LookupDefinition, Definition,
       Kinds, Origins

LEMMA ConfirmedStays ==
  ASSUME TypeOK, CategoryKnown, HandlersKeepToTheirCall, [Next]_vars,
         NEW id \in ActionIDs, Exists(id), Confirmed(id)
  PROVE  Confirmed(id)'
<1>1. PICK r \in Requests : /\ call[r].op = "confirm" /\ Id(r) = id /\ answer[r] = "ok"
                            /\ WarningRequired(rows[id]) => call[r].acknowledge
  BY DEF Confirmed
<1>2. answer'[r] = "ok" /\ call'[r] = call[r]
  BY <1>1, AnswersStand
<1>3. rows'[id].kind = rows[id].kind /\ rows'[id].origin = rows[id].origin
  BY RowsKept
<1>. QED
  BY <1>1, <1>2, <1>3 DEF Confirmed, Id, WarningRequired

(* Authority comes from a confirmation or from a policy that needs none. *)
LEMMA NextAuthority ==
  ASSUME TypeOK, CategoryKnown, HandlersKeepToTheirCall, SnapshotsHold,
         AuthorityIsGranted, [Next]_vars
  PROVE  AuthorityIsGranted'
<1> SUFFICES ASSUME NEW id \in ActionIDs, Exists(id)'
             PROVE  /\ (/\ rows'[id].state \in {"authorized"} \cup ExecutionStates
                        /\ Policy(rows'[id].origin, rows'[id].kind).confirmationRequired)
                            => Confirmed(id)'
                    /\ rows'[id].state \in ExecutionStates => rows'[id].supportsExecution
  BY DEF AuthorityIsGranted
<1>1. CASE ~Exists(id)
  <2>1. PICK r \in Requests : CreateTx(r) /\ Id(r) = id
    <3>1. ~UNCHANGED <<rows, logs>>
      BY <1>1 DEF Exists
    <3>2. ASSUME NEW other \in ActionIDs, StoreMoves(other) PROVE FALSE
      BY <1>1, <3>2, MoveChanges DEF Exists
    <3>3. ASSUME NEW r \in Requests, CreateTx(r), Id(r) # id PROVE FALSE
      BY <1>1, <3>3, CreateChanges DEF Exists
    <3>. QED
      BY <3>1, <3>2, <3>3, StoreSteps
  <2>2. /\ rows'[id] \in Rows
        /\ rows'[id].state = Policy(rows'[id].origin, rows'[id].kind).initialState
    BY <2>1, CreateChanges
  <2>3. rows'[id].origin \in Origins /\ rows'[id].kind \in Kinds
    BY <2>2 DEF Rows
  <2>. QED
    BY <2>2, <2>3, PolicyConfirms, PolicyTyped DEF ExecutionStates
<1>2. CASE Exists(id)
  <2>1. /\ rows'[id].kind = rows[id].kind /\ rows'[id].origin = rows[id].origin
        /\ rows'[id].supportsExecution = rows[id].supportsExecution
        /\ \/ rows'[id].state = rows[id].state
           \/ /\ ValidateStateTransition(rows[id].state, rows'[id].state)
              /\ rows'[id].state \in ExecutionStates => rows[id].supportsExecution
              /\ Readable(rows[id], logs[id])
    BY <1>2, RowsKept
  <2>2. rows'[id].state \in ExecutionStates => rows'[id].supportsExecution
    BY <1>2, <2>1 DEF AuthorityIsGranted
  <2>3. ASSUME rows'[id].state \in {"authorized"} \cup ExecutionStates,
               Policy(rows'[id].origin, rows'[id].kind).confirmationRequired
        PROVE  Confirmed(id)'
    <3>1. CASE rows[id].state \in {"authorized"} \cup ExecutionStates
      BY <1>2, <2>1, <2>3, <3>1, ConfirmedStays DEF AuthorityIsGranted
    <3>2. CASE rows[id].state \notin {"authorized"} \cup ExecutionStates
      <4>1. rows[id].state # "proposed"
        BY <2>1, <2>3, <3>2 DEF Readable, RestoreProposal
      <4>2. rows[id].state = "awaiting_confirmation" /\ rows'[id].state = "authorized"
        BY <2>1, <2>3, <3>2, <4>1 DEF ValidateStateTransition, ExecutionStates
      <4>3. PICK r \in Requests : ConfirmTx(r) /\ Id(r) = id /\ answer'[r] = "ok"
        BY <1>2, <4>2, ConfirmationAuthorizes
      <4>4. pc[r] = "confirm_tx" /\ call'[r] = call[r]
        BY <4>3 DEF ConfirmTx
      <4>5. call[r].op \in Operations
        BY DEF TypeOK, CallRecords
      <4>6. call[r].op = "confirm"
        BY <4>4, <4>5 DEF HandlersKeepToTheirCall, StepsOf, Operations, ExecutingPCs
      <4>7. WarningRequired(rows[id]) => call[r].acknowledge
        BY <4>3, <4>4 DEF SnapshotsHold, WarningRequired
      <4>. QED
        BY <2>1, <4>3, <4>4, <4>6, <4>7 DEF Confirmed, Id, WarningRequired
    <3>. QED
      BY <3>1, <3>2
  <2>. QED
    BY <2>2, <2>3
<1>. QED
  BY <1>1, <1>2

LEMMA InitWarrant == Init => WarrantInv
<1> SUFFICES ASSUME Init PROVE WarrantInv
  OBVIOUS
<1>1. HandlersKeepToTheirCall /\ SnapshotsHold
  BY DEF Init, HandlersKeepToTheirCall, SnapshotsHold
<1>2. \A id \in ActionIDs : Exists(id) =>
         /\ rows[id].state = Policy(rows[id].origin, rows[id].kind).initialState
         /\ rows[id].origin \in Origins /\ rows[id].kind \in Kinds
  BY DEF Init, StoreInit, LegacyRow, Exists, Kinds
<1>3. AuthorityIsGranted
  BY <1>2, PolicyConfirms, PolicyTyped DEF AuthorityIsGranted, ExecutionStates
<1>. QED
  BY <1>1, <1>3 DEF WarrantInv

LEMMA NextWarrant == TypeOK /\ AuditInv /\ WarrantInv /\ [Next]_vars => WarrantInv'
BY NextKeepsToCall, NextSnapshots, NextAuthority DEF WarrantInv, AuditInv

(* Handlers keep to their call, and authority is granted, never assumed. *)
THEOREM WarrantInvariant == Spec => []WarrantInv
BY TypeInvariant, AuditInvariant, InitWarrant, NextWarrant, PTL DEF Spec

(* An irreversible action is authorized only by a confirmation that        *)
(* acknowledged its warning, and a legacy restart is never executed.       *)
THEOREM OnlyWarrantedActions == Spec => []OnlyWarranted
<1>1. TypeOK /\ ExecutionInv /\ WarrantInv => OnlyWarranted
  <2> SUFFICES ASSUME TypeOK, ExecutionInv, WarrantInv, NEW id \in ActionIDs, Exists(id)
      PROVE  /\ (rows[id].kind = "rollback_deployment" /\ rows[id].state = "authorized") =>
                  \E r \in Requests :
                    /\ call[r].op = "confirm" /\ call[r].acknowledge
                    /\ Id(r) = id /\ answer[r] = "ok"
             /\ (rows[id].kind = "restart_application" /\ ~rows[id].supportsExecution) =>
                  /\ rows[id].state \notin ExecutionStates
                  /\ \A r \in Requests : Id(r) = id => wire[r] = "none"
    BY DEF OnlyWarranted
  <2>1. rows[id].origin \in Origins /\ rows[id].kind \in Kinds
    BY DEF Exists, TypeOK, StoreTypeOK, Rows
  <2>2. (rows[id].kind = "rollback_deployment" /\ rows[id].state = "authorized") =>
           \E r \in Requests : /\ call[r].op = "confirm" /\ call[r].acknowledge
                               /\ Id(r) = id /\ answer[r] = "ok"
    BY <2>1, PolicyConfirms DEF WarrantInv, AuthorityIsGranted, Confirmed, WarningRequired
  <2>3. ~rows[id].supportsExecution => rows[id].state \notin ExecutionStates
    BY DEF WarrantInv, AuthorityIsGranted
  <2>4. \A r \in Requests : Id(r) = id /\ wire[r] # "none" => rows[id].state \in ExecutionStates
    BY DEF ExecutionInv, BegunIsRecorded, Begun
  <2>. QED
    BY <2>2, <2>3, <2>4
<1>. QED
  BY <1>1, TypeInvariant, ExecutionInvariant, WarrantInvariant, PTL

(* Nothing the assistant suggested happens without an operator's           *)
(* confirmation.                                                           *)
THEOREM AssistantNeedsAnOperator == Spec => []AssistantNeverActsAlone
<1>1. TypeOK /\ ExecutionInv /\ WarrantInv => AssistantNeverActsAlone
  <2> SUFFICES ASSUME TypeOK, ExecutionInv, WarrantInv, NEW id \in ActionIDs,
                      restarts[id] > 0, rows[id].origin = "assistant_suggested"
      PROVE  \E r \in Requests : call[r].op = "confirm" /\ Id(r) = id /\ answer[r] = "ok"
    BY DEF AssistantNeverActsAlone
  <2>1. PICK r \in Requests : Id(r) = id /\ wire[r] = "restarted"
    BY DEF ExecutionInv, RestartsAreOwned
  <2>2. Exists(id) /\ rows[id].state \in ExecutionStates
    BY <2>1 DEF ExecutionInv, BegunIsRecorded, Begun
  <2>3. rows[id].origin \in Origins /\ rows[id].kind \in Kinds
    BY <2>2 DEF Exists, TypeOK, StoreTypeOK, Rows
  <2>4. Policy(rows[id].origin, rows[id].kind).confirmationRequired
    BY <2>3, PolicyConfirms
  <2>. QED
    BY <2>2, <2>4 DEF WarrantInv, AuthorityIsGranted, Confirmed
<1>. QED
  BY <1>1, TypeInvariant, ExecutionInvariant, WarrantInvariant, PTL

(* A request to execute confirms, cancels and suggests nothing. *)
LEMMA ExecutionOnly ==
  ASSUME TypeOK, HandlersKeepToTheirCall, NEW r \in Requests, call[r].op = "execute"
  PROVE  pc[r] \in {"idle", "done", "gone", "load_row", "load_events", "begin_tx"}
                     \cup ExecutingPCs
BY DEF HandlersKeepToTheirCall, StepsOf

(* A handler inside an execution got there by beginning it. *)
LEMMA EntersByBeginning ==
  ASSUME TypeOK, [Next]_vars, NEW q \in Requests, pc'[q] \in ExecutingPCs
  PROVE  /\ Id(q)' = Id(q)
         /\ \/ pc[q] \in ExecutingPCs
            \/ Exists(Id(q)) /\ rows[Id(q)].state = "authorized"
<1>1. ASSUME NEW r \in Requests, Start(r) \/ Handler(r) \/ MiniDeploy(r) \/ StorageFault(r),
             r # q
      PROVE  pc'[q] = pc[q] /\ call'[q] = call[q]
  BY <1>1, OthersKeep
<1>2. CASE Start(q)
  <2>1. PICK c \in Calls : Goto(q, FirstStep[c.op])
    BY <1>2 DEF Start
  <2>2. c.op \in Operations
    BY CallsAssumption DEF CallRecords
  <2>3. FirstStep[c.op] \notin ExecutingPCs
    BY <2>2 DEF FirstStep, Operations, ExecutingPCs
  <2>. QED
    BY <2>1, <2>3 DEF Goto, TypeOK
<1>3. CASE BeginTx(q)
  BY <1>3 DEF BeginTx, BeginAllowed, Loadable, Id, Finish, Goto, TypeOK, ExecutingPCs
<1>4. CASE Handler(q) /\ ~BeginTx(q)
  BY <1>4
  DEF Handler, CreateTx, LoadRow, LoadAccepted, LoadRejected, LoadFailed, HandleConfirm,
      HandleExecute, HandleSuggest, ConfirmTx, CancelTx, Refuse, SendFails, SendWrites,
      ReplySuccess, ReplyRefused, ReplyUnknown, CompleteSuccess, CompleteFailure,
      LockSuggestion, QuerySuggestions, Finish, Continue, Goto, TypeOK, ExecutingPCs, Id
<1>5. CASE MiniDeploy(q)
  BY <1>5 DEF MiniDeploy, MiniDeployRestarts, MiniDeployRefuses, requestVars, Id
<1>6. CASE StorageFault(q)
  BY <1>6 DEF StorageFault, Finish, Goto, TypeOK, ExecutingPCs
<1>7. CASE Crash
  BY <1>7 DEF Crash, ExecutingPCs
<1>8. CASE UNCHANGED vars
  BY <1>8 DEF vars, requestVars, Id
<1>. QED
  BY <1>1, <1>2, <1>3, <1>4, <1>5, <1>6, <1>7, <1>8 DEF Next, Id

(* An execution ends only by a handler inside it. *)
LEMMA EndsFromInside ==
  ASSUME TypeOK, CategoryKnown, [Next]_vars, NEW id \in ActionIDs, Exists(id),
         rows[id].state = "executing", rows'[id].state # "executing"
  PROVE  \E q \in Requests : Id(q) = id /\ pc[q] \in ExecutingPCs
<1>0. rows'[id] # rows[id]
  OBVIOUS
<1>1. ASSUME NEW r \in Requests, CreateTx(r) PROVE FALSE
  BY <1>0, <1>1, CreateChanges
<1>2. ASSUME NEW other \in ActionIDs, Exists(other), NEW event \in Events, NEW now \in Times,
             Transition(other, event, now)
      PROVE  other = id /\ event.from = "executing"
  BY <1>0, <1>2, TransitionStates
<1>3. ASSUME NEW r \in Requests, ConfirmTx(r) \/ CancelTx(r) \/ BeginTx(r) PROVE FALSE
  BY <1>0, <1>2, <1>3, EventsTyped, MoveEnds, IdTyped
  DEF ConfirmTx, CancelTx, Awaiting, Loadable, Refuse, BeginTx, BeginAllowed, storeVars
<1>4. ASSUME NEW r \in Requests, CompleteSuccess(r)
      PROVE  Id(r) = id /\ pc[r] \in ExecutingPCs
  BY <1>0, <1>2, <1>4, EventsTyped, IdTyped
  DEF CompleteSuccess, CompleteAllowed, Loadable, storeVars, ExecutingPCs
<1>5. ASSUME NEW r \in Requests, CompleteFailure(r)
      PROVE  Id(r) = id /\ pc[r] \in ExecutingPCs
  <2>1. ExecutionFailedEvent(category[r]) \in Events
    BY EventsTyped DEF TypeOK
  <2>. QED
    BY <1>0, <1>2, <1>5, <2>1, IdTyped
    DEF CompleteFailure, CompleteAllowed, Loadable, storeVars, ExecutingPCs
<1>6. ASSUME NEW r \in Requests, Start(r) \/ Handler(r) \/ MiniDeploy(r) \/ StorageFault(r)
      PROVE  CompleteSuccess(r) \/ CompleteFailure(r)
  BY <1>0, <1>1, <1>3, <1>6
  DEF Start, Handler, LoadRow, LoadAccepted, LoadRejected, SendFails, SendWrites,
      ReplySuccess, ReplyRefused, ReplyUnknown, LockSuggestion, QuerySuggestions,
      MiniDeploy, MiniDeployRestarts, MiniDeployRefuses, StorageFault, storeVars
<1>7. ~Crash /\ ~UNCHANGED vars
  BY <1>0 DEF Crash, vars, storeVars
<1>. QED
  BY <1>4, <1>5, <1>6, <1>7 DEF Next

(* The answers an execution can give, and when. *)
LEMMA ExecutionAnswers ==
  ASSUME TypeOK, ExecutionInv, HandlersKeepToTheirCall, [Next]_vars, NEW r \in Requests,
         call[r].op = "execute", answer'[r] # answer[r]
  PROVE  /\ call'[r] = call[r] /\ pc'[r] = "done"
         /\ \/ answer'[r] \notin {"ok", "bad_gateway", "accepted"}
            \/ /\ answer'[r] = "ok" /\ pc[r] \in ExecutingPCs
               /\ Exists(Id(r)) /\ rows'[Id(r)].state = "succeeded"
            \/ /\ answer'[r] = "bad_gateway" /\ pc[r] \in ExecutingPCs
               /\ Exists(Id(r)) /\ rows'[Id(r)].state = "failed"
            \/ answer'[r] = "accepted" /\ pc[r] \in ExecutingPCs /\ UNCHANGED rows
<1>1. Handler(r) \/ StorageFault(r)
  <2>1. ASSUME NEW q \in Requests, Start(q) \/ Handler(q) \/ MiniDeploy(q) \/ StorageFault(q)
        PROVE  q = r
    BY <2>1, OthersKeep
  <2>2. ~Start(r) /\ ~MiniDeploy(r) /\ ~Crash /\ ~UNCHANGED vars
    BY DEF Start, MiniDeploy, MiniDeployRestarts, MiniDeployRefuses, Crash, vars, requestVars
  <2>. QED
    BY <2>1, <2>2 DEF Next
<1>2. pc[r] \in {"idle", "done", "gone", "load_row", "load_events", "begin_tx"}
                   \cup ExecutingPCs
  BY ExecutionOnly
<1> USE DEF Finish, Continue, Goto
<1>3. CASE StorageFault(r)
  <2>1. call'[r] = call[r] /\ pc'[r] = "done" /\ UNCHANGED rows /\ answer'[r] = FaultAnswer(r)
    BY <1>3 DEF StorageFault, TypeOK, storeVars
  <2>2. pc[r] \in ExecutingPCs \/ FaultAnswer(r) \in {"conflict", "server_error"}
    BY <1>2 DEF FaultAnswer, ExecutingPCs
  <2>3. FaultAnswer(r) \in {"accepted", "conflict", "server_error", "dropped"}
    BY DEF FaultAnswer
  <2>. QED
    BY <2>1, <2>2, <2>3
<1>4. CASE CompleteSuccess(r)
  <2>1. pc[r] \in ExecutingPCs /\ call'[r] = call[r] /\ pc'[r] = "done"
    BY <1>4 DEF CompleteSuccess, ExecutingPCs, TypeOK
  <2>2. CASE CompleteAllowed(Id(r))
    <3>1. PICK now \in Times : Transition(Id(r), ExecutionSucceededEvent, now)
      BY <1>4, <2>2 DEF CompleteSuccess
    <3>2. rows'[Id(r)].state = "succeeded" /\ Exists(Id(r))
      BY <2>2, <3>1, TransitionStates, EventsTyped, MoveEnds, IdTyped
      DEF CompleteAllowed, Loadable
    <3>3. answer'[r] = "ok"
      BY <1>4, <2>2 DEF CompleteSuccess, TypeOK
    <3>. QED
      BY <2>1, <3>2, <3>3
  <2>3. CASE ~CompleteAllowed(Id(r))
    BY <1>4, <2>1, <2>3 DEF CompleteSuccess, storeVars, TypeOK
  <2>. QED
    BY <2>2, <2>3
<1>5. CASE CompleteFailure(r)
  <2>1. pc[r] \in ExecutingPCs /\ call'[r] = call[r] /\ pc'[r] = "done"
    BY <1>5 DEF CompleteFailure, ExecutingPCs, TypeOK
  <2>2. CASE CompleteAllowed(Id(r))
    <3>1. PICK now \in Times : Transition(Id(r), ExecutionFailedEvent(category[r]), now)
      BY <1>5, <2>2 DEF CompleteFailure
    <3>2. ExecutionFailedEvent(category[r]) \in Events
      BY EventsTyped DEF TypeOK
    <3>3. rows'[Id(r)].state = "failed" /\ Exists(Id(r))
      BY <2>2, <3>1, <3>2, TransitionStates, MoveEnds, IdTyped DEF CompleteAllowed, Loadable
    <3>4. answer'[r] = "bad_gateway"
      BY <1>5, <2>2 DEF CompleteFailure, TypeOK
    <3>. QED
      BY <2>1, <3>3, <3>4
  <2>3. CASE ~CompleteAllowed(Id(r))
    BY <1>5, <2>1, <2>3 DEF CompleteFailure, storeVars, TypeOK
  <2>. QED
    BY <2>2, <2>3
<1>6. CASE ReplyUnknown(r)
  BY <1>6 DEF ReplyUnknown, storeVars, ExecutingPCs, TypeOK
<1>7. CASE LoadRow(r) \/ LoadAccepted(r) \/ LoadRejected(r) \/ BeginTx(r)
  <2>1. call'[r] = call[r]
    BY <1>7 DEF LoadRow, LoadAccepted, LoadRejected, BeginTx
  <2>2. pc'[r] = "done" /\ answer'[r] \in {"not_found", "conflict", "server_error"}
    BY <1>7 DEF LoadRow, LoadAccepted, LoadRejected, LoadFailed, HandleExecute, BeginTx, TypeOK
  <2>. QED
    BY <2>1, <2>2
<1>8. CASE SendFails(r) \/ SendWrites(r) \/ ReplySuccess(r) \/ ReplyRefused(r)
  BY <1>8 DEF SendFails, SendWrites, ReplySuccess, ReplyRefused
<1>9. ~(CreateTx(r) \/ ConfirmTx(r) \/ CancelTx(r) \/ LockSuggestion(r) \/ QuerySuggestions(r))
  BY <1>2 DEF CreateTx, ConfirmTx, CancelTx, LockSuggestion, QuerySuggestions, ExecutingPCs
<1>. QED
  BY <1>1, <1>3, <1>4, <1>5, <1>6, <1>7, <1>8, <1>9 DEF Handler

(* An answer was true when it was given, and what it says is final, or     *)
(* nobody is left to change it.                                            *)
LEMMA NextAnswers ==
  ASSUME TypeOK, CategoryKnown, ExecutionInv, HandlersKeepToTheirCall, AnswerInv,
         [Next]_vars
  PROVE  AnswerInv'
<1> SUFFICES ASSUME NEW r \in Requests, call'[r].op = "execute",
                    answer'[r] \in {"ok", "bad_gateway", "accepted"}
             PROVE  /\ Exists(Id(r))'
                    /\ answer'[r] = "ok" => rows'[Id(r)'].state = "succeeded"
                    /\ answer'[r] = "bad_gateway" => rows'[Id(r)'].state = "failed"
                    /\ answer'[r] = "accepted" =>
                         /\ rows'[Id(r)'].state = "executing"
                         /\ \A q \in Requests : Id(q)' = Id(r)' => pc'[q] \notin ExecutingPCs
  BY DEF AnswerInv
<1>1. call'[r] = call[r] /\ Id(r)' = Id(r) /\ pc'[r] = "done"
  <2>1. CASE answer[r] # "none"
    BY <2>1, AnswersStand DEF Id
  <2>2. CASE answer[r] = "none"
    <3>1. call[r].op = "execute"
      <4>1. ASSUME NEW q \in Requests, q # r,
                   Start(q) \/ Handler(q) \/ MiniDeploy(q) \/ StorageFault(q)
            PROVE  FALSE
        BY <2>2, <4>1, OthersKeep
      <4>2. ~Start(r) /\ ~MiniDeploy(r) /\ ~Crash /\ ~UNCHANGED vars
        BY <2>2 DEF Start, MiniDeploy, MiniDeployRestarts, MiniDeployRefuses, Crash, vars,
                    requestVars
      <4>3. Handler(r) \/ StorageFault(r)
        BY <4>1, <4>2 DEF Next
      <4>4. CASE QuerySuggestions(r)
        BY <4>4 DEF QuerySuggestions, TypeOK, CallRecords
      <4>. QED
        BY <4>3, <4>4
        DEF Handler, CreateTx, LoadRow, LoadAccepted, LoadRejected, ConfirmTx, CancelTx, BeginTx,
            SendFails, SendWrites, ReplySuccess, ReplyRefused, ReplyUnknown, CompleteSuccess,
            CompleteFailure, LockSuggestion, StorageFault
    <3>. QED
      BY <2>2, <3>1, ExecutionAnswers DEF Id
  <2>. QED
    BY <2>1, <2>2
<1>2. Id(r) \in ActionIDs
  BY IdTyped
<1>3. CASE answer'[r] = answer[r]
  <2>1. Exists(Id(r)) /\ Exists(Id(r))'
    BY <1>1, <1>2, <1>3, RowsKept DEF AnswerInv, Exists
  <2>2. \/ rows'[Id(r)].state = rows[Id(r)].state
        \/ ValidateStateTransition(rows[Id(r)].state, rows'[Id(r)].state)
    BY <1>2, <2>1, RowsKept
  <2>3. /\ answer'[r] = "ok" => rows'[Id(r)].state = "succeeded"
        /\ answer'[r] = "bad_gateway" => rows'[Id(r)].state = "failed"
    BY <1>1, <1>3, <2>2 DEF AnswerInv, ValidateStateTransition
  <2>4. ASSUME answer'[r] = "accepted"
        PROVE  /\ rows'[Id(r)].state = "executing"
               /\ \A q \in Requests : Id(q)' = Id(r) => pc'[q] \notin ExecutingPCs
    <3>1. /\ rows[Id(r)].state = "executing"
          /\ \A q \in Requests : Id(q) = Id(r) => pc[q] \notin ExecutingPCs
      BY <1>1, <1>3, <2>4 DEF AnswerInv
    <3>2. rows'[Id(r)].state = "executing"
      BY <1>2, <2>1, <3>1, EndsFromInside
    <3>3. ASSUME NEW q \in Requests, Id(q)' = Id(r), pc'[q] \in ExecutingPCs PROVE FALSE
      BY <3>1, <3>3, EntersByBeginning
    <3>. QED
      BY <3>2, <3>3
  <2>. QED
    BY <1>1, <2>1, <2>3, <2>4
<1>4. CASE answer'[r] # answer[r]
  <2>1. call[r].op = "execute"
    BY <1>1
  <2>2. \/ /\ answer'[r] = "ok" /\ pc[r] \in ExecutingPCs
           /\ Exists(Id(r)) /\ rows'[Id(r)].state = "succeeded"
        \/ /\ answer'[r] = "bad_gateway" /\ pc[r] \in ExecutingPCs
           /\ Exists(Id(r)) /\ rows'[Id(r)].state = "failed"
        \/ answer'[r] = "accepted" /\ pc[r] \in ExecutingPCs /\ UNCHANGED rows
    BY <1>4, <2>1, ExecutionAnswers
  <2>3. /\ pc[r] \in ExecutingPCs /\ Exists(Id(r)) /\ rows[Id(r)].state = "executing"
    BY <2>2 DEF ExecutionInv, BegunIsRecorded, Begun, HandlerHoldsExecution
  <2>4. Exists(Id(r))'
    BY <1>1, <1>2, <2>3, RowsKept DEF Exists
  <2>5. ASSUME NEW q \in Requests, Id(q)' = Id(r), pc'[q] \in ExecutingPCs PROVE FALSE
    <3>1. Id(q) = Id(r) /\ pc[q] \in ExecutingPCs
      BY <2>3, <2>5, EntersByBeginning
    <3>2. q = r
      BY <2>3, <3>1 DEF ExecutionInv, OneExecution, Begun
    <3>. QED
      BY <1>1, <2>5, <3>2 DEF ExecutingPCs
  <2>. QED
    BY <1>1, <2>2, <2>3, <2>4, <2>5
<1>. QED
  BY <1>3, <1>4

LEMMA InitAnswers == Init => AnswerInv
BY DEF Init, AnswerInv

(* The execution endpoint never misreports: 200, 502 and 202 say what is   *)
(* stored, then and ever after.                                            *)
THEOREM AnswersAreTrue == Spec => []ExecutionAnswersTrue
<1>1. TypeOK /\ AuditInv /\ ExecutionInv /\ WarrantInv /\ AnswerInv /\ [Next]_vars => AnswerInv'
  BY NextAnswers DEF AuditInv, WarrantInv
<1>2. AnswerInv => ExecutionAnswersTrue
  BY DEF AnswerInv, ExecutionAnswersTrue
<1>. QED
  BY <1>1, <1>2, InitAnswers, TypeInvariant, AuditInvariant, ExecutionInvariant,
     WarrantInvariant, PTL DEF Spec
--------------------------------------------------------------------------------
(***************************************************************************)
(* Suggestions: lookup and insertion are one step to the others.           *)
(***************************************************************************)

(* A suggestion that is new was inserted by a suggest request. *)
LEMMA SuggestionsKept ==
  ASSUME TypeOK, CategoryKnown, [Next]_vars, NEW history \in Histories \cup {NoHistory},
         NEW id \in SuggestionsFor(history)'
  PROVE  \/ id \in SuggestionsFor(history)
         \/ \E r \in Requests : /\ CreateTx(r) /\ call[r].op = "suggest"
                                /\ call[r].history = history /\ Id(r) = id
<1>1. id \in ActionIDs /\ Exists(id)'
  BY DEF SuggestionsFor
<1>2. CASE Exists(id)
  BY <1>1, <1>2, RowsKept DEF SuggestionsFor
<1>3. CASE ~Exists(id)
  <2>1. ~UNCHANGED <<rows, logs>>
    BY <1>1, <1>3 DEF Exists
  <2>2. ASSUME NEW other \in ActionIDs, StoreMoves(other) PROVE FALSE
    BY <1>1, <1>3, <2>2, MoveChanges DEF Exists
  <2>3. ASSUME NEW r \in Requests, CreateTx(r)
        PROVE  call[r].op = "suggest" /\ call[r].history = history /\ Id(r) = id
    <3>1. Id(r) = id
      BY <1>1, <1>3, <2>3, CreateChanges DEF Exists
    <3>. QED
      BY <2>3, <3>1, CreateChanges DEF SuggestionsFor
  <2>. QED
    BY <2>1, <2>2, <2>3, StoreSteps
<1>. QED
  BY <1>2, <1>3

(* The steps of a suggest request between its lock and its return. *)
PastLock == {"query", "load_row", "load_events", "create_tx"}

(* The mutex changes hands only through nobody. *)
LEMMA LockKept ==
  ASSUME TypeOK, HandlersKeepToTheirCall, SuggestionInv, [Next]_vars, NEW r \in Requests,
         call'[r].op = "suggest", pc'[r] \in PastLock
  PROVE  /\ suggestionLock' = r
         /\ \/ LockSuggestion(r)
            \/ /\ call[r].op = "suggest" /\ pc[r] \in PastLock
               /\ call'[r].history = call[r].history
               /\ pc'[r] = "create_tx" => pc[r] = "create_tx" \/ QuerySuggestions(r)
<1>0. r # NoRequest
  BY NoRequestAssumption
<1>1. ASSUME NEW q \in Requests, q # r,
             Start(q) \/ Handler(q) \/ MiniDeploy(q) \/ StorageFault(q)
      PROVE  /\ suggestionLock' = r /\ call[r].op = "suggest" /\ pc[r] \in PastLock
             /\ call'[r] = call[r] /\ pc'[r] = pc[r]
  <2>1. call'[r] = call[r] /\ pc'[r] = pc[r]
    BY <1>1, OthersKeep
  <2>2. suggestionLock = r
    BY <2>1 DEF SuggestionInv, PastLock
  <2>3. suggestionLock' = suggestionLock
    BY <1>0, <1>1, <2>2
    DEF Start, Handler, CreateTx, LoadRow, LoadAccepted, LoadRejected, LoadFailed,
        HandleConfirm, HandleExecute, HandleSuggest, ConfirmTx, CancelTx, Refuse, BeginTx,
        SendFails, SendWrites, ReplySuccess, ReplyRefused, ReplyUnknown, CompleteSuccess,
        CompleteFailure, LockSuggestion, QuerySuggestions, MiniDeploy, MiniDeployRestarts,
        MiniDeployRefuses, StorageFault, Finish, Continue
  <2>. QED
    BY <2>1, <2>2, <2>3
<1>2. CASE Start(r)
  <2>1. PICK c \in Calls : Goto(r, FirstStep[c.op]) /\ call' = [call EXCEPT ![r] = c]
    BY <1>2 DEF Start
  <2>2. pc'[r] = FirstStep[c.op] /\ c.op = "suggest"
    BY <2>1 DEF Goto, TypeOK
  <2>. QED
    BY <2>2 DEF FirstStep, PastLock
<1>3. CASE LockSuggestion(r)
  BY <1>3 DEF LockSuggestion
<1>4. CASE Handler(r) /\ ~LockSuggestion(r)
  <2>1. call[r].op = "suggest" /\ call'[r].history = call[r].history
    <3>1. CASE QuerySuggestions(r)
      BY <3>1 DEF QuerySuggestions, TypeOK, CallRecords
    <3>2. CASE ~QuerySuggestions(r)
      BY <1>4, <3>2
      DEF Handler, CreateTx, LoadRow, LoadAccepted, LoadRejected, ConfirmTx, CancelTx, BeginTx,
          SendFails, SendWrites, ReplySuccess, ReplyRefused, ReplyUnknown, CompleteSuccess,
          CompleteFailure
    <3>. QED
      BY <3>1, <3>2
  <2>2. pc[r] \in {"idle", "done", "gone", "lock", "query", "create_tx", "load_row", "load_events"}
    BY <2>1 DEF HandlersKeepToTheirCall, StepsOf
  <2>3. \/ LoadRow(r) /\ pc'[r] = "load_events" /\ UNCHANGED suggestionLock
        \/ QuerySuggestions(r) /\ UNCHANGED suggestionLock
    BY <1>4, <2>1, <2>2
    DEF Handler, CreateTx, LoadRow, LoadAccepted, LoadRejected, LoadFailed, HandleConfirm,
        HandleExecute, HandleSuggest, ConfirmTx, CancelTx, Refuse, BeginTx, SendFails,
        SendWrites, ReplySuccess, ReplyRefused, ReplyUnknown, CompleteSuccess,
        CompleteFailure, QuerySuggestions, Finish, Continue, Goto, PastLock, TypeOK
  <2>4. pc[r] \in PastLock
    BY <2>3 DEF LoadRow, QuerySuggestions, PastLock
  <2>5. suggestionLock = r
    BY <2>1, <2>4 DEF SuggestionInv, PastLock
  <2>. QED
    BY <2>1, <2>3, <2>4, <2>5
<1>5. CASE MiniDeploy(r)
  BY <1>5 DEF MiniDeploy, MiniDeployRestarts, MiniDeployRefuses, requestVars, SuggestionInv,
              PastLock
<1>6. ~StorageFault(r)
  BY DEF StorageFault, Finish, Goto, TypeOK, PastLock
<1>7. ~Crash
  BY DEF Crash, PastLock
<1>8. CASE UNCHANGED vars
  BY <1>8 DEF vars, requestVars, SuggestionInv, PastLock
<1>. QED
  BY <1>1, <1>2, <1>3, <1>4, <1>5, <1>6, <1>7, <1>8 DEF Next

(* What the holder of the mutex found missing nobody else inserts. *)
LEMMA NextSuggestion ==
  ASSUME TypeOK, CategoryKnown, HandlersKeepToTheirCall, SuggestionInv, [Next]_vars
  PROVE  SuggestionInv'
<1>1. ASSUME NEW r \in Requests, CreateTx(r), call[r].op = "suggest"
      PROVE  suggestionLock = r /\ SuggestionsFor(call[r].history) = {} /\ pc'[r] = "done"
  BY <1>1 DEF CreateTx, SuggestionInv, Finish, Goto, TypeOK
<1>2. OneSuggestionPerHistory'
  <2> SUFFICES ASSUME NEW history \in Histories,
                      NEW id1 \in SuggestionsFor(history)', NEW id2 \in SuggestionsFor(history)'
               PROVE  id1 = id2
    BY DEF OneSuggestionPerHistory
  <2>1. CASE id1 \in SuggestionsFor(history) /\ id2 \in SuggestionsFor(history)
    BY <2>1 DEF SuggestionInv, OneSuggestionPerHistory
  <2>2. CASE \E r \in Requests : /\ CreateTx(r) /\ call[r].op = "suggest"
                                 /\ call[r].history = history
    <3>1. SuggestionsFor(history) = {}
      BY <1>1, <2>2
    <3>2. PICK r \in Requests : /\ CreateTx(r) /\ call[r].op = "suggest" /\ Id(r) = id1
      BY <3>1, SuggestionsKept
    <3>3. PICK q \in Requests : /\ CreateTx(q) /\ call[q].op = "suggest" /\ Id(q) = id2
      BY <3>1, SuggestionsKept
    <3>. QED
      BY <1>1, <3>2, <3>3
  <2>. QED
    BY <2>1, <2>2, SuggestionsKept
<1>3. ASSUME NEW r \in Requests, call'[r].op = "suggest", pc'[r] = "create_tx",
             NEW history, history = call'[r].history
      PROVE  SuggestionsFor(history)' = {}
  <2>1. /\ ~LockSuggestion(r)
        /\ call[r].op = "suggest" /\ pc[r] \in PastLock /\ history = call[r].history
        /\ pc[r] = "create_tx" \/ QuerySuggestions(r)
    BY <1>3, LockKept DEF PastLock, LockSuggestion, Goto, TypeOK
  <2>2. SuggestionsFor(history) = {}
    BY <1>3, <2>1 DEF SuggestionInv, QuerySuggestions, Continue, Finish, Goto, TypeOK
  <2>3. suggestionLock = r
    BY <2>1 DEF SuggestionInv, PastLock
  <2>4. history \in Histories \cup {NoHistory}
    BY <2>1 DEF TypeOK, CallRecords
  <2>5. ASSUME NEW id \in SuggestionsFor(history)' PROVE FALSE
    <3>1. PICK q \in Requests : CreateTx(q) /\ call[q].op = "suggest"
      BY <2>2, <2>4, <2>5, SuggestionsKept
    <3>. QED
      BY <1>1, <1>3, <2>3, <3>1
  <2>. QED
    BY <2>5
<1>4. \A r \in Requests : call'[r].op = "suggest" /\ pc'[r] \in PastLock => suggestionLock' = r
  BY LockKept
<1>5. \A r \in Requests : (call[r].op = "suggest" /\ pc[r] = "create_tx")'
                              => SuggestionsFor(call[r].history)' = {}
  BY <1>3 DEF SuggestionsFor, Exists
<1>. QED
  BY <1>2, <1>4, <1>5 DEF SuggestionInv, PastLock

LEMMA InitSuggestion == Init => SuggestionInv
<1> SUFFICES ASSUME Init PROVE SuggestionInv
  OBVIOUS
<1>1. \A id \in ActionIDs : Exists(id) => rows[id].history = NoHistory
  BY DEF Init, StoreInit, LegacyRow, Exists
<1>2. \A history \in Histories : SuggestionsFor(history) = {}
  BY <1>1, NoHistoryAssumption DEF SuggestionsFor
<1>. QED
  BY <1>2 DEF Init, SuggestionInv, OneSuggestionPerHistory

(* One History entry never gets two restart suggestions. *)
THEOREM SuggestionsAreUnique == Spec => []OneSuggestionPerHistory
<1>1. TypeOK /\ AuditInv /\ WarrantInv /\ SuggestionInv /\ [Next]_vars => SuggestionInv'
  BY NextSuggestion DEF AuditInv, WarrantInv
<1>2. SuggestionInv => OneSuggestionPerHistory
  BY DEF SuggestionInv
<1>. QED
  BY <1>1, <1>2, InitSuggestion, TypeInvariant, AuditInvariant, WarrantInvariant, PTL DEF Spec
================================================================================

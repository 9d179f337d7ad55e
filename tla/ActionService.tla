------------------------------ MODULE ActionService ------------------------------
(***************************************************************************)
(* The action subsystem at work: concurrent HTTP requests and assistant    *)
(* suggestions (action_http.go, assistant_suggestion.go), the restart      *)
(* executor (action_executor.go, minideploy_restart.go), MiniDeploy, a     *)
(* process that may die at any point, and a database whose writes may      *)
(* fail.                                                                   *)
(*                                                                         *)
(* A request is one goroutine and is never reused: pc is the next shared-  *)
(* state step of its handler.  Steps between two accesses to shared state  *)
(* are folded into the access before them.                                 *)
(***************************************************************************)
EXTENDS ActionStore

CONSTANTS Requests,
          Calls,        \* what callers may ask for
          NoRequest,    \* nobody holds assistantSuggestionMu
          MaxCrashes,   \* bound: process deaths
          MaxFaults     \* bound: failed database operations

Operations == {"create", "get", "confirm", "cancel", "execute", "suggest"}

CallRecords == [op : Operations, id : ActionIDs, acknowledge : BOOLEAN,
                kind : Kinds, target : Targets, history : Histories \cup {NoHistory}]

ASSUME CallsAssumption == Calls \subseteq CallRecords /\ Calls # {}
ASSUME NoRequestAssumption == NoRequest \notin Requests
ASSUME BoundsAssumption == MaxCrashes \in Nat /\ MaxFaults \in Nat

VARIABLES pc,             \* next step of each request
          call,           \* what each request asked for
          snap,           \* the proposal row each request has read
          answer,         \* what each request was told
          category,       \* the failure category each execution ended with
          wire,           \* the fate of each request's restart POST
          restarts,       \* restarts MiniDeploy performed for each action
          suggestionLock, \* holder of assistantSuggestionMu
          crashes, faults

requestVars == <<pc, call, snap, answer, category>>
upstreamVars == <<wire, restarts>>
boundVars == <<crashes, faults>>
vars == <<storeVars, requestVars, upstreamVars, suggestionLock, boundVars>>

PCs == {"idle", "load_row", "load_events", "create_tx", "confirm_tx", "cancel_tx",
        "begin_tx", "send", "await", "complete_success", "complete_failure",
        "lock", "query", "done", "gone"}

Answers == {"none", "ok", "accepted", "bad_request", "not_found", "conflict",
            "server_error", "bad_gateway", "suggested", "dropped"}

WireStates == {"none", "written", "restarted", "refused"}

Id(r) == call[r].id

Goto(r, step) == pc' = [pc EXCEPT ![r] = step]

(* Mutant: the suggestion mutex is not released on every return. *)
FinishLocked(r, status) ==
  /\ Goto(r, "done")
  /\ answer' = [answer EXCEPT ![r] = status]
  /\ UNCHANGED suggestionLock

(* The handler returns; createAssistantRestartSuggestion's deferred unlock *)
(* runs on every return.                                                   *)
Finish(r, status) ==
  /\ Goto(r, "done")
  /\ answer' = [answer EXCEPT ![r] = status]
  /\ suggestionLock' = IF suggestionLock = r THEN NoRequest ELSE suggestionLock

Continue(r, step) == Goto(r, step) /\ UNCHANGED <<answer, suggestionLock>>

(***************************************************************************)
(* Requests arrive.  randomID never repeats an identity, so the id of a    *)
(* new proposal is one no row and no request has.                          *)
(***************************************************************************)
FreshId(id) == ~Exists(id) /\ \A q \in Requests : pc[q] # "idle" => Id(q) # id

FirstStep ==
  [create |-> "create_tx", get |-> "load_row", confirm |-> "load_row",
   cancel |-> "cancel_tx", execute |-> "load_row", suggest |-> "lock"]

Start(r) ==
  /\ pc[r] = "idle"
  /\ \E c \in Calls :
       /\ c.op \in {"create", "suggest"} => FreshId(c.id)
       /\ call' = [call EXCEPT ![r] = c]
       /\ Goto(r, FirstStep[c.op])
  /\ UNCHANGED <<storeVars, upstreamVars, suggestionLock, boundVars,
                 snap, answer, category>>

(* createActionProposal, for a direct request or under the suggestion lock. *)
CreateTx(r) ==
  /\ pc[r] = "create_tx"
  /\ ~Exists(Id(r))
  /\ LET c == call[r]
         suggestion == c.op = "suggest"
     IN  /\ \E now \in Times :
              IF suggestion
                THEN Insert(c.id, "restart_application", "assistant_suggested",
                            c.target, c.history, now)
                ELSE Insert(c.id, c.kind, "direct_user", c.target, NoHistory, now)
         /\ Finish(r, IF suggestion THEN "suggested" ELSE "ok")
  /\ UNCHANGED <<upstreamVars, boundVars, call, snap, category>>

(***************************************************************************)
(* loadActionProposal outside a transaction: the row, then the events.     *)
(* Another request's transaction may commit in between.                    *)
(***************************************************************************)
LoadRow(r) ==
  /\ pc[r] = "load_row"
  /\ IF Exists(Id(r))
       THEN /\ snap' = [snap EXCEPT ![r] = rows[Id(r)]]
            /\ Continue(r, "load_events")
       ELSE /\ Finish(r, "not_found")
            /\ UNCHANGED snap
  /\ UNCHANGED <<storeVars, upstreamVars, boundVars, call, category>>

(* What each handler does with an accepted load. *)
WarningRequired(row) == Policy(row.origin, row.kind).warningRequired

(* Mutant: the warning need not be acknowledged. *)
HandleConfirmUnwarned(r) ==
  IF snap[r].state # "awaiting_confirmation" THEN Finish(r, "conflict")
  ELSE Continue(r, "confirm_tx")

HandleConfirm(r) ==
  IF snap[r].state # "awaiting_confirmation" THEN Finish(r, "conflict")
  ELSE IF WarningRequired(snap[r]) /\ ~call[r].acknowledge THEN Finish(r, "bad_request")
  ELSE Continue(r, "confirm_tx")

HandleExecute(r) ==
  IF /\ ValidateRestartExecutionFoundation(snap[r].kind)
     /\ snap[r].state = "authorized"
    THEN Continue(r, "begin_tx")
    ELSE Finish(r, "conflict")

(* An existing suggestion is offered again only for the same target and    *)
(* only while it still awaits confirmation.                                *)
HandleSuggest(r) ==
  IF /\ snap[r].history = call[r].history
     /\ snap[r].target = call[r].target
     /\ snap[r].state = "awaiting_confirmation"
     /\ snap[r].supportsExecution
    THEN Finish(r, "suggested")
    ELSE Finish(r, "dropped")

LoadFailed(r) == Finish(r, IF call[r].op = "suggest" THEN "dropped" ELSE "server_error")

LoadAccepted(r) ==
  /\ pc[r] = "load_events"
  /\ Readable(snap[r], logs[Id(r)])
  /\ \/ call[r].op = "get" /\ Finish(r, "ok")
     \/ call[r].op = "confirm" /\ HandleConfirm(r)
     \/ call[r].op = "execute" /\ HandleExecute(r)
     \/ call[r].op = "suggest" /\ HandleSuggest(r)
  /\ UNCHANGED <<storeVars, upstreamVars, boundVars, call, snap, category>>

LoadRejected(r) ==
  /\ pc[r] = "load_events"
  /\ ~Readable(snap[r], logs[Id(r)])
  /\ LoadFailed(r)
  /\ UNCHANGED <<storeVars, upstreamVars, boundVars, call, snap, category>>

(***************************************************************************)
(* Confirmation and cancellation transactions.                             *)
(***************************************************************************)
Refuse(r) ==
  /\ Finish(r, IF ~Exists(Id(r)) THEN "not_found"
               ELSE IF Loadable(Id(r)) THEN "conflict" ELSE "server_error")
  /\ UNCHANGED storeVars

Awaiting(id) == Loadable(id) /\ rows[id].state = "awaiting_confirmation"

ConfirmTx(r) ==
  /\ pc[r] = "confirm_tx"
  /\ IF Awaiting(Id(r))
       THEN /\ \E now \in Times : Transition(Id(r), ConfirmationEvent, now)
            /\ Finish(r, "ok")
       ELSE Refuse(r)
  /\ UNCHANGED <<upstreamVars, boundVars, call, snap, category>>

CancelTx(r) ==
  /\ pc[r] = "cancel_tx"
  /\ IF Awaiting(Id(r))
       THEN /\ \E now \in Times : Transition(Id(r), CancellationEvent, now)
            /\ Finish(r, "ok")
       ELSE Refuse(r)
  /\ UNCHANGED <<upstreamVars, boundVars, call, snap, category>>

(***************************************************************************)
(* Execution: begin durably, POST once, complete.                          *)
(***************************************************************************)
BeginTx(r) ==
  /\ pc[r] = "begin_tx"
  /\ IF BeginAllowed(Id(r), snap[r])
       THEN /\ \E now \in Times : Transition(Id(r), ExecutionStartedEvent, now)
            /\ Continue(r, "send")
       ELSE /\ Finish(r, "conflict")
            /\ UNCHANGED storeVars
  /\ UNCHANGED <<upstreamVars, boundVars, call, snap, category>>

(* The restart POST: the context may already be done, the connection may   *)
(* fail before the request is written, or the request is written.          *)
SendFails(r) ==
  /\ pc[r] = "send"
  /\ \E cat \in {"timeout", "upstream_unavailable"} :
       category' = [category EXCEPT ![r] = cat]
  /\ Continue(r, "complete_failure")
  /\ UNCHANGED <<storeVars, upstreamVars, boundVars, call, snap>>

SendWrites(r) ==
  /\ pc[r] = "send"
  /\ wire' = [wire EXCEPT ![r] = "written"]
  /\ Continue(r, "await")
  /\ UNCHANGED <<storeVars, boundVars, call, snap, category, restarts>>

(* MiniDeploy handles a written request, whether or not anybody still      *)
(* waits for the reply.                                                    *)
MiniDeployRestarts(r) ==
  /\ wire[r] = "written"
  /\ wire' = [wire EXCEPT ![r] = "restarted"]
  /\ restarts' = [restarts EXCEPT ![Id(r)] = @ + 1]
  /\ UNCHANGED <<storeVars, requestVars, suggestionLock, boundVars>>

MiniDeployRefuses(r) ==
  /\ wire[r] = "written"
  /\ wire' = [wire EXCEPT ![r] = "refused"]
  /\ UNCHANGED <<storeVars, requestVars, suggestionLock, boundVars, restarts>>

(* A 200 whose body names this application: the restart happened. *)
ReplySuccess(r) ==
  /\ pc[r] = "await"
  /\ wire[r] = "restarted"
  /\ Continue(r, "complete_success")
  /\ UNCHANGED <<storeVars, upstreamVars, boundVars, call, snap, category>>

(* 404 or 409: MiniDeploy refused, a known failure. *)
ReplyRefused(r) ==
  /\ pc[r] = "await"
  /\ wire[r] = "refused"
  /\ category' = [category EXCEPT ![r] = "upstream_rejected"]
  /\ Continue(r, "complete_failure")
  /\ UNCHANGED <<storeVars, upstreamVars, boundVars, call, snap>>

(* Mutant: a lost reply is retried. *)
ReplyUnknownRetried(r) ==
  /\ pc[r] = "await"
  /\ wire' = [wire EXCEPT ![r] = "none"]
  /\ Continue(r, "send")
  /\ UNCHANGED <<storeVars, restarts, boundVars, call, snap, category>>

(* Mutant: a lost reply is recorded as a failure. *)
ReplyUnknownFails(r) ==
  /\ pc[r] = "await"
  /\ category' = [category EXCEPT ![r] = "timeout"]
  /\ Continue(r, "complete_failure")
  /\ UNCHANGED <<storeVars, upstreamVars, boundVars, call, snap>>

(* A transport error or a timeout after the write, another status, or an   *)
(* unusable body: the outcome is unknown and the action stays executing.   *)
ReplyUnknown(r) ==
  /\ pc[r] = "await"
  /\ \E cat \in {"timeout", "upstream_unavailable", "upstream_rejected",
                 "invalid_response"} :
       category' = [category EXCEPT ![r] = cat]
  /\ Finish(r, "accepted")
  /\ UNCHANGED <<storeVars, upstreamVars, boundVars, call, snap>>

CompleteSuccess(r) ==
  /\ pc[r] = "complete_success"
  /\ IF CompleteAllowed(Id(r))
       THEN /\ \E now \in Times : Transition(Id(r), ExecutionSucceededEvent, now)
            /\ Finish(r, "ok")
       ELSE /\ Finish(r, "accepted")
            /\ UNCHANGED storeVars
  /\ UNCHANGED <<upstreamVars, boundVars, call, snap, category>>

CompleteFailure(r) ==
  /\ pc[r] = "complete_failure"
  /\ IF CompleteAllowed(Id(r))
       THEN /\ \E now \in Times :
                 Transition(Id(r), ExecutionFailedEvent(category[r]), now)
            /\ Finish(r, "bad_gateway")
       ELSE /\ Finish(r, "accepted")
            /\ UNCHANGED storeVars
  /\ UNCHANGED <<upstreamVars, boundVars, call, snap, category>>

(***************************************************************************)
(* Assistant suggestions: lookup and insertion under assistantSuggestionMu. *)
(***************************************************************************)
(* Mutant: lookup and insertion without mutual exclusion. *)
LockSuggestionShared(r) ==
  /\ pc[r] = "lock"
  /\ suggestionLock' = r
  /\ Goto(r, "query")
  /\ UNCHANGED <<storeVars, upstreamVars, boundVars, call, snap, answer, category>>

LockSuggestion(r) ==
  /\ pc[r] = "lock"
  /\ suggestionLock = NoRequest
  /\ suggestionLock' = r
  /\ Goto(r, "query")
  /\ UNCHANGED <<storeVars, upstreamVars, boundVars, call, snap, answer, category>>

SuggestionsFor(history) ==
  {id \in ActionIDs : /\ Exists(id)
                      /\ rows[id].history = history
                      /\ rows[id].kind = "restart_application"
                      /\ rows[id].origin = "assistant_suggested"}

QuerySuggestions(r) ==
  /\ pc[r] = "query"
  /\ LET found == SuggestionsFor(call[r].history)
     IN  \/ /\ found = {}
            /\ Continue(r, "create_tx")
            /\ UNCHANGED call
         \/ \E id \in found :
              /\ found = {id}
              /\ call' = [call EXCEPT ![r].id = id]
              /\ Continue(r, "load_row")
         \/ /\ \E id1, id2 \in found : id1 # id2
            /\ Finish(r, "dropped")
            /\ UNCHANGED call
  /\ UNCHANGED <<storeVars, upstreamVars, boundVars, snap, category>>

(***************************************************************************)
(* A database operation of the handler fails: nothing is committed.  The   *)
(* executor reports a failed begin as not allowed and a failed completion  *)
(* as an unknown outcome.                                                  *)
(***************************************************************************)
(* Mutant: a success that could not be recorded is reported as recorded. *)
FaultAnswerOptimistic(r) ==
  CASE call[r].op = "suggest" -> "dropped"
    [] pc[r] = "begin_tx" -> "conflict"
    [] pc[r] = "complete_success" -> "ok"
    [] pc[r] = "complete_failure" -> "accepted"
    [] OTHER -> "server_error"

FaultAnswer(r) ==
  CASE call[r].op = "suggest" -> "dropped"
    [] pc[r] = "begin_tx" -> "conflict"
    [] pc[r] \in {"complete_success", "complete_failure"} -> "accepted"
    [] OTHER -> "server_error"

StorageFault(r) ==
  /\ faults < MaxFaults
  /\ pc[r] \in {"load_row", "load_events", "create_tx", "confirm_tx", "cancel_tx",
                "begin_tx", "complete_success", "complete_failure", "query"}
  /\ faults' = faults + 1
  /\ Finish(r, FaultAnswer(r))
  /\ UNCHANGED <<storeVars, upstreamVars, crashes, call, snap, category>>

(* The process dies and is restarted: requests in progress are lost, the   *)
(* database and whatever is on the wire survive.  Opening the database     *)
(* touches no action.                                                      *)
Crash ==
  /\ crashes < MaxCrashes
  /\ crashes' = crashes + 1
  /\ pc' = [r \in Requests |-> IF pc[r] \in {"idle", "done"} THEN pc[r] ELSE "gone"]
  /\ suggestionLock' = NoRequest
  /\ UNCHANGED <<storeVars, upstreamVars, faults, call, snap, answer, category>>

Init ==
  /\ StoreInit
  /\ pc = [r \in Requests |-> "idle"]
  /\ call = [r \in Requests |-> CHOOSE c \in Calls : TRUE]
  /\ snap = [r \in Requests |-> NoRow]
  /\ answer = [r \in Requests |-> "none"]
  /\ category = [r \in Requests |-> NoCategory]
  /\ wire = [r \in Requests |-> "none"]
  /\ restarts = [id \in ActionIDs |-> 0]
  /\ suggestionLock = NoRequest
  /\ crashes = 0
  /\ faults = 0

Handler(r) ==
  \/ CreateTx(r) \/ LoadRow(r) \/ LoadAccepted(r) \/ LoadRejected(r)
  \/ ConfirmTx(r) \/ CancelTx(r)
  \/ BeginTx(r) \/ SendFails(r) \/ SendWrites(r)
  \/ ReplySuccess(r) \/ ReplyRefused(r) \/ ReplyUnknown(r)
  \/ CompleteSuccess(r) \/ CompleteFailure(r)
  \/ LockSuggestion(r) \/ QuerySuggestions(r)

MiniDeploy(r) == MiniDeployRestarts(r) \/ MiniDeployRefuses(r)

Next ==
  \/ \E r \in Requests : Start(r) \/ Handler(r) \/ MiniDeploy(r) \/ StorageFault(r)
  \/ Crash

(* Every goroutine keeps running, and the POST ends by its own timeout. *)
Fairness == \A r \in Requests : WF_vars(Handler(r))

Spec == Init /\ [][Next]_vars

FairSpec == Spec /\ Fairness
--------------------------------------------------------------------------------
(***************************************************************************)
(* Properties.                                                             *)
(***************************************************************************)

(* The type invariant of the store, the requests and the wire. *)
TypeOK ==
  /\ StoreTypeOK
  /\ pc \in [Requests -> PCs]
  /\ call \in [Requests -> CallRecords]
  /\ snap \in [Requests -> Rows \cup {NoRow}]
  /\ answer \in [Requests -> Answers]
  /\ category \in [Requests -> FailureCategories \cup {NoCategory}]
  /\ wire \in [Requests -> WireStates]
  /\ restarts \in [ActionIDs -> Nat]
  /\ suggestionLock \in Requests \cup {NoRequest}
  /\ crashes \in 0 .. MaxCrashes
  /\ faults \in 0 .. MaxFaults

(* Whatever the interleaving, the failures and the clock, every stored     *)
(* action passes the full validation of loadActionProposal: no sequence of *)
(* calls makes an action unreadable for good.                              *)
AuditTrailIntact ==
  \A id \in ActionIDs : Exists(id) => Readable(rows[id], logs[id])

(* A request has begun an execution: its handler is past the durable       *)
(* executing transition, or its POST was written.                          *)
ExecutingPCs == {"send", "await", "complete_success", "complete_failure"}
Begun(r) == pc[r] \in ExecutingPCs \/ wire[r] # "none"

BegunIsRecorded ==
  \A r \in Requests : Begun(r) =>
    Exists(Id(r)) /\ rows[Id(r)].state \in ExecutionStates

OneExecution ==
  \A r, q \in Requests : (Begun(r) /\ Begun(q) /\ Id(r) = Id(q)) => r = q

HandlerHoldsExecution ==
  \A r \in Requests :
    /\ pc[r] \in ExecutingPCs => rows[Id(r)].state = "executing"
    /\ pc[r] = "send" => wire[r] = "none"
    /\ pc[r] = "complete_success" => wire[r] = "restarted"
    /\ pc[r] = "complete_failure" => wire[r] \in {"none", "refused"}

WireHoldsExecution ==
  \A r \in Requests :
    /\ wire[r] # "none" => pc[r] \in ExecutingPCs \cup {"done", "gone"}
    /\ wire[r] = "written" => rows[Id(r)].state = "executing"
    /\ wire[r] = "restarted" =>
         rows[Id(r)].state \in {"executing", "succeeded"} /\ restarts[Id(r)] = 1

RestartsAreOwned ==
  \A id \in ActionIDs :
    /\ restarts[id] # 0 => \E r \in Requests : Id(r) = id /\ wire[r] = "restarted"
    /\ (Exists(id) /\ rows[id].state = "succeeded") => restarts[id] = 1

(* The inductive invariant behind AtMostOneRestart and OutcomeIsTrue: an   *)
(* action has at most one begun execution, ever; while a handler is inside *)
(* it, or its POST may still be handled, the action stays executing; and   *)
(* the restarts performed are those of that one execution.                 *)
ExecutionInv ==
  /\ BegunIsRecorded
  /\ OneExecution
  /\ HandlerHoldsExecution
  /\ WireHoldsExecution
  /\ RestartsAreOwned

(* The steps of the handler of each operation. *)
StepsOf ==
  [create |-> {"create_tx"}, get |-> {"load_row", "load_events"},
   confirm |-> {"load_row", "load_events", "confirm_tx"}, cancel |-> {"cancel_tx"},
   execute |-> {"load_row", "load_events", "begin_tx"} \cup ExecutingPCs,
   suggest |-> {"lock", "query", "create_tx", "load_row", "load_events"}]

HandlersKeepToTheirCall ==
  \A r \in Requests :
    /\ pc[r] \in {"idle", "done", "gone"} \cup StepsOf[call[r].op]
    /\ answer[r] # "none" => pc[r] = "done"

(* A row read before a transaction may be stale, but never in what decides *)
(* the confirmation: kind and origin are fixed at creation.  A handler      *)
(* about to confirm has had the warning acknowledged if there is one.       *)
SnapshotsHold ==
  \A r \in Requests :
    /\ pc[r] \in {"load_events", "confirm_tx"} =>
         /\ Exists(Id(r))
         /\ snap[r].kind = rows[Id(r)].kind
         /\ snap[r].origin = rows[Id(r)].origin
    /\ (pc[r] = "confirm_tx" /\ WarningRequired(snap[r])) => call[r].acknowledge

(* An operator confirmed the action, and its warning if it has one. *)
Confirmed(id) ==
  \E r \in Requests :
    /\ call[r].op = "confirm" /\ Id(r) = id /\ answer[r] = "ok"
    /\ WarningRequired(rows[id]) => call[r].acknowledge

AuthorityIsGranted ==
  \A id \in ActionIDs : Exists(id) =>
    /\ (/\ rows[id].state \in {"authorized"} \cup ExecutionStates
        /\ Policy(rows[id].origin, rows[id].kind).confirmationRequired) => Confirmed(id)
    /\ rows[id].state \in ExecutionStates => rows[id].supportsExecution

(* The inductive invariant behind OnlyWarranted and AssistantNeverActsAlone. *)
WarrantInv == HandlersKeepToTheirCall /\ SnapshotsHold /\ AuthorityIsGranted

(* The inductive invariant behind ExecutionAnswersTrue: an answer 202 also *)
(* means that no handler is left that could complete the action.           *)
AnswerInv ==
  \A r \in Requests : call[r].op = "execute" =>
    /\ answer[r] \in {"ok", "bad_gateway", "accepted"} => Exists(Id(r))
    /\ answer[r] = "ok" => rows[Id(r)].state = "succeeded"
    /\ answer[r] = "bad_gateway" => rows[Id(r)].state = "failed"
    /\ answer[r] = "accepted" =>
         /\ rows[Id(r)].state = "executing"
         /\ \A q \in Requests : Id(q) = Id(r) => pc[q] \notin ExecutingPCs

(* "There is deliberately no retry after the durable executing             *)
(* transition": concurrent executions, lost replies, failed completions    *)
(* and process deaths never restart an application twice for one action.   *)
AtMostOneRestart == \A id \in ActionIDs : restarts[id] <= 1

(* A recorded outcome is the real one: succeeded means MiniDeploy did      *)
(* restart the application, failed means it did not and that no POST is    *)
(* still on the wire that could.                                           *)
OutcomeIsTrue ==
  \A id \in ActionIDs : Exists(id) =>
    /\ rows[id].state = "succeeded" => restarts[id] = 1
    /\ rows[id].state = "failed" =>
         /\ restarts[id] = 0
         /\ \A r \in Requests : Id(r) = id => wire[r] # "written"

(* An action the assistant suggested takes effect only after some operator *)
(* request confirmed it.                                                   *)
AssistantNeverActsAlone ==
  \A id \in ActionIDs :
    (restarts[id] > 0 /\ rows[id].origin = "assistant_suggested") =>
      \E r \in Requests :
        call[r].op = "confirm" /\ Id(r) = id /\ answer[r] = "ok"

(* Only what an operator warranted happens: an irreversible action is       *)
(* authorized by a confirmation that acknowledged the warning, although the *)
(* handler checks the warning before and outside the transaction that       *)
(* authorizes; and a restart stored before execution was supported stays    *)
(* readable and confirmable but is never executed.                          *)
OnlyWarranted ==
  \A id \in ActionIDs : Exists(id) =>
    /\ (rows[id].kind = "rollback_deployment" /\ rows[id].state = "authorized") =>
         \E r \in Requests :
           /\ call[r].op = "confirm" /\ call[r].acknowledge
           /\ Id(r) = id /\ answer[r] = "ok"
    /\ (rows[id].kind = "restart_application" /\ ~rows[id].supportsExecution) =>
         /\ rows[id].state \notin ExecutionStates
         /\ \A r \in Requests : Id(r) = id => wire[r] = "none"

(* createAssistantRestartSuggestion "is idempotent only within one trusted *)
(* History request": its lookup and its insertion are two database         *)
(* operations, yet one History entry never gets two restart suggestions.   *)
OneSuggestionPerHistory ==
  \A history \in Histories : \A id1, id2 \in SuggestionsFor(history) : id1 = id2

(* The inductive invariant behind it: whoever is past the lock holds it,   *)
(* and what the holder found missing is still missing when it inserts.     *)
SuggestionInv ==
  /\ OneSuggestionPerHistory
  /\ \A r \in Requests : call[r].op = "suggest" =>
       /\ pc[r] \in {"query", "load_row", "load_events", "create_tx"} =>
            suggestionLock = r
       /\ pc[r] = "create_tx" => SuggestionsFor(call[r].history) = {}

(* The execution endpoint never misreports: 200 means the stored action    *)
(* succeeded, 502 that it failed, 202 that it is still executing.          *)
ExecutionAnswersTrue ==
  \A r \in Requests : call[r].op = "execute" =>
    /\ answer[r] = "ok" => rows[Id(r)].state = "succeeded"
    /\ answer[r] = "bad_gateway" => rows[Id(r)].state = "failed"
    /\ answer[r] = "accepted" => rows[Id(r)].state = "executing"

(* Every request is answered, or lost with the process: nobody waits for   *)
(* ever on the suggestion mutex or on MiniDeploy.                          *)
EveryRequestAnswered ==
  \A r \in Requests : (pc[r] # "idle") ~> (pc[r] \in {"done", "gone"})

(* What one action promises, whatever the requests: RestartLifecycle. *)
Lifecycle ==
  INSTANCE RestartLifecycle WITH
    status <- [id \in ActionIDs |-> IF Exists(id) THEN rows[id].state ELSE "absent"],
    effects <- restarts

(* The service implements the one-shot lifecycle of every action. *)
LifecycleSpec == Lifecycle!Spec

(* The loser of concurrent executions is told 409, never 500: asserted of  *)
(* the execution endpoint by                                               *)
(* TestAdminActionExecuteConcurrencyCallsMiniDeployOnce.                   *)
ConcurrentLoserConflicts ==
  \A r \in Requests :
    (call[r].op = "execute" /\ faults = 0) => answer[r] # "server_error"
================================================================================

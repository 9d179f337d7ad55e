------------------------------ MODULE ActionStore ------------------------------
(***************************************************************************)
(* The durable half of the action subsystem: the action_proposals table    *)
(* and the action_events audit table of chatStore (action_storage.go,      *)
(* action_execution_storage.go).                                           *)
(*                                                                         *)
(* The database has one connection, so a transaction is one step here.  A  *)
(* load outside a transaction is several queries and is therefore split by *)
(* the callers into a row read and an event read.  Timestamps are kept,    *)
(* because a load compares them: the wall clock may return any member of   *)
(* Times at any call, so it may also step back.                            *)
(***************************************************************************)
EXTENDS ActionDomain

CONSTANTS ActionIDs, Targets, Histories, Times,
          NoRow,       \* the action is not in the table
          NoHistory,   \* a NULL history_entry_id
          LegacyIDs    \* may be stored from before execution was supported

ASSUME TimesAssumption == Times \subseteq Nat /\ Times # {}
ASSUME LegacyAssumption == LegacyIDs \subseteq ActionIDs
ASSUME NoHistoryAssumption == NoHistory \notin Histories

VARIABLES rows,   \* action_proposals by id
          logs    \* action_events by id, in ordinal order

storeVars == <<rows, logs>>

Rows == [kind : Kinds, origin : Origins, target : Targets,
         history : Histories \cup {NoHistory}, supportsExecution : BOOLEAN,
         state : States, createdAt : Times, updatedAt : Times]

ASSUME NoRowAssumption == NoRow \notin Rows

LogEntries == [event : Events, at : Times]

Exists(id) == rows[id] # NoRow

StoredEvents(log) == [i \in DOMAIN log |-> log[i].event]

(* The timestamps of a stored action agree with its audit events. *)
TimestampsMatch(row, log) ==
  /\ row.createdAt <= row.updatedAt
  /\ log # <<>>
  /\ log[1].at = row.createdAt
  /\ log[Len(log)].at = row.updatedAt
  /\ \A i \in 1 .. Len(log) - 1 : log[i].at <= log[i + 1].at

(* Pre-execution restarts stay readable without execution authority. *)
ValidStoredActionExecutionPolicy(row) ==
  IF row.supportsExecution
    THEN LookupDefinition[row.kind].supportsExecution
    ELSE \/ ~LookupDefinition[row.kind].supportsExecution
         \/ row.kind = "restart_application"

(* loadActionProposal accepts exactly these pairs of a row and its events; *)
(* every other pair is errInvalidPersistedAction.                          *)
Readable(row, log) ==
  /\ ValidStoredActionExecutionPolicy(row)
  /\ TimestampsMatch(row, log)
  /\ RestoreProposal(row.kind, row.origin, row.state, StoredEvents(log))

(* createActionProposal's transaction. *)
Insert(id, kind, origin, target, history, now) ==
  LET initial == Policy(origin, kind).initialState
  IN  /\ rows' = [rows EXCEPT ![id] =
           [kind |-> kind, origin |-> origin, target |-> target,
            history |-> history,
            supportsExecution |-> LookupDefinition[kind].supportsExecution,
            state |-> initial, createdAt |-> now, updatedAt |-> now]]
      /\ logs' = [logs EXCEPT ![id] =
           <<[event |-> CreationEvent(initial), at |-> now]>>]

(* Mutant: the wall clock is trusted. *)
StampWallClock(id, now) == now

(* The common tail of confirm, cancel, begin and complete: a guarded UPDATE *)
(* and one appended event, both stamped no earlier than the last update.    *)
Stamp(id, now) == IF now < rows[id].updatedAt THEN rows[id].updatedAt ELSE now

Transition(id, event, now) ==
  /\ rows[id].state = event.from
  /\ ValidateStateTransition(event.from, event.to)
  /\ rows' = [rows EXCEPT ![id].state = event.to,
                          ![id].updatedAt = Stamp(id, now)]
  /\ logs' = [logs EXCEPT ![id] =
                Append(@, [event |-> event, at |-> Stamp(id, now)])]

(* A transactional load succeeds: the action exists and validates. *)
Loadable(id) == Exists(id) /\ Readable(rows[id], logs[id])

(* The begin transaction's own checks on the stored action. *)
BeginAllowed(id, supplied) ==
  /\ Loadable(id)
  /\ ValidateRestartExecutionFoundation(rows[id].kind)
  /\ rows[id].supportsExecution
  /\ rows[id].state = "authorized"
  /\ rows[id].origin = supplied.origin
  /\ rows[id].target = supplied.target
  /\ rows[id].state = supplied.state
  /\ rows[id].createdAt = supplied.createdAt

CompleteAllowed(id) ==
  /\ Loadable(id)
  /\ ValidateRestartExecutionFoundation(rows[id].kind)
  /\ rows[id].supportsExecution
  /\ rows[id].state = "executing"

(* A restart written by an earlier release: supports_execution is false. *)
LegacyRow(origin, target, now) ==
  [kind |-> "restart_application", origin |-> origin, target |-> target,
   history |-> NoHistory, supportsExecution |-> FALSE,
   state |-> Policy(origin, "restart_application").initialState,
   createdAt |-> now, updatedAt |-> now]

StoreInit ==
  \E stored \in SUBSET LegacyIDs, origin \in Origins, target \in Targets, now \in Times :
    LET legacy == LegacyRow(origin, target, now)
    IN  /\ rows = [id \in ActionIDs |->
                     IF id \in stored THEN legacy ELSE NoRow]
        /\ logs = [id \in ActionIDs |->
                     IF id \in stored
                       THEN <<[event |-> CreationEvent(legacy.state), at |-> now]>>
                       ELSE <<>>]

StoreTypeOK ==
  /\ rows \in [ActionIDs -> Rows \cup {NoRow}]
  /\ logs \in [ActionIDs -> Seq(LogEntries)]
================================================================================

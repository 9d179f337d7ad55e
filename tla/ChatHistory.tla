-------------------------------- MODULE ChatHistory -------------------------------
(***************************************************************************)
(* The durable record of a chat request: handleChatStream stores the       *)
(* user's message and a running History entry in one transaction before it *)
(* starts any work, and the deferred finalizeRequestHistory stores the     *)
(* outcome, with the assistant's message, in another.  Clients leave,      *)
(* chats are deleted, the database fails and the process dies in between.  *)
(***************************************************************************)
EXTENDS Naturals

CONSTANTS Requests,     \* chat requests, each with the id of its History entry
          Chats,        \* identities of chats, none issued twice
          NoChat, NoMessage, NoEntry, NoCapture,
          MaxFaults,    \* bound: failed database operations
          MaxCrashes    \* bound: deaths of the process

ASSUME NoChatAssumption == NoChat \notin Chats
ASSUME NoMessageAssumption == NoMessage \notin Nat
ASSUME HistoryBoundsAssumption == MaxFaults \in Nat /\ MaxCrashes \in Nat

VARIABLES chats,         \* of each chat: is it unissued, there or deleted
          messages,      \* the stored messages
          lastMessage,   \* the AUTOINCREMENT counter of messages.id
          entries,       \* history_entries, by request
          pc,            \* where each handler stands
          chatOf,        \* the chat_id each request names
          captured,      \* what sseCaptureWriter saw of each stream
          left,          \* requests whose client has gone (r.Context() done)
          decided,       \* the final status each handler is about to store
          unfinalized,   \* handlers whose finalizing transaction failed
          up, faults, crashes

databaseVars == <<chats, messages, lastMessage, entries>>
handlerVars == <<pc, chatOf, captured, left, decided, unfinalized>>
worldVars == <<up, faults, crashes>>
historyVars == <<databaseVars, handlerVars, worldVars>>

Final == {"succeeded", "failed", "canceled", "interrupted"}
Undecided == "undecided"
Roles == {"user", "assistant"}
\* The category of a stream that broke off before its done event plays no part.
Captures == {c \in [done : BOOLEAN, text : BOOLEAN, failing : BOOLEAN] : c.failing => c.done}
ChatValues == Chats \cup {NoChat}
Entries == [status : Final \cup {"running"}, chat : ChatValues,
            user : Nat \cup {NoMessage}, assistant : Nat \cup {NoMessage}]
Working == {"streaming", "deciding", "finalizing"}

ASSUME NoEntryAssumption == NoEntry \notin Entries
ASSUME NoCaptureAssumption == NoCapture \notin Captures

Recorded == {r \in Requests : entries[r] # NoEntry}
Running(r) == r \in Recorded /\ entries[r].status = "running"
Exists(chat) == chat \in Chats /\ chats[chat] = "there"

(* A database operation fails: bounded by MaxFaults. *)
Fault == faults < MaxFaults /\ faults' = faults + 1

CreateChat(chat) ==
  /\ up /\ chats[chat] = "unissued"
  /\ chats' = [chats EXCEPT ![chat] = "there"]
  /\ UNCHANGED <<messages, lastMessage, entries, handlerVars, worldVars>>

(* Mutant: the schema sets only chat_id to NULL. *)
ForgetChatOnly(entry, chat) ==
  IF entry # NoEntry /\ entry.chat = chat THEN [entry EXCEPT !.chat = NoChat] ELSE entry

(* The foreign keys of the schema: messages go with their chat, and the    *)
(* entries, which stay, lose their references to both.                     *)
Forget(entry, chat) ==
  IF entry # NoEntry /\ entry.chat = chat
    THEN [entry EXCEPT !.chat = NoChat, !.user = NoMessage, !.assistant = NoMessage]
    ELSE entry

DeleteChat(chat) ==
  /\ up /\ Exists(chat)
  /\ chats' = [chats EXCEPT ![chat] = "deleted"]
  /\ messages' = {m \in messages : m.chat # chat}
  /\ entries' = [r \in Requests |-> Forget(entries[r], chat)]
  /\ UNCHANGED <<lastMessage, handlerVars, worldVars>>

Move(r, from, to) ==
  /\ up /\ pc[r] = from
  /\ pc' = [pc EXCEPT ![r] = to]

Ask(r, chat) ==
  /\ Move(r, "idle", IF chat = NoChat THEN "starting" ELSE "checking")
  /\ chatOf' = [chatOf EXCEPT ![r] = chat]
  /\ UNCHANGED <<databaseVars, captured, left, decided, unfinalized, worldVars>>

(* chatExists, then history: a chat deleted in between has an empty one.   *)
CheckChat(r) ==
  /\ \/ Exists(chatOf[r]) /\ Move(r, "checking", "starting") /\ UNCHANGED faults
     \/ ~Exists(chatOf[r]) /\ Move(r, "checking", "ended") /\ UNCHANGED faults
     \/ Move(r, "checking", "ended") /\ Fault
  /\ UNCHANGED <<databaseVars, chatOf, captured, left, decided, unfinalized, up, crashes>>

(* appendMessageTx: the next id is new even if the last message is gone.   *)
AppendMessage(chat, role) ==
  /\ lastMessage' = lastMessage + 1
  /\ messages' = messages \cup {[id |-> lastMessage + 1, chat |-> chat, role |-> role]}

(* startHistoryEntry: the user's message, in a chat that is still there,   *)
(* and the running entry are stored together; if either fails the request  *)
(* is refused with 503 before any work.                                    *)
NewEntry(chat, user) ==
  [status |-> "running", chat |-> chat, user |-> user, assistant |-> NoMessage]

StartEntry(r) ==
  LET chat == chatOf[r]
  IN IF chat = NoChat
       THEN /\ entries' = [entries EXCEPT ![r] = NewEntry(NoChat, NoMessage)]
            /\ UNCHANGED <<chats, messages, lastMessage>>
       ELSE /\ Exists(chat)
            /\ AppendMessage(chat, "user")
            /\ entries' = [entries EXCEPT ![r] = NewEntry(chat, lastMessage + 1)]
            /\ UNCHANGED chats

(* Mutant: history is best effort, the work starts without its entry. *)
RefusedNever(r) ==
  /\ Move(r, "starting", "streaming")
  /\ UNCHANGED databaseVars
  /\ \/ chatOf[r] # NoChat /\ ~Exists(chatOf[r]) /\ UNCHANGED faults
     \/ Fault

Refused(r) ==
  /\ Move(r, "starting", "ended")
  /\ UNCHANGED databaseVars
  /\ \/ chatOf[r] # NoChat /\ ~Exists(chatOf[r]) /\ UNCHANGED faults
     \/ Fault

Start(r) ==
  /\ \/ Move(r, "starting", "streaming") /\ StartEntry(r) /\ UNCHANGED faults
     \/ Refused(r)
  /\ UNCHANGED <<chatOf, captured, left, decided, unfinalized, up, crashes>>

(* Whatever the handler does ends the stream with some answer text or      *)
(* none, with or without a done event, and with an error category that     *)
(* counts as a failure or does not (historyErrorCategoryIsFailure).        *)
StreamEnds(r, capture) ==
  /\ Move(r, "streaming", "deciding")
  /\ captured' = [captured EXCEPT ![r] = capture]
  /\ UNCHANGED <<databaseVars, chatOf, left, decided, unfinalized, worldVars>>

(* The request's context is cancelled at any time until it has returned.   *)
ClientLeaves(r) ==
  /\ up /\ pc[r] \notin {"idle", "ended"} /\ r \notin left
  /\ left' = left \cup {r}
  /\ UNCHANGED <<databaseVars, pc, chatOf, captured, decided, unfinalized, worldVars>>

(* historyStatusForCapture *)
StatusFor(r) ==
  IF r \in left THEN "canceled"
  ELSE IF captured[r].done /\ ~captured[r].failing THEN "succeeded" ELSE "failed"

Decide(r) ==
  /\ Move(r, "deciding", "finalizing")
  /\ decided' = [decided EXCEPT ![r] = StatusFor(r)]
  /\ UNCHANGED <<databaseVars, chatOf, captured, left, unfinalized, worldVars>>

(* Mutant: the answer is stored only for a succeeded entry. *)
PersistsAssistantOfSucceeded(r) ==
  /\ captured[r].done /\ captured[r].text /\ decided[r] = "succeeded"
  /\ entries[r].chat # NoChat

(* finalizeHistoryEntry: one transaction, only for a running entry.        *)
PersistsAssistant(r) ==
  /\ captured[r].done /\ captured[r].text /\ decided[r] # "canceled"
  /\ entries[r].chat # NoChat

StoreOutcome(r) ==
  /\ IF PersistsAssistant(r)
       THEN /\ AppendMessage(entries[r].chat, "assistant")
            /\ entries' = [entries EXCEPT ![r].status = decided[r],
                                          ![r].assistant = lastMessage + 1]
       ELSE /\ entries' = [entries EXCEPT ![r].status = decided[r]]
            /\ UNCHANGED <<messages, lastMessage>>
  /\ UNCHANGED chats

(* The error of a failed transaction is only logged. *)
Finalize(r) ==
  /\ Move(r, "finalizing", "ended")
  /\ \/ /\ IF Running(r) THEN StoreOutcome(r) ELSE UNCHANGED databaseVars
        /\ UNCHANGED <<unfinalized, faults>>
     \/ /\ Fault
        /\ unfinalized' = unfinalized \cup {r}
        /\ UNCHANGED databaseVars
  /\ UNCHANGED <<chatOf, captured, left, decided, up, crashes>>

(* The process dies; its handlers are gone, what they committed stays.     *)
Crash ==
  /\ up /\ crashes < MaxCrashes
  /\ up' = FALSE /\ crashes' = crashes + 1
  /\ pc' = [r \in Requests |-> IF pc[r] = "idle" THEN "idle" ELSE "ended"]
  /\ unfinalized' = {}
  /\ UNCHANGED <<databaseVars, chatOf, captured, left, decided, faults>>

(* Mutants: the running entries stay; the WHERE clause is missing. *)
InterruptedNever(entry) == entry
InterruptedAlways(entry) ==
  IF entry # NoEntry THEN [entry EXCEPT !.status = "interrupted"] ELSE entry

(* openChatStore ends with interruptRunningHistory; only then is the       *)
(* service there.                                                          *)
Interrupted(entry) ==
  IF entry # NoEntry /\ entry.status = "running"
    THEN [entry EXCEPT !.status = "interrupted"] ELSE entry

Boot ==
  /\ ~up /\ up' = TRUE
  /\ entries' = [r \in Requests |-> Interrupted(entries[r])]
  /\ UNCHANGED <<chats, messages, lastMessage, handlerVars, faults, crashes>>

Handle(r) ==
  \/ CheckChat(r) \/ Start(r) \/ Decide(r) \/ Finalize(r)
  \/ \E capture \in Captures : StreamEnds(r, capture)

Init ==
  /\ chats = [c \in Chats |-> "unissued"]
  /\ messages = {} /\ lastMessage = 0
  /\ entries = [r \in Requests |-> NoEntry]
  /\ pc = [r \in Requests |-> "idle"]
  /\ chatOf = [r \in Requests |-> NoChat]
  /\ captured = [r \in Requests |-> NoCapture]
  /\ left = {} /\ unfinalized = {}
  /\ decided = [r \in Requests |-> Undecided]
  /\ up = TRUE /\ faults = 0 /\ crashes = 0

Next ==
  \/ \E chat \in Chats : CreateChat(chat) \/ DeleteChat(chat)
  \/ \E r \in Requests : Handle(r) \/ ClientLeaves(r) \/ \E chat \in ChatValues : Ask(r, chat)
  \/ Crash \/ Boot

Spec == Init /\ [][Next]_historyVars

(* A handler that has begun goes on: its reads, its calls of Ollama and    *)
(* its transactions all have timeouts; systemd restarts the service.       *)
FairSpec == Spec /\ WF_historyVars(Boot) /\ \A r \in Requests : WF_historyVars(Handle(r))

(* The type invariant. *)
TypeOK ==
  /\ chats \in [Chats -> {"unissued", "there", "deleted"}]
  /\ messages \subseteq [id : 1 .. lastMessage, chat : Chats, role : Roles]
  /\ lastMessage \in Nat
  /\ entries \in [Requests -> Entries \cup {NoEntry}]
  /\ pc \in [Requests -> {"idle", "checking", "starting", "ended"} \cup Working]
  /\ chatOf \in [Requests -> ChatValues]
  /\ captured \in [Requests -> Captures \cup {NoCapture}]
  /\ left \subseteq Requests /\ unfinalized \subseteq Requests
  /\ decided \in [Requests -> (Final \ {"interrupted"}) \cup {Undecided}]
  /\ up \in BOOLEAN /\ faults \in 0 .. MaxFaults /\ crashes \in 0 .. MaxCrashes

RefersTo(r, m) ==
  /\ entries[r].chat = m.chat
  /\ m.id = IF m.role = "user" THEN entries[r].user ELSE entries[r].assistant
References(r) == {entries[r].user, entries[r].assistant} \ {NoMessage}

(* Chat and History tell the same story, whatever was deleted or cut short *)
(* in between: every stored message belongs to one execution of its chat,  *)
(* in its role; every reference of an entry leads to a message, an answer  *)
(* to one that follows its question; and an entry that was cancelled or    *)
(* interrupted has no answer (history_request_test.go:253).                *)
ReferencesInv ==
  /\ \A m \in messages :
       /\ Exists(m.chat)
       /\ \E r \in Recorded : RefersTo(r, m) /\ \A q \in Recorded : RefersTo(q, m) => q = r
  /\ \A r \in Recorded :
       /\ \A id \in References(r) : \E m \in messages : m.id = id /\ RefersTo(r, m)
       /\ entries[r].assistant # NoMessage =>
            /\ entries[r].status \in {"succeeded", "failed"}
            /\ entries[r].user # NoMessage /\ entries[r].user < entries[r].assistant

(* While the service is up, an entry is running only if a handler still    *)
(* works for it or could not store its outcome; in particular no entry of  *)
(* an earlier process is (interruptRunningHistory).                        *)
RunningOwned ==
  up => \A r \in Requests : Running(r) => pc[r] \in Working \/ r \in unfinalized

(* No request does any work without a History entry of its own             *)
(* (history_request_test.go:260), and that stays running until the request *)
(* itself stores the outcome: errHistoryAlreadyFinalized is never met.     *)
WorkIsRecorded ==
  \A r \in Requests : pc[r] \in Working => Running(r)

(* The answer a client was streamed to the end is the assistant's message  *)
(* of its entry, as long as the chat is there, also when the answer        *)
(* reports a failure; and nothing else ever is.                            *)
AnswersAreLinked ==
  \A r \in Recorded :
    entries[r].status \in {"succeeded", "failed"} /\ entries[r].chat # NoChat =>
      (entries[r].assistant # NoMessage <=> captured[r].done /\ captured[r].text)

(* A stored outcome is never changed: not by a second finalization and not *)
(* by the recovery at the next start (history_storage_test.go:541).        *)
FinalForever ==
  [][\A r \in Recorded : entries[r].status \in Final => entries'[r].status = entries[r].status]_historyVars

(* Every execution comes to an end in History, by its own handler or by    *)
(* the recovery after a crash; only a failed finalizing transaction leaves *)
(* it running, until the next start.                                       *)
ExecutionEnds ==
  \A r \in Requests : Running(r) ~> (~Running(r) \/ r \in unfinalized)
================================================================================

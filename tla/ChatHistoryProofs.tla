----------------------------- MODULE ChatHistoryProofs ----------------------------
(***************************************************************************)
(* Proofs about ChatHistory: chat and History agree and outcomes are       *)
(* final, for any number of requests, chats, faults and crashes.           *)
(***************************************************************************)
EXTENDS ChatHistory, TLAPS

(* A request has no entry before it starts, and none works while the       *)
(* process is down.                                                        *)
Unstarted == {"idle", "checking", "starting"}
ProgressInv ==
  \A r \in Requests :
    /\ pc[r] \in Unstarted => entries[r] = NoEntry
    /\ ~up => pc[r] \notin Working
    /\ pc[r] = "finalizing" => decided[r] # Undecided
    /\ pc[r] \in {"deciding", "finalizing"} => captured[r] \in Captures

(* An entry that names a chat names one that is there, and its question.   *)
ChatInv ==
  \A r \in Recorded :
    entries[r].chat # NoChat => Exists(entries[r].chat) /\ entries[r].user # NoMessage

OwnInv == ProgressInv /\ RunningOwned /\ WorkIsRecorded
StoryInv == ChatInv /\ ReferencesInv /\ AnswersAreLinked
Inv == TypeOK /\ OwnInv /\ StoryInv

LEMMA EntryTypes ==
  ASSUME NEW e \in Entries
  PROVE  /\ e # NoEntry
         /\ \A s \in Final \cup {"running"} : [e EXCEPT !.status = s] \in Entries
         /\ \A s \in Final \cup {"running"}, id \in Nat :
              [e EXCEPT !.status = s, !.assistant = id] \in Entries
         /\ [e EXCEPT !.chat = NoChat, !.user = NoMessage, !.assistant = NoMessage] \in Entries
BY NoEntryAssumption DEF Entries, ChatValues

LEMMA NewEntryType ==
  ASSUME NEW chat \in ChatValues, NEW user \in Nat \cup {NoMessage}
  PROVE  /\ NewEntry(chat, user) \in Entries
         /\ NewEntry(chat, user) # NoEntry
BY NoEntryAssumption DEF Entries, NewEntry

LEMMA RecordedType ==
  ASSUME TypeOK, NEW r \in Recorded
  PROVE  r \in Requests /\ entries[r] \in Entries
BY DEF TypeOK, Recorded

LEMMA ForgetType ==
  ASSUME NEW e \in Entries \cup {NoEntry}, NEW chat \in Chats
  PROVE  /\ Forget(e, chat) \in Entries \cup {NoEntry}
         /\ Forget(e, chat) = NoEntry <=> e = NoEntry
BY EntryTypes DEF Forget

LEMMA InterruptedType ==
  ASSUME NEW e \in Entries \cup {NoEntry}
  PROVE  /\ Interrupted(e) \in Entries \cup {NoEntry}
         /\ Interrupted(e) = NoEntry <=> e = NoEntry
BY EntryTypes DEF Interrupted, Final

LEMMA InitInv == Init => Inv
<1> SUFFICES ASSUME Init PROVE Inv
  OBVIOUS
<1>1. TypeOK
  BY HistoryBoundsAssumption DEF Init, TypeOK, ChatValues
<1>2. Recorded = {}
  BY DEF Init, Recorded
<1>3. OwnInv
  BY <1>2 DEF Init, OwnInv, ProgressInv, RunningOwned, WorkIsRecorded, Working, Running, Unstarted
<1>4. StoryInv
  BY <1>2 DEF Init, StoryInv, ChatInv, ReferencesInv, AnswersAreLinked
<1> QED
  BY <1>1, <1>3, <1>4 DEF Inv

(* The transactions, typed. *)
LEMMA StartEntryType ==
  ASSUME TypeOK, NEW r \in Requests, StartEntry(r)
  PROVE  /\ messages' \subseteq [id : 1 .. lastMessage', chat : Chats, role : Roles]
         /\ lastMessage' \in Nat /\ lastMessage' >= lastMessage
         /\ entries' \in [Requests -> Entries \cup {NoEntry}]
         /\ chats' = chats
<1>1. CASE chatOf[r] = NoChat
  <2>1. NewEntry(NoChat, NoMessage) \in Entries
    BY NewEntryType DEF ChatValues
  <2> QED
    BY <1>1, <2>1 DEF TypeOK, StartEntry
<1>2. CASE chatOf[r] # NoChat
  <2>1. chatOf[r] \in Chats /\ lastMessage + 1 \in Nat
    BY <1>2 DEF TypeOK, ChatValues
  <2>2. NewEntry(chatOf[r], lastMessage + 1) \in Entries
    BY <2>1, NewEntryType DEF ChatValues
  <2>3. /\ lastMessage' = lastMessage + 1
        /\ messages' = messages \cup {[id |-> lastMessage + 1, chat |-> chatOf[r], role |-> "user"]}
        /\ entries' = [entries EXCEPT ![r] = NewEntry(chatOf[r], lastMessage + 1)]
        /\ chats' = chats
    BY <1>2 DEF StartEntry, AppendMessage
  <2> QED
    BY <2>1, <2>2, <2>3 DEF TypeOK, Roles
<1> QED
  BY <1>1, <1>2

LEMMA StoreOutcomeType ==
  ASSUME TypeOK, NEW r \in Requests, Running(r), StoreOutcome(r), decided[r] # Undecided
  PROVE  /\ messages' \subseteq [id : 1 .. lastMessage', chat : Chats, role : Roles]
         /\ lastMessage' \in Nat
         /\ entries' \in [Requests -> Entries \cup {NoEntry}]
         /\ chats' = chats
<1>1. entries[r] \in Entries /\ decided[r] \in Final
  BY RecordedType DEF Running, TypeOK
<1>2. CASE PersistsAssistant(r)
  <2>1. entries[r].chat \in Chats /\ lastMessage + 1 \in Nat
    BY <1>1, <1>2 DEF PersistsAssistant, Entries, ChatValues, TypeOK
  <2>2. /\ lastMessage' = lastMessage + 1
        /\ messages' = messages \cup
             {[id |-> lastMessage + 1, chat |-> entries[r].chat, role |-> "assistant"]}
        /\ entries' = [entries EXCEPT ![r] =
             [entries[r] EXCEPT !.status = decided[r], !.assistant = lastMessage + 1]]
        /\ chats' = chats
    BY <1>2 DEF StoreOutcome, AppendMessage
  <2>3. [entries[r] EXCEPT !.status = decided[r], !.assistant = lastMessage + 1] \in Entries
    BY <1>1, <2>1, EntryTypes
  <2> QED
    BY <2>1, <2>2, <2>3 DEF TypeOK, Roles
<1>3. CASE ~PersistsAssistant(r)
  <2>1. [entries[r] EXCEPT !.status = decided[r]] \in Entries
    BY <1>1, EntryTypes
  <2> QED
    BY <1>3, <2>1 DEF TypeOK, StoreOutcome
<1> QED
  BY <1>2, <1>3

LEMMA TypeStep == TypeOK /\ ProgressInv /\ WorkIsRecorded /\ [Next]_historyVars => TypeOK'
<1> SUFFICES ASSUME TypeOK, ProgressInv, WorkIsRecorded, [Next]_historyVars PROVE TypeOK'
  OBVIOUS
<1>1. ASSUME NEW chat \in Chats, CreateChat(chat) PROVE TypeOK'
  BY <1>1 DEF TypeOK, CreateChat, handlerVars, worldVars
<1>2. ASSUME NEW chat \in Chats, DeleteChat(chat) PROVE TypeOK'
  <2>1. entries' \in [Requests -> Entries \cup {NoEntry}]
    BY <1>2, ForgetType DEF TypeOK, DeleteChat
  <2> QED
    BY <1>2, <2>1 DEF TypeOK, DeleteChat, handlerVars, worldVars
<1>3. ASSUME NEW r \in Requests, NEW chat \in ChatValues, Ask(r, chat) PROVE TypeOK'
  BY <1>3 DEF TypeOK, Ask, Move, databaseVars, worldVars
<1>4. ASSUME NEW r \in Requests, CheckChat(r) PROVE TypeOK'
  BY <1>4, HistoryBoundsAssumption DEF TypeOK, CheckChat, Move, Fault, databaseVars
<1>5. ASSUME NEW r \in Requests, Start(r) PROVE TypeOK'
  <2>1. CASE Move(r, "starting", "streaming") /\ StartEntry(r) /\ UNCHANGED faults
    BY <1>5, <2>1, StartEntryType DEF TypeOK, Start, Move, Working
  <2>2. CASE Refused(r)
    BY <1>5, <2>2, HistoryBoundsAssumption DEF TypeOK, Start, Refused, Move, Fault, databaseVars
  <2> QED
    BY <1>5, <2>1, <2>2 DEF Start
<1>6. ASSUME NEW r \in Requests, NEW capture \in Captures, StreamEnds(r, capture) PROVE TypeOK'
  BY <1>6 DEF TypeOK, StreamEnds, Move, Working, databaseVars, worldVars
<1>7. ASSUME NEW r \in Requests, ClientLeaves(r) PROVE TypeOK'
  BY <1>7 DEF TypeOK, ClientLeaves, databaseVars, worldVars
<1>8. ASSUME NEW r \in Requests, Decide(r) PROVE TypeOK'
  BY <1>8 DEF TypeOK, Decide, StatusFor, Move, Working, Final, databaseVars, worldVars
<1>9. ASSUME NEW r \in Requests, Finalize(r) PROVE TypeOK'
  <2>1. Running(r) /\ decided[r] # Undecided
    BY <1>9 DEF ProgressInv, WorkIsRecorded, Working, Finalize, Move
  <2>2. CASE StoreOutcome(r) /\ UNCHANGED <<unfinalized, faults>>
    BY <1>9, <2>1, <2>2, StoreOutcomeType DEF TypeOK, Finalize, Move
  <2>3. CASE Fault /\ unfinalized' = unfinalized \cup {r} /\ UNCHANGED databaseVars
    BY <1>9, <2>3, HistoryBoundsAssumption DEF TypeOK, Finalize, Move, Fault, databaseVars
  <2> QED
    BY <1>9, <2>1, <2>2, <2>3 DEF Finalize
<1>10. CASE Crash
  <2>1. UNCHANGED <<chats, messages, lastMessage, entries, chatOf, captured, left, decided, faults>>
    <3>1. UNCHANGED <<databaseVars, chatOf, captured, left, decided, faults>>
      BY <1>10 DEF Crash
    <3> QED
      BY <3>1 DEF databaseVars
  <2>2. /\ crashes' \in 0 .. MaxCrashes /\ up' \in BOOLEAN /\ unfinalized' \subseteq Requests
        /\ pc' \in [Requests -> {"idle", "ended"}]
    <3>1. /\ crashes < MaxCrashes /\ crashes' = crashes + 1
          /\ up' = FALSE /\ unfinalized' = {}
          /\ pc' = [r \in Requests |-> IF pc[r] = "idle" THEN "idle" ELSE "ended"]
      BY <1>10 DEF Crash
    <3>2. crashes' \in 0 .. MaxCrashes
      BY <3>1, HistoryBoundsAssumption DEF TypeOK
    <3> QED
      BY <3>1, <3>2
  <2>3. pc' \in [Requests -> {"idle", "checking", "starting", "ended"} \cup Working]
    BY <2>2
  <2> QED
    BY <2>1, <2>2, <2>3 DEF TypeOK
<1>11. CASE Boot
  <2>1. entries' \in [Requests -> Entries \cup {NoEntry}]
    BY <1>11, InterruptedType DEF TypeOK, Boot
  <2> QED
    BY <1>11, <2>1 DEF TypeOK, Boot, handlerVars
<1>12. CASE UNCHANGED historyVars
  BY <1>12 DEF TypeOK, historyVars, databaseVars, handlerVars, worldVars
<1> QED
  BY <1>1, <1>2, <1>3, <1>4, <1>5, <1>6, <1>7, <1>8, <1>9, <1>10, <1>11, <1>12
     DEF Next, Handle

(* An entry is never lost, and one that runs stays so but for its own      *)
(* finalization and the recovery at a start.                               *)
LEMMA EntriesKept ==
  ASSUME TypeOK, [Next]_historyVars, NEW r \in Requests,
         ~Finalize(r), ~Start(r), ~Boot
  PROVE  /\ entries'[r] = NoEntry <=> entries[r] = NoEntry
         /\ r \in Recorded => entries'[r].status = entries[r].status
<1> DEFINE Kept(q) == /\ entries'[q] = NoEntry <=> entries[q] = NoEntry
                      /\ q \in Recorded => entries'[q].status = entries[q].status
<1>1. ASSUME NEW chat \in Chats, DeleteChat(chat) PROVE Kept(r)
  <2>1. entries'[r] = Forget(entries[r], chat)
    BY <1>1 DEF DeleteChat
  <2>2. entries[r] # NoEntry => entries[r] \in Entries
    BY DEF TypeOK
  <2>3. entries[r] # NoEntry => Forget(entries[r], chat).status = entries[r].status
    BY <2>2 DEF Forget, Entries
  <2> QED
    BY <2>1, <2>2, <2>3, ForgetType DEF Recorded
<1>2. ASSUME NEW q \in Requests, Start(q) PROVE Kept(r)
  BY <1>2 DEF Start, StartEntry, Refused, databaseVars, TypeOK
<1>3. ASSUME NEW q \in Requests, Finalize(q) PROVE Kept(r)
  BY <1>3 DEF Finalize, StoreOutcome, databaseVars, TypeOK
<1>4. CASE UNCHANGED entries
  BY <1>4 DEF Recorded
<1> QED
  BY <1>1, <1>2, <1>3, <1>4
     DEF Next, Handle, CreateChat, Ask, CheckChat, StreamEnds, ClientLeaves, Decide, Crash,
         historyVars, databaseVars

LEMMA OwnStep == TypeOK /\ TypeOK' /\ OwnInv /\ [Next]_historyVars => OwnInv'
<1> SUFFICES ASSUME TypeOK, TypeOK', OwnInv, [Next]_historyVars,
                    NEW r \in Requests
             PROVE  /\ pc'[r] \in Unstarted => entries'[r] = NoEntry
                    /\ ~up' => pc'[r] \notin Working
                    /\ pc'[r] = "finalizing" => decided'[r] # Undecided
                    /\ pc'[r] \in {"deciding", "finalizing"} => captured'[r] \in Captures
                    /\ up' /\ Running(r)' => pc'[r] \in Working \/ r \in unfinalized'
                    /\ pc'[r] \in Working => Running(r)'
  BY DEF OwnInv, ProgressInv, RunningOwned, WorkIsRecorded
<1> DEFINE Goal == /\ pc'[r] \in Unstarted => entries'[r] = NoEntry
                   /\ ~up' => pc'[r] \notin Working
                   /\ pc'[r] = "finalizing" => decided'[r] # Undecided
                   /\ pc'[r] \in {"deciding", "finalizing"} => captured'[r] \in Captures
                   /\ up' /\ Running(r)' => pc'[r] \in Working \/ r \in unfinalized'
                   /\ pc'[r] \in Working => Running(r)'
<1>1. /\ pc[r] \in Unstarted => entries[r] = NoEntry
      /\ ~up => pc[r] \notin Working
      /\ pc[r] = "finalizing" => decided[r] # Undecided
      /\ pc[r] \in {"deciding", "finalizing"} => captured[r] \in Captures
      /\ up /\ Running(r) => pc[r] \in Working \/ r \in unfinalized
      /\ pc[r] \in Working => Running(r)
  BY DEF OwnInv, ProgressInv, RunningOwned, WorkIsRecorded
<1>2. CASE Start(r)
  <2>1. CASE Move(r, "starting", "streaming") /\ StartEntry(r)
    <3>1. Running(r)'
      BY <2>1, NewEntryType DEF StartEntry, AppendMessage, Running, Recorded, NewEntry, TypeOK, ChatValues
    <3> QED
      BY <1>2, <2>1, <3>1 DEF Start, Move, Working, Unstarted, TypeOK
  <2>2. CASE Refused(r)
    BY <1>1, <1>2, <2>2
       DEF Start, Refused, Move, Working, Unstarted, TypeOK, Running, Recorded, databaseVars
  <2> QED
    BY <1>2, <2>1, <2>2 DEF Start
<1>3. CASE Finalize(r)
  <2>1. Running(r) /\ entries[r] \in Entries /\ decided[r] \in Final
    BY <1>1, <1>3 DEF Finalize, Move, Working, Running, Recorded, TypeOK
  <2>2. pc'[r] = "ended" /\ up'
    BY <1>3 DEF Finalize, Move, TypeOK
  <2>3. CASE StoreOutcome(r)
    <3>1. entries'[r].status = decided[r]
      BY <2>1, <2>3 DEF StoreOutcome, TypeOK, Entries
    <3>2. ~Running(r)'
      BY <2>1, <3>1 DEF Running, Final
    <3> QED
      BY <2>2, <3>2 DEF Working, Unstarted
  <2>4. CASE unfinalized' = unfinalized \cup {r}
    BY <2>2, <2>4 DEF Working, Unstarted
  <2> QED
    BY <1>3, <2>1, <2>3, <2>4 DEF Finalize
<1>4. CASE Boot
  <2>1. UNCHANGED <<pc, decided, captured, unfinalized>> /\ ~up /\ up'
    BY <1>4 DEF Boot, handlerVars
  <2>2. entries'[r] = Interrupted(entries[r]) /\ entries[r] \in Entries \cup {NoEntry}
    BY <1>4 DEF Boot, TypeOK
  <2>3. entries'[r] = NoEntry <=> entries[r] = NoEntry
    BY <2>2, InterruptedType
  <2>4. ~Running(r)'
    BY <2>2 DEF Running, Recorded, Interrupted, Entries
  <2> QED
    BY <1>1, <2>1, <2>3, <2>4
<1>5. CASE ~Start(r) /\ ~Finalize(r) /\ ~Boot
  <2>1. /\ entries'[r] = NoEntry <=> entries[r] = NoEntry
        /\ r \in Recorded => entries'[r].status = entries[r].status
    BY <1>5, EntriesKept
  <2>2. Running(r)' <=> Running(r)
    BY <2>1 DEF Running, Recorded
  <2>3. CASE Crash
    BY <1>1, <2>1, <2>2, <2>3 DEF Crash, TypeOK, Working, Unstarted
  <2>4. ASSUME NEW chat \in ChatValues, Ask(r, chat) PROVE Goal
    BY <1>1, <2>1, <2>2, <2>4 DEF Ask, Move, TypeOK, Working, Unstarted, worldVars
  <2>5. CASE CheckChat(r)
    BY <1>1, <2>1, <2>2, <2>5 DEF CheckChat, Move, TypeOK, Working, Unstarted
  <2>6. ASSUME NEW capture \in Captures, StreamEnds(r, capture) PROVE Goal
    BY <1>1, <2>1, <2>2, <2>6 DEF StreamEnds, Move, TypeOK, Working, Unstarted, worldVars
  <2>7. CASE Decide(r)
    <3>1. decided'[r] # Undecided
      BY <2>7 DEF Decide, StatusFor, Undecided, TypeOK
    <3> QED
      BY <1>1, <2>1, <2>2, <2>7, <3>1 DEF Decide, Move, TypeOK, Working, Unstarted, worldVars
  <2>8. CASE UNCHANGED <<pc[r], decided[r], captured[r], up>> /\ (r \in unfinalized => r \in unfinalized')
    BY <1>1, <2>1, <2>2, <2>8
  <2>9. ASSUME NEW q \in Requests \ {r}, Handle(q) PROVE Goal
    BY <2>8, <2>9
       DEF Handle, CheckChat, Start, Refused, StreamEnds, Decide, Finalize, Move, TypeOK,
           databaseVars, worldVars
  <2>10. ASSUME NEW q \in Requests \ {r}, NEW chat \in ChatValues, Ask(q, chat) PROVE Goal
    BY <2>8, <2>10 DEF Ask, Move, TypeOK, worldVars
  <2>11. ASSUME NEW q \in Requests, ClientLeaves(q) PROVE Goal
    BY <2>8, <2>11 DEF ClientLeaves, worldVars
  <2>12. ASSUME NEW chat \in Chats, CreateChat(chat) \/ DeleteChat(chat) PROVE Goal
    BY <2>8, <2>12 DEF CreateChat, DeleteChat, handlerVars, worldVars
  <2>13. CASE UNCHANGED historyVars
    BY <2>8, <2>13 DEF historyVars, handlerVars, worldVars
  <2> QED
    BY <1>5, <2>3, <2>4, <2>5, <2>6, <2>7, <2>9, <2>10, <2>11, <2>12, <2>13 DEF Next, Handle
<1> QED
  BY <1>2, <1>3, <1>4, <1>5

(* A step that may add chats and end running executions, and no more. *)
StoryUntouched ==
  /\ messages' = messages
  /\ \A chat \in Chats : Exists(chat) => Exists(chat)'
  /\ \A r \in Requests :
       /\ entries'[r] = NoEntry <=> entries[r] = NoEntry
       /\ r \in Recorded =>
            /\ entries'[r].chat = entries[r].chat
            /\ entries'[r].user = entries[r].user
            /\ entries'[r].assistant = entries[r].assistant
            /\ \/ entries'[r].status = entries[r].status
               \/ Running(r) /\ entries'[r].status = "interrupted"
            /\ Running(r) \/ captured'[r] = captured[r]

LEMMA StoryUntouchedStep ==
  ASSUME TypeOK, StoryInv, StoryUntouched
  PROVE  StoryInv'
<1>1. Recorded' = Recorded
  BY DEF StoryUntouched, Recorded
<1>2. \A m \in messages, r \in Recorded : RefersTo(r, m)' <=> RefersTo(r, m)
  BY DEF StoryUntouched, RefersTo, Recorded
<1>3. \A r \in Recorded : References(r)' = References(r)
  BY DEF StoryUntouched, References, Recorded
<1>4. \A m \in messages : m.chat \in Chats
  BY DEF TypeOK
<1>5. ChatInv'
  BY <1>1, RecordedType DEF StoryUntouched, StoryInv, ChatInv, Entries, ChatValues
<1>6. ReferencesInv'
  <2>1. \A m \in messages' :
          /\ Exists(m.chat)'
          /\ \E r \in Recorded' : RefersTo(r, m)' /\ \A q \in Recorded' : RefersTo(q, m)' => q = r
    BY <1>1, <1>2, <1>4 DEF StoryUntouched, StoryInv, ReferencesInv
  <2>2. \A r \in Recorded' :
          \A id \in References(r)' : \E m \in messages' : m.id = id /\ RefersTo(r, m)'
    BY <1>1, <1>2, <1>3 DEF StoryUntouched, StoryInv, ReferencesInv
  <2>3. \A r \in Recorded' :
          entries'[r].assistant # NoMessage =>
            /\ entries'[r].status \in {"succeeded", "failed"}
            /\ entries'[r].user # NoMessage /\ entries'[r].user < entries'[r].assistant
    BY <1>1 DEF StoryUntouched, StoryInv, ReferencesInv, Running, Recorded
  <2> QED
    BY <2>1, <2>2, <2>3 DEF ReferencesInv
<1>7. AnswersAreLinked'
  BY <1>1 DEF StoryUntouched, StoryInv, AnswersAreLinked, Running, Recorded
<1> QED
  BY <1>5, <1>6, <1>7 DEF StoryInv

LEMMA DeleteKeepsStory ==
  ASSUME TypeOK, StoryInv, NEW chat \in Chats, DeleteChat(chat)
  PROVE  StoryInv'
<1>1. /\ chats' = [chats EXCEPT ![chat] = "deleted"]
      /\ messages' = {m \in messages : m.chat # chat}
      /\ captured' = captured
  BY DEF DeleteChat, handlerVars
<1>2. ASSUME NEW r \in Requests PROVE entries'[r] = Forget(entries[r], chat)
  BY DEF DeleteChat
<1>3. Recorded' = Recorded
  BY <1>2, ForgetType DEF Recorded, TypeOK
<1>4. \A r \in Recorded : entries[r].chat # chat => entries'[r] = entries[r]
  BY <1>2 DEF Forget, Recorded
<1>5. \A r \in Recorded : entries[r].chat = chat =>
        /\ entries'[r].chat = NoChat
        /\ entries'[r].user = NoMessage
        /\ entries'[r].assistant = NoMessage
        /\ entries'[r].status = entries[r].status
  <2> SUFFICES ASSUME NEW r \in Recorded, entries[r].chat = chat
               PROVE  /\ entries'[r].chat = NoChat
                      /\ entries'[r].user = NoMessage
                      /\ entries'[r].assistant = NoMessage
                      /\ entries'[r].status = entries[r].status
    OBVIOUS
  <2>1. r \in Requests /\ entries[r] \in Entries /\ entries[r] # NoEntry
    BY RecordedType DEF Recorded
  <2>2. entries'[r] = [entries[r] EXCEPT !.chat = NoChat, !.user = NoMessage, !.assistant = NoMessage]
    BY <1>2, <2>1 DEF Forget
  <2> QED
    BY <2>1, <2>2 DEF Entries
<1>6. \A c \in Chats : c # chat /\ Exists(c) => Exists(c)'
  BY <1>1 DEF Exists, TypeOK
<1>7. ChatInv'
  BY <1>3, <1>4, <1>5, <1>6, RecordedType, NoChatAssumption
     DEF StoryInv, ChatInv, Entries, ChatValues
<1>8. ReferencesInv'
  <2>1. ASSUME NEW m \in messages' PROVE
          /\ Exists(m.chat)'
          /\ \E r \in Recorded' : RefersTo(r, m)' /\ \A q \in Recorded' : RefersTo(q, m)' => q = r
    <3>1. m \in messages /\ m.chat # chat /\ m.chat \in Chats
      BY <1>1 DEF TypeOK
    <3>2. \A q \in Recorded : RefersTo(q, m)' <=> RefersTo(q, m)
      BY <1>4, <1>5, <3>1, NoChatAssumption DEF RefersTo
    <3> QED
      BY <1>3, <1>6, <3>1, <3>2 DEF StoryInv, ReferencesInv
  <2>2. ASSUME NEW r \in Recorded', NEW id \in References(r)'
        PROVE  \E m \in messages' : m.id = id /\ RefersTo(r, m)'
    <3>1. entries[r].chat # chat /\ entries'[r] = entries[r] /\ r \in Recorded
      BY <1>3, <1>4, <1>5, <2>2 DEF References
    <3>2. PICK m \in messages : m.id = id /\ RefersTo(r, m)
      BY <2>2, <3>1 DEF StoryInv, ReferencesInv, References
    <3>3. m.chat # chat /\ RefersTo(r, m)'
      BY <3>1, <3>2 DEF RefersTo
    <3> QED
      BY <1>1, <3>2, <3>3
  <2>3. \A r \in Recorded' :
          entries'[r].assistant # NoMessage =>
            /\ entries'[r].status \in {"succeeded", "failed"}
            /\ entries'[r].user # NoMessage /\ entries'[r].user < entries'[r].assistant
    BY <1>3, <1>4, <1>5 DEF StoryInv, ReferencesInv
  <2> QED
    BY <2>1, <2>2, <2>3 DEF ReferencesInv
<1>9. AnswersAreLinked'
  BY <1>1, <1>3, <1>4, <1>5 DEF StoryInv, AnswersAreLinked
<1> QED
  BY <1>7, <1>8, <1>9 DEF StoryInv

(* The id of a new message is not yet referred to. *)
LEMMA FreshId ==
  ASSUME TypeOK, StoryInv, NEW q \in Recorded
  PROVE  entries[q].user # lastMessage + 1 /\ entries[q].assistant # lastMessage + 1
<1>1. \A m \in messages : m.id # lastMessage + 1
  BY DEF TypeOK
<1>2. lastMessage + 1 # NoMessage
  BY NoMessageAssumption DEF TypeOK
<1>3. lastMessage + 1 \notin References(q)
  BY <1>1 DEF StoryInv, ReferencesInv
<1> QED
  BY <1>2, <1>3 DEF References

(* A transaction that appends a message to the chat of the entry it        *)
(* inserts or updates, as its question or its answer.                      *)
LEMMA AppendKeepsReferences ==
  ASSUME TypeOK, StoryInv, NEW r \in Requests, NEW m0 \in messages',
         messages' = messages \cup {m0}, m0.id = lastMessage + 1, Exists(m0.chat),
         chats' = chats, Recorded' = Recorded \cup {r},
         \A q \in Recorded \ {r} : entries'[q] = entries[q],
         RefersTo(r, m0)',
         \A m \in messages : RefersTo(r, m)' <=> r \in Recorded /\ RefersTo(r, m),
         \A id \in References(r)' : id = m0.id \/ (r \in Recorded /\ id \in References(r)),
         entries'[r].assistant # NoMessage =>
            /\ entries'[r].status \in {"succeeded", "failed"}
            /\ entries'[r].user # NoMessage /\ entries'[r].user < entries'[r].assistant
  PROVE  ReferencesInv'
<1>1. \A chat : Exists(chat)' <=> Exists(chat)
  BY DEF Exists
<1>2. \A q \in Recorded \ {r}, m \in messages' : RefersTo(q, m)' <=> RefersTo(q, m)
  BY DEF RefersTo
<1>3. \A q \in Recorded \ {r} : ~RefersTo(q, m0)
  BY FreshId DEF RefersTo
<1>4. ASSUME NEW m \in messages PROVE
        /\ Exists(m.chat)'
        /\ \E q \in Recorded' : RefersTo(q, m)' /\ \A p \in Recorded' : RefersTo(p, m)' => p = q
  <2>1. /\ Exists(m.chat)
        /\ \E q \in Recorded : RefersTo(q, m) /\ \A p \in Recorded : RefersTo(p, m) => p = q
    BY DEF StoryInv, ReferencesInv
  <2>2. PICK q \in Recorded : RefersTo(q, m) /\ \A p \in Recorded : RefersTo(p, m) => p = q
    BY <2>1
  <2>3. \A p \in Recorded' : RefersTo(p, m)' <=> p \in Recorded /\ RefersTo(p, m)
    BY <1>2
  <2> QED
    BY <1>1, <2>1, <2>2, <2>3
<1>5. /\ Exists(m0.chat)'
      /\ \E q \in Recorded' : RefersTo(q, m0)' /\ \A p \in Recorded' : RefersTo(p, m0)' => p = q
  BY <1>1, <1>2, <1>3
<1>6. ASSUME NEW q \in Recorded', NEW id \in References(q)'
      PROVE  \E m \in messages' : m.id = id /\ RefersTo(q, m)'
  <2>1. CASE q # r
    <3>1. q \in Recorded /\ id \in References(q)
      BY <1>6, <2>1 DEF References
    <3>2. PICK m \in messages : m.id = id /\ RefersTo(q, m)
      BY <3>1 DEF StoryInv, ReferencesInv
    <3> QED
      BY <1>2, <2>1, <3>1, <3>2
  <2>2. CASE q = r /\ id = m0.id
    BY <2>2
  <2>3. CASE q = r /\ r \in Recorded /\ id \in References(r)
    <3>1. PICK m \in messages : m.id = id /\ RefersTo(r, m)
      BY <2>3 DEF StoryInv, ReferencesInv
    <3> QED
      BY <2>3, <3>1
  <2> QED
    BY <1>6, <2>1, <2>2, <2>3
<1>7. \A q \in Recorded' :
        entries'[q].assistant # NoMessage =>
          /\ entries'[q].status \in {"succeeded", "failed"}
          /\ entries'[q].user # NoMessage /\ entries'[q].user < entries'[q].assistant
  BY DEF StoryInv, ReferencesInv
<1> QED
  BY <1>4, <1>5, <1>6, <1>7 DEF ReferencesInv

(* The insertion of an entry, with its question where it names a chat. *)
LEMMA InsertKeepsStory ==
  ASSUME TypeOK, StoryInv, NEW r \in Requests, r \notin Recorded,
         NEW chat \in ChatValues, NEW user \in Nat \cup {NoMessage},
         captured' = captured, chats' = chats,
         entries' = [entries EXCEPT ![r] = NewEntry(chat, user)],
         chat = NoChat => user = NoMessage /\ messages' = messages,
         chat # NoChat =>
           /\ Exists(chat) /\ user = lastMessage + 1
           /\ messages' = messages \cup {[id |-> user, chat |-> chat, role |-> "user"]}
  PROVE  StoryInv'
<1>1. entries'[r] = NewEntry(chat, user) /\ entries'[r] # NoEntry
  BY NewEntryType DEF TypeOK
<1>2. \A q \in Recorded : q # r /\ entries'[q] = entries[q]
  BY DEF TypeOK, Recorded
<1>3. Recorded' = Recorded \cup {r}
  BY <1>1, <1>2 DEF Recorded, TypeOK
<1>4. /\ entries'[r].status = "running" /\ entries'[r].chat = chat
      /\ entries'[r].user = user /\ entries'[r].assistant = NoMessage
  BY <1>1 DEF NewEntry
<1>5. lastMessage + 1 # NoMessage
  BY NoMessageAssumption DEF TypeOK
<1>6. ChatInv'
  <2>1. \A q \in Recorded' : entries'[q].chat # NoChat =>
          /\ entries'[q].chat \in Chats /\ chats'[entries'[q].chat] = "there"
          /\ entries'[q].user # NoMessage
    BY <1>2, <1>3, <1>4, <1>5 DEF StoryInv, ChatInv, Exists
  <2> QED
    BY <2>1 DEF ChatInv, Exists
<1>7. AnswersAreLinked'
  BY <1>2, <1>3, <1>4 DEF StoryInv, AnswersAreLinked
<1>8. CASE chat # NoChat
  <2> DEFINE m0 == [id |-> user, chat |-> chat, role |-> "user"]
  <2>1. /\ m0 \in messages' /\ messages' = messages \cup {m0}
        /\ m0.id = lastMessage + 1 /\ Exists(m0.chat) /\ user = lastMessage + 1
    BY <1>8
  <2>2. RefersTo(r, m0)'
    BY <1>4 DEF RefersTo
  <2>3. \A m \in messages : ~RefersTo(r, m)'
    <3>1. \A m \in messages : m.id # lastMessage + 1 /\ m.id # NoMessage
      BY NoMessageAssumption DEF TypeOK
    <3> QED
      BY <1>4, <2>1, <3>1 DEF RefersTo
  <2>4. \A id \in References(r)' : id = m0.id
    BY <1>4 DEF References
  <2>5. \A q \in Recorded \ {r} : entries'[q] = entries[q]
    BY <1>2
  <2> HIDE DEF m0
  <2>6. ReferencesInv'
    BY <1>3, <1>4, <2>1, <2>2, <2>3, <2>4, <2>5, AppendKeepsReferences
  <2> QED
    BY <1>6, <1>7, <2>6 DEF StoryInv
<1>9. CASE chat = NoChat
  <2>1. messages' = messages /\ \A m \in messages : m.chat \in Chats
    BY <1>9 DEF TypeOK
  <2>2. \A m \in messages : ~RefersTo(r, m)'
    BY <1>4, <1>9, <2>1, NoChatAssumption DEF RefersTo
  <2>3. References(r)' = {}
    BY <1>4, <1>9 DEF References
  <2>4. \A q \in Recorded, m \in messages : RefersTo(q, m)' <=> RefersTo(q, m)
    BY <1>2 DEF RefersTo
  <2>5. \A q \in Recorded : References(q)' = References(q)
    BY <1>2 DEF References
  <2>6. \A m \in messages' :
          /\ Exists(m.chat)'
          /\ \E q \in Recorded' : RefersTo(q, m)' /\ \A p \in Recorded' : RefersTo(p, m)' => p = q
    BY <1>3, <2>1, <2>2, <2>4 DEF StoryInv, ReferencesInv, Exists
  <2>7. \A q \in Recorded' :
          \A id \in References(q)' : \E m \in messages' : m.id = id /\ RefersTo(q, m)'
    BY <1>3, <2>1, <2>3, <2>4, <2>5 DEF StoryInv, ReferencesInv
  <2>8. \A q \in Recorded' :
          entries'[q].assistant # NoMessage =>
            /\ entries'[q].status \in {"succeeded", "failed"}
            /\ entries'[q].user # NoMessage /\ entries'[q].user < entries'[q].assistant
    BY <1>2, <1>3, <1>4 DEF StoryInv, ReferencesInv
  <2>9. ReferencesInv'
    BY <2>6, <2>7, <2>8 DEF ReferencesInv
  <2> QED
    BY <1>6, <1>7, <2>9 DEF StoryInv
<1> QED
  BY <1>8, <1>9

LEMMA StartKeepsStory ==
  ASSUME TypeOK, OwnInv, StoryInv, NEW r \in Requests, pc[r] = "starting", StartEntry(r),
         captured' = captured
  PROVE  StoryInv'
<1>1. r \notin Recorded
  BY DEF OwnInv, ProgressInv, Unstarted, Recorded
<1>2. PICK chat \in ChatValues : chat = chatOf[r]
  BY DEF TypeOK
<1>3. PICK id \in Nat : id = lastMessage + 1
  BY DEF TypeOK
<1>4. CASE chat = NoChat
  <2>1. /\ entries' = [entries EXCEPT ![r] = NewEntry(chat, NoMessage)]
        /\ chats' = chats /\ messages' = messages
    BY <1>2, <1>4 DEF StartEntry, AppendMessage
  <2> QED
    BY <1>1, <1>4, <2>1, InsertKeepsStory
<1>5. CASE chat # NoChat
  <2>1. /\ entries' = [entries EXCEPT ![r] = NewEntry(chat, id)]
        /\ chats' = chats /\ Exists(chat)
        /\ messages' = messages \cup {[id |-> id, chat |-> chat, role |-> "user"]}
    BY <1>2, <1>3, <1>5 DEF StartEntry, AppendMessage
  <2> QED
    BY <1>1, <1>3, <1>5, <2>1, InsertKeepsStory
<1> QED
  BY <1>4, <1>5

(* The outcome of a running entry, with an answer or without.              *)
LEMMA AnswerKeepsStory ==
  ASSUME TypeOK, StoryInv, NEW r \in Requests, Running(r),
         NEW id \in Nat, id = lastMessage + 1,
         NEW chat \in Chats, entries[r].chat = chat,
         NEW status \in {"succeeded", "failed"},
         captured' = captured, captured[r].done /\ captured[r].text, chats' = chats,
         messages' = messages \cup {[id |-> id, chat |-> chat, role |-> "assistant"]},
         entries' = [entries EXCEPT ![r].status = status, ![r].assistant = id]
  PROVE  StoryInv'
<1>1. r \in Recorded /\ entries[r] \in Entries /\ entries[r].status = "running"
  BY RecordedType DEF Running
<1>2. /\ entries'[r].status = status /\ entries'[r].assistant = id
      /\ entries'[r].chat = chat /\ entries'[r].user = entries[r].user
      /\ entries'[r] # NoEntry
  <2>1. entries'[r] = [entries[r] EXCEPT !.status = status, !.assistant = id]
    BY DEF TypeOK
  <2>2. entries'[r] # NoEntry
    BY <1>1, <2>1, EntryTypes DEF Final
  <2>3. PICK e \in Entries : e = entries[r]
    BY <1>1
  <2>4. LET f == [e EXCEPT !.status = status, !.assistant = id]
        IN  f.status = status /\ f.assistant = id /\ f.chat = e.chat /\ f.user = e.user
    BY DEF Entries
  <2> QED
    BY <2>1, <2>2, <2>3, <2>4
<1>3. \A q \in Requests \ {r} : entries'[q] = entries[q]
  BY DEF TypeOK
<1>4. Recorded' = Recorded
  BY <1>1, <1>2, <1>3 DEF Recorded
<1>5. entries[r].assistant = NoMessage
  BY <1>1 DEF StoryInv, ReferencesInv
<1>6. Exists(chat) /\ entries[r].user # NoMessage
  BY <1>1, NoChatAssumption DEF StoryInv, ChatInv
<1>7. entries[r].user < id
  <2>1. PICK m \in messages : m.id = entries[r].user
    BY <1>1, <1>6 DEF StoryInv, ReferencesInv, References
  <2> QED
    BY <2>1 DEF TypeOK
<1>8. ChatInv'
  <2>1. \A q \in Recorded' : entries'[q].chat # NoChat =>
          /\ entries'[q].chat \in Chats /\ chats'[entries'[q].chat] = "there"
          /\ entries'[q].user # NoMessage
    BY <1>2, <1>3, <1>4, <1>6 DEF StoryInv, ChatInv, Exists, Recorded
  <2> QED
    BY <2>1 DEF ChatInv, Exists
<1>9. AnswersAreLinked'
  <2>1. id # NoMessage
    BY NoMessageAssumption
  <2> QED
    BY <1>2, <1>3, <1>4, <2>1 DEF StoryInv, AnswersAreLinked, Recorded
<1>10. ReferencesInv'
  <2> DEFINE m0 == [id |-> id, chat |-> chat, role |-> "assistant"]
  <2>1. /\ m0 \in messages' /\ messages' = messages \cup {m0}
        /\ m0.id = lastMessage + 1 /\ Exists(m0.chat)
    BY <1>6
  <2>2. RefersTo(r, m0)'
    BY <1>2 DEF RefersTo
  <2>3. \A m \in messages : RefersTo(r, m)' <=> r \in Recorded /\ RefersTo(r, m)
    <3>1. \A m \in messages : m.id # id /\ m.id # NoMessage
      BY NoMessageAssumption DEF TypeOK
    <3> QED
      BY <1>1, <1>2, <1>5, <3>1 DEF RefersTo
  <2>4. \A n \in References(r)' : n = m0.id \/ (r \in Recorded /\ n \in References(r))
    BY <1>1, <1>2 DEF References
  <2>5. Recorded' = Recorded \cup {r} /\ \A q \in Recorded \ {r} : entries'[q] = entries[q]
    BY <1>1, <1>3, <1>4 DEF Recorded
  <2>6. /\ entries'[r].status \in {"succeeded", "failed"}
        /\ entries'[r].user # NoMessage /\ entries'[r].user < entries'[r].assistant
    BY <1>2, <1>6, <1>7
  <2> HIDE DEF m0
  <2> QED
    BY <2>1, <2>2, <2>3, <2>4, <2>5, <2>6, AppendKeepsReferences
<1> QED
  BY <1>8, <1>9, <1>10 DEF StoryInv

LEMMA StatusKeepsStory ==
  ASSUME TypeOK, StoryInv, NEW r \in Requests, Running(r),
         NEW status \in Final,
         captured' = captured, chats' = chats, messages' = messages,
         status \in {"succeeded", "failed"} /\ entries[r].chat # NoChat =>
           ~(captured[r].done /\ captured[r].text),
         entries' = [entries EXCEPT ![r].status = status]
  PROVE  StoryInv'
<1>1. r \in Recorded /\ entries[r] \in Entries /\ entries[r].status = "running"
  BY RecordedType DEF Running
<1>2. /\ entries'[r].status = status /\ entries'[r].assistant = entries[r].assistant
      /\ entries'[r].chat = entries[r].chat /\ entries'[r].user = entries[r].user
      /\ entries'[r] # NoEntry
  <2>1. entries'[r] = [entries[r] EXCEPT !.status = status]
    BY DEF TypeOK
  <2>2. entries'[r] # NoEntry
    BY <1>1, <2>1, EntryTypes
  <2> QED
    BY <1>1, <2>1, <2>2 DEF Entries
<1>3. \A q \in Requests \ {r} : entries'[q] = entries[q]
  BY DEF TypeOK
<1>4. Recorded' = Recorded
  BY <1>1, <1>2, <1>3 DEF Recorded
<1>5. entries[r].assistant = NoMessage
  BY <1>1 DEF StoryInv, ReferencesInv
<1>6. \A q \in Recorded :
        /\ entries'[q].chat = entries[q].chat /\ entries'[q].user = entries[q].user
        /\ entries'[q].assistant = entries[q].assistant
  BY <1>2, <1>3 DEF Recorded
<1>7. ChatInv'
  <2>1. \A q \in Recorded' : entries'[q].chat # NoChat =>
          /\ entries'[q].chat \in Chats /\ chats'[entries'[q].chat] = "there"
          /\ entries'[q].user # NoMessage
    BY <1>4, <1>6 DEF StoryInv, ChatInv, Exists
  <2> QED
    BY <2>1 DEF ChatInv, Exists
<1>8. AnswersAreLinked'
  BY <1>2, <1>3, <1>4, <1>5 DEF StoryInv, AnswersAreLinked, Recorded
<1>9. ReferencesInv'
  <2>1. \A q \in Recorded, m \in messages : RefersTo(q, m)' <=> RefersTo(q, m)
    BY <1>6 DEF RefersTo
  <2>2. \A q \in Recorded : References(q)' = References(q)
    BY <1>6 DEF References
  <2>3. \A m \in messages' :
          /\ Exists(m.chat)'
          /\ \E q \in Recorded' : RefersTo(q, m)' /\ \A p \in Recorded' : RefersTo(p, m)' => p = q
    BY <1>4, <2>1 DEF StoryInv, ReferencesInv, Exists
  <2>4. \A q \in Recorded' :
          \A id \in References(q)' : \E m \in messages' : m.id = id /\ RefersTo(q, m)'
    BY <1>4, <2>1, <2>2 DEF StoryInv, ReferencesInv
  <2>5. \A q \in Recorded' :
          entries'[q].assistant # NoMessage =>
            /\ entries'[q].status \in {"succeeded", "failed"}
            /\ entries'[q].user # NoMessage /\ entries'[q].user < entries'[q].assistant
    BY <1>2, <1>3, <1>4, <1>5 DEF StoryInv, ReferencesInv, Recorded
  <2> QED
    BY <2>3, <2>4, <2>5 DEF ReferencesInv
<1> QED
  BY <1>7, <1>8, <1>9 DEF StoryInv

LEMMA FinalizeKeepsStory ==
  ASSUME TypeOK, StoryInv, NEW r \in Requests, Running(r), StoreOutcome(r),
         decided[r] # Undecided, captured' = captured
  PROVE  StoryInv'
<1>1. entries[r] \in Entries /\ decided[r] \in {"succeeded", "failed", "canceled"}
  BY RecordedType DEF Running, TypeOK, Final
<1>2. PICK status \in {"succeeded", "failed", "canceled"} : status = decided[r]
  BY <1>1
<1>3. CASE PersistsAssistant(r)
  <2>1. PICK chat \in Chats : chat = entries[r].chat
    BY <1>1, <1>3 DEF PersistsAssistant, Entries, ChatValues
  <2>2. PICK id \in Nat : id = lastMessage + 1
    BY DEF TypeOK
  <2>3. status \in {"succeeded", "failed"} /\ captured[r].done /\ captured[r].text
    BY <1>2, <1>3 DEF PersistsAssistant
  <2>4. /\ chats' = chats
        /\ messages' = messages \cup {[id |-> id, chat |-> chat, role |-> "assistant"]}
        /\ entries' = [entries EXCEPT ![r].status = status, ![r].assistant = id]
    BY <1>2, <1>3, <2>1, <2>2 DEF StoreOutcome, AppendMessage
  <2> QED
    BY <2>1, <2>2, <2>3, <2>4, AnswerKeepsStory
<1>4. CASE ~PersistsAssistant(r)
  <2>1. status \in {"succeeded", "failed"} /\ entries[r].chat # NoChat =>
          ~(captured[r].done /\ captured[r].text)
    BY <1>2, <1>4 DEF PersistsAssistant
  <2>2. /\ chats' = chats /\ messages' = messages
        /\ entries' = [entries EXCEPT ![r].status = status]
    BY <1>2, <1>4 DEF StoreOutcome
  <2> QED
    BY <2>1, <2>2, StatusKeepsStory DEF Final
<1> QED
  BY <1>3, <1>4

(* A step that does not touch the database's rows. *)
LEMMA RowsKeptStory ==
  ASSUME TypeOK, UNCHANGED <<messages, entries>>,
         \A chat \in Chats : Exists(chat) => Exists(chat)',
         \A r \in Recorded : Running(r) \/ captured'[r] = captured[r]
  PROVE  StoryUntouched
BY DEF StoryUntouched, Recorded

LEMMA StoryStep == TypeOK /\ OwnInv /\ StoryInv /\ [Next]_historyVars => StoryInv'
<1> SUFFICES ASSUME TypeOK, OwnInv, StoryInv, [Next]_historyVars PROVE StoryInv'
  OBVIOUS
<1>1. ASSUME NEW chat \in Chats, CreateChat(chat) PROVE StoryInv'
  <2>1. UNCHANGED <<messages, entries, captured>>
    BY <1>1 DEF CreateChat, handlerVars
  <2>2. \A c \in Chats : Exists(c) => Exists(c)'
    BY <1>1 DEF CreateChat, Exists, TypeOK
  <2> QED
    BY <2>1, <2>2, RowsKeptStory, StoryUntouchedStep
<1>2. ASSUME NEW chat \in Chats, DeleteChat(chat) PROVE StoryInv'
  BY <1>2, DeleteKeepsStory
<1>3. ASSUME UNCHANGED <<chats, messages, entries>>,
             \A r \in Recorded : Running(r) \/ captured'[r] = captured[r]
      PROVE  StoryInv'
  <2>1. \A c \in Chats : Exists(c) => Exists(c)'
    BY <1>3 DEF Exists
  <2> QED
    BY <1>3, <2>1, RowsKeptStory, StoryUntouchedStep
<1>4. ASSUME NEW r \in Requests, NEW chat \in ChatValues, Ask(r, chat) PROVE StoryInv'
  BY <1>3, <1>4 DEF Ask, databaseVars
<1>5. ASSUME NEW r \in Requests, CheckChat(r) PROVE StoryInv'
  BY <1>3, <1>5 DEF CheckChat, databaseVars
<1>6. ASSUME NEW r \in Requests, Start(r) PROVE StoryInv'
  <2>1. CASE Move(r, "starting", "streaming") /\ StartEntry(r)
    BY <1>6, <2>1, StartKeepsStory DEF Start, Move
  <2>2. CASE Refused(r)
    BY <1>3, <1>6, <2>2 DEF Start, Refused, databaseVars
  <2> QED
    BY <1>6, <2>1, <2>2 DEF Start
<1>7. ASSUME NEW r \in Requests, NEW capture \in Captures, StreamEnds(r, capture) PROVE StoryInv'
  <2>1. UNCHANGED <<chats, messages, entries>>
    BY <1>7 DEF StreamEnds, databaseVars
  <2>2. Running(r)
    BY <1>7 DEF StreamEnds, Move, OwnInv, WorkIsRecorded, Working
  <2>3. \A q \in Recorded : Running(q) \/ captured'[q] = captured[q]
    BY <1>7, <2>2 DEF StreamEnds, TypeOK, Recorded
  <2> QED
    BY <1>3, <2>1, <2>3
<1>8. ASSUME NEW r \in Requests, ClientLeaves(r) PROVE StoryInv'
  BY <1>3, <1>8 DEF ClientLeaves, databaseVars
<1>9. ASSUME NEW r \in Requests, Decide(r) PROVE StoryInv'
  BY <1>3, <1>9 DEF Decide, databaseVars
<1>10. ASSUME NEW r \in Requests, Finalize(r) PROVE StoryInv'
  <2>1. Running(r) /\ decided[r] # Undecided /\ captured' = captured
    BY <1>10 DEF Finalize, Move, OwnInv, ProgressInv, WorkIsRecorded, Working
  <2>2. CASE StoreOutcome(r)
    BY <2>1, <2>2, FinalizeKeepsStory
  <2>3. CASE UNCHANGED databaseVars
    BY <1>3, <2>1, <2>3 DEF databaseVars
  <2> QED
    BY <1>10, <2>1, <2>2, <2>3 DEF Finalize
<1>11. CASE Crash
  <2>1. UNCHANGED <<databaseVars, captured>>
    BY <1>11 DEF Crash
  <2> QED
    BY <1>3, <2>1 DEF databaseVars
<1>12. CASE Boot
  <2>1. UNCHANGED <<chats, messages, captured>>
    BY <1>12 DEF Boot, handlerVars
  <2>2. \A r \in Requests : entries'[r] = Interrupted(entries[r])
    BY <1>12 DEF Boot
  <2>3. ASSUME NEW r \in Recorded
        PROVE  /\ entries'[r].chat = entries[r].chat
               /\ entries'[r].user = entries[r].user
               /\ entries'[r].assistant = entries[r].assistant
               /\ \/ entries'[r].status = entries[r].status
                  \/ Running(r) /\ entries'[r].status = "interrupted"
    BY <2>2, RecordedType DEF Interrupted, Entries, Running
  <2>4. \A r \in Requests : entries'[r] = NoEntry <=> entries[r] = NoEntry
    BY <2>2, InterruptedType DEF TypeOK
  <2>5. StoryUntouched
    BY <2>1, <2>3, <2>4 DEF StoryUntouched, Exists
  <2> QED
    BY <2>5, StoryUntouchedStep
<1>13. CASE UNCHANGED historyVars
  BY <1>3, <1>13 DEF historyVars, databaseVars, handlerVars
<1> QED
  BY <1>1, <1>2, <1>4, <1>5, <1>6, <1>7, <1>8, <1>9, <1>10, <1>11, <1>12, <1>13 DEF Next, Handle

LEMMA InvStep == Inv /\ [Next]_historyVars => Inv'
BY TypeStep, OwnStep, StoryStep DEF Inv, OwnInv

LEMMA InvHolds == Spec => []Inv
BY InitInv, InvStep, PTL DEF Spec

(* The state of the database and of the handlers is always well typed.     *)
THEOREM TypeInvariant == Spec => []TypeOK
<1>1. Inv => TypeOK
  BY DEF Inv
<1> QED
  BY <1>1, InvHolds, PTL

(* Messages and History entries refer to each other one to one and in      *)
(* order, whatever chats are deleted and wherever the process dies         *)
(* (startHistoryEntry, finalizeHistoryEntry, deleteChat).                  *)
THEOREM ReferencesInvariant == Spec => []ReferencesInv
<1>1. Inv => ReferencesInv
  BY DEF Inv, StoryInv
<1> QED
  BY <1>1, InvHolds, PTL

(* While the service is up every running entry has a handler that works    *)
(* for it or that failed to store its outcome (interruptRunningHistory).   *)
THEOREM RunningOwnedInvariant == Spec => []RunningOwned
<1>1. Inv => RunningOwned
  BY DEF Inv, OwnInv
<1> QED
  BY <1>1, InvHolds, PTL

(* No handler works without a running entry (handleChatStream), so that    *)
(* finalizeHistoryEntry never meets an entry that is already final.        *)
THEOREM WorkIsRecordedInvariant == Spec => []WorkIsRecorded
<1>1. Inv => WorkIsRecorded
  BY DEF Inv, OwnInv
<1> QED
  BY <1>1, InvHolds, PTL

(* An entry in a chat that is there has its answer exactly if the answer   *)
(* was streamed to its end (finalizeRequestHistory).                       *)
THEOREM AnswersAreLinkedInvariant == Spec => []AnswersAreLinked
<1>1. Inv => AnswersAreLinked
  BY DEF Inv, StoryInv
<1> QED
  BY <1>1, InvHolds, PTL

(* A stored outcome never changes, neither by a second finalization nor by *)
(* the recovery at a start (finalizeHistoryEntry, interruptRunningHistory).*)
THEOREM OutcomesAreFinal == Spec => FinalForever
<1>1. Inv /\ [Next]_historyVars =>
        [\A r \in Recorded : entries[r].status \in Final =>
            entries'[r].status = entries[r].status]_historyVars
  <2> SUFFICES ASSUME Inv, [Next]_historyVars,
                      NEW r \in Recorded, entries[r].status \in Final
               PROVE  entries'[r].status = entries[r].status
    OBVIOUS
  <2>1. r \in Requests /\ ~Running(r) /\ TypeOK
    BY DEF Inv, Recorded, Running, Final
  <2>2. ~Finalize(r)
    BY <2>1 DEF Inv, OwnInv, WorkIsRecorded, Finalize, Move, Working
  <2>3. ~Start(r)
    BY <2>1 DEF Inv, OwnInv, ProgressInv, Start, Refused, Move, Unstarted, Recorded
  <2>4. CASE Boot
    BY <2>1, <2>4 DEF Boot, Interrupted, Final
  <2> QED
    BY <2>1, <2>2, <2>3, <2>4, EntriesKept
<1> QED
  BY <1>1, InvHolds, PTL DEF Spec, FinalForever
================================================================================

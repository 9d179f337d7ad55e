------------------------------- MODULE ChatSessions -------------------------------
(***************************************************************************)
(* The sessions of main.go: a client opens one, keeps it alive with        *)
(* heartbeats, streams chats on it and closes it; a reaper removes the     *)
(* forgotten ones and unloads the models when nobody has used them.  Times *)
(* are abstracted to what the code asks of them: has the last heartbeat    *)
(* exceeded sessionTTL, has the last chat exceeded modelIdleTTL.           *)
(***************************************************************************)
EXTENDS Naturals, FiniteSets

CONSTANTS Sessions,     \* identities randomID may issue, none of them twice
          Chats,        \* requests to stream a chat
          NoSession,
          MaxRestarts   \* bound: restarts of the service

ASSUME ChatsAssumption == IsFiniteSet(Chats)
ASSUME NoSessionAssumption == NoSession \notin Sessions
ASSUME RestartsAssumption == MaxRestarts \in Nat

VARIABLES status,     \* of each session; only open and closing ones are in a.sessions
          beat,       \* LastHeartbeat
          talk,       \* LastChat
          inFlight,   \* InFlight
          pc,         \* of each chat request
          on,         \* the session each chat request names
          unloading,  \* who is unloading the models
          restarts

sessionVars == <<status, beat, talk, inFlight>>
chatVars == <<pc, on>>
serverVars == <<sessionVars, chatVars, unloading, restarts>>

Live(id) == status[id] \in {"open", "closing"}
LiveSessions == {id \in Sessions : Live(id)}

(* unloadManagedModelsAsync, when no session is left. *)
UnloadIfNoneOf(left, who) ==
  unloading' = IF left = {} THEN unloading \cup {who} ELSE unloading

Create(id) ==
  /\ status[id] = "unissued"
  /\ status' = [status EXCEPT ![id] = "open"]
  /\ beat' = [beat EXCEPT ![id] = "fresh"]
  /\ talk' = [talk EXCEPT ![id] = "recent"]
  /\ UNCHANGED <<inFlight, chatVars, unloading, restarts>>

(* A heartbeat for a session that is not there is answered 404. *)
Heartbeat(id) ==
  /\ Live(id)
  /\ beat' = [beat EXCEPT ![id] = "fresh"]
  /\ UNCHANGED <<status, talk, inFlight, chatVars, unloading, restarts>>

Delete(id) ==
  /\ Live(id)
  /\ IF inFlight[id] > 0
       THEN /\ status' = [status EXCEPT ![id] = "closing"]
            /\ UNCHANGED unloading
       ELSE /\ status' = [status EXCEPT ![id] = "removed"]
            /\ UnloadIfNoneOf(LiveSessions \ {id}, "delete")
  /\ UNCHANGED <<beat, talk, inFlight, chatVars, restarts>>

(* handleChatStream up to the reply 410, or to the count of chats in       *)
(* flight.  A closing session is dropped even if a chat still runs on it.  *)
Expired(id) == status[id] = "closing" \/ (inFlight[id] = 0 /\ beat[id] = "stale")

BeginChat(c, id) ==
  /\ pc[c] = "idle"
  /\ on' = [on EXCEPT ![c] = id]
  /\ IF Live(id) /\ ~Expired(id)
       THEN /\ pc' = [pc EXCEPT ![c] = "streaming"]
            /\ inFlight' = [inFlight EXCEPT ![id] = @ + 1]
            /\ beat' = [beat EXCEPT ![id] = "fresh"]
            /\ talk' = [talk EXCEPT ![id] = "recent"]
            /\ UNCHANGED status
       ELSE /\ pc' = [pc EXCEPT ![c] = "refused"]
            /\ status' = IF Live(id) THEN [status EXCEPT ![id] = "removed"] ELSE status
            /\ UNCHANGED <<inFlight, beat, talk>>
  /\ UNCHANGED <<unloading, restarts>>

(* Mutant: whoever closes a session has waited for its chats. *)
FinishChatForgetsClosing(c) ==
  LET id == on[c]
  IN  /\ pc[c] = "streaming"
      /\ pc' = [pc EXCEPT ![c] = "done"]
      /\ IF Live(id)
           THEN /\ inFlight' = [inFlight EXCEPT ![id] = @ - 1]
                /\ beat' = [beat EXCEPT ![id] = "fresh"]
                /\ talk' = [talk EXCEPT ![id] = "recent"]
           ELSE UNCHANGED <<inFlight, beat, talk>>
      /\ UNCHANGED <<status, unloading, on, restarts>>

(* Mutant: a chat that ends is not counted down. *)
FinishChatUncounted(c) ==
  /\ pc[c] = "streaming"
  /\ pc' = [pc EXCEPT ![c] = "done"]
  /\ UNCHANGED <<sessionVars, unloading, on, restarts>>

(* The deferred finishChat: the chat is over, however it ended. *)
FinishChat(c) ==
  LET id == on[c]
      left == IF inFlight[id] > 0 THEN inFlight[id] - 1 ELSE 0
      last == status[id] = "closing" /\ left = 0
  IN  /\ pc[c] = "streaming"
      /\ pc' = [pc EXCEPT ![c] = "done"]
      /\ IF Live(id)
           THEN /\ inFlight' = [inFlight EXCEPT ![id] = left]
                /\ beat' = [beat EXCEPT ![id] = "fresh"]
                /\ talk' = [talk EXCEPT ![id] = "recent"]
           ELSE UNCHANGED <<inFlight, beat, talk>>
      /\ IF last
           THEN /\ status' = [status EXCEPT ![id] = "removed"]
                /\ UnloadIfNoneOf(LiveSessions \ {id}, "finish")
           ELSE UNCHANGED <<status, unloading>>
      /\ UNCHANGED <<on, restarts>>

(* Mutant: a chat in flight does not keep its session. *)
ReapableByHeartbeat(id) == status[id] = "closing" \/ (Live(id) /\ beat[id] = "stale")

(* Mutant: only what its client has closed is collected. *)
ReapableIfClosing(id) == Live(id) /\ inFlight[id] = 0 /\ status[id] = "closing"

Reapable(id) ==
  Live(id) /\ inFlight[id] = 0 /\ (status[id] = "closing" \/ beat[id] = "stale")

(* Mutant: a chat that began long ago counts as idle. *)
IdleByLastChat(left) == left # {} /\ \A id \in left : talk[id] = "idle"

Idle(left) == left # {} /\ \A id \in left : inFlight[id] = 0 /\ talk[id] = "idle"

(* One tick of the reaper, which waits for its own unload to end. *)
Reap ==
  LET left == {id \in LiveSessions : ~Reapable(id)}
  IN  /\ "reaper" \notin unloading
      /\ status' = [id \in Sessions |-> IF Reapable(id) THEN "removed" ELSE status[id]]
      /\ unloading' = IF left = {} \/ Idle(left) THEN unloading \cup {"reaper"} ELSE unloading
      /\ UNCHANGED <<beat, talk, inFlight, chatVars, restarts>>

UnloadEnds(who) ==
  /\ who \in unloading
  /\ unloading' = unloading \ {who}
  /\ UNCHANGED <<sessionVars, chatVars, restarts>>

(* sessionTTL, and modelIdleTTL, pass. *)
BeatAges(id) ==
  /\ Live(id) /\ beat[id] = "fresh"
  /\ beat' = [beat EXCEPT ![id] = "stale"]
  /\ UNCHANGED <<status, talk, inFlight, chatVars, unloading, restarts>>

TalkAges(id) ==
  /\ Live(id) /\ talk[id] = "recent"
  /\ talk' = [talk EXCEPT ![id] = "idle"]
  /\ UNCHANGED <<status, beat, inFlight, chatVars, unloading, restarts>>

(* Sessions are kept in memory only: a restart forgets them. *)
Restart ==
  /\ restarts < MaxRestarts
  /\ restarts' = restarts + 1
  /\ status' = [id \in Sessions |-> IF Live(id) THEN "removed" ELSE status[id]]
  /\ pc' = [c \in Chats |-> IF pc[c] = "streaming" THEN "lost" ELSE pc[c]]
  /\ unloading' = {}
  /\ UNCHANGED <<beat, talk, inFlight, on>>

Init ==
  /\ status = [id \in Sessions |-> "unissued"]
  /\ beat = [id \in Sessions |-> "fresh"]
  /\ talk = [id \in Sessions |-> "recent"]
  /\ inFlight = [id \in Sessions |-> 0]
  /\ pc = [c \in Chats |-> "idle"]
  /\ on = [c \in Chats |-> NoSession]
  /\ unloading = {}
  /\ restarts = 0

Askers == {"delete", "finish", "reaper"}

(* Any client may use any session that was ever issued. *)
ClientCall(id) ==
  \/ Create(id) \/ Heartbeat(id) \/ Delete(id)
  \/ status[id] # "unissued" /\ \E c \in Chats : BeginChat(c, id)

Passing(id) == BeatAges(id) \/ TalkAges(id)

Next ==
  \/ \E id \in Sessions : ClientCall(id) \/ Passing(id)
  \/ \E c \in Chats : FinishChat(c)
  \/ Reap \/ Restart
  \/ \E who \in Askers : UnloadEnds(who)

(* A handler ends (its client goes away or Ollama answers), the ticker     *)
(* ticks, and an unload has a timeout of its own.                          *)
Fairness ==
  /\ \A c \in Chats : WF_serverVars(FinishChat(c))
  /\ WF_serverVars(Reap)
  /\ \A who \in Askers : WF_serverVars(UnloadEnds(who))

Spec == Init /\ [][Next]_serverVars

FairSpec == Spec /\ Fairness
--------------------------------------------------------------------------------
(* The type invariant: InFlight never goes below zero. *)
TypeOK ==
  /\ status \in [Sessions -> {"unissued", "open", "closing", "removed"}]
  /\ beat \in [Sessions -> {"fresh", "stale"}]
  /\ talk \in [Sessions -> {"recent", "idle"}]
  /\ inFlight \in [Sessions -> Nat]
  /\ pc \in [Chats -> {"idle", "streaming", "refused", "done", "lost"}]
  /\ on \in [Chats -> Sessions \cup {NoSession}]
  /\ unloading \in SUBSET Askers
  /\ restarts \in 0 .. MaxRestarts

StreamingOn(id) == {c \in Chats : pc[c] = "streaming" /\ on[c] = id}

(* While a session is there InFlight is the number of chats running on it, *)
(* and a closing session has one: so it is neither forgotten, nor removed  *)
(* before its chats are over by anyone who looks at InFlight.              *)
InFlightInv ==
  /\ \A id \in Sessions : Live(id) => inFlight[id] = Cardinality(StreamingOn(id))
  /\ \A id \in Sessions : status[id] = "closing" => inFlight[id] > 0
  /\ \A id \in Sessions : status[id] = "unissued" => StreamingOn(id) = {} /\ inFlight[id] = 0

(* An unload is asked for only when no session in the map has a chat in    *)
(* flight, and by the reaper only when none had one lately: however long   *)
(* ago a chat began it is not taken for idle.                              *)
UnloadsWhenQuiet ==
  [][unloading' # unloading /\ unloading \subseteq unloading' =>
       \A id \in Sessions : status'[id] \in {"open", "closing"} =>
         inFlight'[id] = 0 /\ talk'[id] = "idle"]_serverVars

(* The reaper never takes a session away from a running chat, nor one      *)
(* whose client still sends heartbeats.                                    *)
ReapsOnlyForgotten ==
  [][Reap => \A id \in Sessions : (Live(id) /\ status'[id] = "removed") =>
               StreamingOn(id) = {} /\ beat[id] = "stale"]_serverVars

(* A session with a chat in flight stays until the chat is over:           *)
(* TestReapSessionsKeepsInFlightChat, "in-flight session was incorrectly   *)
(* reaped", asked of every way a session can be removed.                   *)
NoRunningChatDropped ==
  [][\A id \in Sessions : (Live(id) /\ status'[id] = "removed" /\ restarts' = restarts) =>
       \A c \in Chats : (on[c] = id /\ pc[c] = "streaming") => pc'[c] # "streaming"]_serverVars

(* A closed session is gone once its chats are. *)
ClosingEnds == \A id \in Sessions : status[id] = "closing" ~> status[id] = "removed"
================================================================================

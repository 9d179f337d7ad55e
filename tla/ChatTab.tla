--------------------------------- MODULE ChatTab ---------------------------------
(***************************************************************************)
(* One page of the web interface (frontend/app.js) as the client of the    *)
(* session service: it opens a session for its first message, sends        *)
(* heartbeats from a timer that browsers may throttle, streams one message *)
(* at a time, and closes its session when the page goes away.  It may stop *)
(* waiting for what it has asked: requests under way, and the replies to   *)
(* them, still arrive after that.  One that is lost is one that never      *)
(* arrives: nothing says that they do.                                     *)
(***************************************************************************)
EXTENDS ChatSessions

CONSTANT NoChat

ASSUME NoChatAssumption == NoChat \notin Chats

VARIABLES page,      \* shown or left
          sessionId, \* state.sessionId
          phase,     \* where sendMessage stands
          using,     \* the session sendMessage waits for, and then names
          requests,  \* POST /session under way, each by the id it will be given
          replies,   \* and those answered, the answer under way
          posts,     \* POST /chat/stream under way: the session each request names
          reading,   \* the chat request of the last message posted
          closing    \* the DELETE on its way

tabVars == <<page, sessionId, phase, using, requests, replies, posts, reading, closing>>
vars == <<serverVars, tabVars>>

Known(id) == id # NoSession

(* sendMessage: ensureSession asks for a session, or has one.              *)
AskSession(id) ==
  /\ page = "shown" /\ phase = "ready" /\ ~Known(sessionId)
  /\ status[id] = "unissued" /\ id \notin requests
  /\ phase' = "asking"
  /\ using' = id
  /\ requests' = requests \cup {id}
  /\ UNCHANGED <<serverVars, page, sessionId, replies, posts, reading, closing>>

Send ==
  /\ page = "shown" /\ phase = "ready" /\ Known(sessionId)
  /\ phase' = "opened"
  /\ using' = sessionId
  /\ UNCHANGED <<serverVars, page, sessionId, requests, replies, posts, reading, closing>>

SessionCreated(id) ==
  /\ id \in requests
  /\ Create(id)
  /\ requests' = requests \ {id}
  /\ replies' = IF page = "shown" THEN replies \cup {id} ELSE {}
  /\ UNCHANGED <<page, sessionId, phase, using, posts, reading, closing>>

(* The reply sets state.sessionId, though sendMessage may have ended since *)
(* and another session be in use.                                          *)
Learn(id) ==
  /\ page = "shown" /\ id \in replies
  /\ replies' = replies \ {id}
  /\ sessionId' = id
  /\ phase' = IF phase = "asking" /\ using = id THEN "opened" ELSE phase
  /\ UNCHANGED <<serverVars, page, using, requests, posts, reading, closing>>

(* The chat is there too (ensureChat): the message is posted.              *)
Post(c) ==
  /\ page = "shown" /\ phase = "opened"
  /\ pc[c] = "idle" /\ ~Known(posts[c])
  /\ phase' = "posted"
  /\ posts' = [posts EXCEPT ![c] = using]
  /\ reading' = c
  /\ UNCHANGED <<serverVars, page, sessionId, using, requests, replies, closing>>

PostArrives(c) ==
  /\ Known(posts[c])
  /\ BeginChat(c, posts[c])
  /\ posts' = [posts EXCEPT ![c] = NoSession]
  /\ UNCHANGED <<page, sessionId, phase, using, requests, replies, reading, closing>>

Ready == phase' = "ready" /\ using' = NoSession /\ reading' = NoChat

(* sendMessage is over: the stream has ended or broken, or a request of it *)
(* (ensureSession, ensureChat, the post) has failed while another may be   *)
(* under way.  The error thrown for a reply that is not ok has no status,  *)
(* so the 410 branch is not taken.                                         *)
MessageEnds ==
  /\ page = "shown" /\ phase # "ready"
  /\ Ready
  /\ UNCHANGED <<serverVars, page, sessionId, requests, replies, posts, closing>>

(* Mutant: the timer beats for the session it was started for. *)
TabBeatsForUsing ==
  /\ page = "shown" /\ Known(using)
  /\ Heartbeat(using)
  /\ UNCHANGED tabVars

(* The interval timer; a 404 is ignored. *)
TabBeats ==
  /\ page = "shown" /\ Known(sessionId)
  /\ Heartbeat(sessionId)
  /\ UNCHANGED tabVars

(* pagehide: closeSession forgets the session and sends the DELETE.  No    *)
(* one is left for the replies.                                            *)
Leave ==
  /\ page = "shown"
  /\ page' = "left"
  /\ sessionId' = NoSession
  /\ closing' = sessionId
  /\ Ready /\ replies' = {}
  /\ UNCHANGED <<serverVars, requests, posts>>

DeleteArrives ==
  /\ Known(closing)
  /\ IF Live(closing) THEN Delete(closing) ELSE UNCHANGED serverVars
  /\ closing' = NoSession
  /\ UNCHANGED <<page, sessionId, phase, using, requests, replies, posts, reading>>

Service ==
  /\ \/ \E id \in Sessions : Passing(id)
     \/ \E c \in Chats : FinishChat(c)
     \/ Reap \/ Restart
     \/ \E who \in Askers : UnloadEnds(who)
  /\ UNCHANGED tabVars

TabInit ==
  /\ Init
  /\ page = "shown"
  /\ sessionId = NoSession
  /\ phase = "ready"
  /\ using = NoSession
  /\ requests = {} /\ replies = {}
  /\ posts = [c \in Chats |-> NoSession]
  /\ reading = NoChat
  /\ closing = NoSession

TabNext ==
  \/ Send \/ MessageEnds \/ TabBeats \/ Leave \/ DeleteArrives
  \/ \E id \in Sessions : AskSession(id) \/ SessionCreated(id) \/ Learn(id)
  \/ \E c \in Chats : Post(c) \/ PostArrives(c)
  \/ Service

(* Time passes for the sessions no heartbeat is sent for, the reaper ticks *)
(* and handlers end; a page need not do anything, and its requests need    *)
(* not arrive.                                                             *)
TabFairness ==
  /\ \A id \in Sessions : WF_vars(BeatAges(id) /\ sessionId # id /\ UNCHANGED tabVars)
  /\ \A c \in Chats : WF_vars(FinishChat(c) /\ UNCHANGED tabVars)
  /\ WF_vars(Reap /\ UNCHANGED tabVars)
  /\ \A who \in Askers : WF_vars(UnloadEnds(who) /\ UNCHANGED tabVars)

TabSpec == TabInit /\ [][TabNext]_vars

FairTabSpec == TabSpec /\ TabFairness
--------------------------------------------------------------------------------
(* A page may come to have several sessions: it has given up the opening   *)
(* of one, or a late reply has replaced the one in use.  One it does not   *)
(* name does not stay for that, while the page is shown or after.          *)
UnnamedSessionsEnd ==
  \A id \in Sessions : (Live(id) /\ sessionId # id) ~> ~(Live(id) /\ sessionId # id)

(* When the page is left every session it ever opened ends for good, even  *)
(* if the DELETE is lost, overtakes the message or finds a chat running,   *)
(* and even if the session is created after the page is gone.              *)
LeavesNothingBehind ==
  (page = "left") ~> [](LiveSessions = {})

(* "if (err.status === 410) { state.sessionId = null; }": a page whose     *)
(* session has expired opens a new one for the next message.               *)
ExpiredSessionForgotten ==
  [][(/\ phase = "posted" /\ phase' = "ready"
      /\ pc[reading] = "refused" /\ page' = "shown") => sessionId' # using]_vars
================================================================================

---------------------------- MODULE ChatSessionsProofs ----------------------------
(***************************************************************************)
(* Proofs about ChatSessions: the count of chats in flight is right, for   *)
(* any number of sessions, chats and restarts.                             *)
(***************************************************************************)
EXTENDS ChatTab, FiniteSetTheorems, TLAPS

(* The chats running on a session are finitely many. *)
LEMMA StreamingFinite ==
  \A id \in Sessions : IsFiniteSet(StreamingOn(id))
  BY ChatsAssumption, FS_Subset DEF StreamingOn

(* The session of a running chat is one that was issued. *)
OnInv == \A c \in Chats : pc[c] = "streaming" => on[c] \in Sessions

Inv == TypeOK /\ OnInv /\ InFlightInv

LEMMA InitInv == Init => Inv
<1> SUFFICES ASSUME Init PROVE Inv
  OBVIOUS
<1>1. \A id \in Sessions : StreamingOn(id) = {}
  BY DEF Init, StreamingOn
<1> QED
  BY <1>1, RestartsAssumption DEF Init, Inv, TypeOK, OnInv, InFlightInv, Live

(* A step that leaves the chats alone, and InFlight of every session that  *)
(* stays, and closes none and reissues none.                               *)
Untouched ==
  /\ UNCHANGED chatVars
  /\ UNCHANGED inFlight
  /\ \A id \in Sessions :
       /\ Live(id)' => Live(id) \/ status[id] = "unissued"
       /\ status'[id] = "closing" => inFlight[id] > 0
       /\ status'[id] = "unissued" => status[id] = "unissued"

LEMMA ChatsUntouched ==
  ASSUME Inv, Untouched
  PROVE  InFlightInv' /\ OnInv'
<1>1. \A id \in Sessions : StreamingOn(id)' = StreamingOn(id)
  BY DEF StreamingOn, chatVars, Untouched
<1>2. Cardinality({}) = 0
  BY FS_EmptySet
<1>3. OnInv'
  BY DEF Inv, OnInv, chatVars, Untouched
<1>4. \A id \in Sessions : Live(id)' => inFlight'[id] = Cardinality(StreamingOn(id)')
  BY <1>1, <1>2 DEF Inv, InFlightInv, Untouched
<1>5. \A id \in Sessions : status'[id] = "closing" => inFlight'[id] > 0
  BY DEF Untouched
<1>6. \A id \in Sessions :
        status'[id] = "unissued" => StreamingOn(id)' = {} /\ inFlight'[id] = 0
  BY <1>1 DEF Inv, InFlightInv, Untouched
<1> QED
  BY <1>3, <1>4, <1>5, <1>6 DEF InFlightInv

LEMMA BeginKeepsInv ==
  ASSUME Inv, NEW id \in Sessions, NEW c \in Chats,
         status[id] # "unissued", BeginChat(c, id)
  PROVE  Inv'
<1> USE DEF Inv
<1>1. c \notin StreamingOn(id)
  BY DEF StreamingOn, BeginChat
<1>2. TypeOK'
  BY DEF TypeOK, BeginChat
<1>3. CASE Live(id) /\ ~Expired(id)
  <2>1. /\ pc' = [pc EXCEPT ![c] = "streaming"]
        /\ on' = [on EXCEPT ![c] = id]
        /\ inFlight' = [inFlight EXCEPT ![id] = @ + 1]
        /\ status' = status
    BY <1>3 DEF BeginChat
  <2>2. StreamingOn(id)' = StreamingOn(id) \cup {c}
    BY <2>1 DEF StreamingOn, TypeOK
  <2>3. Cardinality(StreamingOn(id)') = Cardinality(StreamingOn(id)) + 1
    BY <2>2, <1>1, StreamingFinite, FS_AddElement
  <2>4. \A other \in Sessions \ {id} : StreamingOn(other)' = StreamingOn(other)
    BY <2>1 DEF StreamingOn, TypeOK, BeginChat
  <2>5. OnInv'
    BY <2>1 DEF OnInv, TypeOK
  <2>6. InFlightInv'
    BY <2>1, <2>3, <2>4, <1>3 DEF InFlightInv, TypeOK, Live
  <2> QED
    BY <1>2, <2>5, <2>6
<1>4. CASE ~(Live(id) /\ ~Expired(id))
  <2>1. /\ pc' = [pc EXCEPT ![c] = "refused"]
        /\ on' = [on EXCEPT ![c] = id]
        /\ inFlight' = inFlight
        /\ status' = IF Live(id) THEN [status EXCEPT ![id] = "removed"] ELSE status
    BY <1>4 DEF BeginChat
  <2>2. \A other \in Sessions : StreamingOn(other)' = StreamingOn(other)
    BY <2>1 DEF StreamingOn, TypeOK, BeginChat
  <2>3. OnInv'
    BY <2>1 DEF OnInv, TypeOK
  <2>4. \A other \in Sessions :
          status'[other] = status[other] \/ status'[other] = "removed"
    BY <2>1 DEF TypeOK
  <2>5. InFlightInv'
    BY <2>1, <2>2, <2>4 DEF InFlightInv, Live
  <2> QED
    BY <1>2, <2>3, <2>5
<1> QED
  BY <1>3, <1>4

LEMMA FinishKeepsInv ==
  ASSUME Inv, NEW c \in Chats, FinishChat(c)
  PROVE  Inv'
<1> DEFINE id == on[c]
<1>1. /\ id \in Sessions /\ c \in StreamingOn(id)
      /\ inFlight[id] \in Nat
  BY DEF Inv, OnInv, TypeOK, FinishChat, StreamingOn
<1>2. TypeOK'
  <2>1. /\ pc' = [pc EXCEPT ![c] = "done"]
        /\ on' = on /\ restarts' = restarts
        /\ inFlight' \in [Sessions -> Nat]
        /\ beat' \in [Sessions -> {"fresh", "stale"}]
        /\ talk' \in [Sessions -> {"recent", "idle"}]
    BY <1>1 DEF Inv, TypeOK, FinishChat
  <2>2. status' = [status EXCEPT ![id] = "removed"] \/ status' = status
    BY DEF FinishChat
  <2>3. unloading' = unloading \/ unloading' = unloading \cup {"finish"}
    BY DEF FinishChat, UnloadIfNoneOf
  <2>4. unloading' \in SUBSET Askers
    BY <2>3 DEF Inv, TypeOK, Askers
  <2> QED
    BY <2>1, <2>2, <2>4 DEF Inv, TypeOK
<1>3. pc' = [pc EXCEPT ![c] = "done"] /\ on' = on
  BY DEF FinishChat
<1>4. StreamingOn(id)' = StreamingOn(id) \ {c}
  BY <1>3 DEF StreamingOn, Inv, TypeOK
<1>5. /\ Cardinality(StreamingOn(id)') = Cardinality(StreamingOn(id)) - 1
      /\ Cardinality(StreamingOn(id)) \in Nat
  BY <1>1, <1>4, StreamingFinite, FS_RemoveElement, FS_CardinalityType
<1>6. \A other \in Sessions \ {id} : StreamingOn(other)' = StreamingOn(other)
  BY <1>3 DEF StreamingOn, Inv, TypeOK
<1>7. OnInv'
  BY <1>3 DEF Inv, OnInv, TypeOK
<1>8. StreamingOn(id) # {}
  BY <1>1
<1>9. CASE Live(id)
  <2>1. inFlight[id] = Cardinality(StreamingOn(id))
    BY <1>1, <1>9 DEF Inv, InFlightInv
  <2>2. inFlight[id] > 0
    BY <1>1, <1>5, <1>9, StreamingFinite, FS_EmptySet DEF Inv, InFlightInv
  <2>3. inFlight' = [inFlight EXCEPT ![id] = inFlight[id] - 1]
    BY <1>9, <2>2 DEF FinishChat
  <2>4. status' = IF status[id] = "closing" /\ inFlight[id] - 1 = 0
                    THEN [status EXCEPT ![id] = "removed"] ELSE status
    BY <2>2 DEF FinishChat
  <2>5. inFlight[id] = Cardinality(StreamingOn(id))
    BY <1>1, <1>9 DEF Inv, InFlightInv
  <2>6. ASSUME NEW other \in Sessions \ {id}
        PROVE  /\ inFlight'[other] = inFlight[other] /\ status'[other] = status[other]
               /\ StreamingOn(other)' = StreamingOn(other)
    BY <1>6, <2>3, <2>4 DEF Inv, TypeOK
  <2>7. /\ inFlight'[id] = Cardinality(StreamingOn(id)')
        /\ inFlight'[id] \in Nat
        /\ status'[id] = "closing" => inFlight'[id] # 0
        /\ status'[id] # "unissued"
    BY <1>1, <1>5, <1>9, <2>2, <2>3, <2>4, <2>5 DEF Inv, TypeOK, Live
  <2>8. \A other \in Sessions : Live(other)' => inFlight'[other] = Cardinality(StreamingOn(other)')
    <3> SUFFICES ASSUME NEW other \in Sessions, Live(other)'
                 PROVE  inFlight'[other] = Cardinality(StreamingOn(other)')
      OBVIOUS
    <3>1. CASE other = id
      BY <1>3, <3>1, <2>7
    <3>2. CASE other # id
      <4>1. Live(other) => inFlight[other] = Cardinality(StreamingOn(other))
        BY DEF Inv, InFlightInv
      <4>2. Live(other)
        BY <2>6, <3>2 DEF Live
      <4> QED
        BY <4>1, <4>2, <2>6, <3>2
    <3> QED
      BY <3>1, <3>2
  <2>9. \A other \in Sessions : status'[other] = "closing" => inFlight'[other] > 0
    BY <2>6, <2>7 DEF Inv, InFlightInv
  <2>10. \A other \in Sessions :
           status'[other] = "unissued" => StreamingOn(other)' = {} /\ inFlight'[other] = 0
    BY <2>6, <2>7 DEF Inv, InFlightInv
  <2>11. InFlightInv'
    BY <2>8, <2>9, <2>10 DEF InFlightInv
  <2> QED
    BY <1>2, <1>7, <2>11 DEF Inv
<1>10. CASE ~Live(id)
  <2>1. inFlight' = inFlight /\ status' = status
    BY <1>10 DEF FinishChat, Live
  <2>2. status[id] # "unissued" /\ status[id] # "closing"
    BY <1>1, <1>8, <1>10 DEF Inv, InFlightInv, Live
  <2>3. InFlightInv'
    BY <1>6, <1>10, <2>1, <2>2 DEF Inv, InFlightInv, Live
  <2> QED
    BY <1>2, <1>7, <2>3 DEF Inv
<1> QED
  BY <1>9, <1>10

LEMMA ReapKeepsInv ==
  ASSUME Inv, Reap PROVE Inv'
<1>1. TypeOK'
  <2>1. unloading' = unloading \/ unloading' = unloading \cup {"reaper"}
    BY DEF Reap
  <2>2. unloading' \in SUBSET Askers
    BY <2>1 DEF Inv, TypeOK, Askers
  <2> QED
    BY <2>2 DEF Inv, TypeOK, Reap, sessionVars, chatVars
<1>2. \A id \in Sessions : status'[id] = status[id] \/ status'[id] = "removed"
  BY DEF Reap
<1>same. Untouched
  BY <1>2 DEF Inv, Reap, chatVars, Live, InFlightInv, Untouched
<1>3. InFlightInv' /\ OnInv'
  BY <1>same, ChatsUntouched
<1> QED
  BY <1>1, <1>3 DEF Inv

LEMMA RestartKeepsInv ==
  ASSUME Inv, Restart PROVE Inv'
<1>1. TypeOK'
  BY RestartsAssumption DEF Inv, TypeOK, Restart, Askers
<1>2. \A id \in Sessions : StreamingOn(id)' = {}
  BY DEF StreamingOn, Restart
<1>3. OnInv'
  BY DEF OnInv, Restart
<1>4. \A id \in Sessions :
        /\ status'[id] # "open" /\ status'[id] # "closing"
        /\ status'[id] = "unissued" => status[id] = "unissued"
  BY DEF Restart, Live
<1>5. inFlight' = inFlight
  BY DEF Restart
<1>6. InFlightInv'
  <2>1. \A id \in Sessions : ~Live(id)'
    BY <1>4 DEF Live
  <2>2. \A id \in Sessions :
          status'[id] = "unissued" => StreamingOn(id)' = {} /\ inFlight'[id] = 0
    BY <1>2, <1>4, <1>5 DEF Inv, InFlightInv
  <2> QED
    BY <1>4, <2>1, <2>2 DEF InFlightInv
<1> QED
  BY <1>1, <1>3, <1>6 DEF Inv

LEMMA CallKeepsInv ==
  ASSUME Inv, NEW id \in Sessions, ClientCall(id) PROVE Inv'
<1>1. CASE Create(id)
  <2>1. TypeOK'
    BY <1>1 DEF Create, Inv, TypeOK, chatVars
  <2>same. Untouched
    BY <1>1 DEF Create, Inv, TypeOK, InFlightInv, Live, Untouched
  <2>2. InFlightInv' /\ OnInv'
    BY <2>same, ChatsUntouched
  <2> QED
    BY <2>1, <2>2 DEF Inv
<1>2. CASE Heartbeat(id)
  <2>1. TypeOK'
    BY <1>2 DEF Heartbeat, Inv, TypeOK, chatVars
  <2>same. Untouched
    BY <1>2 DEF Heartbeat, Inv, InFlightInv, Live, Untouched
  <2>2. InFlightInv' /\ OnInv'
    BY <2>same, ChatsUntouched
  <2> QED
    BY <2>1, <2>2 DEF Inv
<1>3. CASE Delete(id)
  <2>1. unloading' = unloading \/ unloading' = unloading \cup {"delete"}
    BY <1>3 DEF Delete, UnloadIfNoneOf
  <2>2. unloading' \in SUBSET Askers
    BY <2>1 DEF Inv, TypeOK, Askers
  <2>3. TypeOK'
    BY <1>3, <2>2 DEF Delete, Inv, TypeOK, chatVars
  <2>same. Untouched
    BY <1>3 DEF Delete, Inv, TypeOK, InFlightInv, Live, Untouched
  <2>4. InFlightInv' /\ OnInv'
    BY <2>same, ChatsUntouched
  <2> QED
    BY <2>3, <2>4 DEF Inv
<1>4. CASE status[id] # "unissued" /\ \E c \in Chats : BeginChat(c, id)
  BY <1>4, BeginKeepsInv
<1> QED
  BY <1>1, <1>2, <1>3, <1>4 DEF ClientCall

LEMMA NextInv ==
  ASSUME Inv, [Next]_serverVars PROVE Inv'
<1>1. ASSUME NEW id \in Sessions, Passing(id) PROVE Inv'
  <2>1. TypeOK'
    BY <1>1 DEF Passing, BeatAges, TalkAges, Inv, TypeOK, chatVars
  <2>same. Untouched
    BY <1>1 DEF Passing, BeatAges, TalkAges, Inv, InFlightInv, Live, Untouched
  <2>2. InFlightInv' /\ OnInv'
    BY <2>same, ChatsUntouched
  <2> QED
    BY <2>1, <2>2 DEF Inv
<1>2. ASSUME NEW who \in Askers, UnloadEnds(who) PROVE Inv'
  <2>1. TypeOK'
    BY <1>2 DEF UnloadEnds, Inv, TypeOK, sessionVars, chatVars
  <2>same. Untouched
    BY <1>2 DEF UnloadEnds, Inv, InFlightInv, Live, sessionVars, Untouched
  <2>2. InFlightInv' /\ OnInv'
    BY <2>same, ChatsUntouched
  <2> QED
    BY <2>1, <2>2 DEF Inv
<1>3. CASE UNCHANGED serverVars
  <2>1. TypeOK'
    BY <1>3 DEF serverVars, Inv, TypeOK, sessionVars, chatVars
  <2>same. Untouched
    BY <1>3 DEF serverVars, Inv, InFlightInv, Live, sessionVars, Untouched
  <2>2. InFlightInv' /\ OnInv'
    BY <2>same, ChatsUntouched
  <2> QED
    BY <2>1, <2>2 DEF Inv
<1> QED
  BY <1>1, <1>2, <1>3, CallKeepsInv, FinishKeepsInv, ReapKeepsInv, RestartKeepsInv DEF Next

LEMMA Invariance == Spec => []Inv
  BY InitInv, NextInv, PTL DEF Spec

(* The type invariant holds for any number of sessions and chats. *)
THEOREM TypeInvariant == Spec => []TypeOK
<1>1. Inv => TypeOK
  BY DEF Inv
<1> QED
  BY <1>1, Invariance, PTL

(* While a session is there, InFlight counts the chats running on it, and  *)
(* a closing session always has one.                                       *)
THEOREM InFlightInvariant == Spec => []InFlightInv
<1>1. Inv => InFlightInv
  BY DEF Inv
<1> QED
  BY <1>1, Invariance, PTL

(* The reaper never takes a session away from a running chat, nor from a   *)
(* client that sends heartbeats.                                           *)
THEOREM ReaperSparesChats == Spec => ReapsOnlyForgotten
<1>1. ASSUME Inv, Reap, NEW id \in Sessions, Live(id), status'[id] = "removed"
      PROVE  StreamingOn(id) = {} /\ beat[id] = "stale"
  <2>1. Reapable(id)
    BY <1>1 DEF Reap, Live
  <2>2. Cardinality(StreamingOn(id)) = 0 /\ status[id] # "closing"
    BY <1>1, <2>1 DEF Reapable, Inv, InFlightInv
  <2> QED
    BY <2>1, <2>2, StreamingFinite, FS_EmptySet DEF Reapable
<1>2. Inv => [Reap => \A id \in Sessions : (Live(id) /\ status'[id] = "removed") =>
                        StreamingOn(id) = {} /\ beat[id] = "stale"]_serverVars
  BY <1>1
<1> QED
  BY <1>2, Invariance, PTL DEF ReapsOnlyForgotten

(* Models are unloaded only when no session in the map has a chat in       *)
(* flight, and lately had none.                                            *)
THEOREM ModelsUnloadedWhenQuiet == Spec => UnloadsWhenQuiet
<1> DEFINE Quiet == \A id \in Sessions : status'[id] \in {"open", "closing"} =>
                      inFlight'[id] = 0 /\ talk'[id] = "idle"
<1> DEFINE Asked == unloading' # unloading /\ unloading \subseteq unloading'
<1>1. ASSUME Reap, Asked PROVE Quiet
  <2> DEFINE left == {id \in LiveSessions : ~Reapable(id)}
  <2>1. left = {} \/ Idle(left)
    BY <1>1 DEF Reap
  <2>2. \A id \in Sessions : status'[id] \in {"open", "closing"} => id \in left
    BY <1>1 DEF Reap, LiveSessions, Live
  <2>3. inFlight' = inFlight /\ talk' = talk
    BY <1>1 DEF Reap
  <2> QED
    BY <2>1, <2>2, <2>3 DEF Idle
<1>2. ASSUME Inv, NEW id \in Sessions, Delete(id), Asked PROVE Quiet
  <2>1. status' = [status EXCEPT ![id] = "removed"] /\ LiveSessions \ {id} = {}
    BY <1>2 DEF Delete, UnloadIfNoneOf
  <2> QED
    <3>1. \A other \in Sessions : status'[other] \notin {"open", "closing"}
      BY <1>2, <2>1 DEF LiveSessions, Live, Inv, TypeOK
    <3> QED
      BY <3>1
<1>3. ASSUME Inv, NEW c \in Chats, FinishChat(c), Asked PROVE Quiet
  <2>1. status' = [status EXCEPT ![on[c]] = "removed"] /\ LiveSessions \ {on[c]} = {}
    BY <1>3 DEF FinishChat, UnloadIfNoneOf
  <2> QED
    <3>1. \A other \in Sessions : status'[other] \notin {"open", "closing"}
      BY <1>3, <2>1 DEF LiveSessions, Live, Inv, TypeOK, OnInv, FinishChat
    <3> QED
      BY <3>1
<1>4. ASSUME NEW id \in Sessions, ClientCall(id) \/ Passing(id), Asked PROVE Delete(id)
  BY <1>4 DEF ClientCall, Create, Heartbeat, BeginChat, Passing, BeatAges, TalkAges
<1>5. ASSUME NEW who, UnloadEnds(who) PROVE ~Asked
  BY <1>5 DEF UnloadEnds
<1>6. Restart => ~Asked
  BY DEF Restart
<1>7. Inv /\ [Next]_serverVars => [Asked => Quiet]_serverVars
  BY <1>1, <1>2, <1>3, <1>4, <1>5, <1>6 DEF Next
<1> QED
  BY <1>7, Invariance, PTL DEF UnloadsWhenQuiet, Spec
--------------------------------------------------------------------------------
(***************************************************************************)
(* The page as the client of the service: ChatTab.                         *)
(***************************************************************************)

(* What the page names was issued to it. *)
NamesInv ==
  /\ sessionId \in Sessions \cup {NoSession} /\ closing \in Sessions \cup {NoSession}
  /\ Known(sessionId) => status[sessionId] # "unissued"
  /\ replies \subseteq Sessions /\ \A id \in replies : status[id] # "unissued"
  /\ phase = "opened" => using \in Sessions /\ status[using] # "unissued"
  /\ posts \in [Chats -> Sessions \cup {NoSession}]
  /\ \A c \in Chats : Known(posts[c]) => status[posts[c]] # "unissued"

(* Every step of the page is one a client may take, or none of the         *)
(* service's.                                                              *)
LEMMA StepOfClient ==
  ASSUME NamesInv, [TabNext]_vars PROVE [Next]_serverVars
<1> USE DEF NamesInv, Known
<1>1. ASSUME NEW id \in Sessions, SessionCreated(id) PROVE Next
  BY <1>1 DEF SessionCreated, Next, ClientCall
<1>2. ASSUME NEW c \in Chats, PostArrives(c) PROVE Next
  <2>1. /\ posts[c] \in Sessions /\ status[posts[c]] # "unissued"
        /\ BeginChat(c, posts[c])
    BY <1>2 DEF PostArrives
  <2>. QED
    BY <2>1 DEF Next, ClientCall
<1>3. CASE TabBeats
  BY <1>3 DEF TabBeats, Next, ClientCall
<1>4. CASE DeleteArrives
  BY <1>4 DEF DeleteArrives, Next, ClientCall
<1>5. CASE Service
  BY <1>5 DEF Service, Next
<1>6. ASSUME NEW id \in Sessions, AskSession(id) \/ Learn(id) PROVE UNCHANGED serverVars
  BY <1>6 DEF AskSession, Learn
<1>7. ASSUME NEW c \in Chats, Post(c) PROVE UNCHANGED serverVars
  BY <1>7 DEF Post
<1>8. CASE Send \/ MessageEnds \/ Leave \/ UNCHANGED vars
  BY <1>8 DEF Send, MessageEnds, Leave, vars
<1>. QED
  BY <1>1, <1>2, <1>3, <1>4, <1>5, <1>6, <1>7, <1>8 DEF TabNext

(* A session is never unissued again. *)
LEMMA IssuedForGood ==
  ASSUME Inv, [Next]_serverVars, NEW id \in Sessions, status[id] # "unissued"
  PROVE  status'[id] # "unissued"
<1> USE DEF Inv, TypeOK
<1>1. ASSUME NEW other \in Sessions, ClientCall(other) PROVE status'[id] # "unissued"
  BY <1>1 DEF ClientCall, Create, Heartbeat, Delete, BeginChat
<1>2. ASSUME NEW c \in Chats, FinishChat(c) PROVE status'[id] # "unissued"
  BY <1>2 DEF FinishChat
<1>3. ASSUME NEW other \in Sessions, Passing(other) PROVE UNCHANGED status
  BY <1>3 DEF Passing, BeatAges, TalkAges
<1>4. CASE Reap \/ Restart
  BY <1>4 DEF Reap, Restart
<1>5. ASSUME NEW who \in Askers, UnloadEnds(who) PROVE UNCHANGED status
  BY <1>5 DEF UnloadEnds, sessionVars
<1>6. CASE UNCHANGED serverVars
  BY <1>6 DEF serverVars, sessionVars
<1>. QED
  BY <1>1, <1>2, <1>3, <1>4, <1>5, <1>6 DEF Next

LEMMA NamesInit == TabInit => NamesInv
BY DEF TabInit, NamesInv, Known

LEMMA NamesNext == Inv /\ NamesInv /\ [TabNext]_vars => NamesInv'
<1> SUFFICES ASSUME Inv, NamesInv, [TabNext]_vars PROVE NamesInv'
  OBVIOUS
<1>0. \A id \in Sessions : status[id] # "unissued" => status'[id] # "unissued"
  BY StepOfClient, IssuedForGood
<1> USE DEF NamesInv, Known
<1>1. CASE UNCHANGED tabVars
  BY <1>0, <1>1 DEF tabVars
<1>2. ASSUME NEW id \in Sessions, SessionCreated(id) PROVE NamesInv'
  <2>1. status'[id] = "open"
    BY <1>2 DEF SessionCreated, Create, Inv, TypeOK
  <2>. QED
    BY <1>0, <1>2, <2>1 DEF SessionCreated
<1>3. ASSUME NEW c \in Chats, PostArrives(c) PROVE NamesInv'
  BY <1>0, <1>3 DEF PostArrives
<1>4. ASSUME NEW c \in Chats, Post(c) PROVE NamesInv'
  BY <1>0, <1>4 DEF Post
<1>5. ASSUME NEW id \in Sessions, AskSession(id) PROVE NamesInv'
  BY <1>0, <1>5 DEF AskSession
<1>6. ASSUME NEW id \in Sessions, Learn(id) PROVE NamesInv'
  BY <1>0, <1>6 DEF Learn
<1>7. CASE Send \/ MessageEnds \/ Leave \/ DeleteArrives
  BY <1>0, <1>7 DEF Send, MessageEnds, Leave, Ready, DeleteArrives
<1>8. TabBeats \/ Service \/ UNCHANGED vars => UNCHANGED tabVars
  BY DEF TabBeats, Service, vars
<1>. QED
  BY <1>1, <1>2, <1>3, <1>4, <1>5, <1>6, <1>7, <1>8 DEF TabNext

LEMMA TabInvariance == TabSpec => [](Inv /\ NamesInv)
<1>1. TabInit => Inv /\ NamesInv
  BY InitInv, NamesInit DEF TabInit
<1>2. Inv /\ NamesInv /\ [TabNext]_vars => Inv' /\ NamesInv'
  BY StepOfClient, NextInv, NamesNext
<1>. QED
  BY <1>1, <1>2, PTL DEF TabSpec

(* A page is a client as ChatSessions takes it to be: what is proved of    *)
(* every client holds of the page.                                         *)
THEOREM PageIsAClient == TabSpec => Spec
<1>1. TabInit => Init
  BY DEF TabInit
<1>2. NamesInv /\ [TabNext]_vars => [Next]_serverVars
  BY StepOfClient
<1>. QED
  BY <1>1, <1>2, TabInvariance, PTL DEF TabSpec, Spec

(* The page has lost this session: it does not name it, nor will a reply   *)
(* or a message that is under way.                                         *)
Forgotten(id) ==
  /\ status[id] # "unissued" /\ sessionId # id /\ id \notin replies
  /\ phase = "opened" => using # id
  /\ \A c \in Chats : posts[c] # id

(* Its chats only end, and between two of them its heartbeat only ages. *)
OnlyFades(id) ==
  /\ inFlight'[id] <= inFlight[id]
  /\ inFlight'[id] = inFlight[id] /\ beat[id] = "stale" => beat'[id] = "stale"

LEMMA ForgottenStays ==
  ASSUME Inv, NamesInv, [TabNext]_vars, NEW id \in Sessions, Forgotten(id)
  PROVE  Forgotten(id)'
<1>0. status'[id] # "unissued"
  BY StepOfClient, IssuedForGood DEF Forgotten
<1> USE DEF Forgotten
<1>1. CASE UNCHANGED tabVars
  BY <1>0, <1>1 DEF tabVars
<1>2. ASSUME NEW other \in Sessions, SessionCreated(other) PROVE Forgotten(id)'
  <2>1. other # id
    BY <1>2 DEF SessionCreated, Create
  <2>. QED
    BY <1>0, <1>2, <2>1 DEF SessionCreated
<1>3. ASSUME NEW other \in Sessions, AskSession(other) \/ Learn(other) PROVE Forgotten(id)'
  BY <1>0, <1>3 DEF AskSession, Learn
<1>4. ASSUME NEW c \in Chats, Post(c) \/ PostArrives(c) PROVE Forgotten(id)'
  BY <1>0, <1>4, NoSessionAssumption DEF Post, PostArrives, NamesInv
<1>5. CASE Send \/ MessageEnds \/ Leave \/ DeleteArrives
  BY <1>0, <1>5, NoSessionAssumption DEF Send, MessageEnds, Leave, Ready, DeleteArrives
<1>6. TabBeats \/ Service \/ UNCHANGED vars => UNCHANGED tabVars
  BY DEF TabBeats, Service, vars
<1>. QED
  BY <1>1, <1>2, <1>3, <1>4, <1>5, <1>6 DEF TabNext

LEMMA ForgottenFades ==
  ASSUME Inv, NamesInv, [TabNext]_vars, NEW id \in Sessions, Forgotten(id)
  PROVE  OnlyFades(id)
<1> USE DEF Forgotten, OnlyFades
<1>0. inFlight \in [Sessions -> Nat] /\ beat \in [Sessions -> {"fresh", "stale"}]
  BY DEF Inv, TypeOK
<1>1. ASSUME inFlight'[id] = inFlight[id], beat'[id] = beat[id] PROVE OnlyFades(id)
  BY <1>0, <1>1
<1>2. ASSUME NEW other \in Sessions, SessionCreated(other) PROVE OnlyFades(id)
  <2>1. other # id
    BY <1>2 DEF SessionCreated, Create
  <2>. QED
    BY <1>0, <1>1, <1>2, <2>1 DEF SessionCreated, Create
<1>3. ASSUME NEW c \in Chats, PostArrives(c) PROVE OnlyFades(id)
  BY <1>0, <1>1, <1>3 DEF PostArrives, BeginChat
<1>4. CASE TabBeats
  BY <1>0, <1>1, <1>4 DEF TabBeats, Heartbeat
<1>5. CASE DeleteArrives
  BY <1>1, <1>5 DEF DeleteArrives, Delete, serverVars, sessionVars
<1>6. ASSUME NEW c \in Chats, FinishChat(c) PROVE OnlyFades(id)
  <2>1. CASE on[c] = id /\ Live(id)
    <3>1. c \in StreamingOn(id)
      BY <1>6, <2>1 DEF StreamingOn, FinishChat
    <3>2. inFlight[id] = Cardinality(StreamingOn(id)) /\ inFlight[id] # 0
      BY <2>1, <3>1, StreamingFinite, FS_EmptySet DEF Inv, InFlightInv
    <3>3. inFlight'[id] = inFlight[id] - 1
      BY <1>0, <1>6, <2>1, <3>2 DEF FinishChat
    <3>. QED
      BY <1>0, <3>3
  <2>2. CASE ~(on[c] = id /\ Live(id))
    BY <1>0, <1>1, <1>6, <2>2 DEF FinishChat
  <2>. QED
    BY <2>1, <2>2
<1>7. ASSUME NEW other \in Sessions, Passing(other) PROVE OnlyFades(id)
  BY <1>0, <1>7 DEF Passing, BeatAges, TalkAges
<1>8. ASSUME Reap \/ Restart \/ \E who \in Askers : UnloadEnds(who) PROVE OnlyFades(id)
  BY <1>1, <1>8 DEF Reap, Restart, UnloadEnds, sessionVars
<1>9. CASE Service
  BY <1>6, <1>7, <1>8, <1>9 DEF Service
<1>10. ASSUME \/ Send \/ MessageEnds \/ Leave \/ UNCHANGED vars
              \/ \E other \in Sessions : AskSession(other) \/ Learn(other)
              \/ \E c \in Chats : Post(c)
       PROVE  UNCHANGED serverVars
  BY <1>10 DEF Send, MessageEnds, Leave, vars, AskSession, Learn, Post
<1>11. UNCHANGED serverVars => OnlyFades(id)
  BY <1>1 DEF serverVars, sessionVars
<1>. QED
  BY <1>2, <1>3, <1>4, <1>5, <1>9, <1>10, <1>11 DEF TabNext

(* A page that has lost a session, because it gave up the opening of it or *)
(* a late reply replaced it, never takes it up again: no heartbeat, no     *)
(* message and no reply of the page keeps it from the reaper.              *)
THEOREM ForgottenForGood ==
  TabSpec => [][\A id \in Sessions : Forgotten(id) => Forgotten(id)' /\ OnlyFades(id)]_vars
<1>1. Inv /\ NamesInv /\ [TabNext]_vars =>
        [\A id \in Sessions : Forgotten(id) => Forgotten(id)' /\ OnlyFades(id)]_vars
  BY ForgottenStays, ForgottenFades
<1>. QED
  BY <1>1, TabInvariance, PTL DEF TabSpec
================================================================================

------------------------------ MODULE ContractsProofs ------------------------------
(***************************************************************************)
(* Proofs about four parts that stand alone: the validation of an audit     *)
(* log, for logs of any length; the repository index, for any files,        *)
(* requests and pulls; the diagnosis, for any question, application and     *)
(* log; a call of the model, whatever it writes.                           *)
(***************************************************************************)
EXTENDS ActionAudit, RepositoryIndex, Diagnostics, ModelTransport, FiniteSetTheorems, SequenceTheorems, TLAPS

(* The audit of an action.                                                 *)

(* A short sequence is the tuple of its elements.                          *)
LEMMA TupleOf ==
  ASSUME NEW S, NEW s \in Seq(S)
  PROVE  /\ Len(s) = 1 => s = <<s[1]>>
         /\ Len(s) = 2 => s = <<s[1], s[2]>>
         /\ Len(s) = 3 => s = <<s[1], s[2], s[3]>>
         /\ Len(s) = 4 => s = <<s[1], s[2], s[3], s[4]>>
<1>1. ASSUME Len(s) = 1 PROVE s = <<s[1]>>
  <2>1. DOMAIN s = 1..1 /\ s = [i \in 1..1 |-> s[i]]
    BY <1>1
  <2> QED BY <2>1
<1>2. ASSUME Len(s) = 2 PROVE s = <<s[1], s[2]>>
  <2>1. s = [i \in 1..2 |-> s[i]]
    BY <1>2
  <2> QED BY <2>1
<1>3. ASSUME Len(s) = 3 PROVE s = <<s[1], s[2], s[3]>>
  <2>1. s = [i \in 1..3 |-> s[i]]
    BY <1>3
  <2> QED BY <2>1
<1>4. ASSUME Len(s) = 4 PROVE s = <<s[1], s[2], s[3], s[4]>>
  <2>1. s = [i \in 1..4 |-> s[i]]
    BY <1>4
  <2> QED BY <2>1
<1> QED
  BY <1>1, <1>2, <1>3, <1>4
(* How tuples of at most four are put together.                            *)
LEMMA Appended ==
  \A a, b, c, d :
         /\ <<a>> \o <<>> = <<a>>
         /\ <<a>> \o <<b>> = <<a, b>> /\ <<a, b>> \o <<>> = <<a, b>>
         /\ <<a, b>> \o <<c>> = <<a, b, c>> /\ <<a, b, c>> \o <<>> = <<a, b, c>>
         /\ <<a, b, c>> \o <<d>> = <<a, b, c, d>> /\ <<a, b, c, d>> \o <<>> = <<a, b, c, d>>
<1> TAKE a, b, c, d
<1> DEFINE S == {a, b, c, d}
<1>1. \A s \in Seq(S), t \in Seq(S) :
        /\ s \o t \in Seq(S) /\ Len(s \o t) = Len(s) + Len(t)
        /\ \A i \in 1..Len(s) + Len(t) : (s \o t)[i] = IF i <= Len(s) THEN s[i] ELSE t[i - Len(s)]
  BY ConcatProperties
<1>2. <<>> \in Seq(S) /\ <<a>> \in Seq(S) /\ <<b>> \in Seq(S) /\ <<c>> \in Seq(S) /\ <<d>> \in Seq(S)
      /\ <<a, b>> \in Seq(S) /\ <<a, b, c>> \in Seq(S) /\ <<a, b, c, d>> \in Seq(S)
  OBVIOUS
<1> HIDE DEF S
<1>3. \A s \in Seq(S) : s \o <<>> = s
  BY ConcatEmptySeq
<1>4. <<a>> \o <<b>> = <<a, b>>
  <2>1. <<a>> \o <<b>> \in Seq(S) /\ Len(<<a>> \o <<b>>) = 2
        /\ (<<a>> \o <<b>>)[1] = a /\ (<<a>> \o <<b>>)[2] = b
    BY <1>1, <1>2
  <2> QED
    BY <2>1, TupleOf
<1>5. <<a, b>> \o <<c>> = <<a, b, c>>
  <2>1. <<a, b>> \o <<c>> \in Seq(S) /\ Len(<<a, b>> \o <<c>>) = 3
        /\ (<<a, b>> \o <<c>>)[1] = a /\ (<<a, b>> \o <<c>>)[2] = b /\ (<<a, b>> \o <<c>>)[3] = c
    BY <1>1, <1>2
  <2> QED
    BY <2>1, TupleOf
<1>6. <<a, b, c>> \o <<d>> = <<a, b, c, d>>
  <2>1. /\ <<a, b, c>> \o <<d>> \in Seq(S) /\ Len(<<a, b, c>> \o <<d>>) = 4
        /\ (<<a, b, c>> \o <<d>>)[1] = a /\ (<<a, b, c>> \o <<d>>)[2] = b
        /\ (<<a, b, c>> \o <<d>>)[3] = c /\ (<<a, b, c>> \o <<d>>)[4] = d
    BY <1>1, <1>2
  <2> QED
    BY <2>1, TupleOf
<1> QED
  BY <1>2, <1>3, <1>4, <1>5, <1>6

LEMMA ThreeAndOne == \A a, b, c, d : <<a, b, c>> \o <<d>> = <<a, b, c, d>>
BY Appended, Zenon

LEMMA Joined ==
  \A w, d, x, y :
    /\ <<w>> \o <<>> \o <<>> \o <<>> = <<w>>
    /\ <<w>> \o <<d>> \o <<>> \o <<>> = <<w, d>>
    /\ <<w>> \o <<>> \o <<x>> \o <<>> = <<w, x>>
    /\ <<w>> \o <<>> \o <<x>> \o <<y>> = <<w, x, y>>
    /\ <<w>> \o <<d>> \o <<x>> \o <<>> = <<w, d, x>>
    /\ <<w>> \o <<d>> \o <<x>> \o <<y>> = <<w, d, x, y>>
<1> TAKE w, d, x, y
<1>1. <<w>> \o <<>> = <<w>> /\ <<w>> \o <<d>> = <<w, d>> /\ <<w>> \o <<x>> = <<w, x>>
  BY Appended, Zenon
<1>2. /\ <<w, d>> \o <<>> = <<w, d>> /\ <<w, x>> \o <<>> = <<w, x>>
      /\ <<w, d>> \o <<x>> = <<w, d, x>> /\ <<w, x>> \o <<y>> = <<w, x, y>>
  BY Appended, Zenon
<1>3. <<w, d, x>> \o <<>> = <<w, d, x>>
  BY Appended, Zenon
<1>4. <<w, d, x>> \o <<y>> = <<w, d, x, y>>
  BY ThreeAndOne, Zenon
<1> QED
  BY <1>1, <1>2, <1>3, <1>4

LEMMA AllJoined == \A w, d, x, y : <<w>> \o <<d>> \o <<x>> \o <<y>> = <<w, d, x, y>>
BY Joined, Zenon

(* The chains that ExpectedEvents builds, spelt out.                       *)
Proposed == CreationEvent("awaiting_confirmation")
Authorized == CreationEvent("authorized")

LEMMA Chains ==
  ASSUME NEW c
  PROVE  /\ ExpectedEvents("authorized", "authorized", c) =
              <<Authorized>>
         /\ ExpectedEvents("awaiting_confirmation", "awaiting_confirmation", c) =
              <<Proposed>>
         /\ ExpectedEvents("awaiting_confirmation", "cancelled", c) =
              <<Proposed, CancellationEvent>>
         /\ ExpectedEvents("awaiting_confirmation", "authorized", c) =
              <<Proposed, ConfirmationEvent>>
         /\ ExpectedEvents("authorized", "executing", c) =
              <<Authorized, ExecutionStartedEvent>>
         /\ ExpectedEvents("authorized", "succeeded", c) =
              <<Authorized, ExecutionStartedEvent, ExecutionSucceededEvent>>
         /\ ExpectedEvents("authorized", "failed", c) =
              <<Authorized, ExecutionStartedEvent, ExecutionFailedEvent(c)>>
         /\ ExpectedEvents("awaiting_confirmation", "executing", c) =
              <<Proposed, ConfirmationEvent, ExecutionStartedEvent>>
         /\ ExpectedEvents("awaiting_confirmation", "succeeded", c) =
              <<Proposed, ConfirmationEvent, ExecutionStartedEvent, ExecutionSucceededEvent>>
         /\ ExpectedEvents("awaiting_confirmation", "failed", c) =
              <<Proposed, ConfirmationEvent, ExecutionStartedEvent, ExecutionFailedEvent(c)>>
<1>1. ExpectedEvents("authorized", "authorized", c) = <<Authorized>>
  <2>1. ExpectedEvents("authorized", "authorized", c)
          = <<Authorized>> \o <<>> \o <<>> \o <<>>
    BY DEF ExpectedEvents, ExecutionStates, Authorized, Proposed
  <2>2. <<Authorized>> \o <<>> \o <<>> \o <<>>
          = <<Authorized>>
    BY Joined, Zenon
  <2> QED
    BY <2>1, <2>2
<1>2. ExpectedEvents("awaiting_confirmation", "awaiting_confirmation", c) = <<Proposed>>
  <2>1. ExpectedEvents("awaiting_confirmation", "awaiting_confirmation", c)
          = <<Proposed>> \o <<>> \o <<>> \o <<>>
    BY DEF ExpectedEvents, ExecutionStates, Authorized, Proposed
  <2>2. <<Proposed>> \o <<>> \o <<>> \o <<>>
          = <<Proposed>>
    BY Joined, Zenon
  <2> QED
    BY <2>1, <2>2
<1>3. ExpectedEvents("awaiting_confirmation", "cancelled", c) = <<Proposed, CancellationEvent>>
  <2>1. ExpectedEvents("awaiting_confirmation", "cancelled", c)
          = <<Proposed>> \o <<CancellationEvent>> \o <<>> \o <<>>
    BY DEF ExpectedEvents, ExecutionStates, Authorized, Proposed
  <2>2. <<Proposed>> \o <<CancellationEvent>> \o <<>> \o <<>>
          = <<Proposed, CancellationEvent>>
    BY Joined, Zenon
  <2> QED
    BY <2>1, <2>2
<1>4. ExpectedEvents("awaiting_confirmation", "authorized", c) = <<Proposed, ConfirmationEvent>>
  <2>1. ExpectedEvents("awaiting_confirmation", "authorized", c)
          = <<Proposed>> \o <<ConfirmationEvent>> \o <<>> \o <<>>
    BY DEF ExpectedEvents, ExecutionStates, Authorized, Proposed
  <2>2. <<Proposed>> \o <<ConfirmationEvent>> \o <<>> \o <<>>
          = <<Proposed, ConfirmationEvent>>
    BY Joined, Zenon
  <2> QED
    BY <2>1, <2>2
<1>5. ExpectedEvents("authorized", "executing", c) = <<Authorized, ExecutionStartedEvent>>
  <2>1. ExpectedEvents("authorized", "executing", c)
          = <<Authorized>> \o <<>> \o <<ExecutionStartedEvent>> \o <<>>
    BY DEF ExpectedEvents, ExecutionStates, Authorized, Proposed
  <2>2. <<Authorized>> \o <<>> \o <<ExecutionStartedEvent>> \o <<>>
          = <<Authorized, ExecutionStartedEvent>>
    BY Joined, Zenon
  <2> QED
    BY <2>1, <2>2
<1>6. ExpectedEvents("authorized", "succeeded", c) = <<Authorized, ExecutionStartedEvent, ExecutionSucceededEvent>>
  <2>1. ExpectedEvents("authorized", "succeeded", c)
          = <<Authorized>> \o <<>> \o <<ExecutionStartedEvent>> \o <<ExecutionSucceededEvent>>
    BY DEF ExpectedEvents, ExecutionStates, Authorized, Proposed
  <2>2. <<Authorized>> \o <<>> \o <<ExecutionStartedEvent>> \o <<ExecutionSucceededEvent>>
          = <<Authorized, ExecutionStartedEvent, ExecutionSucceededEvent>>
    BY Joined, Zenon
  <2> QED
    BY <2>1, <2>2
<1>7. ExpectedEvents("authorized", "failed", c) = <<Authorized, ExecutionStartedEvent, ExecutionFailedEvent(c)>>
  <2>1. ExpectedEvents("authorized", "failed", c)
          = <<Authorized>> \o <<>> \o <<ExecutionStartedEvent>> \o <<ExecutionFailedEvent(c)>>
    BY DEF ExpectedEvents, ExecutionStates, Authorized, Proposed
  <2>2. <<Authorized>> \o <<>> \o <<ExecutionStartedEvent>> \o <<ExecutionFailedEvent(c)>>
          = <<Authorized, ExecutionStartedEvent, ExecutionFailedEvent(c)>>
    BY Joined, Zenon
  <2> QED
    BY <2>1, <2>2
<1>8. ExpectedEvents("awaiting_confirmation", "executing", c) = <<Proposed, ConfirmationEvent, ExecutionStartedEvent>>
  <2>1. ExpectedEvents("awaiting_confirmation", "executing", c)
          = <<Proposed>> \o <<ConfirmationEvent>> \o <<ExecutionStartedEvent>> \o <<>>
    BY DEF ExpectedEvents, ExecutionStates, Authorized, Proposed
  <2>2. <<Proposed>> \o <<ConfirmationEvent>> \o <<ExecutionStartedEvent>> \o <<>>
          = <<Proposed, ConfirmationEvent, ExecutionStartedEvent>>
    BY Joined, Zenon
  <2> QED
    BY <2>1, <2>2
<1>9. ExpectedEvents("awaiting_confirmation", "succeeded", c) = <<Proposed, ConfirmationEvent, ExecutionStartedEvent, ExecutionSucceededEvent>>
  <2>1. ExpectedEvents("awaiting_confirmation", "succeeded", c)
          = <<Proposed>> \o <<ConfirmationEvent>> \o <<ExecutionStartedEvent>> \o <<ExecutionSucceededEvent>>
    BY DEF ExpectedEvents, ExecutionStates, Authorized, Proposed
  <2>2. <<Proposed>> \o <<ConfirmationEvent>> \o <<ExecutionStartedEvent>> \o <<ExecutionSucceededEvent>>
          = <<Proposed, ConfirmationEvent, ExecutionStartedEvent, ExecutionSucceededEvent>>
    BY AllJoined, Zenon
  <2> QED
    BY <2>1, <2>2
<1>10. ExpectedEvents("awaiting_confirmation", "failed", c) = <<Proposed, ConfirmationEvent, ExecutionStartedEvent, ExecutionFailedEvent(c)>>
  <2>1. ExpectedEvents("awaiting_confirmation", "failed", c)
          = <<Proposed>> \o <<ConfirmationEvent>> \o <<ExecutionStartedEvent>> \o <<ExecutionFailedEvent(c)>>
    BY DEF ExpectedEvents, ExecutionStates, Authorized, Proposed
  <2>2. <<Proposed>> \o <<ConfirmationEvent>> \o <<ExecutionStartedEvent>> \o <<ExecutionFailedEvent(c)>>
          = <<Proposed, ConfirmationEvent, ExecutionStartedEvent, ExecutionFailedEvent(c)>>
    BY AllJoined, Zenon
  <2> QED
    BY <2>1, <2>2
<1> QED
  BY <1>1, <1>2, <1>3, <1>4, <1>5, <1>6, <1>7, <1>8, <1>9, <1>10

(* A walk of the lifecycle graph from s to t: IsWalk, of any log.          *)
Walks(s, t, events) ==
  /\ events # <<>>
  /\ events[1] = CreationEvent(s)
  /\ \A i \in 2 .. Len(events) : Records(events[i], events[i - 1].to, events[i].to)
  /\ events[Len(events)].to = t

(* The events that can record a step out of each state.                    *)
LEMMA Moves ==
  ASSUME NEW e \in AdmittedEvents, NEW from \in States, Records(e, from, e.to)
  PROVE  /\ from = "awaiting_confirmation" => e \in {ConfirmationEvent, CancellationEvent}
         /\ from = "authorized" => e = ExecutionStartedEvent
         /\ from = "executing" =>
              \/ e = ExecutionSucceededEvent
              \/ \E c \in FailureCategories : e = ExecutionFailedEvent(c)
         /\ from \in {"awaiting_confirmation", "authorized", "executing"}
         /\ e.to \in States
BY DEF AdmittedEvents, Records, ValidateStateTransition, States, CreationEvent, ConfirmationEvent,
  CancellationEvent, ExecutionStartedEvent, ExecutionSucceededEvent, ExecutionFailedEvent, Event,
  FailureCategories, NoCategory, NoState

LEMMA Ends ==
  /\ CreationEvent("authorized").to = "authorized"
  /\ CreationEvent("awaiting_confirmation").to = "awaiting_confirmation"
  /\ ConfirmationEvent.to = "authorized" /\ CancellationEvent.to = "cancelled"
  /\ ExecutionStartedEvent.to = "executing" /\ ExecutionSucceededEvent.to = "succeeded"
  /\ \A c : ExecutionFailedEvent(c).to = "failed"
BY DEF CreationEvent, ConfirmationEvent, CancellationEvent, ExecutionStartedEvent,
  ExecutionSucceededEvent, ExecutionFailedEvent, Event

LEMMA Recorded ==
  /\ Records(ConfirmationEvent, "awaiting_confirmation", "authorized")
  /\ Records(CancellationEvent, "awaiting_confirmation", "cancelled")
  /\ Records(ExecutionStartedEvent, "authorized", "executing")
  /\ Records(ExecutionSucceededEvent, "executing", "succeeded")
  /\ \A c \in FailureCategories : Records(ExecutionFailedEvent(c), "executing", "failed")
BY DEF CreationEvent, ConfirmationEvent, CancellationEvent, ExecutionStartedEvent,
  ExecutionSucceededEvent, ExecutionFailedEvent, Event, Records, ValidateStateTransition, NoCategory, FailureCategories

(* Every chain is a walk, and every walk, of whatever length, a chain.      *)
LEMMA ChainsAreWalks ==
  ASSUME NEW s \in {"authorized", "awaiting_confirmation"}, NEW t \in States, NEW events,
         ValidateRestorationEvents(s, t, events)
  PROVE  Walks(s, t, events)
<1> USE Ends, Recorded DEF Proposed, Authorized
<1>1. PICK c : events = ExpectedEvents(s, t, c) /\ (t = "failed" => c \in FailureCategories)
  BY DEF ValidateRestorationEvents
<1>2. StateReachableFromInitial(s, t)
  BY DEF ValidateRestorationEvents
<1>3. CASE events = <<CreationEvent(s)>> /\ t = s
  BY <1>3 DEF Walks
<1>4. ASSUME NEW e, events = <<CreationEvent(s), e>>, Records(e, s, e.to), e.to = t
      PROVE  Walks(s, t, events)
  <2>1. Len(events) = 2 /\ events[1] = CreationEvent(s) /\ events[2] = e
    BY <1>4
  <2>2. CreationEvent(s).to = s
    OBVIOUS
  <2>3. events # <<>>
    BY <1>4
  <2>4. \A i \in 2..2 : i = 2 /\ i - 1 = 1
    OBVIOUS
  <2> QED
    BY <1>4, <2>1, <2>2, <2>3, <2>4 DEF Walks
<1>5. ASSUME NEW d, NEW e, events = <<CreationEvent(s), d, e>>, Records(d, s, d.to),
             Records(e, d.to, e.to), e.to = t
      PROVE  Walks(s, t, events)
  <2>1. Len(events) = 3 /\ events[1] = CreationEvent(s) /\ events[2] = d /\ events[3] = e
    BY <1>5
  <2>2. CreationEvent(s).to = s
    OBVIOUS
  <2>3. events # <<>>
    BY <1>5
  <2>4. \A i \in 2..3 : (i = 2 /\ i - 1 = 1) \/ (i = 3 /\ i - 1 = 2)
    OBVIOUS
  <2> QED
    BY <1>5, <2>1, <2>2, <2>3, <2>4 DEF Walks
<1>6. ASSUME NEW d, NEW e, NEW f, events = <<CreationEvent(s), d, e, f>>, Records(d, s, d.to),
             Records(e, d.to, e.to), Records(f, e.to, f.to), f.to = t
      PROVE  Walks(s, t, events)
  <2>1. Len(events) = 4 /\ events[1] = CreationEvent(s) /\ events[2] = d /\ events[3] = e /\ events[4] = f
    BY <1>6
  <2>2. CreationEvent(s).to = s
    OBVIOUS
  <2>3. events # <<>>
    BY <1>6
  <2>4. \A i \in 2..4 : (i = 2 /\ i - 1 = 1) \/ (i = 3 /\ i - 1 = 2) \/ (i = 4 /\ i - 1 = 3)
    OBVIOUS
  <2> QED
    BY <1>6, <2>1, <2>2, <2>3, <2>4 DEF Walks
<1>7. CASE t \in {"authorized", "awaiting_confirmation", "cancelled"}
  BY <1>1, <1>2, <1>3, <1>4, <1>7, Chains DEF StateReachableFromInitial
<1>8. CASE s = "authorized" /\ t \in ExecutionStates
  BY <1>1, <1>4, <1>5, <1>8, Chains DEF ExecutionStates
<1>9. CASE s = "awaiting_confirmation" /\ t \in ExecutionStates
  BY <1>1, <1>5, <1>6, <1>9, Chains DEF ExecutionStates
<1> QED
  BY <1>2, <1>7, <1>8, <1>9 DEF StateReachableFromInitial, ExecutionStates

LEMMA WalksAreChains ==
  ASSUME NEW s \in {"authorized", "awaiting_confirmation"}, NEW t \in States,
         NEW events \in Seq(AdmittedEvents), Walks(s, t, events)
  PROVE  ValidateRestorationEvents(s, t, events)
<1> USE Ends DEF Proposed, Authorized
<1> DEFINE n == Len(events)
<1>1. n \in Nat /\ n >= 1 /\ events[1] = CreationEvent(s) /\ events[n].to = t
  BY DEF Walks
<1>2. ASSUME NEW i \in 2..n, events[i - 1].to \in States
      PROVE  /\ events[i - 1].to = "awaiting_confirmation" => events[i] \in {ConfirmationEvent, CancellationEvent}
             /\ events[i - 1].to = "authorized" => events[i] = ExecutionStartedEvent
             /\ events[i - 1].to = "executing" =>
                  \/ events[i] = ExecutionSucceededEvent
                  \/ \E c \in FailureCategories : events[i] = ExecutionFailedEvent(c)
             /\ events[i - 1].to \in {"awaiting_confirmation", "authorized", "executing"}
             /\ events[i].to \in States
  <2>1. events[i] \in AdmittedEvents
    OBVIOUS
  <2>2. Records(events[i], events[i - 1].to, events[i].to)
    BY DEF Walks
  <2> QED
    BY <1>2, <2>1, <2>2, Moves
<1>3. events[1].to = s /\ s \in States
  BY <1>1 DEF States
<1>4. ASSUME NEW k \in {1, 2}, k <= n, events[k].to = "authorized"
      PROVE  \/ n = k
             \/ n = k + 1 /\ events[k + 1] = ExecutionStartedEvent
             \/ /\ n = k + 2 /\ events[k + 1] = ExecutionStartedEvent
                /\ \/ events[k + 2] = ExecutionSucceededEvent
                   \/ \E c \in FailureCategories : events[k + 2] = ExecutionFailedEvent(c)
  <2>1. k + 1 <= n => events[k + 1] = ExecutionStartedEvent
    <3> HAVE k + 1 <= n
    <3>1. PICK i \in 2..n : i = k + 1 /\ i - 1 = k
      BY <1>1
    <3>2. events[i - 1].to = "authorized" /\ "authorized" \in States
      BY <1>4, <3>1 DEF States
    <3>3. events[i] = ExecutionStartedEvent
      BY <1>2, <3>2
    <3> QED
      BY <3>1, <3>3
  <2>2. k + 2 <= n => \/ events[k + 2] = ExecutionSucceededEvent
                      \/ \E c \in FailureCategories : events[k + 2] = ExecutionFailedEvent(c)
    <3> HAVE k + 2 <= n
    <3>1. k + 2 \in 2..n /\ (k + 2) - 1 = k + 1 /\ k + 1 <= n
      BY <1>1
    <3> QED
      BY <1>2, <2>1, <3>1 DEF States
  <2>3. ~ (k + 3 <= n)
    <3> SUFFICES ASSUME k + 3 <= n PROVE FALSE
      OBVIOUS
    <3>1. k + 3 \in 2..n /\ (k + 3) - 1 = k + 2 /\ k + 2 <= n
      BY <1>1
    <3>2. events[k + 2].to \in {"succeeded", "failed"}
      BY <2>2, <3>1
    <3> QED
      BY <1>2, <3>1, <3>2 DEF States
  <2> QED
    BY <1>1, <1>4, <2>1, <2>2, <2>3
<1>5. CASE s = "authorized"
  <2>1. \/ events = <<Authorized>> /\ t = "authorized"
        \/ events = <<Authorized, ExecutionStartedEvent>> /\ t = "executing"
        \/ events = <<Authorized, ExecutionStartedEvent, ExecutionSucceededEvent>> /\ t = "succeeded"
        \/ \E c \in FailureCategories :
              events = <<Authorized, ExecutionStartedEvent, ExecutionFailedEvent(c)>> /\ t = "failed"
    BY <1>1, <1>3, <1>4, <1>5, TupleOf
  <2> QED
    BY <1>5, <2>1, Chains DEF ValidateRestorationEvents, StateReachableFromInitial
<1>6. CASE s = "awaiting_confirmation"
  <2>1. n >= 2 => events[2] \in {ConfirmationEvent, CancellationEvent}
    <3> HAVE n >= 2
    <3>1. 2 \in 2..n /\ 2 - 1 = 1
      BY <1>1
    <3> QED
      BY <1>2, <1>3, <1>6, <3>1
  <2>2. n >= 3 => events[2] # CancellationEvent
    <3> SUFFICES ASSUME n >= 3, events[2] = CancellationEvent PROVE FALSE
      OBVIOUS
    <3>1. 3 \in 2..n /\ 3 - 1 = 2
      BY <1>1
    <3> QED
      BY <1>2, <3>1 DEF States
  <2>3. \/ events = <<Proposed>> /\ t = "awaiting_confirmation"
        \/ events = <<Proposed, CancellationEvent>> /\ t = "cancelled"
        \/ n >= 2 /\ events[2] = ConfirmationEvent
    <3>1. n = 1 => events = <<Proposed>> /\ t = "awaiting_confirmation"
      BY <1>1, <1>3, <1>6, TupleOf
    <3>2. n = 2 => events = <<Proposed, events[2]>> /\ events[2].to = t
      BY <1>1, <1>6, TupleOf
    <3>3. n = 2 /\ events[2] = CancellationEvent =>
            events = <<Proposed, CancellationEvent>> /\ t = "cancelled"
      BY <3>2
    <3> HIDE DEF n
    <3>4. n = 1 \/ n = 2 \/ (n >= 2 /\ n >= 3)
      BY <1>1
    <3>5. CASE n >= 2
      BY <2>1, <2>2, <3>3, <3>4, <3>5
    <3> QED
      BY <3>1, <3>4, <3>5
  <2>4. ASSUME n >= 2, events[2] = ConfirmationEvent
        PROVE  \/ events = <<Proposed, ConfirmationEvent>> /\ t = "authorized"
               \/ events = <<Proposed, ConfirmationEvent, ExecutionStartedEvent>> /\ t = "executing"
               \/ /\ events = <<Proposed, ConfirmationEvent, ExecutionStartedEvent, ExecutionSucceededEvent>>
                  /\ t = "succeeded"
               \/ \E c \in FailureCategories :
                     /\ events = <<Proposed, ConfirmationEvent, ExecutionStartedEvent, ExecutionFailedEvent(c)>>
                     /\ t = "failed"
    BY <1>1, <1>4, <1>6, <2>4, TupleOf
  <2> QED
    BY <1>6, <2>3, <2>4, Chains DEF ValidateRestorationEvents, StateReachableFromInitial
<1> QED
  BY <1>5, <1>6

AuditTyped ==
  /\ initial \in {"authorized", "awaiting_confirmation"} /\ current \in States
  /\ log \in Seq(AdmittedEvents)

LEMMA AuditAlways == AuditSpec => []AuditTyped
<1>1. AuditInit => AuditTyped
  BY DEF AuditInit, AuditTyped
<1>2. AuditTyped /\ [AppendEvent]_auditVars => AuditTyped'
  BY DEF AuditTyped, AppendEvent, auditVars
<1> QED
  BY <1>1, <1>2, PTL DEF AuditSpec

(* validateRestorationEvents accepts exactly the walks of the lifecycle    *)
(* graph, whatever the length of the log.                                  *)
THEOREM OnlyWalksAreRestored == AuditSpec => []AcceptsExactlyTheWalks
<1>1. AuditTyped => AcceptsExactlyTheWalks
  <2> SUFFICES ASSUME AuditTyped PROVE AcceptsExactlyTheWalks
    OBVIOUS
  <2>1. ValidateRestorationEvents(initial, current, log) <=> Walks(initial, current, log)
    BY ChainsAreWalks, WalksAreChains DEF AuditTyped
  <2> QED
    BY <2>1 DEF AcceptsExactlyTheWalks, IsWalk, Walks
<1> QED
  BY <1>1, AuditAlways, PTL
--------------------------------------------------------------------------------
(* The index of a repository.                                              *)

(* One request's look, index or answer lies between an earlier and a later one. *)
Between(low, i, high) == \A f \in Files : i[f] # 0 => low[f] # 0 /\ low[f] <= i[f] /\ i[f] <= high[f]

Versions == [Files -> Nat]
Caches == [full : BOOLEAN, label : Nat, listed : Versions, index : Versions]

IndexTypes ==
  /\ revision \in Versions /\ present \subseteq Files /\ commit \in Nat
  /\ at \in [Lookups -> Places] /\ label \in [Lookups -> Nat]
  /\ walked \in [Lookups -> SUBSET Files] /\ listed \in [Lookups -> Versions]
  /\ lock \in Lookups \cup {Nobody} /\ index \in Versions /\ read \subseteq Files
  /\ cache \in Caches /\ reply \in [Lookups -> Files \cup {NoFile}]

LooksAreOld == \A r \in Lookups : \A f \in Files : listed[r][f] <= revision[f]

BuildsAreFresh ==
  \A r \in Lookups : at[r] = "building" => lock = r /\ Between(listed[r], index, revision)

CacheIsFresh == cache.full => Between(cache.listed, cache.index, revision)

(* What the answers rest on: whoever builds holds the lock, and what is     *)
(* built, or cached, is no older than what it is filed under.              *)
IndexInv == IndexTypes /\ LooksAreOld /\ BuildsAreFresh /\ CacheIsFresh /\ AnswersAreNoOlder

(* The file an index answers with declares what was asked about.           *)
LEMMA LookupFinds ==
  ASSUME NEW i, NEW q, lookupRepositoryIndex(i, q) # NoFile
  PROVE  LET f == lookupRepositoryIndex(i, q)
         IN /\ f \in Files /\ i[f] # 0
            /\ \E kind \in {"symbol", "route"} : Names(kind, f, i[f]) \cap q.terms # {}
<1> DEFINE hits == {f \in Indexed(i) : Declared("symbol", i, f) \cap q.terms # {}}
<1>1. ASSUME lookupRepositorySymbol(i, q) # NoFile
      PROVE  lookupRepositorySymbol(i, q) \in hits
  <2>1. Cardinality({}) = 0
    BY FS_EmptySet
  <2>2. Cardinality(hits) = 1 /\ lookupRepositorySymbol(i, q) = CHOOSE f \in hits : TRUE
    BY <1>1 DEF lookupRepositorySymbol
  <2>3. hits # {}
    BY <2>1, <2>2
  <2> HIDE DEF hits
  <2> QED
    BY <2>2, <2>3
<1>2. ASSUME lookupRepositoryRoute(i, q) # NoFile
      PROVE  /\ lookupRepositoryRoute(i, q) \in Indexed(i)
             /\ Declared("route", i, lookupRepositoryRoute(i, q)) \cap q.terms # {}
  <2> DEFINE Covered(f) == Declared("route", i, f) \cap q.terms
             More(f, g) == Cardinality(Covered(f)) > Cardinality(Covered(g))
             Above(f, g) == More(f, g) \/ (~More(g, f) /\ f \in q.named /\ g \notin q.named)
             best == {f \in Indexed(i) :
                        /\ Covered(f) # {}
                        /\ \A g \in Indexed(i) \ {f} : Above(f, g)
                        /\ Cardinality({m \in Indexed(i) : f \in Declared("mount", i, m)}) <= 1}
  <2>1. lookupRepositoryRoute(i, q) = IF best = {} THEN NoFile ELSE CHOOSE f \in best : TRUE
    BY DEF lookupRepositoryRoute
  <2>2. \A f \in best : f \in Indexed(i) /\ Covered(f) # {}
    OBVIOUS
  <2>3. lookupRepositoryRoute(i, q) \in best
    <3> HIDE DEF best
    <3> QED
      BY <1>2, <2>1
  <2> QED
    BY <2>2, <2>3
<1>3. \A f \in Indexed(i) : f \in Files /\ i[f] # 0
  BY DEF Indexed
<1>4. CASE lookupRepositoryIndex(i, q) = lookupRepositorySymbol(i, q)
  BY <1>1, <1>3, <1>4 DEF Declared
<1>5. CASE lookupRepositoryIndex(i, q) = lookupRepositoryRoute(i, q)
  BY <1>2, <1>3, <1>5 DEF Declared
<1> QED
  BY <1>4, <1>5 DEF lookupRepositoryIndex

LEMMA InitIndexInv == IndexInit => IndexInv
<1> SUFFICES ASSUME IndexInit PROVE IndexInv
  OBVIOUS
<1>1. IndexTypes
  BY DEF IndexInit, IndexTypes, Versions, Caches, Places, NoCache, Nothing
<1>2. LooksAreOld
  BY DEF IndexInit, LooksAreOld, Nothing
<1>3. BuildsAreFresh /\ CacheIsFresh /\ AnswersAreNoOlder
  BY DEF IndexInit, BuildsAreFresh, CacheIsFresh, AnswersAreNoOlder, NoCache
<1> QED
  BY <1>1, <1>2, <1>3 DEF IndexInv
--------------------------------------------------------------------------------
(* The checkout only goes on.                                              *)
LEMMA CheckoutMovesOn ==
  ASSUME IndexInv, WriteFile \/ RemoveFile \/ MoveCommit
  PROVE  IndexInv'
<1> USE DEF IndexInv, IndexTypes, Versions, lookupVars
<1>1. /\ revision' \in Versions /\ \A f \in Files : revision[f] <= revision'[f]
      /\ present' \subseteq Files /\ commit' \in Nat /\ UNCHANGED lookupVars
  <2>1. CASE WriteFile
    BY <2>1 DEF WriteFile
  <2>2. CASE RemoveFile
    BY <2>2 DEF RemoveFile
  <2>3. CASE MoveCommit
    BY <2>3 DEF MoveCommit
  <2> QED
    BY <2>1, <2>2, <2>3
<1>2. IndexTypes'
  BY <1>1
<1>3. LooksAreOld'
  BY <1>1 DEF LooksAreOld
<1>4. \A low \in Versions, i \in Versions : Between(low, i, revision) => Between(low, i, revision')
  BY <1>1 DEF Between
<1>5. BuildsAreFresh'
  <2> SUFFICES ASSUME NEW r \in Lookups, at[r] = "building"
               PROVE  lock = r /\ Between(listed[r], index, revision')
    BY <1>1 DEF BuildsAreFresh, Between
  <2> QED
    BY <1>4 DEF BuildsAreFresh
<1>6. CacheIsFresh'
  <2>1. cache.full => Between(cache.listed, cache.index, revision')
    BY <1>4 DEF CacheIsFresh, Caches
  <2> QED
    BY <1>1, <2>1 DEF CacheIsFresh, Between
<1>7. AnswersAreNoOlder'
  <2> SUFFICES ASSUME NEW r \in Lookups, at[r] = "answered", reply[r] # NoFile
               PROVE  /\ listed[r][reply[r]] # 0
                      /\ \E n \in listed[r][reply[r]]..revision'[reply[r]], kind \in {"symbol", "route"} :
                           Names(kind, reply[r], n) \cap asked[r].terms # {}
    BY <1>1 DEF AnswersAreNoOlder
  <2>1. PICK n \in listed[r][reply[r]]..revision[reply[r]], kind \in {"symbol", "route"} :
          Names(kind, reply[r], n) \cap asked[r].terms # {}
    BY DEF AnswersAreNoOlder
  <2>2. reply[r] \in Files /\ listed[r][reply[r]] \in Nat /\ revision[reply[r]] \in Nat
    OBVIOUS
  <2>3. n \in listed[r][reply[r]]..revision'[reply[r]]
    BY <1>1, <2>1, <2>2
  <2> QED
    BY <2>1, <2>3 DEF AnswersAreNoOlder
<1> QED
  BY <1>2, <1>3, <1>5, <1>6, <1>7
--------------------------------------------------------------------------------
(* A request that answers from an index no older than its own look.        *)
LEMMA AnswerIsNoOlder ==
  ASSUME IndexInv, NEW r \in Lookups, NEW i \in Versions, Between(listed[r], i, revision),
         AnswerFrom(r, i), UNCHANGED <<asked, listed>>, UNCHANGED repositoryVars
  PROVE  AnswersAreNoOlder' /\ at' \in [Lookups -> Places]
           /\ reply' \in [Lookups -> Files \cup {NoFile}]
<1> USE DEF IndexInv, IndexTypes, AnswerFrom
<1> DEFINE f == lookupRepositoryIndex(i, asked[r])
<1>1. f # NoFile => f \in Files /\ i[f] # 0
                    /\ \E kind \in {"symbol", "route"} : Names(kind, f, i[f]) \cap asked[r].terms # {}
  BY LookupFinds
<1> HIDE DEF f
<1>2. at' = [at EXCEPT ![r] = "answered"] /\ reply' = [reply EXCEPT ![r] = f]
  BY DEF f
<1>3. at' \in [Lookups -> Places] /\ reply' \in [Lookups -> Files \cup {NoFile}]
  BY <1>1, <1>2 DEF Places
<1>4. ASSUME f # NoFile
      PROVE  /\ listed[r][f] # 0
             /\ \E n \in listed[r][f]..revision[f], kind \in {"symbol", "route"} :
                  Names(kind, f, n) \cap asked[r].terms # {}
  <2>1. f \in Files /\ i[f] \in Nat /\ listed[r][f] \in Nat /\ revision[f] \in Nat
    BY <1>1, <1>4 DEF Versions
  <2>2. listed[r][f] # 0 /\ i[f] \in listed[r][f]..revision[f]
    BY <1>1, <1>4, <2>1 DEF Between
  <2> QED
    BY <1>1, <1>4, <2>2
<1>5. AnswersAreNoOlder'
  <2> SUFFICES ASSUME NEW s \in Lookups, at'[s] = "answered", reply'[s] # NoFile
               PROVE  /\ listed[s][reply'[s]] # 0
                      /\ \E n \in listed[s][reply'[s]]..revision[reply'[s]], kind \in {"symbol", "route"} :
                           Names(kind, reply'[s], n) \cap asked[s].terms # {}
    BY DEF AnswersAreNoOlder, repositoryVars
  <2>1. CASE s = r
    BY <1>2, <1>4, <2>1
  <2>2. CASE s # r
    BY <1>2, <2>2 DEF AnswersAreNoOlder
  <2> QED
    BY <2>1, <2>2
<1> QED
  BY <1>3, <1>5

(* A request that goes on without an answer leaves the answers alone.      *)
LEMMA AnswersKept ==
  ASSUME IndexInv, NEW r \in Lookups, at[r] # "answered", NEW to \in Places, to # "answered",
         at' = [at EXCEPT ![r] = to], UNCHANGED <<asked, reply>>, UNCHANGED repositoryVars,
         \A s \in Lookups : s # r => listed'[s] = listed[s]
  PROVE  AnswersAreNoOlder'
<1> SUFFICES ASSUME NEW s \in Lookups, at'[s] = "answered", reply[s] # NoFile
             PROVE  /\ listed'[s][reply[s]] # 0
                    /\ \E n \in listed'[s][reply[s]]..revision[reply[s]], kind \in {"symbol", "route"} :
                         Names(kind, reply[s], n) \cap asked[s].terms # {}
  BY DEF AnswersAreNoOlder, repositoryVars
<1>1. s # r /\ at[s] = "answered"
  BY DEF IndexInv, IndexTypes
<1> QED
  BY <1>1 DEF IndexInv, AnswersAreNoOlder

LEMMA LookSteps ==
  ASSUME IndexInv, NEW r \in Lookups, ReadCommit(r) \/ ListFile(r) \/ ListedAll(r)
  PROVE  IndexInv'
<1> USE DEF IndexInv, IndexTypes, repositoryVars
<1>1. PICK to \in {"listing", "waiting"} : at' = [at EXCEPT ![r] = to]
  <2>1. CASE ReadCommit(r)
    BY <2>1 DEF ReadCommit
  <2>2. CASE ListFile(r)
    <3>1. at' = [at EXCEPT ![r] = "listing"]
      BY <2>2 DEF ListFile
    <3> QED
      BY <3>1
  <2>3. CASE ListedAll(r)
    BY <2>3 DEF ListedAll
  <2> QED
    BY <2>1, <2>2, <2>3
<1>2. /\ at[r] \in {"idle", "listing"} /\ UNCHANGED <<asked, lock, index, read, cache, reply>>
      /\ UNCHANGED repositoryVars
  BY DEF ReadCommit, ListFile, ListedAll
<1>3. /\ listed' \in [Lookups -> Versions] /\ walked' \in [Lookups -> SUBSET Files]
      /\ label' \in [Lookups -> Nat]
      /\ \A s \in Lookups : s # r => listed'[s] = listed[s]
      /\ \A f \in Files : listed'[r][f] \in {listed[r][f], revision[f]}
  <2>1. CASE ReadCommit(r)
    BY <2>1 DEF ReadCommit
  <2>2. CASE ListFile(r)
    <3>1. PICK f \in present \ walked[r] :
             /\ walked' = [walked EXCEPT ![r] = @ \cup {f}]
             /\ \/ listed' = [listed EXCEPT ![r][f] = revision[f]]
                \/ UNCHANGED listed
      BY <2>2 DEF ListFile
    <3>2. f \in Files
      OBVIOUS
    <3> QED
      BY <2>2, <3>1, <3>2 DEF ListFile, Versions
  <2>3. CASE ListedAll(r)
    BY <2>3 DEF ListedAll
  <2> QED
    BY <2>1, <2>2, <2>3
<1>4. IndexTypes'
  BY <1>1, <1>2, <1>3 DEF Places
<1>5. LooksAreOld'
  <2> SUFFICES ASSUME NEW s \in Lookups, NEW f \in Files PROVE listed'[s][f] <= revision[f]
    BY <1>2 DEF LooksAreOld
  <2>1. revision[f] \in Nat /\ listed[s][f] <= revision[f]
    BY DEF LooksAreOld, Versions
  <2> QED
    BY <1>3, <2>1
<1>6. BuildsAreFresh'
  <2> SUFFICES ASSUME NEW s \in Lookups, at'[s] = "building"
               PROVE  lock = s /\ Between(listed'[s], index, revision)
    BY <1>2 DEF BuildsAreFresh, Between
  <2>1. s # r /\ at[s] = "building"
    BY <1>1
  <2> QED
    BY <1>3, <2>1 DEF BuildsAreFresh, Between
<1>7. CacheIsFresh'
  BY <1>2 DEF CacheIsFresh, Between
<1>8. AnswersAreNoOlder'
  BY <1>1, <1>2, <1>3, AnswersKept DEF Places
<1> QED
  BY <1>4, <1>5, <1>6, <1>7, <1>8
--------------------------------------------------------------------------------
LEMMA GiveUpStep ==
  ASSUME IndexInv, NEW r \in Lookups, GiveUp(r)
  PROVE  IndexInv'
<1> USE DEF IndexInv, IndexTypes, GiveUp, repositoryVars
<1>1. IndexTypes'
  BY DEF Places
<1>2. LooksAreOld' /\ CacheIsFresh'
  BY DEF LooksAreOld, CacheIsFresh, Between
<1>3. BuildsAreFresh'
  <2> SUFFICES ASSUME NEW s \in Lookups, at'[s] = "building"
               PROVE  lock' = s /\ Between(listed[s], index, revision)
    BY DEF BuildsAreFresh, Between
  <2>1. s # r /\ at[s] = "building" /\ lock = s
    BY DEF BuildsAreFresh
  <2> QED
    BY <2>1 DEF BuildsAreFresh
<1>4. AnswersAreNoOlder'
  <2>1. at' = [at EXCEPT ![r] = "given_up"] /\ at[r] # "answered" /\ "given_up" \in Places
    BY DEF Places
  <2>2. UNCHANGED <<asked, reply>> /\ UNCHANGED repositoryVars /\ UNCHANGED listed
    OBVIOUS
  <2> QED
    BY <2>1, <2>2, AnswersKept
<1> QED
  BY <1>1, <1>2, <1>3, <1>4

LEMMA HitStep ==
  ASSUME IndexInv, NEW r \in Lookups, Hit(r)
  PROVE  IndexInv'
<1> USE DEF IndexInv, IndexTypes, repositoryVars
<1>1. /\ at[r] = "waiting" /\ lock = Nobody /\ AnswerFrom(r, cache.index)
      /\ UNCHANGED <<asked, label, walked, listed, lock, index, read, cache>>
      /\ UNCHANGED repositoryVars
  BY DEF Hit
<1>2. Between(listed[r], cache.index, revision) /\ cache.index \in Versions
  BY DEF Hit, SameVersion, CacheIsFresh, Caches
<1>3. AnswersAreNoOlder' /\ at' \in [Lookups -> Places] /\ reply' \in [Lookups -> Files \cup {NoFile}]
  BY <1>1, <1>2, AnswerIsNoOlder
<1>4. IndexTypes'
  BY <1>1, <1>3
<1>5. LooksAreOld' /\ CacheIsFresh'
  BY <1>1 DEF LooksAreOld, CacheIsFresh, Between
<1>6. BuildsAreFresh'
  <2>1. \A s \in Lookups : at'[s] = "building" => at[s] = "building"
    BY <1>1 DEF AnswerFrom
  <2> QED
    BY <1>1, <2>1 DEF BuildsAreFresh, Between
<1> QED
  BY <1>3, <1>4, <1>5, <1>6

LEMMA StartBuildStep ==
  ASSUME IndexInv, NEW r \in Lookups, StartBuild(r)
  PROVE  IndexInv'
<1> USE DEF IndexInv, IndexTypes, StartBuild, repositoryVars
<1>1. IndexTypes'
  BY DEF Places, Versions, Nothing
<1>2. LooksAreOld' /\ CacheIsFresh'
  BY DEF LooksAreOld, CacheIsFresh, Between
<1>3. BuildsAreFresh'
  <2> SUFFICES ASSUME NEW s \in Lookups, at'[s] = "building"
               PROVE  lock' = s /\ Between(listed[s], index', revision)
    BY DEF BuildsAreFresh, Between
  <2>1. s = r
    BY IndexAssumption DEF BuildsAreFresh, Nobody
  <2> QED
    BY <2>1 DEF Between, Nothing
<1>4. AnswersAreNoOlder'
  <2>1. at' = [at EXCEPT ![r] = "building"] /\ at[r] # "answered" /\ "building" \in Places
    BY DEF Places
  <2>2. UNCHANGED <<asked, reply>> /\ UNCHANGED repositoryVars /\ UNCHANGED listed
    OBVIOUS
  <2> QED
    BY <2>1, <2>2, AnswersKept
<1> QED
  BY <1>1, <1>2, <1>3, <1>4

LEMMA ReadFileStep ==
  ASSUME IndexInv, NEW r \in Lookups, ReadFile(r)
  PROVE  IndexInv'
<1> USE DEF IndexInv, IndexTypes, repositoryVars
<1>1. /\ at[r] = "building" /\ UNCHANGED <<at, asked, label, walked, listed, lock, cache, reply>>
      /\ UNCHANGED repositoryVars
  BY DEF ReadFile
<1>2. PICK f \in Files \ read :
         /\ listed[r][f] # 0 /\ read' = read \cup {f}
         /\ \/ f \in present /\ index' = [index EXCEPT ![f] = revision[f]]
            \/ UNCHANGED index
  BY DEF ReadFile
<1>3. IndexTypes'
  BY <1>1, <1>2 DEF Versions
<1>4. LooksAreOld' /\ CacheIsFresh' /\ AnswersAreNoOlder'
  BY <1>1 DEF LooksAreOld, CacheIsFresh, AnswersAreNoOlder, Between
<1>5. BuildsAreFresh'
  <2> SUFFICES ASSUME NEW s \in Lookups, at[s] = "building"
               PROVE  lock = s /\ Between(listed[s], index', revision)
    BY <1>1 DEF BuildsAreFresh, Between
  <2>1. s = r /\ lock = s
    BY <1>1 DEF BuildsAreFresh
  <2>2. listed[r][f] <= revision[f] /\ revision[f] \in Nat
    BY DEF LooksAreOld, Versions
  <2> QED
    BY <1>2, <2>1, <2>2 DEF BuildsAreFresh, Between, Versions
<1> QED
  BY <1>3, <1>4, <1>5

LEMMA FinishBuildStep ==
  ASSUME IndexInv, NEW r \in Lookups, FinishBuild(r)
  PROVE  IndexInv'
<1> USE DEF IndexInv, IndexTypes, repositoryVars
<1>1. /\ at[r] = "building" /\ AnswerFrom(r, index) /\ lock' = Nobody
      /\ cache' = [full |-> TRUE, label |-> label[r], listed |-> listed[r], index |-> index]
      /\ UNCHANGED <<asked, label, walked, listed, index, read>> /\ UNCHANGED repositoryVars
  BY DEF FinishBuild
<1>2. lock = r /\ Between(listed[r], index, revision) /\ index \in Versions
  BY <1>1 DEF BuildsAreFresh
<1>3. AnswersAreNoOlder' /\ at' \in [Lookups -> Places] /\ reply' \in [Lookups -> Files \cup {NoFile}]
  BY <1>1, <1>2, AnswerIsNoOlder
<1>4. IndexTypes'
  BY <1>1, <1>3 DEF Caches
<1>5. LooksAreOld'
  BY <1>1 DEF LooksAreOld
<1>6. CacheIsFresh'
  BY <1>1, <1>2 DEF CacheIsFresh, Between
<1>7. BuildsAreFresh'
  <2>1. \A s \in Lookups : at'[s] # "building"
    BY <1>1, <1>2 DEF AnswerFrom, BuildsAreFresh
  <2> QED
    BY <2>1 DEF BuildsAreFresh
<1> QED
  BY <1>3, <1>4, <1>5, <1>6, <1>7
--------------------------------------------------------------------------------
LEMMA NextIndexInv == IndexInv /\ [IndexNext]_indexVars => IndexInv'
<1> SUFFICES ASSUME IndexInv, [IndexNext]_indexVars PROVE IndexInv'
  OBVIOUS
<1>1. CASE WriteFile \/ RemoveFile \/ MoveCommit
  BY <1>1, CheckoutMovesOn
<1>2. ASSUME NEW r \in Lookups, ReadCommit(r) \/ ListFile(r) \/ ListedAll(r) PROVE IndexInv'
  BY <1>2, LookSteps
<1>3. ASSUME NEW r \in Lookups,
             GiveUp(r) \/ Hit(r) \/ StartBuild(r) \/ ReadFile(r) \/ FinishBuild(r)
      PROVE  IndexInv'
  BY <1>3, GiveUpStep, HitStep, StartBuildStep, ReadFileStep, FinishBuildStep
<1>4. CASE UNCHANGED indexVars
  BY <1>4 DEF indexVars, IndexInv, IndexTypes, LooksAreOld, BuildsAreFresh, CacheIsFresh,
              AnswersAreNoOlder, Between
<1> QED
  BY <1>1, <1>2, <1>3, <1>4 DEF IndexNext

(* However many requests and pulls there are, an answer from the index is   *)
(* no older than the look at the repository it was given for               *)
(* (repositoryIndex, repository_index.go:99-118).                          *)
THEOREM AnswersAreCurrent == IndexSpec => []AnswersAreNoOlder
<1>1. IndexInv => AnswersAreNoOlder
  BY DEF IndexInv
<1> QED
  BY <1>1, InitIndexInv, NextIndexInv, PTL DEF IndexSpec
--------------------------------------------------------------------------------
(* The diagnosis of an application.                                        *)

Lines == Seq([at : Nat, says : STRING])

DiagnosisTypes ==
  /\ step \in {"asked", "comparing", "expanding", "assessed", "answered"}
  /\ attempted \subseteq Sources
  /\ logs \in [LogSources -> [read : BOOLEAN, lines : Lines]]

(* Each source that was tried was read or is missing, no other was read.   *)
ReadsAreTried ==
  /\ step \in {"asked", "comparing"} => attempted = {}
  /\ \A s \in LogSources : IF logs[s].read THEN s \in attempted /\ logs[s].lines \in Logs
                           ELSE logs[s].lines = <<>>
  /\ \A s \in attempted : \/ s \in unavailable
                          \/ s = "repository" /\ repository
                          \/ s \in LogSources /\ logs[s].read

NothingIsLeftOut == step = "assessed" => Needed \subseteq attempted

VerdictComesLast == step # "answered" => verdict = NoVerdict

Diagnosed == DiagnosisTypes /\ ReadsAreTried /\ NothingIsLeftOut
DiagnosisInv == Diagnosed /\ VerdictComesLast /\ VerdictsAreEarned

(* How many lines come before the last ones.                               *)
Dropped(lines) == IF Len(lines) > diagnosticLogLines THEN Len(lines) - diagnosticLogLines ELSE 0

LEMMA LastLinesAre ==
  ASSUME NEW lines \in Lines
  PROVE  /\ Dropped(lines) \in Nat /\ Dropped(lines) <= Len(lines)
         /\ LastLines(lines) \in Lines
         /\ Len(LastLines(lines)) = Len(lines) - Dropped(lines)
         /\ \A n \in DOMAIN LastLines(lines) : /\ Dropped(lines) + n \in DOMAIN lines
                                               /\ LastLines(lines)[n] = lines[Dropped(lines) + n]
<1> DEFINE d == Dropped(lines)
           S == [at : Nat, says : STRING]
<1>1. d \in Nat /\ d <= Len(lines) /\ LastLines(lines) = SubSeq(lines, d + 1, Len(lines))
  BY LogsAssumption DEF Dropped, LastLines, Lines
<1>2. lines \in Seq(S) /\ Len(lines) \in Nat /\ DOMAIN lines = 1..Len(lines)
  BY DEF Lines
<1> HIDE DEF d, S
<1>3. \A i \in (d + 1)..Len(lines) : lines[i] \in S
  BY <1>1, <1>2
<1>4. /\ SubSeq(lines, d + 1, Len(lines)) \in Seq(S)
      /\ Len(SubSeq(lines, d + 1, Len(lines))) = Len(lines) - d
      /\ \A i \in 1..(Len(lines) - d) : SubSeq(lines, d + 1, Len(lines))[i] = lines[d + i]
  <2> DEFINE low == d + 1
             high == Len(lines)
             part == SubSeq(lines, low, high)
  <2>1. low \in Int /\ high \in Int /\ \A i \in low..high : lines[i] \in S
    BY <1>1, <1>2, <1>3
  <2> HIDE DEF low, high
  <2>2. /\ part \in Seq(S)
        /\ Len(part) = IF low <= high THEN high - low + 1 ELSE 0
        /\ \A i \in 1..(high - low + 1) : part[i] = lines[low + i - 1]
    BY <2>1, SubSeqProperties
  <2>3. low = d + 1 /\ high = Len(lines) /\ d \in Nat /\ d <= high /\ high \in Nat
    BY <1>1, <1>2 DEF low, high
  <2>4. Len(part) = Len(lines) - d /\ high - low + 1 = Len(lines) - d
    BY <2>2, <2>3
  <2>5. \A i \in 1..(Len(lines) - d) : low + i - 1 = d + i
    BY <2>3
  <2> QED
    BY <2>2, <2>4, <2>5 DEF low, high
<1> QED
  BY <1>1, <1>2, <1>4 DEF d, S, Lines

(* A kind of line among the patterns is that of a counted line.            *)
LEMMA SaysIsSaid ==
  ASSUME NEW s, NEW kinds, Says(s, kinds)
  PROVE  HasLine(s, kinds)
<1> DEFINE kept == LastLines(logs[s].lines)
<1>1. PICK k \in kinds : k \in Patterns(kept)
  BY DEF Says
<1>2. k \in {kept[n].says : n \in Counted(kept)}
  BY <1>1 DEF Patterns
<1> QED
  BY <1>2 DEF HasLine

(* A counted line is one of the log that was read.                         *)
LEMMA LinesAreLogged ==
  ASSUME DiagnosisTypes, ReadsAreTried, NEW s \in LogSources, NEW kinds, HasLine(s, kinds)
  PROVE  /\ logs[s].read
         /\ \E n \in DOMAIN logs[s].lines : logs[s].lines[n].says \in kinds
<1> DEFINE lines == logs[s].lines
           kept == LastLines(lines)
<1>1. lines \in Lines
  BY DEF DiagnosisTypes
<1>2. PICK n \in DOMAIN kept : kept[n].says \in kinds
  BY DEF HasLine, Counted
<1>3. Dropped(lines) + n \in DOMAIN lines /\ kept[n] = lines[Dropped(lines) + n]
  BY <1>1, <1>2, LastLinesAre
<1>4. lines # <<>>
  BY <1>3
<1> QED
  BY <1>2, <1>3, <1>4 DEF ReadsAreTried

(* A summary without trouble speaks of every line the question asks about: *)
(* what was cut off before the last lines is older than the window, for a   *)
(* log is written as time goes by.                                         *)
LEMMA QuietLogs ==
  ASSUME DiagnosisTypes, ReadsAreTried, NEW s \in LogSources, logSummarySupportsNoCurrentFailure(s)
  PROVE  /\ NoneSays(s, Remarkable \cup {"stop"})
         /\ logs[s].lines # <<>>
         /\ "window" \in message => \E n \in DOMAIN logs[s].lines : logs[s].lines[n].at <= Cutoff
<1> DEFINE lines == logs[s].lines
           kept == LastLines(lines)
           d == Dropped(lines)
<1>1. lines \in Lines /\ lines \in Logs
  BY DEF DiagnosisTypes, ReadsAreTried, logSummarySupportsNoCurrentFailure
<1>2. /\ d \in Nat /\ d <= Len(lines) /\ Len(lines) \in Nat /\ DOMAIN lines = 1..Len(lines)
      /\ Len(kept) = Len(lines) - d /\ DOMAIN kept = 1..Len(kept)
      /\ \A n \in DOMAIN kept : d + n \in DOMAIN lines /\ kept[n] = lines[d + n]
  <2>1. kept \in Lines
    BY <1>1, LastLinesAre
  <2>2. Len(lines) \in Nat /\ DOMAIN lines = 1..Len(lines) /\ DOMAIN kept = 1..Len(kept)
    BY <1>1, <2>1 DEF Lines
  <2> QED
    BY <1>1, <2>2, LastLinesAre
<1>3. \A n \in DOMAIN lines : lines[n].at \in Nat
  <2> DEFINE S == [at : Nat, says : STRING]
  <2>1. lines \in Seq(S)
    BY <1>1 DEF Lines
  <2>2. \A n \in DOMAIN lines : lines[n] \in S
    <3> HIDE DEF S, lines
    <3> QED
      BY <2>1
  <2> QED
    BY <2>2
<1>4. /\ kept # <<>>
      /\ "window" \in message => WindowApplied(kept)
      /\ ~HasLine(s, Remarkable \cup {"stop"})
  BY DEF logSummarySupportsNoCurrentFailure
<1>5. lines # <<>>
  <2>1. kept \in Lines
    BY <1>1, LastLinesAre
  <2>2. Len(kept) # 0
    BY <1>4, <2>1, EmptySeq DEF Lines
  <2> QED
    BY <2>2, <1>2
<1>6. Cutoff \in Nat \ {0} /\ diagnosticLogLines \in Nat \ {0}
  BY LogsAssumption
<1>7. d = IF Len(lines) > diagnosticLogLines THEN Len(lines) - diagnosticLogLines ELSE 0
  BY DEF Dropped
<1>8. \A n \in DOMAIN kept : n \in Counted(kept) => kept[n].says \notin Remarkable \cup {"stop"}
  BY <1>4 DEF HasLine
<1>9. \A i, j \in DOMAIN lines :
        i < j /\ lines[i].at # 0 /\ lines[j].at # 0 => lines[i].at <= lines[j].at
  BY <1>1, LogsAssumption
<1>10. ASSUME "window" \in message
       PROVE  \E m \in DOMAIN kept : kept[m].at # 0 /\ kept[m].at <= Cutoff
  BY <1>4, <1>10 DEF WindowApplied
<1> HIDE DEF d, kept, lines
<1>11. ASSUME NEW n \in DOMAIN lines, n > d, "window" \in message => lines[n].at >= Cutoff
       PROVE  lines[n].says \notin Remarkable \cup {"stop"}
  <2>1. PICK i \in DOMAIN kept : d + i = n
    <3>1. n - d \in DOMAIN kept /\ d + (n - d) = n
      BY <1>11, <1>2
    <3> QED
      BY <3>1
  <2>2. kept[i] = lines[n]
    BY <2>1, <1>2
  <2>3. i \in Counted(kept)
    BY <2>1, <2>2, <1>11 DEF Counted, WindowApplied
  <2> QED
    BY <2>1, <2>2, <2>3, <1>8
<1>12. ASSUME NEW n \in DOMAIN lines, n <= d, "window" \in message
       PROVE  lines[n].at <= Cutoff
  <2>1. PICK m \in DOMAIN kept : kept[m].at # 0 /\ kept[m].at <= Cutoff
    BY <1>10, <1>12
  <2>2. PICK j \in DOMAIN lines : j = d + m /\ lines[j] = kept[m]
    BY <2>1, <1>2
  <2>3. n < j
    BY <2>1, <2>2, <1>2, <1>12
  <2>4. lines[j].at # 0 /\ lines[j].at <= Cutoff
    BY <2>1, <2>2
  <2>5. lines[n].at = 0 \/ lines[n].at <= lines[j].at
    BY <2>3, <2>4, <1>9
  <2> QED
    BY <2>4, <2>5, <1>3, <1>6
<1>13. NoneSays(s, Remarkable \cup {"stop"})
  <2> SUFFICES ASSUME NEW n \in Asked(s)
               PROVE  lines[n].says \notin Remarkable \cup {"stop"}
    BY DEF NoneSays, lines
  <2>1. n \in DOMAIN lines
    BY DEF Asked, lines
  <2>2. IF "window" \in message
        THEN lines[n].at > Cutoff \/ (n > Len(lines) - diagnosticLogLines /\ lines[n].at = Cutoff)
        ELSE n > Len(lines) - diagnosticLogLines
    BY DEF Asked, lines
  <2>3. n \in Nat \ {0} /\ (n > Len(lines) - diagnosticLogLines <=> n > d)
    <3> DEFINE length == Len(lines)
    <3>1. length \in Nat /\ n \in 1..length /\ diagnosticLogLines \in Nat
      BY <2>1, <1>2, <1>6
    <3>2. d = IF length > diagnosticLogLines THEN length - diagnosticLogLines ELSE 0
      BY <1>7
    <3> HIDE DEF length
    <3>3. n \in Nat \ {0} /\ (n > length - diagnosticLogLines <=> n > d)
      BY <3>1, <3>2
    <3> QED
      BY <3>3 DEF length
  <2>4. lines[n].at \in Nat
    BY <2>1, <1>3
  <2>5. CASE n <= d
    <3>1. "window" \in message /\ lines[n].at > Cutoff
      BY <2>2, <2>3, <2>5, <1>2
    <3>2. lines[n].at <= Cutoff
      BY <2>1, <2>5, <3>1, <1>12
    <3> QED
      BY <3>1, <3>2, <2>4, <1>6
  <2>6. CASE n > d
    <3>1. "window" \in message => lines[n].at >= Cutoff
      BY <2>2, <2>4, <1>6
    <3> QED
      BY <2>1, <2>6, <3>1, <1>11
  <2> QED
    BY <2>3, <2>5, <2>6, <1>2
<1>14. ASSUME "window" \in message
       PROVE  \E n \in DOMAIN lines : lines[n].at <= Cutoff
  BY <1>10, <1>14, <1>2
<1> QED
  BY <1>5, <1>13, <1>14 DEF lines

(* An application is called healthy only if no log shows a failure.        *)
LEMMA HealthyMeansQuiet ==
  ASSUME Status = "healthy"
  PROVE  /\ verifiedAllServicesHealthy /\ ~currentDiagnosticFailure
         /\ \A s \in LogSources : ~diagnosticLogHasFailure(s)
BY DEF Status

(* A line that names a cause is an error of a log that was read.           *)
LEMMA CausesAreErrors ==
  ASSUME DiagnosisTypes, ReadsAreTried, diagnosticDirectCauseEvidence
  PROVE  \E s \in LogSources :
           /\ diagnosticLogHasFailure(s)
           /\ \E n \in DOMAIN logs[s].lines : logs[s].lines[n].says \in Causes
<1>1. PICK s \in LogSources : Says(s, Causes)
  BY DEF diagnosticDirectCauseEvidence
<1>2. HasLine(s, Causes)
  BY <1>1, SaysIsSaid
<1>3. logs[s].read /\ \E n \in DOMAIN logs[s].lines : logs[s].lines[n].says \in Causes
  BY <1>2, LinesAreLogged
<1>4. HasLine(s, Errors \cup {"stop"})
  BY <1>2 DEF HasLine, Errors
<1> QED
  BY <1>1, <1>3, <1>4 DEF diagnosticLogHasFailure

(* Healthy by every source but the recent activity, there is one sign of a  *)
(* failure at most, and nothing is strongly supported but that all is well. *)
LEMMA CeilingIsEarned ==
  ASSUME DiagnosisTypes, ReadsAreTried
  PROVE  /\ ConfidenceCeiling \in {"unknown", "plausible", "strongly_supported", "confirmed"}
         /\ ConfidenceCeiling # "unknown" => unavailable = {} /\ ~diagnosticEvidenceIsContradictory
         /\ ConfidenceCeiling = "confirmed" => ~isChangeAwareDiagnosticQuestion /\ diagnosticDirectCauseEvidence
         /\ ConfidenceCeiling = "strongly_supported" /\ Status = "healthy" =>
              isDiagnosticVerificationQuestion /\ diagnosticEvidenceConsistentlyClean
<1>1. ASSUME Status = "healthy"
      PROVE  ~(Cardinality(FailureSignals) >= 2)
  <2>1. FailureSignals \subseteq {"activity"}
    BY <1>1, HealthyMeansQuiet DEF FailureSignals
  <2>2. IsFiniteSet({"activity"}) /\ Cardinality({"activity"}) = 1
    BY FS_Singleton
  <2>3. Cardinality(FailureSignals) <= 1 /\ Cardinality(FailureSignals) \in Nat
    BY <2>1, <2>2, FS_Subset, FS_CardinalityType
  <2> QED
    BY <2>3
<1>2. ~(Status = "healthy" /\ diagnosticDirectCauseEvidence)
  BY HealthyMeansQuiet, CausesAreErrors
<1> QED
  BY <1>1, <1>2 DEF ConfidenceCeiling, UncappedCeiling

(* The model's confidence is only ever lowered to the ceiling.             *)
LEMMA NothingRaisesConfidence ==
  ASSUME NEW level \in {Levels[n] : n \in DOMAIN Levels},
         NEW ceiling \in {"unknown", "plausible", "strongly_supported", "confirmed"}
  PROVE  /\ lowerDiagnosticConfidence(level, ceiling) # "unknown" => ceiling # "unknown"
         /\ lowerDiagnosticConfidence(level, ceiling) = "confirmed" => ceiling = "confirmed"
         /\ lowerDiagnosticConfidence(level, ceiling) = "strongly_supported" =>
              ceiling \in {"strongly_supported", "confirmed"}
<1>1. /\ DOMAIN Levels = 1..4 /\ Levels[1] = "unknown" /\ Levels[2] = "plausible"
      /\ Levels[3] = "strongly_supported" /\ Levels[4] = "confirmed"
  BY DEF Levels
<1>2. \A l \in {Levels[n] : n \in DOMAIN Levels} : Rank(l) \in 1..4 /\ Levels[Rank(l)] = l
  BY <1>1 DEF Rank
<1>3. ceiling \in {Levels[n] : n \in DOMAIN Levels}
  BY <1>1
<1> DEFINE a == Rank(level)
           b == Rank(ceiling)
           low == Min({a, b})
<1>4. a \in 1..4 /\ b \in 1..4 /\ Levels[b] = ceiling
  BY <1>2, <1>3
<1> HIDE DEF a, b
<1>5. low \in {a, b} /\ low <= b
  <2>1. \E x \in {a, b} : \A y \in {a, b} : x <= y
    BY <1>4
  <2> QED
    BY <2>1 DEF Min
<1>6. lowerDiagnosticConfidence(level, ceiling) = Levels[low]
  BY DEF lowerDiagnosticConfidence, a, b
<1> HIDE DEF low
<1>7. low \in 1..4
  BY <1>4, <1>5
<1> QED
  BY <1>1, <1>4, <1>5, <1>6, <1>7

(* Where something fails or is possible, someone has said so.              *)
LEMMA TroubleIsSaid ==
  ASSUME DiagnosisTypes, ReadsAreTried, SomethingFails \/ SomethingIsPossible
  PROVE  TroubleIsTold
<1>1. ASSUME NEW s \in LogSources, HasLine(s, Errors) PROVE TroubleIsTold
  BY <1>1, LinesAreLogged DEF TroubleIsTold
<1>2. CASE diagnosticErrorsFollowDeployment
  <2> DEFINE lines == LastLines(logs["runtime_logs"].lines)
  <2>1. {m \in Counted(lines) : lines[m].says \in Errors} # {}
    BY <1>2 DEF diagnosticErrorsFollowDeployment, FirstError
  <2>2. HasLine("runtime_logs", Errors) /\ "runtime_logs" \in LogSources
    BY <2>1 DEF HasLine, LogSources
  <2> QED
    BY <1>1, <2>2
<1>3. CASE hasCurrentFailurePremise
  BY <1>3 DEF TroubleIsTold
<1>4. CASE SomethingFails
  <2>1. "running" \notin Unhealthy /\ "healthy" \notin Unhealthy
        /\ "none" \notin Unhealthy /\ "ready" \notin Unhealthy
    BY DEF Unhealthy
  <2> QED
    BY <1>1, <1>4, <2>1 DEF SomethingFails, TroubleIsTold
<1> QED
  BY <1>2, <1>3, <1>4 DEF SomethingIsPossible

(* What VerdictsAreEarned says of a verdict.                               *)
Earned(v) ==
  /\ Needed \subseteq attempted
  /\ v.speculates => TroubleIsTold
  /\ v.confidence # "unknown" =>
       /\ attempted \cap LogSources = {s \in LogSources : logs[s].read}
       /\ "repository" \in attempted => repository
       /\ snapshot.health = "healthy" => ~hasFailingService
  /\ v.confidence = "confirmed" =>
       /\ ~isChangeAwareDiagnosticQuestion
       /\ \E s \in LogSources : \E n \in DOMAIN logs[s].lines : logs[s].lines[n].says \in Causes
  /\ v.status = "healthy" =>
       /\ verifiedAllServicesHealthy
       /\ isDiagnosticVerificationQuestion /\ v.confidence = "strongly_supported" =>
            /\ \A s \in LogSources : NoneSays(s, Remarkable \cup {"stop"})
            /\ logs["runtime_logs"].lines # <<>>
            /\ "window" \in message => \E n \in DOMAIN logs["runtime_logs"].lines :
                                        logs["runtime_logs"].lines[n].at <= Cutoff

(* What nothing is missing from and nothing contradicts.                   *)
LEMMA ReadsOfTheSure ==
  ASSUME ReadsAreTried, unavailable = {}, ~diagnosticEvidenceIsContradictory
  PROVE  /\ attempted \cap LogSources = {s \in LogSources : logs[s].read}
         /\ "repository" \in attempted => repository
         /\ snapshot.health = "healthy" => ~hasFailingService
BY DEF ReadsAreTried, LogSources, diagnosticEvidenceIsContradictory

(* All is well only if both logs are quiet for all the question asks about. *)
LEMMA CleanEvidence ==
  ASSUME DiagnosisTypes, ReadsAreTried, diagnosticEvidenceConsistentlyClean
  PROVE  /\ unavailable = {} /\ ~diagnosticEvidenceIsContradictory
         /\ verifiedAllServicesHealthy
         /\ \A s \in LogSources : NoneSays(s, Remarkable \cup {"stop"})
         /\ logs["runtime_logs"].lines # <<>>
         /\ "window" \in message => \E n \in DOMAIN logs["runtime_logs"].lines :
                                     logs["runtime_logs"].lines[n].at <= Cutoff
<1>1. /\ unavailable = {} /\ ~diagnosticEvidenceIsContradictory /\ verifiedAllServicesHealthy
      /\ logSummarySupportsNoCurrentFailure("runtime_logs")
      /\ logs["deployment_logs"].read => logSummarySupportsNoCurrentFailure("deployment_logs")
  BY DEF diagnosticEvidenceConsistentlyClean
<1>2. "runtime_logs" \in LogSources /\ "deployment_logs" \in LogSources
      /\ LogSources = {"runtime_logs", "deployment_logs"}
  BY DEF LogSources
<1>3. NoneSays("deployment_logs", Remarkable \cup {"stop"})
  <2>1. CASE logs["deployment_logs"].read
    BY <1>1, <1>2, <2>1, QuietLogs
  <2>2. CASE ~logs["deployment_logs"].read
    <3>1. logs["deployment_logs"].lines = <<>>
      BY <1>2, <2>2 DEF ReadsAreTried
    <3>2. Asked("deployment_logs") = {}
      BY <3>1 DEF Asked
    <3> QED
      BY <3>2 DEF NoneSays
  <2> QED
    BY <2>1, <2>2
<1>4. /\ NoneSays("runtime_logs", Remarkable \cup {"stop"})
      /\ logs["runtime_logs"].lines # <<>>
      /\ "window" \in message => \E n \in DOMAIN logs["runtime_logs"].lines :
                                  logs["runtime_logs"].lines[n].at <= Cutoff
  BY <1>1, <1>2, QuietLogs
<1> QED
  BY <1>1, <1>2, <1>3, <1>4

(* The two kinds of answer, by the software and by the model held down.    *)
LEMMA SoftwareVerdicts ==
  ASSUME Diagnosed, step = "assessed", NEW v \in SoftwareAnswers
  PROVE  Earned(v)
<1>1. DiagnosisTypes /\ ReadsAreTried /\ Needed \subseteq attempted
  BY DEF Diagnosed, NothingIsLeftOut
<1>2. CASE v = Verdict("software", Status, "unknown", FALSE)
  <2>1. v.confidence = "unknown" /\ v.status = Status /\ v.speculates = FALSE
    BY <1>2 DEF Verdict
  <2> QED
    BY <1>1, <2>1, HealthyMeansQuiet DEF Earned
<1>3. CASE v = Verdict("software", "healthy", "strongly_supported", FALSE)
           /\ diagnosticEvidenceConsistentlyClean
  <2>1. v.confidence = "strongly_supported" /\ v.speculates = FALSE
    BY <1>3 DEF Verdict
  <2> QED
    BY <1>1, <1>3, <2>1, CleanEvidence, ReadsOfTheSure DEF Earned
<1>4. CASE v = Verdict("software", Status, "confirmed", FALSE) /\ ConfidenceCeiling = "confirmed"
  <2>1. v.confidence = "confirmed" /\ v.status = Status /\ v.speculates = FALSE
    BY <1>4 DEF Verdict
  <2>2. unavailable = {} /\ ~diagnosticEvidenceIsContradictory
        /\ ~isChangeAwareDiagnosticQuestion /\ diagnosticDirectCauseEvidence
    BY <1>1, <1>4, CeilingIsEarned
  <2> QED
    BY <1>1, <2>1, <2>2, ReadsOfTheSure, CausesAreErrors, HealthyMeansQuiet DEF Earned
<1> QED
  BY <1>2, <1>3, <1>4 DEF SoftwareAnswers

LEMMA ModelVerdicts ==
  ASSUME Diagnosed, step = "assessed", SoftwareAnswers = {}, NEW response \in Responses, NEW says,
         says => SomethingFails \/ SomethingIsPossible
  PROVE  Earned(Verdict("model", Status,
                        lowerDiagnosticConfidence(response.confidence, ConfidenceCeiling), says))
<1> DEFINE confidence == lowerDiagnosticConfidence(response.confidence, ConfidenceCeiling)
           v == Verdict("model", Status, confidence, says)
<1>1. DiagnosisTypes /\ ReadsAreTried /\ Needed \subseteq attempted
  BY DEF Diagnosed, NothingIsLeftOut
<1>2. response.confidence \in {Levels[n] : n \in DOMAIN Levels}
  BY DEF Responses
<1>3. /\ confidence # "unknown" => ConfidenceCeiling # "unknown"
      /\ confidence = "confirmed" => ConfidenceCeiling = "confirmed"
      /\ confidence = "strongly_supported" => ConfidenceCeiling \in {"strongly_supported", "confirmed"}
  BY <1>1, <1>2, CeilingIsEarned, NothingRaisesConfidence
<1>4. v.status = Status /\ v.confidence = confidence /\ v.speculates = says
  BY DEF Verdict
<1>5. ~(isDiagnosticVerificationQuestion /\ diagnosticEvidenceConsistentlyClean)
  BY DEF SoftwareAnswers
<1>5a. says => TroubleIsTold
  BY <1>1, TroubleIsSaid
<1> HIDE DEF confidence, v
<1>6. ~(Status = "healthy" /\ confidence = "strongly_supported")
  BY <1>1, <1>3, <1>5, CeilingIsEarned, CausesAreErrors, HealthyMeansQuiet
<1>7. Earned(v)
  BY <1>1, <1>3, <1>4, <1>5a, <1>6, CeilingIsEarned, ReadsOfTheSure, CausesAreErrors, HealthyMeansQuiet
     DEF Earned
<1> QED
  BY <1>7 DEF v, confidence

LEMMA DiagnosisStarts == DiagnosticsInit => DiagnosisInv
<1> SUFFICES ASSUME DiagnosticsInit PROVE DiagnosisInv
  OBVIOUS
<1>1. NotRead \in [read : BOOLEAN, lines : Lines]
  BY DEF NotRead, Lines
<1>2. DiagnosisTypes
  BY <1>1 DEF DiagnosticsInit, DiagnosisTypes
<1>3. ReadsAreTried
  BY DEF DiagnosticsInit, ReadsAreTried, NotRead
<1>4. NothingIsLeftOut /\ VerdictComesLast /\ VerdictsAreEarned
  BY DEF DiagnosticsInit, NothingIsLeftOut, VerdictComesLast, VerdictsAreEarned, NoVerdict
<1> QED
  BY <1>2, <1>3, <1>4 DEF DiagnosisInv, Diagnosed

(* What is called for depends on the question and on what was read.        *)
LEMMA NeedsStand ==
  ASSUME UNCHANGED <<message, snapshot, logs>>
  PROVE  Needed' = Needed
BY DEF Needed, diagnosticNeedsDeploymentEvidence, diagnosticNeedsRuntimeEvidence,
   diagnosticNeedsRepositoryEvidence, diagnosticErrorsFollowDeployment, FirstError, Says, Patterns,
   Counted, WindowApplied, currentDiagnosticFailure, hasFailingService, isChangeAwareDiagnosticQuestion,
   hasCurrentFailurePremise, changeQuestionNeedsTimingOrFailureEvidence

LEMMA TroubleStands ==
  ASSUME UNCHANGED <<message, snapshot, logs>>
  PROVE  TroubleIsTold' = TroubleIsTold
BY DEF TroubleIsTold, hasCurrentFailurePremise

(* An answer changes nothing but the step and the verdict.                 *)
LEMMA AnswersAreEarned ==
  ASSUME Diagnosed, step = "assessed", step' = "answered",
         UNCHANGED <<message, snapshot, logs, history, repository, attempted, unavailable>>,
         verdict'.mode \in {"software", "model"} => Earned(verdict')
  PROVE  DiagnosisInv'
<1>1. DiagnosisTypes' /\ ReadsAreTried'
  BY DEF Diagnosed, DiagnosisTypes, ReadsAreTried
<1>2. NothingIsLeftOut' /\ VerdictComesLast'
  BY DEF NothingIsLeftOut, VerdictComesLast
<1>3. VerdictsAreEarned'
  <2> SUFFICES ASSUME verdict'.mode \in {"software", "model"}
               PROVE  VerdictsAreEarned'
    BY DEF VerdictsAreEarned
  <2>1. Earned(verdict')
    OBVIOUS
  <2>2. Needed' = Needed /\ TroubleIsTold' = TroubleIsTold
    BY NeedsStand, TroubleStands
  <2> QED
    BY <2>1, <2>2 DEF Earned, VerdictsAreEarned, hasFailingService, verifiedAllServicesHealthy,
       isDiagnosticVerificationQuestion, isChangeAwareDiagnosticQuestion, hasCurrentFailurePremise,
       NoneSays, Asked
<1> QED
  BY <1>1, <1>2, <1>3 DEF DiagnosisInv, Diagnosed

(* Until then no verdict is given, and none need be earned.                *)
LEMMA EarlierSteps ==
  ASSUME DiagnosisInv, step # "answered", Diagnosed', UNCHANGED verdict
  PROVE  DiagnosisInv'
BY DEF DiagnosisInv, VerdictComesLast, VerdictsAreEarned, NoVerdict

LEMMA NextSource ==
  ASSUME Open # {}
  PROVE  SourceOrder[Min(Open)] \in Needed \ attempted
<1>1. \E x \in Open : \A y \in Open : x <= y
  BY DEF Open
<1>2. Min(Open) \in Open
  BY <1>1 DEF Min
<1> QED
  BY <1>2 DEF Open

(* Three sources, three rounds: when these are used up all were tried.     *)
LEMMA AllWasTried ==
  ASSUME attempted \subseteq Sources,
         Open = {} \/ Cardinality(attempted) >= diagnosticMaxEvidenceExpansionRounds
  PROVE  Needed \subseteq attempted
<1>1. CASE Open = {}
  <2> SUFFICES ASSUME NEW s \in Needed, s \notin attempted PROVE FALSE
    OBVIOUS
  <2>1. PICK n \in 1..3 : SourceOrder[n] = s
    BY DEF Needed, Sources, SourceOrder
  <2> QED
    BY <1>1, <2>1 DEF Open
<1>2. CASE Cardinality(attempted) >= diagnosticMaxEvidenceExpansionRounds
  <2>1. IsFiniteSet({}) /\ Cardinality({}) = 0
    BY FS_EmptySet
  <2>2. IsFiniteSet({"deployment_logs"}) /\ Cardinality({"deployment_logs"}) = 1
    BY FS_Singleton
  <2>3. IsFiniteSet({"deployment_logs", "runtime_logs"}) /\ Cardinality({"deployment_logs", "runtime_logs"}) = 2
    <3>1. {"deployment_logs"} \cup {"runtime_logs"} = {"deployment_logs", "runtime_logs"}
      OBVIOUS
    <3> QED
      BY <2>2, <3>1, FS_AddElement
  <2>4. IsFiniteSet(Sources) /\ Cardinality(Sources) = 3
    <3> DEFINE Both == {"deployment_logs", "runtime_logs"}
    <3>1. Both \cup {"repository"} = Sources /\ "repository" \notin Both
      BY DEF Sources
    <3>2. IsFiniteSet(Both) /\ Cardinality(Both) = 2
      BY <2>3
    <3> HIDE DEF Both
    <3>3. IsFiniteSet(Both \cup {"repository"}) /\ Cardinality(Both \cup {"repository"}) = 2 + 1
      BY <3>1, <3>2, FS_AddElement
    <3> QED
      BY <3>1, <3>3
  <2>5. Cardinality(attempted) <= Cardinality(Sources) /\ Cardinality(attempted) \in Nat
        /\ (Cardinality(attempted) = Cardinality(Sources) => attempted = Sources)
    BY <2>4, FS_Subset, FS_CardinalityType
  <2>6. attempted = Sources
    BY <1>2, <2>4, <2>5, RoundsAssumption
  <2> QED
    BY <2>6 DEF Needed
<1> QED
  BY <1>1, <1>2

LEMMA DiagnosisSteps == DiagnosisInv /\ [DiagnosticsNext]_diagnosticVars => DiagnosisInv'
<1> SUFFICES ASSUME DiagnosisInv, [DiagnosticsNext]_diagnosticVars PROVE DiagnosisInv'
  OBVIOUS
<1>1. Diagnosed /\ DiagnosisTypes /\ ReadsAreTried /\ NothingIsLeftOut
  BY DEF DiagnosisInv, Diagnosed
<1>2. CASE Resolve
  <2>1. step' \in {"comparing", "expanding"} /\ step = "asked"
        /\ UNCHANGED <<message, logs, history, repository, attempted, unavailable, verdict>>
    BY <1>2 DEF Resolve
  <2>2. Diagnosed'
    BY <1>1, <2>1 DEF Diagnosed, DiagnosisTypes, ReadsAreTried, NothingIsLeftOut
  <2> QED
    BY <2>1, <2>2, EarlierSteps
<1>3. CASE NotResolved
  <2>1. step = "asked" /\ step' = "answered" /\ verdict'.mode \in {"unresolved", "conversation"}
        /\ UNCHANGED <<message, snapshot, logs, history, repository, attempted, unavailable>>
    BY <1>3 DEF NotResolved, NoVerdict
  <2>2. DiagnosisTypes' /\ ReadsAreTried' /\ NothingIsLeftOut' /\ VerdictComesLast'
    BY <1>1, <2>1 DEF DiagnosisTypes, ReadsAreTried, NothingIsLeftOut, VerdictComesLast
  <2>3. VerdictsAreEarned'
    BY <2>1 DEF VerdictsAreEarned
  <2> QED
    BY <2>2, <2>3 DEF DiagnosisInv, Diagnosed
<1>4. CASE Compare
  <2>1. step' = "expanding" /\ step = "comparing"
        /\ UNCHANGED <<message, snapshot, logs, repository, attempted, verdict>>
    BY <1>4 DEF Compare
  <2>2. Diagnosed'
    BY <1>1, <2>1 DEF Diagnosed, DiagnosisTypes, ReadsAreTried, NothingIsLeftOut
  <2> QED
    BY <2>1, <2>2, EarlierSteps
<1>5. CASE Expand
  <2> DEFINE source == SourceOrder[Min(Open)]
  <2>1. step = "expanding" /\ step' = "expanding" /\ verdict' = verdict /\ Open # {}
        /\ attempted' = attempted \cup {source}
    BY <1>5 DEF Expand
  <2>2. \/ UNCHANGED <<logs, repository>> /\ unavailable' = unavailable \cup {source}
        \/ source = "repository" /\ repository' = TRUE /\ UNCHANGED <<logs, unavailable>>
        \/ /\ source \in LogSources /\ UNCHANGED <<repository, unavailable>>
           /\ \E lines \in Logs : logs' = [logs EXCEPT ![source] = [read |-> TRUE, lines |-> lines]]
    BY <1>5 DEF Expand
  <2>3. source \in Sources
    BY <2>1, NextSource DEF Needed
  <2> HIDE DEF source
  <2>4. NothingIsLeftOut'
    BY <2>1 DEF NothingIsLeftOut
  <2>5. DiagnosisTypes' /\ ReadsAreTried'
    <3>1. CASE UNCHANGED <<logs, repository>> /\ unavailable' = unavailable \cup {source}
      BY <1>1, <2>1, <2>3, <3>1 DEF DiagnosisTypes, ReadsAreTried
    <3>2. CASE source = "repository" /\ repository' = TRUE /\ UNCHANGED <<logs, unavailable>>
      BY <1>1, <2>1, <2>3, <3>2 DEF DiagnosisTypes, ReadsAreTried
    <3>3. ASSUME source \in LogSources, UNCHANGED <<repository, unavailable>>,
                 NEW lines \in Logs, logs' = [logs EXCEPT ![source] = [read |-> TRUE, lines |-> lines]]
          PROVE  DiagnosisTypes' /\ ReadsAreTried'
      <4>1. lines \in Lines
        BY LogsAssumption DEF Lines
      <4>2. [read |-> TRUE, lines |-> lines] \in [read : BOOLEAN, lines : Lines]
        BY <4>1
      <4>3. DiagnosisTypes'
        BY <1>1, <2>1, <2>3, <3>3, <4>2 DEF DiagnosisTypes
      <4>4. \A s \in LogSources : logs'[s] = IF s = source THEN [read |-> TRUE, lines |-> lines] ELSE logs[s]
        BY <1>1, <3>3 DEF DiagnosisTypes
      <4>5. logs'[source].read /\ logs'[source].lines = lines
        BY <3>3, <4>4
      <4>6. ReadsAreTried'
        BY <1>1, <2>1, <3>3, <4>4, <4>5 DEF ReadsAreTried
      <4> QED
        BY <4>3, <4>6
    <3> QED
      BY <2>2, <3>1, <3>2, <3>3
  <2> QED
    BY <2>1, <2>4, <2>5, EarlierSteps DEF Diagnosed
<1>6. CASE Expanded
  <2>1. step = "expanding" /\ step' = "assessed"
        /\ UNCHANGED <<message, snapshot, logs, history, repository, attempted, unavailable, verdict>>
    BY <1>6 DEF Expanded
  <2>2. Needed \subseteq attempted
    BY <1>1, <1>6, AllWasTried DEF Expanded, DiagnosisTypes
  <2>3. DiagnosisTypes' /\ ReadsAreTried'
    BY <1>1, <2>1 DEF DiagnosisTypes, ReadsAreTried
  <2>4. Needed' = Needed
    BY <2>1, NeedsStand
  <2>5. NothingIsLeftOut'
    BY <2>1, <2>2, <2>4 DEF NothingIsLeftOut
  <2> QED
    BY <2>1, <2>3, <2>5, EarlierSteps DEF Diagnosed
<1>7. CASE AnswerWithoutModel
  <2>1. verdict' \in SoftwareAnswers /\ step = "assessed" /\ step' = "answered"
        /\ UNCHANGED <<message, snapshot, logs, history, repository, attempted, unavailable>>
    BY <1>7 DEF AnswerWithoutModel
  <2>2. Earned(verdict')
    BY <1>1, <2>1, SoftwareVerdicts
  <2> QED
    BY <1>1, <2>1, <2>2, AnswersAreEarned
<1>8. CASE Fail
  <2>1. verdict'.mode = "error" /\ step = "assessed" /\ step' = "answered"
        /\ UNCHANGED <<message, snapshot, logs, history, repository, attempted, unavailable>>
    BY <1>8 DEF Fail, NoVerdict
  <2> QED
    BY <1>1, <2>1, AnswersAreEarned
<1>9. CASE AnswerWithModel
  <2>1. step = "assessed" /\ step' = "answered" /\ SoftwareAnswers = {}
        /\ UNCHANGED <<message, snapshot, logs, history, repository, attempted, unavailable>>
    BY <1>9 DEF AnswerWithModel
  <2>2. PICK response \in Responses, says \in BOOLEAN :
          \/ /\ says => SomethingFails \/ SomethingIsPossible
             /\ verdict' = Verdict("model", Status,
                                   lowerDiagnosticConfidence(response.confidence, ConfidenceCeiling), says)
          \/ verdict' = Verdict("software", Status, "unknown", FALSE)
          \/ verdict'.mode = "unformatted"
    BY <1>9 DEF AnswerWithModel, NoVerdict
  <2>3. Earned(Verdict("software", Status, "unknown", FALSE))
    <3> DEFINE v == Verdict("software", Status, "unknown", FALSE)
    <3>1. v.confidence = "unknown" /\ v.status = Status /\ v.speculates = FALSE
      BY DEF Verdict
    <3> HIDE DEF v
    <3>2. Earned(v)
      BY <1>1, <2>1, <3>1, HealthyMeansQuiet DEF Earned, NothingIsLeftOut
    <3> QED
      BY <3>2 DEF v
  <2>4. verdict'.mode \in {"software", "model"} => Earned(verdict')
    BY <1>1, <2>1, <2>2, <2>3, ModelVerdicts
  <2> QED
    BY <1>1, <2>1, <2>4, AnswersAreEarned
<1>10. CASE UNCHANGED diagnosticVars
  <2>1. UNCHANGED <<step, message, snapshot, logs, history, repository, attempted, unavailable, verdict>>
    BY <1>10 DEF diagnosticVars
  <2>2. Needed' = Needed /\ TroubleIsTold' = TroubleIsTold
    BY <2>1, NeedsStand, TroubleStands
  <2>3. Diagnosed'
    BY <1>1, <2>1, <2>2 DEF Diagnosed, DiagnosisTypes, ReadsAreTried, NothingIsLeftOut
  <2>4. VerdictComesLast'
    BY <2>1 DEF DiagnosisInv, VerdictComesLast
  <2>5. VerdictsAreEarned'
    BY <2>1, <2>2 DEF DiagnosisInv, VerdictsAreEarned, hasFailingService,
       verifiedAllServicesHealthy, isDiagnosticVerificationQuestion, isChangeAwareDiagnosticQuestion,
       hasCurrentFailurePremise, NoneSays, Asked
  <2> QED
    BY <2>3, <2>4, <2>5 DEF DiagnosisInv
<1> QED
  BY <1>2, <1>3, <1>4, <1>5, <1>6, <1>7, <1>8, <1>9, <1>10 DEF DiagnosticsNext

(* A verdict is worth what was read for it: the sources called for were    *)
(* tried, nothing missing or contradictory leaves a confidence, only a line *)
(* that names a cause confirms one, and all is well only if every service   *)
(* is and no line asked about says otherwise, for any question, log, state  *)
(* of the application and answer of the model.                             *)
THEOREM OnlyEarnedVerdicts == DiagnosticsSpec => []VerdictsAreEarned
<1>1. DiagnosisInv => VerdictsAreEarned
  BY DEF DiagnosisInv
<1> QED
  BY DiagnosisStarts, DiagnosisSteps, <1>1, PTL DEF DiagnosticsSpec
--------------------------------------------------------------------------------
(* A call of the model.                                                    *)

(* The pieces up to a position were heard, and could be read.              *)
HeardTo(k) ==
  /\ Exchange!Positions(heard) = {m \in Exchange!Texts : m <= k}
  /\ \A n \in DOMAIN said : n <= k => said[n] \in Exchange!Readable
HeardBefore(k) ==
  /\ Exchange!Positions(heard) = {m \in Exchange!Texts : m < k}
  /\ \A n \in DOMAIN said : n < k => said[n] \in Exchange!Readable

CallTypes ==
  /\ mode \in {"stream", "whole"}
  /\ caller \in {"idle", "asking", "decoding", "streaming", "failed", "complete"}
  /\ helper \in {"none", "running", "response", "failure"}
  /\ scanner \in {"none", "reading", "offering", "offering_error", "gone"}
  /\ answer \in {"none", "open", "ended", "broken"}
  /\ closed \in BOOLEAN /\ left \in BOOLEAN
  /\ said \in Seq(Pieces) /\ heard \in Seq(Nat) /\ taken \in 0..Len(said)

(* Who is at work, and what for.                                           *)
CallParts ==
  /\ caller = "idle" => helper = "none" /\ answer = "none" /\ ~left
  /\ caller \in {"idle", "asking", "decoding"} => heard = <<>> /\ scanner = "none"
  /\ caller \in {"idle", "asking"} => taken = 0
  /\ caller = "decoding" => mode = "whole"
  /\ caller = "streaming" => mode = "stream" /\ scanner # "none"
  /\ answer = "none" => said = <<>>
  /\ mode = "whole" => Len(said) <= 1
  /\ caller = "decoding" /\ helper = "response" => said # <<>>

(* How far the caller has come with what the scanner reads.                *)
CallProgress ==
  caller = "streaming" =>
    /\ scanner = "reading" => HeardTo(taken)
    /\ scanner = "offering" => taken >= 1 /\ HeardBefore(taken) /\ said[taken] \in {"text", "fault"}
    /\ scanner = "gone" => left \/ (HeardTo(taken) /\ taken = Len(said) /\ answer = "ended")

CallInv == CallTypes /\ CallParts /\ CallProgress

LEMMA CallStarts == Init => CallInv
<1> SUFFICES ASSUME Init PROVE CallInv
  OBVIOUS
<1>1. said = <<>> /\ heard = <<>> /\ Len(said) = 0
  BY DEF Init
<1>2. said \in Seq(Pieces) /\ heard \in Seq(Nat) /\ taken \in 0..Len(said)
  BY <1>1 DEF Init
<1>3. CallTypes
  BY <1>1, <1>2 DEF Init, CallTypes
<1>4. CallParts /\ CallProgress
  BY <1>1 DEF Init, CallParts, CallProgress
<1> QED
  BY <1>3, <1>4 DEF CallInv

(* What was heard stays so while the model writes on.                      *)
LEMMA HeardStays ==
  ASSUME UNCHANGED <<said, heard>>, NEW k
  PROVE  (HeardTo(k))' = HeardTo(k) /\ (HeardBefore(k))' = HeardBefore(k)
BY DEF HeardTo, HeardBefore, Exchange!Positions, Exchange!Texts, Exchange!Readable

LEMMA WritesOn ==
  ASSUME CallTypes, NEW piece \in Pieces, said' = Append(said, piece), UNCHANGED <<heard, taken>>
  PROVE  /\ said' \in Seq(Pieces) /\ Len(said') = Len(said) + 1 /\ said' # <<>>
         /\ \A n \in DOMAIN said : said'[n] = said[n] /\ n \in DOMAIN said'
         /\ HeardTo(taken) => (HeardTo(taken))'
         /\ HeardBefore(taken) => (HeardBefore(taken))'
<1>1. said \in Seq(Pieces) /\ taken \in 0..Len(said) /\ Len(said) \in Nat
  BY DEF CallTypes
<1>2. /\ said' \in Seq(Pieces) /\ Len(said') = Len(said) + 1 /\ said' # <<>>
      /\ \A n \in DOMAIN said : said'[n] = said[n] /\ n \in DOMAIN said'
      /\ \A n \in DOMAIN said' : n \in DOMAIN said \/ n > Len(said)
  BY <1>1
<1>3. {m \in Exchange!Texts' : m <= taken} = {m \in Exchange!Texts : m <= taken}
  BY <1>1, <1>2 DEF Exchange!Texts
<1>4. {m \in Exchange!Texts' : m < taken} = {m \in Exchange!Texts : m < taken}
  BY <1>1, <1>2 DEF Exchange!Texts
<1>5. ASSUME HeardTo(taken) PROVE (HeardTo(taken))'
  BY <1>1, <1>2, <1>3, <1>5 DEF HeardTo, Exchange!Positions, Exchange!Readable
<1>6. ASSUME HeardBefore(taken) PROVE (HeardBefore(taken))'
  BY <1>1, <1>2, <1>4, <1>6 DEF HeardBefore, Exchange!Positions, Exchange!Readable
<1> QED
  BY <1>2, <1>5, <1>6

LEMMA CallSteps == CallInv /\ [Next]_transportVars => CallInv'
<1> SUFFICES ASSUME CallInv, [Next]_transportVars PROVE CallInv'
  OBVIOUS
<1> USE DEF CallInv
<1>0. said \in Seq(Pieces) /\ Len(said) \in Nat /\ DOMAIN said = 1..Len(said) /\ heard \in Seq(Nat)
  BY DEF CallTypes
<1>1. CASE Ask
  BY <1>1 DEF Ask, CallTypes, CallParts, CallProgress
<1>2. CASE Respond
  <2>1. UNCHANGED <<mode, caller, scanner, closed, said, taken, heard, left>>
        /\ caller # "decoding" /\ helper = "running" /\ answer = "none"
        /\ ((helper' = "response" /\ answer' = "open") \/ (helper' = "failure" /\ answer' = answer))
    BY <1>2 DEF Respond
  <2>2. CallTypes' /\ CallParts'
    BY <2>1 DEF CallTypes, CallParts
  <2>3. CallProgress'
    BY <2>1, HeardStays DEF CallProgress
  <2> QED
    BY <2>2, <2>3
<1>3. CASE Write
  <2>1. PICK piece \in Pieces : said' = Append(said, piece)
    BY <1>3 DEF Write
  <2>2. UNCHANGED <<mode, caller, helper, scanner, answer, closed, taken, heard, left>>
        /\ answer = "open" /\ (mode = "whole" => Len(said) < 1)
    BY <1>3 DEF Write
  <2>3. /\ said' \in Seq(Pieces) /\ Len(said') = Len(said) + 1 /\ said' # <<>>
        /\ \A n \in DOMAIN said : said'[n] = said[n] /\ n \in DOMAIN said'
        /\ HeardTo(taken) => (HeardTo(taken))'
        /\ HeardBefore(taken) => (HeardBefore(taken))'
    BY <2>1, <2>2, WritesOn
  <2>4. CallTypes'
    BY <1>0, <2>2, <2>3 DEF CallTypes
  <2>5. CallParts'
    BY <1>0, <2>2, <2>3 DEF CallParts
  <2>6. CallProgress'
    BY <1>0, <2>2, <2>3 DEF CallProgress, CallTypes
  <2> QED
    BY <2>4, <2>5, <2>6
<1>4. CASE EndBody
  <2>1. UNCHANGED <<mode, caller, helper, scanner, closed, said, taken, heard, left>>
        /\ answer = "open" /\ answer' \in {"ended", "broken"}
    BY <1>4 DEF EndBody
  <2>2. CallTypes' /\ CallParts'
    BY <2>1 DEF CallTypes, CallParts
  <2>3. CallProgress'
    BY <2>1, HeardStays DEF CallProgress
  <2> QED
    BY <2>2, <2>3
<1>5. CASE Leave
  <2>1. UNCHANGED <<mode, caller, helper, scanner, answer, closed, said, taken, heard>>
        /\ caller # "idle" /\ left'
    BY <1>5 DEF Leave
  <2>2. CallTypes' /\ CallParts'
    BY <1>5, <2>1 DEF CallTypes, CallParts, Leave
  <2>3. CallProgress'
    BY <2>1, HeardStays DEF CallProgress
  <2> QED
    BY <2>2, <2>3
<1>6. CASE TakeResponse
  <2>1. CallTypes'
    BY <1>6 DEF CallTypes, TakeResponse
  <2>2. CallParts'
    BY <1>6 DEF CallTypes, CallParts, TakeResponse
  <2>3. CallProgress'
    <3>1. CASE caller' # "streaming"
      BY <3>1 DEF CallProgress
    <3>2. CASE caller' = "streaming"
      <4>1. scanner' = "reading" /\ caller = "asking" /\ UNCHANGED <<said, heard, taken>>
        BY <1>6, <3>2 DEF TakeResponse
      <4>2. heard = <<>> /\ taken = 0
        BY <4>1 DEF CallParts
      <4>3. HeardTo(taken)
        BY <1>0, <4>2 DEF HeardTo, Exchange!Positions, Exchange!Texts
      <4> QED
        BY <4>1, <4>3, HeardStays DEF CallProgress
    <3> QED
      BY <3>1, <3>2
  <2> QED
    BY <2>1, <2>2, <2>3
<1>7. CASE NoticeLeft
  BY <1>7 DEF NoticeLeft, CallTypes, CallParts, CallProgress
<1>8. CASE TakeDecoded
  <2>1. <<1>> \in Seq(Nat)
    OBVIOUS
  <2>2. CallTypes'
    BY <1>8, <2>1 DEF TakeDecoded, CallTypes
  <2>3. CallParts' /\ CallProgress'
    BY <1>8 DEF TakeDecoded, CallParts, CallProgress
  <2> QED
    BY <2>2, <2>3
<1>9. CASE Decode
  <2>1. UNCHANGED <<mode, caller, scanner, answer, closed, said, heard, left>> /\ mode = "whole"
    BY <1>9 DEF Decode
  <2>2. said # <<>> => Len(said) >= 1
    BY <1>0
  <2>3. CallTypes'
    BY <1>0, <1>9, <2>1, <2>2 DEF Decode, CallTypes
  <2>4. CallParts'
    BY <1>9, <2>1 DEF Decode, CallParts
  <2>5. CallProgress'
    BY <2>1 DEF CallProgress, CallParts
  <2> QED
    BY <2>3, <2>4, <2>5
<1>10. CASE Scan
  <2>1. UNCHANGED <<mode, caller, helper, answer, closed, said, heard, left>>
        /\ scanner = "reading" /\ taken < Len(said) /\ taken' = taken + 1
        /\ \/ said[taken'] = "noise" /\ scanner' = "reading"
           \/ said[taken'] = "endless" /\ scanner' = "offering_error"
           \/ said[taken'] \notin {"noise", "endless"} /\ scanner' = "offering"
    BY <1>10 DEF Scan
  <2>2. taken \in Nat /\ taken' \in 1..Len(said) /\ said[taken'] \in Pieces
    BY <1>0, <2>1 DEF CallTypes
  <2>3. CallTypes' /\ CallParts'
    BY <2>1, <2>2 DEF CallTypes, CallParts
  <2>4. CallProgress'
    <3> SUFFICES ASSUME caller = "streaming" PROVE CallProgress'
      BY <2>1 DEF CallProgress
    <3>1. HeardTo(taken)
      BY <2>1 DEF CallProgress
    <3>2. HeardBefore(taken')
      BY <1>0, <2>1, <2>2, <3>1 DEF HeardTo, HeardBefore, Exchange!Texts
    <3>3. said[taken'] = "noise" => HeardTo(taken')
      BY <1>0, <2>1, <2>2, <3>2 DEF HeardTo, HeardBefore, Exchange!Texts, Exchange!Readable
    <3>4. (HeardBefore(taken))' /\ (said[taken'] = "noise" => (HeardTo(taken))')
      BY <2>1, <3>2, <3>3 DEF HeardTo, HeardBefore, Exchange!Texts, Exchange!Positions, Exchange!Readable
    <3> QED
      BY <2>1, <2>2, <3>4 DEF CallProgress, Pieces
  <2> QED
    BY <2>3, <2>4
<1>11. CASE ScanEnds
  <2>1. UNCHANGED <<mode, caller, helper, answer, closed, said, taken, heard, left>>
        /\ scanner = "reading"
        /\ \/ taken = Len(said) /\ answer = "ended" /\ scanner' = "gone"
           \/ scanner' = "offering_error"
    BY <1>11 DEF ScanEnds
  <2>2. CallTypes' /\ CallParts'
    BY <2>1 DEF CallTypes, CallParts
  <2>3. CallProgress'
    BY <2>1, HeardStays DEF CallProgress
  <2> QED
    BY <2>2, <2>3
<1>12. CASE StopOffering
  <2>1. UNCHANGED <<mode, caller, helper, answer, closed, said, taken, heard, left>>
        /\ scanner # "none" /\ scanner' = "gone" /\ (caller = "streaming" => left)
    BY <1>12 DEF StopOffering, Waiting
  <2>2. CallTypes' /\ CallParts' /\ CallProgress'
    BY <2>1 DEF CallTypes, CallParts, CallProgress
  <2> QED
    BY <2>2
<1>13. CASE Handle
  <2>1. UNCHANGED <<mode, helper, answer, said, taken, left>> /\ scanner' = "reading"
        /\ caller = "streaming" /\ scanner = "offering"
        /\ \/ said[taken] = "text" /\ heard' = Append(heard, taken) /\ UNCHANGED <<caller, closed>>
           \/ said[taken] # "text" /\ caller' = "failed" /\ closed' /\ UNCHANGED heard
    BY <1>13 DEF Handle
  <2>2. taken \in 1..Len(said) /\ HeardBefore(taken)
    BY <1>0, <2>1 DEF CallTypes, CallProgress
  <2>3. CallTypes' /\ CallParts'
    <3>1. taken \in Nat /\ Append(heard, taken) \in Seq(Nat)
      BY <1>0, <2>2
    <3>2. closed' \in BOOLEAN
      BY <1>13 DEF Handle, CallTypes
    <3> QED
      BY <1>0, <2>1, <3>1, <3>2 DEF CallTypes, CallParts
  <2>4. CallProgress'
    <3>1. CASE said[taken] = "text"
      <4>1. heard' = Append(heard, taken) /\ caller' = "streaming"
        BY <2>1, <3>1
      <4>2. Exchange!Positions(heard') = Exchange!Positions(heard) \cup {taken}
        <5>1. /\ DOMAIN heard = 1..Len(heard) /\ Len(heard) \in Nat
              /\ DOMAIN heard' = 1..(Len(heard) + 1)
              /\ \A i \in 1..Len(heard) : heard'[i] = heard[i]
              /\ heard'[Len(heard) + 1] = taken
          BY <1>0, <4>1
        <5> QED
          BY <5>1 DEF Exchange!Positions
      <4>3. /\ Exchange!Positions(heard') = {m \in Exchange!Texts : m <= taken}
            /\ \A n \in DOMAIN said : n <= taken => said[n] \in Exchange!Readable
        BY <1>0, <2>2, <3>1, <4>2 DEF HeardBefore, Exchange!Texts, Exchange!Readable
      <4>4. (HeardTo(taken))'
        BY <2>1, <4>3 DEF HeardTo, Exchange!Texts, Exchange!Readable, Exchange!Positions
      <4> QED
        BY <2>1, <4>4 DEF CallProgress
    <3>2. CASE said[taken] # "text"
      BY <2>1, <3>2 DEF CallProgress
    <3> QED
      BY <3>1, <3>2
  <2> QED
    BY <2>3, <2>4
<1>14. CASE HandleError
  BY <1>14 DEF HandleError, CallTypes, CallParts, CallProgress
<1>15. CASE HandleEnd
  BY <1>15 DEF HandleEnd, CallTypes, CallParts, CallProgress
<1>16. CASE UNCHANGED transportVars
  <2>1. UNCHANGED <<mode, caller, helper, scanner, answer, closed, said, taken, heard, left>>
    BY <1>16 DEF transportVars
  <2>2. CallTypes' /\ CallParts'
    BY <2>1 DEF CallTypes, CallParts
  <2>3. CallProgress'
    BY <2>1, HeardStays DEF CallProgress
  <2> QED
    BY <2>2, <2>3
<1> QED
  BY <1>1, <1>2, <1>3, <1>4, <1>5, <1>6, <1>7, <1>8, <1>9, <1>10, <1>11, <1>12, <1>13, <1>14, <1>15,
     <1>16 DEF Next, Caller, Helper, Scanner

(* The actions of an exchange, in terms of the call.                        *)
LEMMA ExchangeIs ==
  /\ Exchange!Begin <=> /\ Outcome = "idle" /\ Outcome' = "pending" /\ Busy' = TRUE
                        /\ UNCHANGED <<said, Over, heard, left>>
  /\ Exchange!Around <=> /\ Outcome # "idle"
                         /\ \E n \in 0..Len(said') : said = SubSeq(said', 1, n)
                         /\ Over => Over' /\ said' = said
                         /\ left => left'
                         /\ Outcome # "pending" /\ ~Busy => ~Busy'
                         /\ UNCHANGED <<heard, Outcome>>
  /\ Exchange!Hear <=> /\ Outcome = "pending"
                       /\ \E n \in Exchange!Texts :
                            /\ Exchange!Positions(heard) = {m \in Exchange!Texts : m < n}
                            /\ heard' = Append(heard, n)
                       /\ UNCHANGED <<said, Over, Outcome, left>>
  /\ Exchange!End <=> /\ Outcome = "pending"
                      /\ \/ Outcome' = "failed" /\ UNCHANGED heard
                         \/ /\ Outcome' = "complete"
                            /\ \/ /\ Over /\ Exchange!Positions(heard') = Exchange!Texts
                                  /\ \A n \in DOMAIN said : said[n] \in Exchange!Readable
                               \/ left /\ UNCHANGED heard
                      /\ UNCHANGED <<said, Over, left>>
BY DEF Exchange!Begin, Exchange!Around, Exchange!Hear, Exchange!End, Exchange!Whole

(* The model only adds to what it has said.                               *)
LEMMA SameOrMore ==
  ASSUME said \in Seq(Pieces),
         UNCHANGED said \/ \E piece \in Pieces : said' = Append(said, piece)
  PROVE  \E n \in 0..Len(said') : said = SubSeq(said', 1, n)
<1>1. CASE UNCHANGED said
  <2>1. said = SubSeq(said, 1, Len(said)) /\ Len(said) \in 0..Len(said)
    BY DEF Pieces
  <2> QED
    BY <1>1, <2>1
<1>2. ASSUME NEW piece \in Pieces, said' = Append(said, piece)
      PROVE  said = SubSeq(said', 1, Len(said)) /\ Len(said) \in 0..Len(said')
  BY <1>2
<1> QED
  BY <1>1, <1>2

(* Whoever has a helper or an answer has asked.                            *)
LEMMA AskedBefore ==
  ASSUME CallInv, caller = "idle"
  PROVE  helper = "none" /\ answer = "none" /\ scanner = "none" /\ heard = <<>> /\ said = <<>>
BY DEF CallInv, CallParts

(* Each step of the call is one of an exchange or changes nothing of it.    *)
LEMMA CallRefines ==
  ASSUME CallInv, [Next]_transportVars
  PROVE  [Exchange!Next]_(Exchange!exchangeVars)
<1> USE DEF CallInv
<1> SUFFICES \/ Exchange!Begin \/ Exchange!Around \/ Exchange!Hear \/ Exchange!End
             \/ UNCHANGED <<said, Over, heard, Outcome, Busy, left>>
  BY DEF Exchange!Next, Exchange!exchangeVars
<1>0. said \in Seq(Pieces) /\ Len(said) \in Nat /\ DOMAIN said = 1..Len(said)
  BY DEF CallTypes
<1>1. CASE Ask
  <2>1. Outcome = "idle" /\ Outcome' = "pending" /\ Busy' = TRUE
        /\ UNCHANGED <<said, Over, heard, left>>
    BY <1>1 DEF Ask, Outcome, Over, Busy, Waiting
  <2> QED
    BY <2>1, ExchangeIs
<1>2. ASSUME UNCHANGED <<mode, caller, heard>>, caller # "idle", left => left',
             UNCHANGED said \/ \E piece \in Pieces : said' = Append(said, piece),
             Over => Over' /\ said' = said, Outcome = "pending" \/ Busy \/ ~Busy'
      PROVE  Exchange!Around
  <2>1. UNCHANGED Outcome /\ Outcome # "idle"
    BY <1>2 DEF Outcome, Waiting, CallTypes
  <2> QED
    BY <1>0, <1>2, <2>1, SameOrMore, ExchangeIs
<1>3. ASSUME Outcome = "pending", Outcome' = "failed", UNCHANGED <<mode, answer, said, heard, left>>
      PROVE  Exchange!End
  <2>1. UNCHANGED Over
    BY <1>3 DEF Over
  <2> QED
    BY <1>3, <2>1, ExchangeIs
<1>4. CASE Respond
  <2>1. UNCHANGED <<mode, caller, said, heard, left>> /\ helper = "running" /\ answer = "none"
    BY <1>4 DEF Respond
  <2>2. caller # "idle" /\ Busy /\ (Over => Over')
    BY <2>1, AskedBefore DEF Busy, Over
  <2> QED
    BY <1>2, <2>1, <2>2
<1>5. CASE Write
  <2>1. UNCHANGED <<mode, caller, helper, scanner, heard, left>> /\ answer = "open"
        /\ (mode = "whole" => Len(said) < 1)
        /\ \E piece \in Pieces : said' = Append(said, piece)
    BY <1>5 DEF Write
  <2>2. caller # "idle" /\ (Busy \/ ~Busy') /\ ~Over
    BY <1>0, <2>1, AskedBefore DEF Busy, Over
  <2> QED
    BY <1>2, <2>1, <2>2
<1>6. CASE EndBody
  <2>1. UNCHANGED <<mode, caller, helper, scanner, said, heard, left>> /\ answer = "open"
    BY <1>6 DEF EndBody
  <2>2. caller # "idle" /\ (Busy \/ ~Busy') /\ (Over => Over')
    BY <2>1, AskedBefore DEF Busy, Over
  <2> QED
    BY <1>2, <2>1, <2>2
<1>7. CASE Leave
  <2>1. UNCHANGED <<mode, caller, helper, scanner, answer, said, heard>> /\ caller # "idle" /\ left'
    BY <1>7 DEF Leave
  <2>2. (Busy \/ ~Busy') /\ (Over => Over')
    BY <2>1 DEF Busy, Over
  <2> QED
    BY <1>2, <2>1, <2>2
<1>8. CASE TakeResponse
  <2>1. UNCHANGED <<mode, answer, said, heard, left>> /\ caller = "asking"
        /\ caller' \in {"failed", "streaming", "decoding"}
    BY <1>8 DEF TakeResponse
  <2>2. Outcome = "pending" /\ UNCHANGED Over
    BY <2>1 DEF Outcome, Waiting, Over
  <2>3. CASE caller' = "failed"
    BY <1>3, <2>1, <2>2, <2>3 DEF Outcome, Waiting
  <2>4. CASE caller' # "failed"
    <3>1. UNCHANGED Outcome
      BY <2>1, <2>2, <2>4 DEF Outcome, Waiting
    <3> QED
      BY <1>0, <2>1, <2>2, <3>1, SameOrMore, ExchangeIs
  <2> QED
    BY <2>3, <2>4
<1>9. CASE NoticeLeft
  BY <1>3, <1>9 DEF NoticeLeft, Outcome, Waiting
<1>10. CASE TakeDecoded
  <2>1. UNCHANGED <<mode, answer, said, left>> /\ caller = "decoding" /\ helper \in {"response", "failure"}
        /\ IF helper = "response" /\ said[1] = "text"
           THEN caller' = "complete" /\ heard' = <<1>> ELSE caller' = "failed" /\ UNCHANGED heard
    BY <1>10 DEF TakeDecoded
  <2>2. Outcome = "pending" /\ UNCHANGED Over
    BY <2>1 DEF Outcome, Waiting, Over
  <2>3. CASE ~(helper = "response" /\ said[1] = "text")
    BY <1>3, <2>1, <2>2, <2>3 DEF Outcome, Waiting
  <2>4. CASE helper = "response" /\ said[1] = "text"
    <3>1. mode = "whole" /\ said # <<>> /\ Len(said) <= 1
      BY <2>1, <2>4 DEF CallParts
    <3>2. DOMAIN said = {1}
      BY <1>0, <3>1
    <3>3. Exchange!Texts = {1} /\ \A n \in DOMAIN said : said[n] \in Exchange!Readable
      BY <2>4, <3>2 DEF Exchange!Texts, Exchange!Readable
    <3>4. Exchange!Positions(heard') = {1}
      BY <2>1, <2>4 DEF Exchange!Positions
    <3>5. Over /\ Outcome' = "complete"
      BY <2>1, <2>4, <3>1 DEF Over, Outcome, Waiting
    <3> QED
      BY <2>1, <2>2, <3>3, <3>4, <3>5, ExchangeIs
  <2> QED
    BY <2>3, <2>4
<1>11. CASE Decode
  <2>1. UNCHANGED <<mode, caller, answer, said, heard, left>> /\ caller # "asking" /\ helper = "running"
    BY <1>11 DEF Decode
  <2>2. caller # "idle" /\ Busy /\ (Over => Over')
    BY <2>1, AskedBefore DEF Busy, Over
  <2> QED
    BY <1>2, <2>1, <2>2
<1>12. CASE Scan \/ ScanEnds \/ StopOffering
  <2>1. UNCHANGED <<mode, caller, helper, answer, said, heard, left>>
        /\ scanner \in {"reading", "offering", "offering_error"}
    BY <1>12 DEF Scan, ScanEnds, StopOffering
  <2>2. caller # "idle" /\ Busy /\ (Over => Over')
    BY <2>1, AskedBefore DEF Busy, Over
  <2> QED
    BY <1>2, <2>1, <2>2
<1>13. CASE Handle
  <2>1. UNCHANGED <<mode, helper, answer, said, taken, left>>
        /\ caller = "streaming" /\ scanner = "offering"
        /\ \/ said[taken] = "text" /\ heard' = Append(heard, taken) /\ UNCHANGED caller
           \/ caller' = "failed" /\ UNCHANGED heard
    BY <1>13 DEF Handle
  <2>2. Outcome = "pending" /\ UNCHANGED Over
    BY <2>1 DEF Outcome, Waiting, Over
  <2>3. CASE caller' = "failed" /\ UNCHANGED heard
    BY <1>3, <2>1, <2>2, <2>3 DEF Outcome, Waiting
  <2>4. CASE said[taken] = "text" /\ heard' = Append(heard, taken) /\ UNCHANGED caller
    <3>1. HeardBefore(taken) /\ taken >= 1 /\ taken \in 0..Len(said)
      BY <2>1 DEF CallProgress, CallTypes
    <3>2. taken \in Exchange!Texts
      BY <1>0, <2>4, <3>1 DEF Exchange!Texts
    <3>3. UNCHANGED Outcome
      BY <2>4 DEF Outcome
    <3> QED
      BY <2>1, <2>2, <2>4, <3>1, <3>2, <3>3, ExchangeIs DEF HeardBefore
  <2> QED
    BY <2>1, <2>3, <2>4
<1>14. CASE HandleError
  BY <1>3, <1>14 DEF HandleError, Outcome, Waiting
<1>15. CASE HandleEnd
  <2>1. UNCHANGED <<mode, answer, said, heard, left>> /\ caller = "streaming" /\ scanner = "gone"
        /\ caller' = "complete"
    BY <1>15 DEF HandleEnd
  <2>2. Outcome = "pending" /\ Outcome' = "complete" /\ UNCHANGED Over
    BY <2>1 DEF Outcome, Waiting, Over
  <2>3. CASE left
    BY <2>1, <2>2, <2>3, ExchangeIs
  <2>4. CASE ~left
    <3>1. HeardTo(taken) /\ taken = Len(said) /\ answer = "ended" /\ mode = "stream"
      BY <2>1, <2>4 DEF CallProgress, CallParts
    <3>2. Exchange!Texts = {m \in Exchange!Texts : m <= taken}
      BY <1>0, <3>1 DEF Exchange!Texts
    <3>3. Exchange!Positions(heard') = Exchange!Texts
          /\ \A n \in DOMAIN said : said[n] \in Exchange!Readable
      BY <1>0, <2>1, <3>1, <3>2 DEF HeardTo
    <3>4. Over
      BY <3>1 DEF Over
    <3> QED
      BY <2>1, <2>2, <3>3, <3>4, ExchangeIs
  <2> QED
    BY <2>3, <2>4
<1>16. CASE UNCHANGED transportVars
  BY <1>16 DEF transportVars, Over, Outcome, Busy
<1> QED
  BY <1>1, <1>4, <1>5, <1>6, <1>7, <1>8, <1>9, <1>10, <1>11, <1>12, <1>13, <1>14, <1>15, <1>16
     DEF Next, Caller, Helper, Scanner

(* A call of the model, streamed or whole and of any length, keeps to the   *)
(* steps of an exchange: each piece of text is heard once and in order, and *)
(* an answer counts as complete only when all of it was heard, or nobody    *)
(* waits for it any more (agent_transport.go:169).                         *)
THEOREM CallsKeepTheExchange == FairSpec => Exchange!Safely
<1>1. Init => Exchange!Init
  BY DEF Init, Exchange!Init, Over, Outcome, Busy, Waiting
<1> QED
  BY <1>1, CallStarts, CallSteps, CallRefines, PTL DEF FairSpec, Exchange!Safely
================================================================================

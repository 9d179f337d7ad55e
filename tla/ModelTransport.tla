----------------------------- MODULE ModelTransport ------------------------------
(***************************************************************************)
(* One call of the model with the goroutines that keep the client informed *)
(* meanwhile: doOllamaRequest waits for the response, then either          *)
(* scanOllamaChat reads an answer piece by piece or                        *)
(* decodeReasonerResponseWithKeepalive reads it as a whole.  The ticker    *)
(* only writes comments to the client and is left out.                     *)
(***************************************************************************)
EXTENDS Sequences, Naturals

CONSTANT MaxPieces     \* bound on what the model writes

(* caller: the goroutine that waits; helper: the one that sends a request   *)
(* or decodes an answer, with its buffered channel; scanner: the one that  *)
(* reads a streamed answer and offers each piece; answer and said: the body *)
(* of the response; taken: the pieces read from it; heard: the positions   *)
(* of those that were passed on.                                           *)
VARIABLES mode, caller, helper, scanner, answer, closed, said, taken, heard, left

transportVars == <<mode, caller, helper, scanner, answer, closed, said, taken, heard, left>>

(* A line that is not JSON is skipped; one that reports an error, or that   *)
(* makes the answer too long, is refused; one that is too long is an error. *)
Pieces == {"text", "noise", "fault", "endless"}
Waiting == {"asking", "decoding", "streaming"}

Init ==
  /\ mode \in {"stream", "whole"} /\ caller = "idle" /\ helper = "none" /\ scanner = "none"
  /\ answer = "none" /\ closed = FALSE /\ said = <<>> /\ taken = 0 /\ heard = <<>> /\ left = FALSE

Ask ==
  /\ caller = "idle" /\ caller' = "asking" /\ helper' = "running"
  /\ UNCHANGED <<mode, scanner, answer, closed, said, taken, heard, left>>

(* client.Do returns; the client's timeout covers the body as well.        *)
Respond ==
  /\ caller # "decoding" /\ helper = "running" /\ answer = "none"
  /\ \/ helper' = "response" /\ answer' = "open"
     \/ helper' = "failure" /\ UNCHANGED answer
  /\ UNCHANGED <<mode, caller, scanner, closed, said, taken, heard, left>>

Write ==
  /\ answer = "open" /\ Len(said) < (IF mode = "whole" THEN 1 ELSE MaxPieces)
  /\ \E piece \in Pieces : said' = Append(said, piece)
  /\ UNCHANGED <<mode, caller, helper, scanner, answer, closed, taken, heard, left>>

(* The body ends, or breaks: cut off, timed out, or its context cancelled. *)
EndBody ==
  /\ answer = "open" /\ answer' \in {"ended", "broken"}
  /\ UNCHANGED <<mode, caller, helper, scanner, closed, said, taken, heard, left>>

Leave ==
  /\ caller # "idle" /\ ~left /\ left' = TRUE
  /\ UNCHANGED <<mode, caller, helper, scanner, answer, closed, said, taken, heard>>
--------------------------------------------------------------------------------
(* The caller's select. With a response it has a body to close on return.   *)
TakeResponse ==
  /\ caller = "asking" /\ helper \in {"response", "failure"}
  /\ \/ /\ caller' = "failed" /\ closed' = (helper = "response")   \* also a status of refusal
        /\ helper' = "none" /\ UNCHANGED scanner
     \/ /\ helper = "response" /\ UNCHANGED closed
        /\ IF mode = "stream"
             THEN caller' = "streaming" /\ helper' = "none" /\ scanner' = "reading"
             ELSE caller' = "decoding" /\ helper' = "running" /\ UNCHANGED scanner
  /\ UNCHANGED <<mode, answer, said, taken, heard, left>>

(* ctx.Done: nobody takes what the helper still has to say.                *)
NoticeLeft ==
  /\ caller \in Waiting /\ left
  /\ caller' = "failed" /\ closed' = (caller # "asking")
  /\ UNCHANGED <<mode, helper, scanner, answer, said, taken, heard, left>>

(* The decoder is satisfied with one value; the body need not have ended.  *)
Decode ==
  /\ mode = "whole" /\ caller # "asking" /\ helper = "running" /\ answer # "none"
  /\ \/ said # <<>> /\ taken' = 1 /\ helper' = IF said[1] \in {"text", "fault"} THEN "response" ELSE "failure"
     \/ (answer # "open" \/ closed) /\ helper' = "failure" /\ UNCHANGED taken
  /\ UNCHANGED <<mode, caller, scanner, answer, closed, said, heard, left>>

TakeDecoded ==
  /\ caller = "decoding" /\ helper \in {"response", "failure"}
  /\ IF helper = "response" /\ said[1] = "text"
       THEN caller' = "complete" /\ heard' = <<1>> ELSE caller' = "failed" /\ UNCHANGED heard
  /\ closed' = TRUE /\ helper' = "none"
  /\ UNCHANGED <<mode, scanner, answer, said, taken, left>>
--------------------------------------------------------------------------------
(* The scanner's goroutine: what it holds it offers until somebody takes    *)
(* it or its context is cancelled.                                         *)
Scan ==
  /\ scanner = "reading" /\ taken < Len(said) /\ taken' = taken + 1
  /\ scanner' = CASE said[taken'] = "noise" -> "reading"
                  [] said[taken'] = "endless" -> "offering_error"
                  [] OTHER -> "offering"
  /\ UNCHANGED <<mode, caller, helper, answer, closed, said, heard, left>>

(* Mutant: scanner.Err is not looked at. *)
ScanEndsUnchecked ==
  /\ scanner = "reading"
  /\ (taken = Len(said) /\ answer # "open") \/ answer = "broken" \/ closed
  /\ scanner' = "gone"
  /\ UNCHANGED <<mode, caller, helper, answer, closed, said, taken, heard, left>>

ScanEnds ==
  /\ scanner = "reading"
  /\ \/ taken = Len(said) /\ answer = "ended" /\ ~closed /\ scanner' = "gone"
     \/ (answer = "broken" \/ closed) /\ scanner' = "offering_error"
  /\ UNCHANGED <<mode, caller, helper, answer, closed, said, taken, heard, left>>

(* Its context ends with the client's or with scanOllamaChat.              *)
StopOffering ==
  /\ scanner \in {"offering", "offering_error"} /\ (left \/ caller \notin Waiting)
  /\ scanner' = "gone"
  /\ UNCHANGED <<mode, caller, helper, answer, closed, said, taken, heard, left>>

Handle ==
  /\ caller = "streaming" /\ scanner = "offering" /\ scanner' = "reading"
  /\ IF said[taken] = "text"
       THEN heard' = Append(heard, taken) /\ UNCHANGED <<caller, closed>>
       ELSE caller' = "failed" /\ closed' = TRUE /\ UNCHANGED heard
  /\ UNCHANGED <<mode, helper, answer, said, taken, left>>

HandleError ==
  /\ caller = "streaming" /\ scanner = "offering_error"
  /\ caller' = "failed" /\ scanner' = "gone" /\ closed' = TRUE
  /\ UNCHANGED <<mode, helper, answer, said, taken, heard, left>>

(* The channel is closed: the answer is taken to be complete, also when the *)
(* scanner stopped because the client left.                                *)
HandleEnd ==
  /\ caller = "streaming" /\ scanner = "gone"
  /\ caller' = "complete" /\ closed' = TRUE
  /\ UNCHANGED <<mode, helper, scanner, answer, said, taken, heard, left>>

Caller == TakeResponse \/ NoticeLeft \/ TakeDecoded \/ Handle \/ HandleError \/ HandleEnd
Helper == Respond \/ Decode
Scanner == Scan \/ ScanEnds \/ StopOffering

Next == Ask \/ Write \/ EndBody \/ Leave \/ Caller \/ Helper \/ Scanner

(* The goroutines are scheduled, and the timeout ends what Ollama does not. *)
Fairness ==
  /\ WF_transportVars(Caller) /\ WF_transportVars(Helper)
  /\ WF_transportVars(Scanner) /\ WF_transportVars(EndBody)

FairSpec == Init /\ [][Next]_transportVars /\ Fairness
--------------------------------------------------------------------------------
Over == IF mode = "whole" THEN said # <<>> ELSE answer = "ended"
Outcome == IF caller \in Waiting THEN "pending" ELSE caller
Busy == helper = "running" \/ scanner \notin {"none", "gone"}
Exchange == INSTANCE ModelExchange WITH over <- Over, outcome <- Outcome, busy <- Busy

(* A call of the model keeps what an exchange promises: pieces are heard in *)
(* order and once, an answer that was cut off is not taken for a complete  *)
(* one unless nobody waits for it any more, and whatever the client, Ollama *)
(* and the body do, the call ends and no goroutine stays behind            *)
(* (agent_transport.go:169).                                               *)
KeepsExchange == Exchange!Spec
================================================================================

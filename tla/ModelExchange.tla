------------------------------ MODULE ModelExchange -------------------------------
(***************************************************************************)
(* What a call of the model promises (agent_transport.go,                  *)
(* reasoner_transport.go): whoever waits hears what the model says, in its *)
(* order; an answer counts as complete only if all of it was heard; and    *)
(* the call ends and leaves nothing running.                               *)
(***************************************************************************)
EXTENDS Sequences, Naturals

(* said: what the model has written; over: it has written all of its       *)
(* answer; heard: the positions in it of the pieces that were passed on;   *)
(* busy: something still works for the call; left: nobody waits.           *)
VARIABLES said, over, heard, outcome, busy, left

exchangeVars == <<said, over, heard, outcome, busy, left>>

Texts == {n \in DOMAIN said : said[n] = "text"}
Readable == {"text", "noise"}
Positions(pieces) == {pieces[i] : i \in DOMAIN pieces}

Init ==
  /\ said = <<>> /\ heard = <<>> /\ outcome = "idle"
  /\ over = FALSE /\ busy = FALSE /\ left = FALSE

Begin ==
  /\ outcome = "idle" /\ outcome' = "pending" /\ busy' = TRUE
  /\ UNCHANGED <<said, over, heard, left>>

(* The model, the client and the helpers go about their own business.      *)
Around ==
  /\ outcome # "idle"
  /\ \E n \in 0..Len(said') : said = SubSeq(said', 1, n)
  /\ over => over' /\ said' = said
  /\ left => left'
  /\ outcome # "pending" /\ ~busy => ~busy'
  /\ UNCHANGED <<heard, outcome>>

(* The next text: all before it were heard, and none twice.                *)
Hear ==
  /\ outcome = "pending"
  /\ \E n \in Texts : /\ Positions(heard) = {m \in Texts : m < n}
                     /\ heard' = Append(heard, n)
  /\ UNCHANGED <<said, over, outcome, left>>

Whole == over /\ Positions(heard') = Texts /\ \A n \in DOMAIN said : said[n] \in Readable

End ==
  /\ outcome = "pending"
  /\ \/ outcome' = "failed" /\ UNCHANGED heard
     \/ outcome' = "complete" /\ (Whole \/ (left /\ UNCHANGED heard))
  /\ UNCHANGED <<said, over, left>>

Next == Begin \/ Around \/ Hear \/ End

Safely == Init /\ [][Next]_exchangeVars
Settles == outcome = "pending" ~> (outcome \in {"complete", "failed"} /\ ~busy)

Spec == Safely /\ Settles
================================================================================

----------------------------- MODULE CaseFacts -----------------------------
(***************************************************************************)
(* The Case fact ledger of application/case_facts.py over the rules of     *)
(* domain/case_facts.py, for the one fact the program ever asks about: the *)
(* customer has looked where the delivery proof says the parcel was left.  *)
(*                                                                         *)
(* A Case's ledger is [asked, answer]: whether the question is recorded,   *)
(* and the reply that consumed it: "none" (no reply yet), "empty" (a reply *)
(* that supports no value) or the asserted value.  A second question would *)
(* need two conflicting assertions or another delivery proof, and there is *)
(* no way to either: a question is consumed by one reply and a proof that  *)
(* was read is never read again.                                           *)
(***************************************************************************)
EXTENDS ToolCache

Answers == {NONE, "empty", "true", "false", "unknown"}
Asserted == {"true", "false", "unknown"}

NewLedger == [asked |-> FALSE, answer |-> NONE]

(* _proof_context: an actual read that found a proof with a recipient. *)
ProofFound(history) ==
    \E h \in history :
        h.tool = "proof" /\ h.status = "success" /\ h.value \in {"handed", "reception"}

FactStatus(ledger) ==
    CASE ledger.answer = "true" -> "known_true"
      [] ledger.answer = "false" -> "known_false"
      [] OTHER -> "unknown"

QuestionStatus(history, ledger) ==
    FirstRow(<<
      <<~ProofFound(history), "inapplicable">>,
      <<FactStatus(ledger) # "unknown", "answered">>,
      <<ledger.asked, "unknown_exhausted">>,
      <<TRUE, "unanswered">> >>)

(* rebuild_case_fact_snapshot *)
Rebuild(history, ledger) ==
    [revision |-> Cardinality({x \in {"asked"} : ledger.asked}
                    \cup {x \in {"assertion"} : ledger.answer \in Asserted}),
     fact |-> FactStatus(ledger),
     question |-> QuestionStatus(history, ledger)]

(* record_question and the test of its caller: the question is put if it is
   new and allowed, or still open; "exhausted" sends the Case to support. *)
QuestionAllowed(history, ledger, asks) ==
    asks < 2 /\ QuestionStatus(history, ledger) = "unanswered"

(* Variant: a recorded question is put again whatever became of it. *)
AskAnyway(history, ledger, asks) ==
    IF ledger.asked THEN "repeated"
    ELSE IF QuestionAllowed(history, ledger, asks) THEN "created" ELSE "exhausted"

Ask(history, ledger, asks) ==
    IF ledger.asked
      THEN IF QuestionStatus(history, ledger) = "unanswered" THEN "repeated" ELSE "exhausted"
    ELSE IF QuestionAllowed(history, ledger, asks) THEN "created" ELSE "exhausted"

(* accept_message: the reply consumes the question. *)
Answer(ledger, reply) == [ledger EXCEPT !.answer = reply]
=============================================================================

------------------------------ MODULE Classify ------------------------------
(***************************************************************************)
(* What a POST came to (internal/classify): a status, or an error.         *)
(***************************************************************************)
EXTENDS Naturals

(* The errors of http.Client.Do that the code tells apart, and the two it  *)
(* does not: the hub cancelled the POST, or anything else (no such host, a *)
(* connection closed without an answer).  Without an error there is an     *)
(* answer and its status.                                                  *)
Errors ==
    {"timeout", "refused", "reset", "broken_pipe", "canceled", "other_error"}

Outcomes == [status : Nat, err : Errors \union {"none"}]

HTTPStatus(code) ==
    CASE code \in 200 .. 299 -> "success"
      [] code \in {0, 408, 429} \union 500 .. 599 -> "retryable"
      [] OTHER -> "terminal"

NetError(err) ==
    IF err \in {"timeout", "refused", "reset", "broken_pipe"} THEN "retryable"
    ELSE "terminal"

Combine(res) ==
    IF res.err # "none" THEN NetError(res.err) ELSE HTTPStatus(res.status)
=============================================================================

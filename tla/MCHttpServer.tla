---------------------------- MODULE MCHttpServer ----------------------------
(* One request with a body to read, one with a response to stream.          *)
EXTENDS HttpServer

CONSTANTS q1, q2

TwoRequests == {q1, q2}
Pieces == [r \in TwoRequests |-> IF r = q1 THEN 3 ELSE 0]
Writes == [r \in TwoRequests |-> IF r = q1 THEN 0 ELSE 2]
=============================================================================

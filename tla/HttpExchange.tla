---------------------------- MODULE HttpExchange ----------------------------
(***************************************************************************)
(* What an HTTP server owes each request (docs/specs/runtime-event-loop.md, *)
(* the lifecycle semantics of the HttpServer operations): a request is      *)
(* queued, accepted and released in this order, each of them once; its      *)
(* client gets one answer, and a host-managed status only in place of a     *)
(* response that was never started.                                         *)
(***************************************************************************)
CONSTANT Request

VARIABLES phase,     \* where the server has the request
          client     \* what its client has seen

Open == {"waiting", "streaming"}

exchangeVars == <<phase, client>>

Init == \A r \in Request : phase[r] = "unseen" /\ client[r] = "absent"

Goes(r, from, to, seen) ==
  phase[r] = from /\ phase'[r] = to /\ client'[r] = seen

Upload(r) == client[r] = "absent" /\ Goes(r, "unseen", "unseen", "uploading")

(* 503, 413 or 500, before the request is queued.                           *)
Refuse(r) ==
  /\ client[r] \in {"absent", "uploading"}
  /\ Goes(r, "unseen", "released", "refused")

Queue(r) ==
  /\ client[r] \in {"absent", "uploading"}
  /\ Goes(r, "unseen", "queued", "waiting")

(* Handed to the one accept that gets it, from the queue or at once.        *)
Accept(r) ==
  \/ client[r] \in {"absent", "uploading"} /\ Goes(r, "unseen", "accepted", "waiting")
  \/ Goes(r, "queued", "accepted", client[r])

Head(r) == client[r] = "waiting" /\ Goes(r, "accepted", "accepted", "streaming")

(* The program's answer, or what was left of it; a client may also be left  *)
(* without one.                                                             *)
Answer(r) ==
  \E seen \in {client[r]} \cup {s \in {"answered"} : client[r] \in Open} :
    Goes(r, "accepted", "released", seen)

(* The response timeout and the end of the server.                          *)
GiveUp(r) ==
  /\ phase[r] \in {"queued", "accepted"}
  /\ phase'[r] = "released"
  /\ client'[r] = IF client[r] = "waiting" THEN "refused" ELSE client[r]

Disconnect(r) == client[r] \in Open \cup {"uploading"} /\ Goes(r, phase[r], phase[r], "gone")

Step(r) ==
  \/ Upload(r) \/ Refuse(r) \/ Queue(r) \/ Accept(r) \/ Head(r)
  \/ Answer(r) \/ GiveUp(r) \/ Disconnect(r)

(* The requests are independent: closing a server ends many at once.        *)
Next == \A r \in Request : Step(r) \/ UNCHANGED <<phase[r], client[r]>>

Spec == Init /\ [][Next]_exchangeVars
=============================================================================

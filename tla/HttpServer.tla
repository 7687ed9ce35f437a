----------------------------- MODULE HttpServer -----------------------------
(***************************************************************************)
(* One HTTP server of packages/js-host/src/adapters/default/capabilities/   *)
(* http-server.ts on Node: the source that talks to node:http and the       *)
(* transport-safe wrapper around it.  A request of a client goes through    *)
(* the accept queue to the program, whose tasks read its body in pieces and *)
(* answer it, at once or as a stream, while the watchdog of the response,   *)
(* the client and the closing of the server may end it at any time.  What   *)
(* follows an await is an action of its own.                                *)
(***************************************************************************)
EXTENDS Naturals, Sequences, FiniteSets

CONSTANTS
  Request,       \* the requests that ever reach the server
  Reader,        \* the tasks of the program that read bodies
  MaxPending,    \* maxPendingRequests
  MaxWaiters,    \* accept calls that wait at the same time
  MaxPieces,     \* bound: the pieces of maxChunkBytes of each body
  MaxWrites      \* bound: the chunks written to each response

ASSUME HttpAssumption ==
  /\ MaxPending \in Nat /\ MaxWaiters \in Nat
  /\ MaxPieces \in [Request -> Nat] /\ MaxWrites \in [Request -> Nat]

VARIABLES
  streaming,     \* config.streamRequestBodies
  closed,        \* state.closed
  client,        \* what the client of each request has seen
  pending,       \* the keys of state.pendingResponses
  record,        \* the pending response of each request, kept when unlisted
  queue,         \* state.queue
  waiters,       \* the length of state.waiters
  bodies,        \* the keys of state.requestBodies
  accepting,     \* requests whose accept has been resolved, not yet continued
  known,         \* the keys of requestGenerations, in the wrapper
  rest,          \* remainder: what is left of a chunk that was too long
  reads,         \* the body reads in progress
  sent,          \* the pieces of a body the client has sent
  got,           \* the pieces of a body the program has been given
  held,          \* the requests the program has a handle of
  writes,        \* the chunks being written
  written        \* the chunks written or being written

exchangeVars == <<client, pending, record, queue, bodies>>
acceptVars == <<waiters, accepting, held>>
wrapperVars == <<known, rest>>
bodyVars == <<reads, sent, got>>
writeVars == <<writes, written>>
vars == <<streaming, closed, exchangeVars, acceptVars, wrapperVars, bodyVars, writeVars>>

Seen == {"absent", "uploading", "waiting", "streaming", "answered", "refused", "gone"}
Response ==
  [registered : BOOLEAN, completed : BOOLEAN, started : BOOLEAN,
   streamWriteFailed : BOOLEAN, armed : BOOLEAN]    \* armed: its timeout is set
Piece == Nat \ {0}
NoRead == [at |-> "idle"]
Read ==
  {NoRead} \cup [at : {"native"}, request : Request]
    \cup [at : {"back"}, request : Request, chunk : Seq(Piece)]

TypeOK ==
  /\ streaming \in BOOLEAN /\ closed \in BOOLEAN
  /\ client \in [Request -> Seen]
  /\ pending \in SUBSET Request
  /\ record \in [Request -> Response]
  /\ queue \in Seq(Request) /\ Len(queue) <= MaxPending
  /\ waiters \in 0..MaxWaiters
  /\ bodies \in SUBSET Request
  /\ accepting \in Seq(Request)
  /\ known \in SUBSET Request
  /\ rest \in [Request -> Seq(Piece)]
  /\ reads \in [Reader -> Read]
  /\ sent \in [Request -> Nat]
  /\ got \in [Request -> Seq(Piece)]
  /\ held \in SUBSET Request
  /\ writes \in [Request -> Nat]
  /\ written \in [Request -> Nat]

Absent == [registered |-> FALSE, completed |-> FALSE, started |-> FALSE,
           streamWriteFailed |-> FALSE, armed |-> FALSE]

Init ==
  /\ streaming \in BOOLEAN
  /\ closed = FALSE
  /\ client = [r \in Request |-> "absent"]
  /\ pending = {}
  /\ record = [r \in Request |-> Absent]
  /\ queue = <<>>
  /\ waiters = 0
  /\ bodies = {}
  /\ accepting = <<>>
  /\ known = {}
  /\ rest = [r \in Request |-> <<>>]
  /\ reads = [c \in Reader |-> NoRead]
  /\ sent = [r \in Request |-> 0]
  /\ got = [r \in Request |-> <<>>]
  /\ held = {}
  /\ writes = [r \in Request |-> 0]
  /\ written = [r \in Request |-> 0]

-----------------------------------------------------------------------------
Open == {"waiting", "streaming"}      \* neither destroyed nor writableEnded

(* No microtask is left: the event loop may turn to timers and sockets.     *)
NoMicrotask == accepting = <<>> /\ \A c \in Reader : reads[c].at # "back"

Sees(r, seen) == client' = [client EXCEPT ![r] = seen]

(* What the client sees when the host ends a response.                      *)
HostEndAlways(r) == IF client[r] \in Open THEN "refused" ELSE client[r]   \* mutant
HostEnd(r) ==
  IF client[r] \notin Open THEN client[r]
  ELSE IF record[r].started THEN "answered" ELSE "refused"

Completed(r) == [record[r] EXCEPT !.completed = TRUE, !.armed = FALSE]

ClearRequest(r) ==
  /\ known' = known \ {r}
  /\ rest' = [rest EXCEPT ![r] = <<>>]

(* Mutant: the slot is kept.                                                *)
ReleaseKept(r) ==
  /\ record' = [record EXCEPT ![r] = Completed(r)]
  /\ bodies' = bodies \ {r}
  /\ ClearRequest(r) /\ UNCHANGED pending

(* What respond, finishResponse and the timeout do to the request first.    *)
Release(r) ==
  /\ record' = [record EXCEPT ![r] = Completed(r)]
  /\ pending' = pending \ {r}
  /\ bodies' = bodies \ {r}
  /\ ClearRequest(r)

-----------------------------------------------------------------------------
(* The clients.  A connection that is being read is given up with its body. *)
Full == Cardinality(pending) >= MaxPending

(* Mutant: the watchdog is not set.                                         *)
RegisterUnwatched(r) ==
  /\ record' = [record EXCEPT ![r] = [Absent EXCEPT !.registered = TRUE]]
  /\ pending' = pending \cup {r}
  /\ bodies' = IF streaming THEN bodies \cup {r} ELSE bodies
  /\ Sees(r, "waiting")

(* addPendingNodeResponse.                                                  *)
Register(r) ==
  /\ record' = [record EXCEPT ![r] = [Absent EXCEPT !.registered = TRUE, !.armed = TRUE]]
  /\ pending' = pending \cup {r}
  /\ bodies' = IF streaming THEN bodies \cup {r} ELSE bodies
  /\ Sees(r, "waiting")

RoomOverrun == Len(queue) <= MaxPending                   \* mutant: off by one
Room == Len(queue) < MaxPending

(* enqueueRequest: to the first waiter, into the queue, or turned away.     *)
Submit(r) ==
  \/ /\ waiters > 0
     /\ waiters' = waiters - 1
     /\ accepting' = Append(accepting, r)
     /\ Register(r)
     /\ UNCHANGED queue
  \/ /\ waiters = 0 /\ Room
     /\ queue' = Append(queue, r)
     /\ Register(r)
     /\ UNCHANGED <<waiters, accepting>>
  \/ /\ waiters = 0 /\ ~Room
     /\ record' = [record EXCEPT ![r] = [Absent EXCEPT !.registered = TRUE, !.completed = TRUE]]
     /\ Sees(r, "refused")
     /\ UNCHANGED <<pending, bodies, queue, waiters, accepting>>

(* The handler of node:http up to its first await; 503 when all slots are   *)
(* taken, 500 when the url is malformed.                                    *)
Arrive(r) ==
  /\ NoMicrotask /\ ~closed
  /\ client[r] = "absent"
  /\ \/ Sees(r, "refused") /\ UNCHANGED <<pending, record, queue, bodies, waiters, accepting>>
     \/ /\ ~Full /\ streaming
        /\ Submit(r)
     \/ /\ ~Full /\ ~streaming
        /\ Sees(r, "uploading")
        /\ UNCHANGED <<pending, record, queue, bodies, waiters, accepting>>
  /\ UNCHANGED <<streaming, closed, held, wrapperVars, bodyVars, writeVars>>

(* readRequestBody returns, or throws (413, 500).                           *)
Uploaded(r) ==
  /\ client[r] = "uploading"
  /\ \/ Submit(r)
     \/ Sees(r, "refused") /\ UNCHANGED <<pending, record, queue, bodies, waiters, accepting>>
  /\ UNCHANGED <<streaming, closed, held, wrapperVars, bodyVars, writeVars>>

Disconnect(r) ==
  /\ NoMicrotask
  /\ client[r] \in Open \cup {"uploading"}
  /\ Sees(r, "gone")
  /\ UNCHANGED <<streaming, closed, pending, record, queue, bodies, acceptVars,
                 wrapperVars, bodyVars, writeVars>>

-----------------------------------------------------------------------------
(* Mutants: the queue keeps the request; a started response gets a status.  *)
CompletePendingQueued(r) ==
  /\ Release(r)
  /\ Sees(r, HostEnd(r))
  /\ UNCHANGED queue

InQueue(r) == \E i \in DOMAIN queue : queue[i] = r

(* queue.filter: a request is queued once (QueueLive).                      *)
Without(r) ==
  IF ~InQueue(r) THEN queue
  ELSE LET i == CHOOSE k \in DOMAIN queue : queue[k] = r
       IN SubSeq(queue, 1, i - 1) \o SubSeq(queue, i + 1, Len(queue))

(* completePendingNodeResponse of a pending request.                        *)
CompletePending(r) ==
  /\ Release(r)
  /\ queue' = Without(r)
  /\ Sees(r, HostEnd(r))

(* The response timeout.                                                    *)
Timeout(r) ==
  /\ NoMicrotask
  /\ record[r].armed
  /\ IF r \in pending /\ ~record[r].completed
     THEN CompletePending(r)
     ELSE /\ record' = [record EXCEPT ![r].armed = FALSE]
          /\ UNCHANGED <<client, pending, queue, bodies, wrapperVars>>
  /\ UNCHANGED <<streaming, closed, acceptVars, bodyVars, writeVars>>

-----------------------------------------------------------------------------
(* accept of the source, and its continuation in the wrapper.               *)
Accept ==
  /\ ~closed
  /\ IF queue # <<>>
     THEN /\ accepting' = Append(accepting, Head(queue))
          /\ queue' = Tail(queue)
          /\ UNCHANGED waiters
     ELSE /\ waiters < MaxWaiters
          /\ waiters' = waiters + 1
          /\ UNCHANGED <<accepting, queue>>
  /\ UNCHANGED <<streaming, closed, client, pending, record, bodies, held,
                 wrapperVars, bodyVars, writeVars>>

(* The task that asked may have been cancelled: then nobody gets the handle. *)
AcceptReturns ==
  /\ accepting # <<>>
  /\ accepting' = Tail(accepting)
  /\ LET r == Head(accepting)
     IN /\ known' = known \cup {r}
        /\ rest' = [rest EXCEPT ![r] = <<>>]
        /\ held' \in {held, held \cup {r}}
  /\ UNCHANGED <<streaming, closed, exchangeVars, waiters, bodyVars, writeVars>>

-----------------------------------------------------------------------------
(* Reading a body.                                                          *)
Give(r, chunk) ==
  /\ got' = [got EXCEPT ![r] = Append(@, Head(chunk))]
  /\ rest' = [rest EXCEPT ![r] = Tail(chunk)]

NotBeingReadUnchecked(r) == TRUE                          \* mutant: activeReads
NotBeingRead(r) == \A c \in Reader : reads[c] # NoRead => reads[c].request # r

Readable(r) == r \in held /\ r \in known /\ NotBeingRead(r)

ReadRest(r) ==
  /\ Readable(r)
  /\ rest[r] # <<>>
  /\ Give(r, rest[r])
  /\ UNCHANGED <<streaming, closed, exchangeVars, acceptVars, known, reads, sent, writeVars>>

ReadBody(c, r) ==
  /\ reads[c] = NoRead
  /\ Readable(r)
  /\ rest[r] = <<>>
  /\ r \in bodies
  /\ reads' = [reads EXCEPT ![c] = [at |-> "native", request |-> r]]
  /\ UNCHANGED <<streaming, closed, exchangeVars, acceptVars, wrapperVars, sent, got, writeVars>>

(* iterator.next() settles: a chunk of one or two pieces, the end (an empty *)
(* chunk here), or an error, the excess of max_body_bytes included.         *)
NativeRead(c) ==
  /\ reads[c].at = "native"
  /\ LET r == reads[c].request
         rearmed == [record EXCEPT ![r].armed =
                       @ \/ (r \in pending /\ ~record[r].completed)]
     IN \/ \E n \in 1..2 :
             /\ sent[r] + n <= MaxPieces[r]
             /\ sent' = [sent EXCEPT ![r] = @ + n]
             /\ reads' = [reads EXCEPT ![c] =
                  [at |-> "back", request |-> r, chunk |-> [i \in 1..n |-> sent[r] + i]]]
             /\ record' = rearmed
             /\ UNCHANGED bodies
        \/ /\ reads' = [reads EXCEPT ![c] = [at |-> "back", request |-> r, chunk |-> <<>>]]
           /\ record' = rearmed
           /\ bodies' = bodies \ {r}
           /\ UNCHANGED sent
        \/ /\ reads' = [reads EXCEPT ![c] = NoRead]
           /\ bodies' = bodies \ {r}
           /\ UNCHANGED <<record, sent>>
  /\ UNCHANGED <<streaming, closed, client, pending, queue, acceptVars, wrapperVars, got, writeVars>>

(* The continuation in the wrapper: nextChunk.                              *)
ReadReturns(c) ==
  /\ reads[c].at = "back"
  /\ reads' = [reads EXCEPT ![c] = NoRead]
  /\ LET r == reads[c].request
         chunk == reads[c].chunk
     IN IF r \notin known
        THEN UNCHANGED <<got, wrapperVars>>
        ELSE IF chunk = <<>>
        THEN ClearRequest(r) /\ UNCHANGED got
        ELSE IF Len(chunk) = 1
        THEN got' = [got EXCEPT ![r] = Append(@, Head(chunk))] /\ UNCHANGED wrapperVars
        ELSE Give(r, chunk) /\ UNCHANGED known
  /\ UNCHANGED <<streaming, closed, exchangeVars, acceptVars, sent, writeVars>>

-----------------------------------------------------------------------------
(* Answering.  node:http may refuse a head: a header or reason phrase it    *)
(* takes for malformed, or any header once a head has been sent.            *)
Respond(r) ==
  /\ r \in held
  /\ IF r \in pending /\ ~record[r].completed
     THEN /\ Release(r)
          /\ \/ UNCHANGED client
             \/ Sees(r, IF client[r] \in Open THEN "answered" ELSE client[r])
     ELSE ClearRequest(r) /\ UNCHANGED <<client, pending, record, bodies>>
  /\ UNCHANGED <<streaming, closed, queue, acceptVars, bodyVars, writeVars>>

StartResponse(r) ==
  /\ r \in held
  /\ r \in pending /\ ~record[r].completed /\ ~record[r].started
  /\ record' = [record EXCEPT ![r].started = TRUE, ![r].armed = TRUE]
  /\ \/ UNCHANGED client
     \/ client[r] = "waiting" /\ Sees(r, "streaming")
  /\ UNCHANGED <<streaming, closed, pending, queue, bodies, acceptVars,
                 wrapperVars, bodyVars, writeVars>>

(* writeResponse up to its await: node:http sends a head if none was sent,  *)
(* or refuses it, and then the write fails.                                 *)
WriteResponse(r) ==
  /\ r \in held
  /\ r \in pending /\ ~record[r].completed /\ record[r].started
  /\ written[r] < MaxWrites[r]
  /\ writes' = [writes EXCEPT ![r] = @ + 1]
  /\ written' = [written EXCEPT ![r] = @ + 1]
  /\ \/ UNCHANGED client
     \/ client[r] = "waiting" /\ Sees(r, "streaming")
  /\ UNCHANGED <<streaming, closed, pending, record, queue, bodies, acceptVars,
                 wrapperVars, bodyVars>>

WriteSucceeds(r) ==
  /\ writes[r] > 0
  /\ client[r] # "waiting"
  /\ writes' = [writes EXCEPT ![r] = @ - 1]
  /\ record' = [record EXCEPT ![r].armed = TRUE]
  /\ UNCHANGED <<streaming, closed, client, pending, queue, bodies, acceptVars,
                 wrapperVars, bodyVars, written>>

WriteFailsUncancelled(r) ==                               \* mutant: the body stays
  /\ writes[r] > 0
  /\ writes' = [writes EXCEPT ![r] = @ - 1]
  /\ record' = [record EXCEPT ![r].completed = TRUE, ![r].streamWriteFailed = TRUE,
                              ![r].armed = FALSE]
  /\ UNCHANGED <<streaming, closed, client, pending, queue, bodies, acceptVars,
                 wrapperVars, bodyVars, written>>

(* The client is gone, the response ended under the write, or node:http     *)
(* refused it while the client waits.                                       *)
WriteFails(r) ==
  /\ writes[r] > 0
  /\ writes' = [writes EXCEPT ![r] = @ - 1]
  /\ record' = [record EXCEPT ![r].completed = TRUE, ![r].streamWriteFailed = TRUE,
                              ![r].armed = FALSE]
  /\ bodies' = bodies \ {r}
  /\ UNCHANGED <<streaming, closed, client, pending, queue, acceptVars,
                 wrapperVars, bodyVars, written>>

FinishResponse(r) ==
  /\ r \in held
  /\ IF r \notin pending \/ ~(record[r].started \/ record[r].streamWriteFailed)
     THEN ClearRequest(r) /\ UNCHANGED <<client, pending, record, bodies>>
     ELSE IF record[r].streamWriteFailed
     THEN /\ pending' = pending \ {r}
          /\ ClearRequest(r)
          /\ UNCHANGED <<client, record, bodies>>
     ELSE /\ Release(r)
          /\ Sees(r, IF client[r] \in Open THEN "answered" ELSE client[r])
  /\ UNCHANGED <<streaming, closed, queue, acceptVars, bodyVars, writeVars>>

-----------------------------------------------------------------------------
(* releasePendingNodeResponses.                                             *)
ReleaseAll ==
  /\ record' = [r \in Request |->
       IF r \notin pending THEN record[r]
       ELSE IF client[r] \in Open THEN Completed(r) ELSE [record[r] EXCEPT !.armed = FALSE]]
  /\ client' = [r \in Request |->
       IF r \in pending /\ ~record[r].completed THEN HostEnd(r) ELSE client[r]]
  /\ pending' = {}
  /\ bodies' = {}
  /\ queue' = <<>>
  /\ waiters' = 0

(* close, by the program or by the clean-up of its run.                     *)
Close ==
  /\ ~closed
  /\ closed' = TRUE
  /\ ReleaseAll
  /\ known' = {}
  /\ rest' = [r \in Request |-> <<>>]
  /\ UNCHANGED <<streaming, accepting, held, bodyVars, writeVars>>

(* The server's 'close' event, after the last connection has ended.         *)
ServerClosed ==
  /\ NoMicrotask
  /\ closed
  /\ \A r \in Request : client[r] \notin Open \cup {"uploading"}
  /\ ReleaseAll
  /\ UNCHANGED <<streaming, closed, accepting, held, wrapperVars, bodyVars, writeVars>>

Client(r) == Arrive(r) \/ Uploaded(r) \/ Disconnect(r)
Reading ==
  \/ \E r \in Request : ReadRest(r) \/ \E c \in Reader : ReadBody(c, r)
  \/ \E c \in Reader : NativeRead(c) \/ ReadReturns(c)
Answering(r) ==
  Respond(r) \/ StartResponse(r) \/ WriteResponse(r) \/ WriteSucceeds(r)
    \/ WriteFails(r) \/ FinishResponse(r)

Next ==
  \/ \E r \in Request : Client(r) \/ Timeout(r) \/ Answering(r)
  \/ Accept \/ AcceptReturns \/ Reading \/ Close \/ ServerClosed

Spec == Init /\ [][Next]_vars

(* Timers fire and microtasks run; nothing is assumed of the clients and    *)
(* the program, and a body or a write may stay in progress for ever.        *)
Fairness ==
  /\ WF_vars(AcceptReturns)
  /\ \A c \in Reader : WF_vars(ReadReturns(c))
  /\ \A r \in Request : WF_vars(Timeout(r))

FairSpec == Spec /\ Fairness
-----------------------------------------------------------------------------
(* A slot whose response is open has its watchdog set, and a completed      *)
(* response keeps its slot only after a failed write, until the program     *)
(* finishes it (resetPendingNodeResponseTimeout, writeResponse).            *)
SlotsWatched ==
  \A r \in pending :
    IF record[r].completed THEN record[r].streamWriteFailed ELSE record[r].armed

(* What waits in the accept queue can still be answered and nobody has it;  *)
(* nobody waits for a request while one is queued; and until the server     *)
(* closes the wrapper knows of no request that it has released              *)
(* (requestClosed).                                                         *)
QueueLive ==
  /\ \A r \in Request : InQueue(r) =>
       /\ r \in pending /\ ~record[r].completed /\ ~record[r].started
       /\ r \notin held \cup known
  /\ \A i, j \in DOMAIN queue : queue[i] = queue[j] => i = j
  /\ queue # <<>> => waiters = 0
  /\ ~closed => known \subseteq pending

(* "Completing a response cancels an unread streaming request body"         *)
(* (runtime-event-loop.md): however it is completed, by the program, the    *)
(* watchdog, a failed write or the end of the server.                       *)
BodyOwned == \A r \in bodies : r \in pending /\ ~record[r].completed

(* The pieces of a body arrive in order, none lost and none twice, whoever  *)
(* reads them and however the chunks are cut (remainder, activeReads).      *)
BodyInOrder == \A r \in Request : got[r] = [i \in 1..Len(got[r]) |-> i]

PhaseOf(r) ==
  IF ~record[r].registered
  THEN IF client[r] = "refused" THEN "released" ELSE "unseen"
  ELSE IF record[r].completed \/ r \notin pending THEN "released"
  ELSE IF InQueue(r) THEN "queued" ELSE "accepted"

Exchange == INSTANCE HttpExchange WITH
  phase <- [r \in Request |-> PhaseOf(r)]

(* The server treats every request as HttpExchange allows.                  *)
ExchangeSpec == Exchange!Spec

(* Every response is completed: by the program or, when it is idle for too  *)
(* long, by the watchdog.                                                   *)
EveryResponseEnds ==
  \A r \in Request :
    (r \in pending /\ ~record[r].completed) ~> (r \notin pending \/ record[r].completed)

-----------------------------------------------------------------------------
(* What the documents say of the server and the code does not keep: a run   *)
(* with one of these as its property ends in a counterexample.              *)

(* "Accepted requests not started before response_timeout_millis receive a  *)
(* host-managed 500 and are released" (docs/specs/runtime-event-loop.md):   *)
(* a client that still waits has somebody who will answer it.               *)
WaitingIsWatched ==
  \A r \in Request : client[r] = "waiting" => r \in pending /\ record[r].armed

(* "Maximum idle time before an unanswered or stalled response is released" *)
(* (packages/std/src/http/server.voyd).                                     *)
StalledIsReleased == \A r \in pending : record[r].armed
=============================================================================

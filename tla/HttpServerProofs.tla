-------------------------- MODULE HttpServerProofs --------------------------
(***************************************************************************)
(* What HttpServer keeps for every set of requests and readers and every    *)
(* limit: no open response is without its watchdog (SlotsAlwaysWatched), no *)
(* body outlives its response (BodiesAlwaysOwned), the accept queue holds   *)
(* what can be accepted, once (QueueAlwaysLive), a body is delivered in     *)
(* order (BodiesInOrder), and each request is served as HttpExchange says   *)
(* (KeepsExchange).                                                         *)
(***************************************************************************)
EXTENDS HttpServer, SequenceFacts

(* The part of the state the slots depend on: the records, and the fact     *)
(* that a request is registered only once its client waits for an answer.   *)
New(r) == client[r] \in {"absent", "uploading"}

SlotInv ==
  /\ record \in [Request -> Response]
  /\ client \in [Request -> Seen]
  /\ pending \subseteq Request
  /\ \A r \in pending : ~New(r)
  /\ \A r \in Request : record[r].streamWriteFailed => record[r].completed
  /\ SlotsWatched
  /\ BodyOwned

LEMMA InitSlot == Init => SlotInv
<1> SUFFICES ASSUME Init PROVE SlotInv  OBVIOUS
<1>1. Absent \in Response  BY DEF Absent, Response
<1> QED  BY <1>1 DEF Init, SlotInv, SlotsWatched, BodyOwned, Seen, Absent

(* A step of one request disturbs no other; what has to be shown is that    *)
(* its own slot and body are in order afterwards.                           *)
LEMMA OneRequest ==
  ASSUME SlotInv, NEW r \in Request,
         record' \in [Request -> Response], client' \in [Request -> Seen],
         \A q \in Request \ {r} : record'[q] = record[q] /\ client'[q] = client[q],
         pending' \subseteq pending \cup {r}, pending \ {r} \subseteq pending',
         bodies' \subseteq bodies \cup {r},
         record'[r].streamWriteFailed => record'[r].completed,
         r \in pending' =>
           /\ ~New(r)'
           /\ IF record'[r].completed THEN record'[r].streamWriteFailed ELSE record'[r].armed,
         r \in bodies' => r \in pending' /\ ~record'[r].completed
  PROVE  SlotInv'
<1>1. pending' \subseteq Request  BY DEF SlotInv
<1>2. ASSUME NEW q \in pending'
      PROVE  /\ ~New(q)'
             /\ IF record'[q].completed THEN record'[q].streamWriteFailed ELSE record'[q].armed
  <2>1. CASE q = r  BY <2>1
  <2>2. CASE q # r
    <3>1. q \in pending /\ q \in Request  BY <2>2 DEF SlotInv
    <3> QED  BY <3>1, <2>2 DEF SlotInv, SlotsWatched, New
  <2> QED  BY <2>1, <2>2
<1>3. ASSUME NEW q \in bodies'  PROVE q \in pending' /\ ~record'[q].completed
  <2>1. CASE q = r  BY <2>1, <1>3
  <2>2. CASE q # r
    <3>1. q \in pending /\ q \in pending' /\ ~record[q].completed
      BY <2>2, <1>3 DEF SlotInv, BodyOwned
    <3> QED  BY <3>1, <2>2 DEF SlotInv
  <2> QED  BY <2>1, <2>2
<1>4. \A q \in Request : record'[q].streamWriteFailed => record'[q].completed
  BY DEF SlotInv
<1> QED  BY <1>1, <1>2, <1>3, <1>4 DEF SlotInv, SlotsWatched, BodyOwned

LEMMA Untouched ==
  ASSUME SlotInv, UNCHANGED <<record, client, pending, bodies>>
  PROVE  SlotInv'
BY DEF SlotInv, SlotsWatched, BodyOwned, New

(* The records the actions write.                                           *)
LEMMA Responses ==
  ASSUME NEW x \in Response
  PROVE  /\ [Absent EXCEPT !.registered = TRUE, !.armed = TRUE] \in Response
         /\ [Absent EXCEPT !.registered = TRUE, !.completed = TRUE] \in Response
         /\ [x EXCEPT !.completed = TRUE, !.armed = FALSE] \in Response
         /\ [x EXCEPT !.started = TRUE, !.armed = TRUE] \in Response
         /\ \A b \in BOOLEAN : [x EXCEPT !.armed = b] \in Response
         /\ [x EXCEPT !.completed = TRUE, !.streamWriteFailed = TRUE, !.armed = FALSE] \in Response
BY DEF Response, Absent

LEMMA SubmitSlot ==
  ASSUME SlotInv, NEW r \in Request, New(r), Submit(r)
  PROVE  SlotInv'
<1>1. r \notin pending /\ r \notin bodies  BY DEF SlotInv, BodyOwned
<1>2. CASE Register(r)
  <2>1. record' = [record EXCEPT ![r] = [Absent EXCEPT !.registered = TRUE, !.armed = TRUE]]
    BY <1>2 DEF Register
  <2>2. /\ record' \in [Request -> Response]
        /\ record'[r].armed /\ ~record'[r].completed /\ ~record'[r].streamWriteFailed
    BY <2>1, Responses DEF SlotInv, Absent
  <2>3. client' \in [Request -> Seen] /\ ~New(r)'
    BY <1>2 DEF Register, Sees, SlotInv, Seen, New
  <2>4. \A q \in Request \ {r} : record'[q] = record[q] /\ client'[q] = client[q]
    BY <1>2, <2>1 DEF Register, Sees, SlotInv
  <2> QED  BY <1>2, <2>2, <2>3, <2>4, OneRequest DEF Register
<1>3. CASE /\ record' = [record EXCEPT ![r] = [Absent EXCEPT !.registered = TRUE, !.completed = TRUE]]
           /\ Sees(r, "refused")
           /\ UNCHANGED <<pending, bodies>>
  <2>1. record' \in [Request -> Response] /\ record'[r].completed
    BY <1>3, Responses DEF SlotInv, Absent
  <2>2. client' \in [Request -> Seen]  BY <1>3 DEF Sees, SlotInv, Seen
  <2>3. \A q \in Request \ {r} : record'[q] = record[q] /\ client'[q] = client[q]
    BY <1>3 DEF Sees, SlotInv
  <2> QED  BY <1>1, <1>3, <2>1, <2>2, <2>3, OneRequest
<1> QED  BY <1>2, <1>3 DEF Submit

(* A client that sees something else while its record stays.                *)
LEMMA SeenSlot ==
  ASSUME SlotInv, NEW r \in Request, NEW seen \in Seen, Sees(r, seen),
         r \in pending => seen \notin {"absent", "uploading"},
         UNCHANGED <<record, pending, bodies>>
  PROVE  SlotInv'
<1>1. client' \in [Request -> Seen] /\ client'[r] = seen  BY DEF Sees, SlotInv
<1>2. \A q \in Request \ {r} : client'[q] = client[q]  BY DEF Sees, SlotInv
<1>3. r \in pending => ~New(r)'  BY <1>1 DEF New
<1> QED  BY <1>1, <1>2, <1>3, OneRequest DEF SlotInv, SlotsWatched, BodyOwned

LEMMA ClientSlot ==
  ASSUME SlotInv, NEW r \in Request, Client(r)
  PROVE  SlotInv'
<1>1. CASE Arrive(r)
  <2>1. r \notin pending /\ New(r)  BY <1>1 DEF Arrive, New, SlotInv
  <2>2. CASE Submit(r)  BY <2>1, <2>2, SubmitSlot
  <2>3. CASE /\ Sees(r, "refused") \/ Sees(r, "uploading")
             /\ UNCHANGED <<record, pending, bodies>>
    BY <2>1, <2>3, SeenSlot DEF Seen
  <2> QED  BY <1>1, <2>2, <2>3 DEF Arrive
<1>2. CASE Uploaded(r)
  <2>1. r \notin pending /\ New(r)  BY <1>2 DEF Uploaded, New, SlotInv
  <2>2. CASE Submit(r)  BY <2>1, <2>2, SubmitSlot
  <2>3. CASE Sees(r, "refused") /\ UNCHANGED <<record, pending, bodies>>
    BY <2>1, <2>3, SeenSlot DEF Seen
  <2> QED  BY <1>2, <2>2, <2>3 DEF Uploaded
<1>3. CASE Disconnect(r)  BY <1>3, SeenSlot DEF Disconnect, Seen
<1> QED  BY <1>1, <1>2, <1>3 DEF Client

(* What a response becomes that is completed or given up by the host.       *)
LEMMA ReleaseSlot ==
  ASSUME SlotInv, NEW r \in Request, NEW seen \in Seen, Release(r),
         UNCHANGED client \/ Sees(r, seen)
  PROVE  SlotInv'
<1>1. record' = [record EXCEPT ![r] = [record[r] EXCEPT !.completed = TRUE, !.armed = FALSE]]
  BY DEF Release, Completed
<1>2. record' \in [Request -> Response] /\ record'[r].completed
  <2> DEFINE new == [record[r] EXCEPT !.completed = TRUE, !.armed = FALSE]
  <2>1. record[r] \in Response  BY DEF SlotInv
  <2>2. new \in Response  BY <2>1, Responses
  <2>3. new.completed  BY <2>1 DEF Response
  <2>4. record' = [record EXCEPT ![r] = new]  BY <1>1
  <2> HIDE DEF new
  <2> QED  BY <2>2, <2>3, <2>4 DEF SlotInv
<1>3. client' \in [Request -> Seen]  BY DEF Sees, SlotInv
<1>4. \A q \in Request \ {r} : record'[q] = record[q] /\ client'[q] = client[q]
  BY <1>1 DEF Sees, SlotInv
<1>5. r \notin pending' /\ r \notin bodies'  BY DEF Release
<1> QED  BY <1>2, <1>3, <1>4, <1>5, OneRequest DEF Release

(* A record that changes while its client sees nothing new.                 *)
LEMMA RecordSlot ==
  ASSUME SlotInv, NEW r \in Request, NEW new \in Response,
         record' = [record EXCEPT ![r] = new],
         UNCHANGED <<client, pending>>, bodies' \subseteq bodies,
         r \in pending => IF new.completed THEN new.streamWriteFailed ELSE new.armed,
         r \in bodies' => ~new.completed,
         new.streamWriteFailed => new.completed
  PROVE  SlotInv'
<1>1. record' \in [Request -> Response] /\ record'[r] = new  BY DEF SlotInv
<1>2. \A q \in Request \ {r} : record'[q] = record[q]  BY DEF SlotInv
<1>3. r \in bodies' => r \in pending'  BY DEF SlotInv, BodyOwned
<1>4. r \in pending => ~New(r)'  BY DEF SlotInv, New
<1> QED  BY <1>1, <1>2, <1>3, <1>4, OneRequest DEF SlotInv

LEMMA Rearmed ==
  ASSUME SlotInv, NEW r \in Request, NEW b \in BOOLEAN,
         b \/ ~(r \in pending /\ ~record[r].completed),
         record' = [record EXCEPT ![r].armed = b],
         UNCHANGED <<client, pending>>, bodies' \subseteq bodies
  PROVE  SlotInv'
<1> DEFINE new == [record[r] EXCEPT !.armed = b]
<1>1. record[r] \in Response  BY DEF SlotInv
<1>2. new \in Response /\ new.armed = b /\ new.completed = record[r].completed
      /\ new.streamWriteFailed = record[r].streamWriteFailed
  BY <1>1, Responses DEF Response
<1>3. r \in pending => IF new.completed THEN new.streamWriteFailed ELSE new.armed
  BY <1>2 DEF SlotInv, SlotsWatched
<1>4. r \in bodies' => ~new.completed  BY <1>2 DEF SlotInv, BodyOwned
<1>5. record' = [record EXCEPT ![r] = new]  OBVIOUS
<1>6. new.streamWriteFailed => new.completed  BY <1>2 DEF SlotInv
<1> HIDE DEF new
<1> QED  BY <1>2, <1>3, <1>4, <1>5, <1>6, RecordSlot

LEMMA HostEndSeen ==
  ASSUME SlotInv, NEW r \in Request  PROVE HostEnd(r) \in Seen
BY DEF HostEnd, SlotInv, Seen

LEMMA TimeoutSlot ==
  ASSUME SlotInv, NEW r \in Request, Timeout(r)
  PROVE  SlotInv'
<1>1. CASE r \in pending /\ ~record[r].completed
  BY <1>1, HostEndSeen, ReleaseSlot DEF Timeout, CompletePending
<1>2. CASE ~(r \in pending /\ ~record[r].completed)
  <2>1. /\ record' = [record EXCEPT ![r].armed = FALSE]
        /\ UNCHANGED <<client, pending, bodies>>
    BY <1>2 DEF Timeout
  <2> QED  BY <1>2, <2>1, Rearmed
<1> QED  BY <1>1, <1>2

LEMMA Fewer ==
  ASSUME SlotInv, UNCHANGED <<record, client, pending>>, bodies' \subseteq bodies
  PROVE  SlotInv'
BY DEF SlotInv, SlotsWatched, BodyOwned, New

LEMMA ReadingSlot ==
  ASSUME SlotInv, Reading
  PROVE  SlotInv'
<1>1. ASSUME NEW c \in Reader, NativeRead(c)  PROVE SlotInv'
  <2> DEFINE r == reads[c].request
             b == record[r].armed \/ (r \in pending /\ ~record[r].completed)
  <2>2. bodies' \subseteq bodies /\ UNCHANGED <<client, pending>>  BY <1>1 DEF NativeRead
  <2>3. CASE record' = [record EXCEPT ![r].armed = b]
    <3>1. CASE r \in Request
      <4>1. record[r] \in Response  BY <3>1 DEF SlotInv
      <4>2. b \in BOOLEAN  BY <4>1 DEF Response
      <4> QED  BY <3>1, <2>2, <2>3, <4>2, Rearmed
    <3>2. CASE r \notin Request
      <4>1. record' = record  BY <3>2, <2>3 DEF SlotInv
      <4> QED  BY <2>2, <4>1, Fewer
    <3> QED  BY <3>1, <3>2
  <2>4. CASE UNCHANGED record  BY <2>2, <2>4, Fewer
  <2> QED  BY <1>1, <2>2, <2>3, <2>4 DEF NativeRead
<1>2. CASE \E r \in Request : ReadRest(r)  BY <1>2, Untouched DEF ReadRest, exchangeVars
<1>3. CASE \E r \in Request, c \in Reader : ReadBody(c, r)
  BY <1>3, Untouched DEF ReadBody, exchangeVars
<1>4. CASE \E c \in Reader : ReadReturns(c)  BY <1>4, Untouched DEF ReadReturns, exchangeVars
<1> QED  BY <1>1, <1>2, <1>3, <1>4 DEF Reading

LEMMA AnsweringSlot ==
  ASSUME SlotInv, NEW r \in Request, Answering(r)
  PROVE  SlotInv'
<1>0. record[r] \in Response /\ client[r] \in Seen  BY DEF SlotInv
<1> DEFINE answered == IF client[r] \in Open THEN "answered" ELSE client[r]
<1>a. answered \in Seen  BY <1>0 DEF Seen
<1>1. CASE Respond(r)
  <2>1. CASE r \in pending /\ ~record[r].completed
    BY <1>1, <2>1, <1>a, ReleaseSlot DEF Respond
  <2> QED  BY <1>1, <2>1, Untouched DEF Respond
<1>2. CASE StartResponse(r)
  <2> DEFINE new == [record[r] EXCEPT !.started = TRUE, !.armed = TRUE]
  <2>1. new \in Response /\ new.armed /\ ~new.completed
    BY <1>0, <1>2, Responses DEF StartResponse, Response
  <2>2. record' = [record EXCEPT ![r] = new]  BY <1>2 DEF StartResponse
  <2>3. r \in pending /\ UNCHANGED <<pending, bodies>>  BY <1>2 DEF StartResponse
  <2>4. client' \in [Request -> Seen] /\ ~New(r)'
        /\ \A q \in Request \ {r} : client'[q] = client[q]
    BY <1>2 DEF StartResponse, SlotInv, New, Sees, Seen
  <2>6. record'[r].streamWriteFailed => record'[r].completed
    <3>1. ~record[r].completed  BY <1>2 DEF StartResponse
    <3>2. ~record[r].streamWriteFailed  BY <3>1 DEF SlotInv
    <3>3. ~new.streamWriteFailed  BY <3>2, <1>0 DEF Response
    <3> QED  BY <2>2, <3>3 DEF SlotInv
  <2>5. record' \in [Request -> Response] /\ record'[r] = new
        /\ \A q \in Request \ {r} : record'[q] = record[q]
    BY <2>1, <2>2 DEF SlotInv
  <2> QED  BY <2>1, <2>3, <2>4, <2>5, <2>6, OneRequest
<1>3. CASE WriteResponse(r)
  <2>1. CASE UNCHANGED client  BY <1>3, <2>1, Untouched DEF WriteResponse
  <2>2. CASE Sees(r, "streaming")  BY <1>3, <2>2, SeenSlot DEF WriteResponse, Seen
  <2> QED  BY <1>3, <2>1, <2>2 DEF WriteResponse
<1>4. CASE WriteSucceeds(r)  BY <1>4, Rearmed DEF WriteSucceeds
<1>5. CASE WriteFails(r)
  <2> DEFINE new == [record[r] EXCEPT !.completed = TRUE, !.streamWriteFailed = TRUE,
                                      !.armed = FALSE]
  <2>0. new \in Response  BY <1>0, Responses
  <2>1. new.completed /\ new.streamWriteFailed  BY <1>0 DEF Response
  <2>2. record' = [record EXCEPT ![r] = new]  BY <1>5 DEF WriteFails
  <2>3. UNCHANGED <<client, pending>> /\ bodies' = bodies \ {r}  BY <1>5 DEF WriteFails
  <2> HIDE DEF new
  <2> QED  BY <2>0, <2>1, <2>2, <2>3, RecordSlot
<1>6. CASE FinishResponse(r)
  <2>1. CASE Release(r) /\ Sees(r, answered)  BY <2>1, <1>a, ReleaseSlot
  <2>2. CASE UNCHANGED <<client, pending, record, bodies>>  BY <2>2, Untouched
  <2>3. CASE /\ r \in pending /\ record[r].streamWriteFailed
             /\ pending' = pending \ {r}
             /\ UNCHANGED <<client, record, bodies>>
    <3>1. r \notin bodies  BY <2>3 DEF SlotInv, BodyOwned
    <3> QED  BY <2>3, <3>1 DEF SlotInv, SlotsWatched, BodyOwned, New
  <2> QED  BY <1>6, <2>1, <2>2, <2>3 DEF FinishResponse
<1> QED  BY <1>1, <1>2, <1>3, <1>4, <1>5, <1>6 DEF Answering
LEMMA ReleaseAllSlot ==
  ASSUME SlotInv, ReleaseAll
  PROVE  SlotInv'
<1>1. pending' = {} /\ bodies' = {}  BY DEF ReleaseAll
<1>2. client' \in [Request -> Seen]
  <2>1. \A r \in Request : HostEnd(r) \in Seen /\ client[r] \in Seen
    BY HostEndSeen DEF SlotInv
  <2> QED  BY <2>1 DEF ReleaseAll
<1>3. ASSUME NEW r \in Request
      PROVE  /\ record'[r] \in Response
             /\ record'[r].streamWriteFailed => record'[r].completed
  <2>1. record[r] \in Response
        /\ (record[r].streamWriteFailed => record[r].completed)
    BY DEF SlotInv
  <2>2. Completed(r) \in Response  BY <2>1, Responses DEF Completed
  <2>3. Completed(r).completed  BY <2>1 DEF Completed, Response
  <2> DEFINE off == [record[r] EXCEPT !.armed = FALSE]
  <2>4. off \in Response  BY <2>1, Responses
  <2>5. off.streamWriteFailed => off.completed  BY <2>1 DEF Response
  <2>6. record'[r] \in {record[r], Completed(r), off}  BY DEF ReleaseAll
  <2> HIDE DEF off
  <2> QED  BY <2>1, <2>2, <2>3, <2>4, <2>5, <2>6
<1>4. record' = [r \in Request |-> record'[r]]  BY DEF ReleaseAll
<1>5. record' \in [Request -> Response]  BY <1>3, <1>4
<1> QED  BY <1>1, <1>2, <1>3, <1>5 DEF SlotInv, SlotsWatched, BodyOwned

LEMMA StepSlot == SlotInv /\ [Next]_vars => SlotInv'
<1> SUFFICES ASSUME SlotInv, [Next]_vars  PROVE SlotInv'  OBVIOUS
<1>1. CASE \E r \in Request : Client(r) \/ Timeout(r) \/ Answering(r)
  BY <1>1, ClientSlot, TimeoutSlot, AnsweringSlot
<1>2. CASE Accept  BY <1>2, Untouched DEF Accept
<1>3. CASE AcceptReturns  BY <1>3, Untouched DEF AcceptReturns, exchangeVars
<1>4. CASE Reading  BY <1>4, ReadingSlot
<1>5. CASE Close  BY <1>5, ReleaseAllSlot DEF Close
<1>6. CASE ServerClosed  BY <1>6, ReleaseAllSlot DEF ServerClosed
<1>7. CASE UNCHANGED vars  BY <1>7, Untouched DEF vars, exchangeVars
<1> QED  BY <1>1, <1>2, <1>3, <1>4, <1>5, <1>6, <1>7 DEF Next

(* However requests, writes, reads, timers and the closing of the server    *)
(* interleave, a slot of maxPendingRequests is always held by a response    *)
(* whose timer is set or by one whose failed write the program has still to *)
(* be told of: no slot is lost for ever behind a timer that nobody set.     *)
THEOREM SlotsAlwaysWatched == Spec => []SlotsWatched
<1>1. SlotInv => SlotsWatched  BY DEF SlotInv
<1> QED  BY InitSlot, StepSlot, <1>1, PTL DEF Spec

(* A request body that can still be read belongs to a response that is      *)
(* still pending: every way to complete a response cancels its body.        *)
THEOREM BodiesAlwaysOwned == Spec => []BodyOwned
<1>1. SlotInv => BodyOwned  BY DEF SlotInv
<1> QED  BY InitSlot, StepSlot, <1>1, PTL DEF Spec

-----------------------------------------------------------------------------
(* The types.  SlotInv has those of the records; Carried has the others.    *)
Carried ==
  /\ streaming \in BOOLEAN /\ closed \in BOOLEAN
  /\ queue \in Seq(Request) /\ Len(queue) <= MaxPending
  /\ waiters \in 0..MaxWaiters
  /\ accepting \in Seq(Request)
  /\ known \in SUBSET Request /\ held \in SUBSET Request
  /\ rest \in [Request -> Seq(Piece)] /\ got \in [Request -> Seq(Piece)]
  /\ reads \in [Reader -> Read]
  /\ sent \in [Request -> Nat]
  /\ writes \in [Request -> Nat] /\ written \in [Request -> Nat]

LEMMA InitCarried == Init => Carried
<1> SUFFICES ASSUME Init PROVE Carried  OBVIOUS
<1>1. /\ queue \in Seq(Request) /\ Len(queue) <= MaxPending /\ accepting \in Seq(Request)
      /\ waiters \in 0..MaxWaiters
  BY HttpAssumption DEF Init
<1>2. rest \in [Request -> Seq(Piece)] /\ got \in [Request -> Seq(Piece)]  BY DEF Init
<1>3. reads \in [Reader -> Read]  BY DEF Init, Read
<1> QED  BY <1>1, <1>2, <1>3 DEF Init, Carried

(* A queue that has lost a request is shorter.                              *)
LEMMA WithoutFacts ==
  ASSUME Carried, NEW r \in Request
  PROVE  /\ Without(r) \in Seq(Request) /\ Len(Without(r)) <= Len(queue)
         /\ \A q : In(Without(r), q) => In(queue, q)
         /\ \A q : In(queue, q) /\ q # r => In(Without(r), q)
         /\ IsInjective(queue) => IsInjective(Without(r)) /\ ~In(Without(r), r)
<1>1. queue \in Seq(Request)  BY DEF Carried
<1>2. CASE ~InQueue(r)
  <2>1. Without(r) = queue  BY <1>2 DEF Without
  <2>2. ~In(queue, r)  BY <1>2 DEF InQueue, In
  <2> QED  BY <1>1, <2>1, <2>2
<1>3. CASE InQueue(r)
  <2> DEFINE n == Len(queue)
             i == CHOOSE k \in DOMAIN queue : queue[k] = r
             t == SubSeq(queue, 1, i - 1) \o SubSeq(queue, i + 1, n)
  <2>1. n \in Nat /\ DOMAIN queue = 1 .. n  BY <1>1
  <2>2. i \in 1 .. n /\ queue[i] = r  BY <1>3, <2>1 DEF InQueue
  <2>3. Without(r) = t  BY <1>3 DEF Without
  <2> HIDE DEF i
  <2>4. /\ t \in Seq(Request) /\ Len(t) = n - 1
        /\ \A k \in 1 .. n - 1 : t[k] = IF k < i THEN queue[k] ELSE queue[k + 1]
    BY <1>1, <2>1, <2>2, Around
  <2> HIDE DEF t, n
  <2>5. n = Len(queue)  BY DEF n
  <2>6. /\ \A y : In(t, y) => In(queue, y)
        /\ \A y : In(queue, y) /\ y # queue[i] => In(t, y)
        /\ IsInjective(queue) => IsInjective(t) /\ ~In(t, queue[i])
    BY <1>1, <2>1, <2>2, <2>4, <2>5, RemovedAt
  <2>7. Len(t) <= Len(queue)  BY <2>1, <2>4, <2>5
  <2> QED  BY <2>2, <2>3, <2>4, <2>6, <2>7
<1> QED  BY <1>2, <1>3

LEMMA SubmitCarried ==
  ASSUME Carried, NEW r \in Request, Submit(r),
         UNCHANGED <<streaming, closed, held, wrapperVars, bodyVars, writeVars>>
  PROVE  Carried'
<1>1. queue \in Seq(Request) /\ Len(queue) <= MaxPending /\ accepting \in Seq(Request)
      /\ waiters \in 0..MaxWaiters
  BY DEF Carried
<1>2. /\ Append(queue, r) \in Seq(Request) /\ Len(Append(queue, r)) = Len(queue) + 1
      /\ Append(accepting, r) \in Seq(Request)
  BY <1>1
<1>3. waiters > 0 => waiters - 1 \in 0..MaxWaiters  BY <1>1, HttpAssumption
<1>4. Room => Len(queue) + 1 <= MaxPending  BY <1>1, HttpAssumption DEF Room
<1>5. /\ queue' \in Seq(Request) /\ Len(queue') <= MaxPending
      /\ accepting' \in Seq(Request) /\ waiters' \in 0..MaxWaiters
  BY <1>1, <1>2, <1>3, <1>4 DEF Submit
<1> QED  BY <1>5 DEF Carried, wrapperVars, bodyVars, writeVars

LEMMA ClientCarried ==
  ASSUME Carried, NEW r \in Request, Client(r)
  PROVE  Carried'
<1>1. CASE Submit(r) /\ UNCHANGED <<streaming, closed, held, wrapperVars, bodyVars, writeVars>>
  BY <1>1, SubmitCarried
<1>2. CASE UNCHANGED <<streaming, closed, held, wrapperVars, bodyVars, writeVars,
                       queue, waiters, accepting>>
  BY <1>2 DEF Carried, wrapperVars, bodyVars, writeVars
<1> QED  BY <1>1, <1>2 DEF Client, Arrive, Uploaded, Disconnect, acceptVars

LEMMA ClearCarried ==
  ASSUME Carried, NEW r \in Request, ClearRequest(r)
  PROVE  known' \in SUBSET Request /\ rest' \in [Request -> Seq(Piece)]
BY DEF Carried, ClearRequest

LEMMA TimeoutCarried ==
  ASSUME Carried, NEW r \in Request, Timeout(r)
  PROVE  Carried'
<1>1. UNCHANGED <<streaming, closed, acceptVars, bodyVars, writeVars>>  BY DEF Timeout
<1>2. CASE CompletePending(r)
  <2>1. known' \in SUBSET Request /\ rest' \in [Request -> Seq(Piece)]
    BY <1>2, ClearCarried DEF CompletePending, Release
  <2>2. queue' = Without(r)  BY <1>2 DEF CompletePending
  <2>3. queue' \in Seq(Request) /\ Len(queue') <= Len(queue)  BY <2>2, WithoutFacts
  <2>4. queue \in Seq(Request) /\ Len(queue) <= MaxPending  BY DEF Carried
  <2>5. Len(queue') <= MaxPending  BY <2>3, <2>4, HttpAssumption
  <2> QED  BY <1>1, <2>1, <2>3, <2>5 DEF Carried, acceptVars, bodyVars, writeVars
<1>3. CASE UNCHANGED <<queue, wrapperVars>>
  BY <1>1, <1>3 DEF Carried, acceptVars, wrapperVars, bodyVars, writeVars
<1> QED  BY <1>2, <1>3 DEF Timeout

LEMMA AcceptCarried ==
  ASSUME Carried, Accept
  PROVE  Carried'
<1>1. queue \in Seq(Request) /\ Len(queue) <= MaxPending /\ accepting \in Seq(Request)
      /\ waiters \in 0..MaxWaiters
  BY DEF Carried
<1>2. CASE queue # <<>>
  <2>1. Tail(queue) \in Seq(Request) /\ Len(Tail(queue)) = Len(queue) - 1 /\ Head(queue) \in Request
    BY <1>1, <1>2
  <2>2. queue' = Tail(queue) /\ accepting' = Append(accepting, Head(queue)) /\ waiters' = waiters
    BY <1>2 DEF Accept
  <2>3. queue' \in Seq(Request) /\ Len(queue') <= MaxPending /\ accepting' \in Seq(Request)
    BY <1>1, <2>1, <2>2, HttpAssumption
  <2> QED  BY <2>2, <2>3 DEF Accept, Carried, wrapperVars, bodyVars, writeVars
<1>3. CASE queue = <<>>
  <2>1. waiters' \in 0..MaxWaiters  BY <1>1, <1>3, HttpAssumption DEF Accept
  <2> QED  BY <1>3, <2>1 DEF Accept, Carried, wrapperVars, bodyVars, writeVars
<1> QED  BY <1>2, <1>3

LEMMA AcceptReturnsCarried ==
  ASSUME Carried, AcceptReturns
  PROVE  Carried'
<1>1. accepting \in Seq(Request) /\ accepting # <<>>  BY DEF Carried, AcceptReturns
<1>2. Tail(accepting) \in Seq(Request) /\ Head(accepting) \in Request  BY <1>1
<1>3. <<>> \in Seq(Piece)  OBVIOUS
<1>4. known' \in SUBSET Request /\ held' \in SUBSET Request
      /\ rest' \in [Request -> Seq(Piece)] /\ accepting' \in Seq(Request)
  BY <1>2, <1>3 DEF Carried, AcceptReturns
<1> QED  BY <1>4 DEF Carried, AcceptReturns, exchangeVars, bodyVars, writeVars

(* What a read brings.                                                      *)
LEMMA GiveCarried ==
  ASSUME Carried, NEW r \in Request, NEW chunk \in Seq(Piece), chunk # <<>>
  PROVE  /\ [got EXCEPT ![r] = Append(@, Head(chunk))] \in [Request -> Seq(Piece)]
         /\ [rest EXCEPT ![r] = Tail(chunk)] \in [Request -> Seq(Piece)]
<1>1. Head(chunk) \in Piece /\ Tail(chunk) \in Seq(Piece)  OBVIOUS
<1>2. got[r] \in Seq(Piece)  BY DEF Carried
<1>3. Append(got[r], Head(chunk)) \in Seq(Piece)  BY <1>1, <1>2
<1> QED  BY <1>1, <1>3 DEF Carried

LEMMA ReadCases ==
  ASSUME Carried, NEW c \in Reader, reads[c] # NoRead
  PROVE  /\ reads[c].request \in Request
         /\ reads[c].at = "native" => reads[c] = [at |-> "native", request |-> reads[c].request]
         /\ reads[c].at = "back" => reads[c].chunk \in Seq(Piece)
         /\ reads[c].at \in {"native", "back"}
BY DEF Carried, Read

LEMMA ReadingCarried ==
  ASSUME Carried, Reading
  PROVE  Carried'
<1>1. ASSUME NEW r \in Request, ReadRest(r)  PROVE Carried'
  <2>1. rest[r] \in Seq(Piece) /\ rest[r] # <<>>  BY <1>1 DEF ReadRest, Carried
  <2>2. got' \in [Request -> Seq(Piece)] /\ rest' \in [Request -> Seq(Piece)]
    BY <1>1, <2>1, GiveCarried DEF ReadRest, Give
  <2> QED  BY <1>1, <2>2 DEF ReadRest, Carried, exchangeVars, acceptVars, writeVars
<1>2. ASSUME NEW r \in Request, NEW c \in Reader, ReadBody(c, r)  PROVE Carried'
  <2>1. reads' \in [Reader -> Read]  BY <1>2 DEF ReadBody, Carried, Read
  <2> QED  BY <1>2, <2>1
           DEF ReadBody, Carried, exchangeVars, acceptVars, wrapperVars, writeVars
<1>3. ASSUME NEW c \in Reader, NativeRead(c)  PROVE Carried'
  <2> DEFINE r == reads[c].request
  <2>1. reads[c] # NoRead  BY <1>3 DEF NativeRead, NoRead
  <2>2. r \in Request /\ sent[r] \in Nat  BY <2>1, ReadCases DEF Carried
  <2>3. ASSUME NEW n \in 1..2 PROVE [i \in 1..n |-> sent[r] + i] \in Seq(Piece)
    <3>1. \A i \in 1..n : sent[r] + i \in Piece  BY <2>2 DEF Piece
    <3> QED  BY <3>1, IsASeq
  <2>4. <<>> \in Seq(Piece)  OBVIOUS
  <2>5. \A chunk \in Seq(Piece) : [at |-> "back", request |-> r, chunk |-> chunk] \in Read
    BY <2>2 DEF Read
  <2>6. reads' \in [Reader -> Read]
    <3>1. NoRead \in Read  BY DEF Read
    <3>2. PICK x \in Read : reads' = [reads EXCEPT ![c] = x]
      BY <1>3, <2>3, <2>4, <2>5, <3>1 DEF NativeRead
    <3> QED  BY <3>2 DEF Carried
  <2>7. sent' \in [Request -> Nat]
    <3>1. \A n \in 1..2 : sent[r] + n \in Nat  BY <2>2
    <3>2. (\E n \in 1..2 : sent' = [sent EXCEPT ![r] = sent[r] + n]) \/ UNCHANGED sent
      BY <1>3 DEF NativeRead
    <3> QED  BY <3>1, <3>2 DEF Carried
  <2> QED  BY <1>3, <2>6, <2>7 DEF NativeRead, Carried, acceptVars, wrapperVars, writeVars
<1>4. ASSUME NEW c \in Reader, ReadReturns(c)  PROVE Carried'
  <2> DEFINE r == reads[c].request
             chunk == reads[c].chunk
  <2>1. reads[c] # NoRead  BY <1>4 DEF ReadReturns, NoRead
  <2>2. r \in Request /\ chunk \in Seq(Piece)  BY <1>4, <2>1, ReadCases DEF ReadReturns
  <2>3. reads' \in [Reader -> Read]  BY <1>4 DEF ReadReturns, Carried, Read
  <2>4. /\ got' \in [Request -> Seq(Piece)] /\ rest' \in [Request -> Seq(Piece)]
        /\ known' \in SUBSET Request
    <3>1. got \in [Request -> Seq(Piece)] /\ rest \in [Request -> Seq(Piece)]
          /\ known \in SUBSET Request
      BY DEF Carried
    <3>2. CASE r \notin known  BY <1>4, <3>1, <3>2 DEF ReadReturns, wrapperVars
    <3>3. CASE r \in known /\ chunk = <<>>
      BY <1>4, <3>1, <3>3, <2>2, ClearCarried DEF ReadReturns
    <3>4. CASE r \in known /\ chunk # <<>>
      <4>1. \/ got' = [got EXCEPT ![r] = Append(@, Head(chunk))] /\ UNCHANGED wrapperVars
            \/ Give(r, chunk) /\ UNCHANGED known
        BY <1>4, <3>4 DEF ReadReturns
      <4>2. /\ [got EXCEPT ![r] = Append(@, Head(chunk))] \in [Request -> Seq(Piece)]
            /\ [rest EXCEPT ![r] = Tail(chunk)] \in [Request -> Seq(Piece)]
        BY <2>2, <3>4, GiveCarried
      <4> HIDE DEF r, chunk
      <4> QED  BY <3>1, <4>1, <4>2 DEF Give, wrapperVars
    <3> QED  BY <3>2, <3>3, <3>4
  <2> QED  BY <1>4, <2>3, <2>4 DEF ReadReturns, Carried, exchangeVars, acceptVars, writeVars
<1> QED  BY <1>1, <1>2, <1>3, <1>4 DEF Reading

LEMMA AnsweringCarried ==
  ASSUME Carried, NEW r \in Request, Answering(r)
  PROVE  Carried'
<1>1. UNCHANGED <<streaming, closed, queue, acceptVars, bodyVars>>
  BY DEF Answering, Respond, StartResponse, WriteResponse, WriteSucceeds, WriteFails,
         FinishResponse
<1>2. known' \in SUBSET Request /\ rest' \in [Request -> Seq(Piece)]
  <2>1. CASE ClearRequest(r)  BY <2>1, ClearCarried
  <2>2. CASE UNCHANGED wrapperVars  BY <2>2 DEF wrapperVars, Carried
  <2> QED  BY <2>1, <2>2 DEF Answering, Respond, StartResponse, WriteResponse, WriteSucceeds,
                             WriteFails, FinishResponse, Release
<1>3. writes' \in [Request -> Nat] /\ written' \in [Request -> Nat]
  <2>1. writes[r] \in Nat /\ written[r] \in Nat  BY DEF Carried
  <2>2. CASE WriteResponse(r)  BY <2>1, <2>2 DEF WriteResponse, Carried
  <2>3. CASE WriteSucceeds(r) \/ WriteFails(r)
    <3>1. writes[r] > 0 /\ writes' = [writes EXCEPT ![r] = writes[r] - 1] /\ UNCHANGED written
      BY <2>3 DEF WriteSucceeds, WriteFails
    <3>2. writes[r] - 1 \in Nat  BY <2>1, <3>1
    <3> QED  BY <3>1, <3>2 DEF Carried
  <2>4. CASE UNCHANGED writeVars  BY <2>4 DEF writeVars, Carried
  <2> QED  BY <2>2, <2>3, <2>4 DEF Answering, Respond, StartResponse, FinishResponse
<1> QED  BY <1>1, <1>2, <1>3 DEF Carried, acceptVars, bodyVars

LEMMA EndCarried ==
  ASSUME Carried, Close \/ ServerClosed
  PROVE  Carried'
<1>1. queue' = <<>> /\ waiters' = 0  BY DEF Close, ServerClosed, ReleaseAll
<1>2. <<>> \in Seq(Piece)  OBVIOUS
<1>3. known' \in SUBSET Request /\ rest' \in [Request -> Seq(Piece)] /\ closed' \in BOOLEAN
  BY <1>2 DEF Close, ServerClosed, Carried, wrapperVars
<1>4. UNCHANGED <<streaming, accepting, held, bodyVars, writeVars>>  BY DEF Close, ServerClosed
<1>5. queue' \in Seq(Request) /\ Len(queue') <= MaxPending /\ waiters' \in 0..MaxWaiters
  BY <1>1, HttpAssumption
<1> QED  BY <1>3, <1>4, <1>5 DEF Carried, bodyVars, writeVars

LEMMA StepCarried == Carried /\ [Next]_vars => Carried'
<1> SUFFICES ASSUME Carried, [Next]_vars  PROVE Carried'  OBVIOUS
<1>1. CASE \E r \in Request : Client(r) \/ Timeout(r) \/ Answering(r)
  BY <1>1, ClientCarried, TimeoutCarried, AnsweringCarried
<1>2. CASE Accept  BY <1>2, AcceptCarried
<1>3. CASE AcceptReturns  BY <1>3, AcceptReturnsCarried
<1>4. CASE Reading  BY <1>4, ReadingCarried
<1>5. CASE Close \/ ServerClosed  BY <1>5, EndCarried
<1>6. CASE UNCHANGED vars
  BY <1>6 DEF vars, exchangeVars, acceptVars, wrapperVars, bodyVars, writeVars, Carried
<1> QED  BY <1>1, <1>2, <1>3, <1>4, <1>5, <1>6 DEF Next

(* The variables keep their types; above all the accept queue never holds   *)
(* more than maxPendingRequests, and no more accept calls wait than may.    *)
THEOREM TypeCorrect == Spec => []TypeOK
<1>1. SlotInv /\ Carried => TypeOK
  <2> SUFFICES ASSUME SlotInv, Carried PROVE TypeOK  OBVIOUS
  <2>1. bodies \in SUBSET Request /\ pending \in SUBSET Request  BY DEF SlotInv, BodyOwned
  <2> QED  BY <2>1 DEF SlotInv, Carried, TypeOK
<1> QED  BY InitSlot, StepSlot, InitCarried, StepCarried, <1>1, PTL DEF Spec

-----------------------------------------------------------------------------
(* Where a request is.  One that waits in the queue, or for the accept that *)
(* it was given to, is open and the program has no handle of it yet; one    *)
(* that is new is nowhere; what is written belongs to a request the program *)
(* holds.  While the server is open the wrapper knows only pending ones.    *)
Unanswered(r) == r \in pending /\ ~record[r].completed /\ ~record[r].started
Unknown(r) == r \notin held \cup known

Place(r) ==
  /\ In(queue, r) => Unanswered(r) /\ Unknown(r)
  /\ In(accepting, r) => /\ ~In(queue, r) /\ Unknown(r) /\ ~New(r)
                         /\ ~closed => Unanswered(r)
  /\ New(r) => ~In(queue, r) /\ ~In(accepting, r) /\ Unknown(r) /\ ~record[r].registered
  /\ writes[r] > 0 => r \in held
  /\ r \in pending => record[r].registered
  /\ client[r] = "streaming" => record[r].started
  /\ ~closed /\ r \in known => r \in pending

Lines ==
  /\ IsInjective(queue) /\ IsInjective(accepting)
  /\ queue # <<>> => waiters = 0

OrderInv == SlotInv /\ Carried /\ Lines /\ \A r \in Request : Place(r)

LEMMA EmptyIn == ASSUME NEW r PROVE ~In(<<>>, r) /\ IsInjective(<<>>)
BY DEF In, IsInjective

LEMMA InitOrder == Init => OrderInv
<1> SUFFICES ASSUME Init PROVE OrderInv  OBVIOUS
<1>1. SlotInv /\ Carried  BY InitSlot, InitCarried
<1>2. Lines  BY EmptyIn DEF Init, Lines
<1>3. ASSUME NEW r \in Request PROVE Place(r)
  <2>1. ~In(queue, r) /\ ~In(accepting, r)  BY EmptyIn DEF Init
  <2> QED  BY <2>1 DEF Init, Place, Unknown, New, Absent
<1> QED  BY <1>1, <1>2, <1>3 DEF OrderInv

(* What a step may leave as it was of a request.                            *)
Apart(q) ==
  /\ record'[q] = record[q] /\ client'[q] = client[q] /\ writes'[q] = writes[q]
  /\ q \in pending' <=> q \in pending
  /\ q \in known' <=> q \in known
  /\ q \in held' <=> q \in held
  /\ In(queue', q) <=> In(queue, q)
  /\ In(accepting', q) <=> In(accepting, q)

LEMMA ApartKept ==
  ASSUME NEW q \in Request, Place(q), Apart(q), UNCHANGED closed
  PROVE  Place(q)'
BY DEF Place, Apart, Unanswered, Unknown, New

LEMMA OneMoves ==
  ASSUME OrderInv, NEW r \in Request, UNCHANGED closed,
         \A q \in Request \ {r} : Apart(q), Place(r)'
  PROVE  \A q \in Request : Place(q)'
<1> SUFFICES ASSUME NEW q \in Request PROVE Place(q)'  OBVIOUS
<1>1. CASE q = r  BY <1>1
<1>2. CASE q # r  BY <1>2, ApartKept DEF OrderInv
<1> QED  BY <1>1, <1>2

LEMMA NoneMoves ==
  ASSUME OrderInv, UNCHANGED <<closed, record, client, writes, pending, held, queue, accepting>>,
         known' \subseteq known
  PROVE  \A q \in Request : Place(q)'
BY DEF OrderInv, Place, Unanswered, Unknown, New

(* Only the watchdog or the state of one response changes.                  *)
LEMMA RecordMoves ==
  ASSUME OrderInv, NEW r \in Request, record' \in [Request -> Response],
         \A q \in Request \ {r} : record'[q] = record[q],
         record'[r].registered = record[r].registered,
         record'[r].started = record[r].started,
         record'[r].completed # record[r].completed => r \in held,
         writes' = [writes EXCEPT ![r] = writes'[r]],
         writes'[r] > 0 => r \in held,
         UNCHANGED <<closed, client, pending, known, held, queue, accepting>>
  PROVE  \A q \in Request : Place(q)'
<1>1. Place(r)  BY DEF OrderInv
<1>2. record[r] \in Response /\ record'[r] \in Response  BY DEF OrderInv, SlotInv
<1>3. Place(r)'  BY <1>1, <1>2 DEF Place, Unanswered, Unknown, New, Response
<1>4. \A q \in Request \ {r} : Apart(q)  BY DEF OrderInv, Carried, Apart
<1> QED  BY <1>3, <1>4, OneMoves

LEMMA Rewatched ==
  ASSUME OrderInv, NEW r \in Request, NEW b \in BOOLEAN,
         record' = [record EXCEPT ![r].armed = b],
         UNCHANGED <<closed, client, pending, known, held, queue, accepting, writes>>
  PROVE  \A q \in Request : Place(q)'
<1>1. record[r] \in Response  BY DEF OrderInv, SlotInv
<1> DEFINE new == [record[r] EXCEPT !.armed = b]
<1>2. /\ new \in Response /\ new.registered = record[r].registered
      /\ new.started = record[r].started /\ new.completed = record[r].completed
  BY <1>1, Responses DEF Response
<1>3. record' = [record EXCEPT ![r] = new]  OBVIOUS
<1> HIDE DEF new
<1>4. record' \in [Request -> Response] /\ record'[r] = new
      /\ \A q \in Request \ {r} : record'[q] = record[q]
  BY <1>2, <1>3 DEF OrderInv, SlotInv
<1>5. writes' = [writes EXCEPT ![r] = writes'[r]] /\ (writes'[r] > 0 => r \in held)
  BY DEF OrderInv, Carried, Place
<1> QED  BY <1>2, <1>4, <1>5, RecordMoves

LEMMA SeenMoves ==
  ASSUME OrderInv, NEW r \in Request, NEW seen \in Seen, Sees(r, seen),
         seen \in {"absent", "uploading"} => New(r),
         seen = "streaming" => record[r].started,
         UNCHANGED <<closed, record, writes, pending, known, held, queue, accepting>>
  PROVE  \A q \in Request : Place(q)'
<1>1. client'[r] = seen /\ \A q \in Request \ {r} : client'[q] = client[q]
  BY DEF Sees, OrderInv, SlotInv
<1>2. Place(r)  BY DEF OrderInv
<1>3. Place(r)'  BY <1>1, <1>2 DEF Place, Unanswered, Unknown, New
<1>4. \A q \in Request \ {r} : Apart(q)  BY <1>1 DEF Apart
<1> QED  BY <1>3, <1>4, OneMoves

-----------------------------------------------------------------------------
LEMMA SubmitOrder ==
  ASSUME OrderInv, NEW r \in Request, New(r), Submit(r),
         UNCHANGED <<closed, known, held, writes>>
  PROVE  Lines' /\ \A q \in Request : Place(q)'
<1>1. Place(r) /\ r \notin pending  BY DEF OrderInv, SlotInv
<1>2. ~In(queue, r) /\ ~In(accepting, r) /\ Unknown(r)  BY <1>1 DEF Place
<1>3. queue \in Seq(Request) /\ accepting \in Seq(Request)  BY DEF OrderInv, Carried
<1>4. CASE waiters > 0 /\ waiters' = waiters - 1 /\ accepting' = Append(accepting, r)
           /\ Register(r) /\ UNCHANGED queue
  <2>1. /\ \A y : In(accepting', y) <=> y = r \/ In(accepting, y)
        /\ IsInjective(accepting')
    BY <1>2, <1>3, <1>4, AppendIn DEF OrderInv, Lines
  <2>2. /\ record'[r] = [Absent EXCEPT !.registered = TRUE, !.armed = TRUE]
        /\ client'[r] = "waiting" /\ r \in pending'
        /\ \A q \in Request \ {r} : /\ record'[q] = record[q] /\ client'[q] = client[q]
                                    /\ q \in pending' <=> q \in pending
    BY <1>4 DEF Register, Sees, OrderInv, SlotInv
  <2>3. Place(r)'  BY <1>1, <1>2, <1>4, <2>1, <2>2 DEF Place, Unanswered, Unknown, New, Absent
  <2>4. \A q \in Request \ {r} : Apart(q)  BY <1>4, <2>1, <2>2 DEF Apart
  <2>5. Lines'  BY <1>4, <2>1 DEF OrderInv, Lines, Carried
  <2> QED  BY <2>3, <2>4, <2>5, OneMoves
<1>5. CASE waiters = 0 /\ queue' = Append(queue, r)
           /\ Register(r) /\ UNCHANGED <<waiters, accepting>>
  <2>1. /\ \A y : In(queue', y) <=> y = r \/ In(queue, y)
        /\ IsInjective(queue')
    BY <1>2, <1>3, <1>5, AppendIn DEF OrderInv, Lines
  <2>2. /\ record'[r] = [Absent EXCEPT !.registered = TRUE, !.armed = TRUE]
        /\ client'[r] = "waiting" /\ r \in pending'
        /\ \A q \in Request \ {r} : /\ record'[q] = record[q] /\ client'[q] = client[q]
                                    /\ q \in pending' <=> q \in pending
    BY <1>5 DEF Register, Sees, OrderInv, SlotInv
  <2>3. Place(r)'  BY <1>1, <1>2, <1>5, <2>1, <2>2 DEF Place, Unanswered, Unknown, New, Absent
  <2>4. \A q \in Request \ {r} : Apart(q)  BY <1>5, <2>1, <2>2 DEF Apart
  <2>5. Lines'  BY <1>5, <2>1 DEF OrderInv, Lines
  <2> QED  BY <2>3, <2>4, <2>5, OneMoves
<1>6. CASE /\ record' = [record EXCEPT ![r] = [Absent EXCEPT !.registered = TRUE, !.completed = TRUE]]
           /\ Sees(r, "refused")
           /\ UNCHANGED <<pending, queue, waiters, accepting>>
  <2>1. /\ record'[r] = [Absent EXCEPT !.registered = TRUE, !.completed = TRUE]
        /\ client'[r] = "refused"
        /\ \A q \in Request \ {r} : record'[q] = record[q] /\ client'[q] = client[q]
    BY <1>6 DEF Sees, OrderInv, SlotInv
  <2>2. Place(r)'  BY <1>1, <1>2, <1>6, <2>1 DEF Place, Unanswered, Unknown, New, Absent
  <2>3. \A q \in Request \ {r} : Apart(q)  BY <1>6, <2>1 DEF Apart
  <2>4. Lines'  BY <1>6 DEF OrderInv, Lines
  <2> QED  BY <2>2, <2>3, <2>4, OneMoves
<1> QED  BY <1>4, <1>5, <1>6 DEF Submit

LEMMA ClientOrder ==
  ASSUME OrderInv, NEW r \in Request, Client(r)
  PROVE  Lines' /\ \A q \in Request : Place(q)'
<1>1. UNCHANGED <<closed, known, held, writes>>
  BY DEF Client, Arrive, Uploaded, Disconnect, wrapperVars, writeVars, acceptVars
<1>2. CASE Submit(r) /\ New(r)  BY <1>1, <1>2, SubmitOrder
<1>3. CASE /\ \E seen \in Seen : /\ Sees(r, seen)
                                 /\ seen \in {"absent", "uploading"} => New(r)
                                 /\ seen # "streaming"
           /\ UNCHANGED <<pending, record, queue, waiters, accepting>>
  <2>1. \A q \in Request : Place(q)'  BY <1>1, <1>3, SeenMoves
  <2> QED  BY <1>3, <2>1 DEF OrderInv, Lines
<1> QED  BY <1>2, <1>3 DEF Client, Arrive, Uploaded, Disconnect, New, Seen, acceptVars

(* A response that is completed is in no line any more.                     *)
LEMMA ReleaseOrder ==
  ASSUME OrderInv, NEW r \in Request, Release(r),
         ~In(queue', r), ~In(accepting, r), ~New(r)',
         client'[r] = "streaming" => record[r].started,
         \A q \in Request \ {r} :
           client'[q] = client[q] /\ (In(queue', q) <=> In(queue, q)),
         UNCHANGED <<closed, held, accepting, writes>>
  PROVE  \A q \in Request : Place(q)'
<1>1. record[r] \in Response /\ Place(r)  BY DEF OrderInv, SlotInv
<1>2. /\ r \notin pending' /\ r \notin known'
      /\ \A q \in Request \ {r} : /\ q \in pending' <=> q \in pending
                                  /\ q \in known' <=> q \in known
                                  /\ record'[q] = record[q]
  BY DEF Release, ClearRequest, OrderInv, SlotInv
<1>3. record'[r].started = record[r].started
  BY <1>1 DEF Release, Completed, OrderInv, SlotInv, Response
<1>4. Place(r)'  BY <1>1, <1>2, <1>3 DEF Place
<1>5. \A q \in Request \ {r} : Apart(q)  BY <1>2 DEF Apart
<1> QED  BY <1>4, <1>5, OneMoves

LEMMA TimeoutOrder ==
  ASSUME OrderInv, NEW r \in Request, Timeout(r)
  PROVE  Lines' /\ \A q \in Request : Place(q)'
<1>1. accepting = <<>> /\ UNCHANGED <<closed, held, accepting, writes, waiters>>
  BY DEF Timeout, NoMicrotask, acceptVars, writeVars
<1>2. CASE r \in pending /\ ~record[r].completed
  <2>1. Release(r) /\ queue' = Without(r) /\ Sees(r, HostEnd(r))
    BY <1>2 DEF Timeout, CompletePending
  <2>2. /\ Len(queue') <= Len(queue) /\ queue' \in Seq(Request)
        /\ \A q : In(queue', q) => In(queue, q)
        /\ \A q : In(queue, q) /\ q # r => In(queue', q)
        /\ IsInjective(queue') /\ ~In(queue', r)
    BY <2>1, WithoutFacts DEF OrderInv, Lines
  <2>3. /\ client'[r] = HostEnd(r)
        /\ \A q \in Request \ {r} : client'[q] = client[q]
    BY <2>1 DEF Sees, OrderInv, SlotInv
  <2>4. ~New(r) /\ Place(r)  BY <1>2 DEF OrderInv, SlotInv
  <2>5. ~New(r)' /\ client'[r] # "streaming"  BY <2>3, <2>4 DEF New, HostEnd, Open
  <2>6. ~In(accepting, r)  BY <1>1, EmptyIn
  <2>7. \A q \in Request : Place(q)'  BY <1>1, <2>1, <2>2, <2>3, <2>5, <2>6, ReleaseOrder
  <2>8. queue' # <<>> => queue # <<>>  BY <2>2 DEF OrderInv, Carried
  <2> QED  BY <1>1, <2>2, <2>7, <2>8 DEF OrderInv, Lines
<1>3. CASE ~(r \in pending /\ ~record[r].completed)
  <2>1. /\ record' = [record EXCEPT ![r].armed = FALSE]
        /\ UNCHANGED <<client, pending, queue, known>>
    BY <1>3 DEF Timeout, wrapperVars
  <2>2. \A q \in Request : Place(q)'  BY <1>1, <2>1, Rewatched
  <2> QED  BY <1>1, <2>1, <2>2 DEF OrderInv, Lines
<1> QED  BY <1>2, <1>3

LEMMA AcceptOrder ==
  ASSUME OrderInv, Accept
  PROVE  Lines' /\ \A q \in Request : Place(q)'
<1>1. UNCHANGED <<closed, client, pending, record, held, known, writes>>
  BY DEF Accept, wrapperVars, writeVars
<1>2. queue \in Seq(Request) /\ accepting \in Seq(Request)  BY DEF OrderInv, Carried
<1>3. CASE queue # <<>>
  <2>1. PICK h \in Request : h = Head(queue)  BY <1>2, <1>3
  <2>2. queue' = Tail(queue) /\ accepting' = Append(accepting, h) /\ UNCHANGED waiters
    BY <1>3, <2>1 DEF Accept
  <2>3. /\ \A y : In(queue', y) => In(queue, y)
        /\ \A y : In(queue, y) => y = h \/ In(queue', y)
        /\ In(queue, h) /\ IsInjective(queue') /\ ~In(queue', h)
    BY <1>2, <1>3, <2>1, <2>2, TailIn DEF OrderInv, Lines
  <2>4. Place(h) /\ Unanswered(h) /\ Unknown(h) /\ ~New(h) /\ ~In(accepting, h)
    BY <2>1, <2>3 DEF OrderInv, Place, Unanswered, SlotInv
  <2>5. /\ \A y : In(accepting', y) <=> y = h \/ In(accepting, y)
        /\ IsInjective(accepting')
    BY <1>2, <2>1, <2>2, <2>4, AppendIn DEF OrderInv, Lines
  <2>6. Place(h)'  BY <1>1, <2>3, <2>4, <2>5 DEF Place, Unanswered, Unknown, New
  <2>7. \A q \in Request \ {h} : Apart(q)  BY <1>1, <2>3, <2>5 DEF Apart
  <2>8. \A q \in Request : Place(q)'  BY <1>1, <2>1, <2>6, <2>7, OneMoves
  <2> QED  BY <1>3, <2>2, <2>3, <2>5, <2>8 DEF OrderInv, Lines
<1>4. CASE queue = <<>>
  <2>1. UNCHANGED <<queue, accepting>>  BY <1>4 DEF Accept
  <2>2. \A q \in Request : Place(q)'  BY <1>1, <2>1, NoneMoves
  <2> QED  BY <1>4, <2>1, <2>2 DEF OrderInv, Lines
<1> QED  BY <1>3, <1>4

LEMMA AcceptReturnsOrder ==
  ASSUME OrderInv, AcceptReturns
  PROVE  Lines' /\ \A q \in Request : Place(q)'
<1>1. UNCHANGED <<closed, client, pending, record, queue, waiters, writes>>
  BY DEF AcceptReturns, exchangeVars, writeVars
<1>2. accepting \in Seq(Request) /\ accepting # <<>>  BY DEF OrderInv, Carried, AcceptReturns
<1>3. PICK h \in Request : h = Head(accepting)  BY <1>2
<1>4. accepting' = Tail(accepting) /\ known' = known \cup {h} /\ held' \in {held, held \cup {h}}
  BY <1>3 DEF AcceptReturns
<1>5. /\ \A y : In(accepting', y) => In(accepting, y)
      /\ \A y : In(accepting, y) => y = h \/ In(accepting', y)
      /\ In(accepting, h) /\ IsInjective(accepting') /\ ~In(accepting', h)
  BY <1>2, <1>3, <1>4, TailIn DEF OrderInv, Lines
<1>6. Place(h)  BY <1>3 DEF OrderInv
<1>7. ~In(queue, h) /\ ~New(h) /\ (~closed => h \in pending)  BY <1>5, <1>6 DEF Place, Unanswered
<1>8. Place(h)'  BY <1>1, <1>4, <1>5, <1>6, <1>7 DEF Place, New
<1>9. \A q \in Request \ {h} : Apart(q)  BY <1>1, <1>4, <1>5 DEF Apart
<1>10. \A q \in Request : Place(q)'  BY <1>1, <1>3, <1>8, <1>9, OneMoves
<1> QED  BY <1>1, <1>5, <1>10 DEF OrderInv, Lines

LEMMA ReadingOrder ==
  ASSUME OrderInv, Reading
  PROVE  Lines' /\ \A q \in Request : Place(q)'
<1>1. UNCHANGED <<closed, client, pending, queue, waiters, accepting, held, writes>>
  BY DEF Reading, ReadRest, ReadBody, NativeRead, ReadReturns, exchangeVars, acceptVars, writeVars
<1>2. Lines'  BY <1>1 DEF OrderInv, Lines
<1>3. CASE UNCHANGED record /\ known' \subseteq known  BY <1>1, <1>2, <1>3, NoneMoves
<1>4. ASSUME NEW c \in Reader, NativeRead(c)  PROVE \A q \in Request : Place(q)'
  <2> DEFINE r == reads[c].request
             b == record[r].armed \/ (r \in pending /\ ~record[r].completed)
  <2>1. reads[c] # NoRead  BY <1>4 DEF NativeRead, NoRead
  <2>2. r \in Request  BY <2>1, ReadCases DEF OrderInv
  <2>3. b \in BOOLEAN  BY <2>2 DEF OrderInv, SlotInv, Response
  <2>4. UNCHANGED known  BY <1>4 DEF NativeRead, wrapperVars
  <2>5. record' = [record EXCEPT ![r].armed = b] \/ UNCHANGED record  BY <1>4 DEF NativeRead
  <2> HIDE DEF r, b
  <2> QED  BY <1>1, <2>2, <2>3, <2>4, <2>5, Rewatched, NoneMoves
<1>5. ASSUME NEW c \in Reader, ReadReturns(c)  PROVE known' \subseteq known
  BY <1>5 DEF ReadReturns, wrapperVars, ClearRequest
<1> QED
  BY <1>2, <1>3, <1>4, <1>5
     DEF Reading, ReadRest, ReadBody, ReadReturns, exchangeVars, wrapperVars

LEMMA AnsweringOrder ==
  ASSUME OrderInv, NEW r \in Request, Answering(r)
  PROVE  Lines' /\ \A q \in Request : Place(q)'
<1> USE DEF OrderInv
<1>0. /\ Place(r) /\ record[r] \in Response /\ client[r] \in Seen
      /\ \A q \in Request : writes[q] \in Nat
  BY DEF SlotInv, Carried
<1>1. UNCHANGED <<closed, queue, waiters, accepting, held>>
  BY DEF Answering, Respond, StartResponse, WriteResponse, WriteSucceeds, WriteFails,
         FinishResponse, acceptVars
<1>2. Lines'  BY <1>1 DEF Lines
<1>3. r \in held
  BY <1>0 DEF Place, Answering, Respond, StartResponse, WriteResponse, WriteSucceeds, WriteFails,
              FinishResponse
<1>4. ~In(queue, r) /\ ~In(accepting, r) /\ ~New(r)  BY <1>0, <1>3 DEF Place, Unknown
<1> DEFINE answered == IF client[r] \in Open THEN "answered" ELSE client[r]
<1>5. CASE Release(r) /\ (UNCHANGED client \/ Sees(r, answered)) /\ UNCHANGED writes
  <2>1. /\ client'[r] \in {client[r], "answered"}
        /\ \A q \in Request \ {r} : client'[q] = client[q]
    BY <1>5 DEF Sees, SlotInv
  <2>2. ~New(r)' /\ (client'[r] = "streaming" => record[r].started)
    BY <1>0, <1>4, <2>1 DEF New, Place
  <2> QED  BY <1>1, <1>2, <1>4, <1>5, <2>1, <2>2, ReleaseOrder
<1>6. CASE ClearRequest(r) /\ UNCHANGED <<client, pending, record, writes>>
  BY <1>1, <1>2, <1>6, NoneMoves DEF ClearRequest
<1>7. CASE StartResponse(r)
  <2>1. UNCHANGED <<pending, known, writes>>  BY <1>7 DEF StartResponse, wrapperVars, writeVars
  <2>2. /\ record'[r] = [record[r] EXCEPT !.started = TRUE, !.armed = TRUE]
        /\ \A q \in Request \ {r} : record'[q] = record[q] /\ client'[q] = client[q]
        /\ client'[r] \in {client[r], "streaming"}
    BY <1>7 DEF StartResponse, Sees, SlotInv
  <2>3. record'[r].started /\ record'[r].registered = record[r].registered
    BY <1>0, <2>2 DEF Response
  <2>4. Place(r)'  BY <1>0, <1>1, <1>3, <1>4, <2>1, <2>2, <2>3 DEF Place, New
  <2>5. \A q \in Request \ {r} : Apart(q)  BY <1>1, <2>1, <2>2 DEF Apart
  <2> QED  BY <1>1, <1>2, <2>4, <2>5, OneMoves
<1>8. CASE WriteResponse(r)
  <2>1. UNCHANGED <<pending, known, record>>  BY <1>8 DEF WriteResponse, wrapperVars
  <2>2. /\ client'[r] \in {client[r], "streaming"} /\ record[r].started
        /\ \A q \in Request \ {r} : writes'[q] = writes[q] /\ client'[q] = client[q]
    BY <1>8 DEF WriteResponse, Sees, SlotInv, Carried
  <2>3. Place(r)'  BY <1>0, <1>1, <1>3, <1>4, <2>1, <2>2 DEF Place, New
  <2>4. \A q \in Request \ {r} : Apart(q)  BY <1>1, <2>1, <2>2 DEF Apart
  <2> QED  BY <1>1, <1>2, <2>3, <2>4, OneMoves
<1>9. CASE WriteSucceeds(r) \/ WriteFails(r)
  <2>1. UNCHANGED <<pending, known, client>>
    BY <1>9 DEF WriteSucceeds, WriteFails, wrapperVars
  <2>2. \A q \in Request \ {r} : writes'[q] = writes[q] /\ record'[q] = record[q]
    BY <1>9 DEF WriteSucceeds, WriteFails, SlotInv, Carried
  <2>3. record'[r].registered = record[r].registered /\ record'[r].started = record[r].started
    <3>1. \/ record'[r] = [record[r] EXCEPT !.armed = TRUE]
          \/ record'[r] = [record[r] EXCEPT !.completed = TRUE, !.streamWriteFailed = TRUE,
                                            !.armed = FALSE]
      BY <1>9 DEF WriteSucceeds, WriteFails, SlotInv
    <3> QED  BY <1>0, <3>1 DEF Response
  <2>4. Place(r)'  BY <1>0, <1>1, <1>3, <1>4, <2>1, <2>3 DEF Place, New
  <2>5. \A q \in Request \ {r} : Apart(q)  BY <1>1, <2>1, <2>2 DEF Apart
  <2> QED  BY <1>1, <1>2, <2>4, <2>5, OneMoves
<1>10. CASE /\ pending' = pending \ {r} /\ ClearRequest(r)
            /\ UNCHANGED <<client, record, writes>>
  <2>1. /\ r \notin pending' /\ r \notin known'
        /\ \A q \in Request \ {r} : (q \in pending' <=> q \in pending) /\ (q \in known' <=> q \in known)
    BY <1>10 DEF ClearRequest
  <2>2. Place(r)'  BY <1>0, <1>1, <1>3, <1>4, <1>10, <2>1 DEF Place, New
  <2>3. \A q \in Request \ {r} : Apart(q)  BY <1>1, <1>10, <2>1 DEF Apart
  <2> QED  BY <1>1, <1>2, <2>2, <2>3, OneMoves
<1>11. CASE Respond(r)  BY <1>5, <1>6, <1>11 DEF Respond, writeVars
<1>12. CASE FinishResponse(r)  BY <1>5, <1>6, <1>10, <1>12 DEF FinishResponse, writeVars
<1> QED  BY <1>7, <1>8, <1>9, <1>11, <1>12 DEF Answering

LEMMA EndOrder ==
  ASSUME OrderInv, Close \/ ServerClosed
  PROVE  Lines' /\ \A q \in Request : Place(q)'
<1>1. ReleaseAll /\ closed' /\ UNCHANGED <<accepting, held, writes>> /\ known' \subseteq known
  BY DEF Close, ServerClosed, writeVars, wrapperVars
<1>2. queue' = <<>> /\ pending' = {}  BY <1>1 DEF ReleaseAll
<1>3. Lines'  BY <1>1, <1>2, EmptyIn DEF OrderInv, Lines
<1>4. ASSUME NEW q \in Request  PROVE Place(q)'
  <2>1. Place(q) /\ record[q] \in Response  BY DEF OrderInv, SlotInv
  <2>2. ~In(queue', q)  BY <1>2, EmptyIn
  <2>3. record'[q].started = record[q].started /\ record'[q].registered = record[q].registered
    <3>1. record'[q] \in {record[q], [record[q] EXCEPT !.completed = TRUE, !.armed = FALSE],
                          [record[q] EXCEPT !.armed = FALSE]}
      BY <1>1 DEF ReleaseAll, Completed
    <3> QED  BY <2>1, <3>1 DEF Response
  <2>4. /\ New(q)' => New(q)
        /\ New(q) => New(q)'
        /\ client'[q] = "streaming" => client[q] = "streaming"
    <3>1. client'[q] = IF q \in pending /\ ~record[q].completed THEN HostEnd(q) ELSE client[q]
      BY <1>1 DEF ReleaseAll
    <3>2. q \in pending => ~New(q)  BY DEF OrderInv, SlotInv
    <3> QED  BY <3>1, <3>2 DEF HostEnd, New, Open
  <2> QED  BY <1>1, <1>2, <2>1, <2>2, <2>3, <2>4 DEF Place, Unknown
<1> QED  BY <1>3, <1>4

LEMMA StepOrder == OrderInv /\ [Next]_vars => OrderInv'
<1> SUFFICES ASSUME OrderInv, [Next]_vars  PROVE OrderInv'  OBVIOUS
<1>0. SlotInv' /\ Carried'  BY StepSlot, StepCarried DEF OrderInv
<1>1. CASE \E r \in Request : Client(r) \/ Timeout(r) \/ Answering(r)
  BY <1>0, <1>1, ClientOrder, TimeoutOrder, AnsweringOrder DEF OrderInv
<1>2. CASE Accept  BY <1>0, <1>2, AcceptOrder DEF OrderInv
<1>3. CASE AcceptReturns  BY <1>0, <1>3, AcceptReturnsOrder DEF OrderInv
<1>4. CASE Reading  BY <1>0, <1>4, ReadingOrder DEF OrderInv
<1>5. CASE Close \/ ServerClosed  BY <1>0, <1>5, EndOrder DEF OrderInv
<1>6. CASE UNCHANGED vars
  <2>1. UNCHANGED <<closed, record, client, writes, pending, held, queue, accepting, waiters, known>>
    BY <1>6 DEF vars, exchangeVars, acceptVars, wrapperVars, writeVars
  <2>2. \A q \in Request : Place(q)'  BY <2>1, NoneMoves
  <2> QED  BY <1>0, <2>1, <2>2 DEF OrderInv, Lines
<1> QED  BY <1>1, <1>2, <1>3, <1>4, <1>5, <1>6 DEF Next

(* A request that waits to be accepted can still be answered, waits in one  *)
(* place only and is in nobody's hands; no accept call waits while a request*)
(* does; and an open server's wrapper forgets what has been released: in    *)
(* every interleaving of accepts, answers, timeouts and disconnections.     *)
THEOREM QueueAlwaysLive == Spec => []QueueLive
<1>1. OrderInv => QueueLive
  <2> SUFFICES ASSUME OrderInv PROVE QueueLive  OBVIOUS
  <2>1. ASSUME NEW r \in Request, InQueue(r)
        PROVE  /\ r \in pending /\ ~record[r].completed /\ ~record[r].started
               /\ r \notin held \cup known
    BY <2>1 DEF OrderInv, Place, InQueue, In, Unanswered, Unknown
  <2>2. \A i, j \in DOMAIN queue : queue[i] = queue[j] => i = j
    BY DEF OrderInv, Lines, IsInjective
  <2>3. ~closed => known \subseteq pending  BY DEF OrderInv, Place, Carried
  <2> QED  BY <2>1, <2>2, <2>3 DEF OrderInv, Lines, QueueLive
<1> QED  BY InitOrder, StepOrder, <1>1, PTL DEF Spec

-----------------------------------------------------------------------------
(* The exchange.  A step of the server is, for each request by itself, a    *)
(* step HttpExchange allows or none.                                        *)
Stays(r) == PhaseOf(r)' = PhaseOf(r) /\ client'[r] = client[r]
Fine(r) == Exchange!Step(r) \/ Stays(r)
Turn(r, from, to) == PhaseOf(r) = from /\ PhaseOf(r)' = to

LEMMA Allowed ==
  ASSUME NEW r \in Request
  PROVE  /\ Turn(r, "unseen", "unseen") /\ client[r] = "absent" /\ client'[r] = "uploading"
              => Fine(r)
         /\ Turn(r, "unseen", "released") /\ New(r) /\ client'[r] = "refused" => Fine(r)
         /\ Turn(r, "unseen", "queued") /\ New(r) /\ client'[r] = "waiting" => Fine(r)
         /\ Turn(r, "unseen", "accepted") /\ New(r) /\ client'[r] = "waiting" => Fine(r)
         /\ Turn(r, "queued", "accepted") /\ client'[r] = client[r] => Fine(r)
         /\ Turn(r, "accepted", "accepted") /\ client[r] = "waiting" /\ client'[r] = "streaming"
              => Fine(r)
         /\ Turn(r, "accepted", "released")
              /\ (client'[r] = client[r] \/ (client[r] \in Open /\ client'[r] = "answered"))
              => Fine(r)
         /\ PhaseOf(r) \in {"queued", "accepted"} /\ PhaseOf(r)' = "released"
              /\ client'[r] = (IF client[r] = "waiting" THEN "refused" ELSE client[r])
              => Fine(r)
         /\ PhaseOf(r)' = PhaseOf(r) /\ client[r] \in Open \cup {"uploading"}
              /\ client'[r] = "gone"
              => Fine(r)
<1>1. \A f, t, s : Exchange!Goes(r, f, t, s) <=> Turn(r, f, t) /\ client'[r] = s
  BY DEF Exchange!Goes, Turn
<1>2. /\ Exchange!GiveUp(r) <=>
           /\ PhaseOf(r) \in {"queued", "accepted"} /\ PhaseOf(r)' = "released"
           /\ client'[r] = IF client[r] = "waiting" THEN "refused" ELSE client[r]
      /\ Exchange!Disconnect(r) <=>
           /\ client[r] \in Open \cup {"uploading"}
           /\ PhaseOf(r)' = PhaseOf(r) /\ client'[r] = "gone"
  BY <1>1 DEF Exchange!GiveUp, Exchange!Disconnect, Exchange!Goes, Exchange!Open, Open
<1> QED
  BY <1>1, <1>2 DEF Fine, New, Open, Exchange!Open, Exchange!Step, Exchange!Upload,
     Exchange!Refuse, Exchange!Queue, Exchange!Accept, Exchange!Head, Exchange!Answer

(* A request whose place, record and client stay.                           *)
LEMMA Standing ==
  ASSUME NEW q \in Request,
         record'[q].registered = record[q].registered,
         record'[q].completed = record[q].completed,
         client'[q] = client[q],
         q \in pending' <=> q \in pending,
         In(queue', q) <=> In(queue, q)
  PROVE  Fine(q)
BY DEF Fine, Stays, PhaseOf, InQueue, In

LEMMA OthersStand ==
  ASSUME OrderInv, NEW r \in Request, Fine(r),
         \A q \in Request \ {r} :
           /\ record'[q] = record[q] /\ client'[q] = client[q]
           /\ q \in pending' <=> q \in pending
           /\ In(queue', q) <=> In(queue, q)
  PROVE  Exchange!Next
<1>1. ASSUME NEW q \in Request PROVE Fine(q)
  <2>1. CASE q = r  BY <2>1
  <2>2. CASE q # r  BY <2>2, Standing
  <2> QED  BY <2>1, <2>2
<1> QED  BY <1>1 DEF Exchange!Next, Fine, Stays

LEMMA AllStand ==
  ASSUME UNCHANGED <<record, client, pending, queue>>
  PROVE  Exchange!Next
BY DEF Exchange!Next, PhaseOf, InQueue

(* What a request in a known place is to its client.                        *)
LEMMA Phases ==
  ASSUME OrderInv, NEW r \in Request
  PROVE  /\ New(r) => PhaseOf(r) = "unseen" /\ r \notin pending
         /\ r \in pending /\ ~record[r].completed =>
              PhaseOf(r) = IF In(queue, r) THEN "queued" ELSE "accepted"
         /\ r \in pending => record[r].registered
         /\ In(queue, r) => ~record[r].started /\ r \notin held
         /\ client[r] = "streaming" => record[r].started
<1>1. Place(r)  BY DEF OrderInv
<1>2. New(r) => PhaseOf(r) = "unseen"  BY <1>1 DEF Place, New, PhaseOf
<1>3. r \in pending /\ ~record[r].completed =>
        PhaseOf(r) = IF In(queue, r) THEN "queued" ELSE "accepted"
  BY <1>1 DEF Place, PhaseOf, InQueue, In
<1> QED  BY <1>1, <1>2, <1>3 DEF Place, Unanswered, Unknown, OrderInv, SlotInv

LEMMA SubmitExchange ==
  ASSUME OrderInv, NEW r \in Request, New(r), Submit(r)
  PROVE  Exchange!Next
<1>1. PhaseOf(r) = "unseen" /\ r \notin pending  BY Phases
<1>2. ~In(queue, r)  BY DEF OrderInv, Place
<1>3. queue \in Seq(Request)  BY DEF OrderInv, Carried
<1>4. CASE Register(r) /\ (UNCHANGED queue \/ queue' = Append(queue, r))
  <2>1. /\ record'[r] = [Absent EXCEPT !.registered = TRUE, !.armed = TRUE]
        /\ client'[r] = "waiting" /\ r \in pending'
        /\ \A q \in Request \ {r} : /\ record'[q] = record[q] /\ client'[q] = client[q]
                                    /\ q \in pending' <=> q \in pending
    BY <1>4 DEF Register, Sees, OrderInv, SlotInv
  <2>2. \A q \in Request \ {r} : In(queue', q) <=> In(queue, q)  BY <1>3, <1>4, AppendIn
  <2>3. record'[r].registered /\ ~record'[r].completed  BY <2>1 DEF Absent
  <2>4. PhaseOf(r)' \in {"queued", "accepted"}  BY <2>1, <2>3 DEF PhaseOf
  <2>5. Fine(r)  BY <1>1, <2>1, <2>4, Allowed DEF Turn
  <2> QED  BY <2>1, <2>2, <2>5, OthersStand
<1>5. CASE /\ record' = [record EXCEPT ![r] = [Absent EXCEPT !.registered = TRUE, !.completed = TRUE]]
           /\ Sees(r, "refused")
           /\ UNCHANGED <<pending, queue>>
  <2>1. /\ record'[r] = [Absent EXCEPT !.registered = TRUE, !.completed = TRUE]
        /\ client'[r] = "refused"
        /\ \A q \in Request \ {r} : record'[q] = record[q] /\ client'[q] = client[q]
    BY <1>5 DEF Sees, OrderInv, SlotInv
  <2>2. PhaseOf(r)' = "released"  BY <2>1 DEF PhaseOf, Absent
  <2>3. Fine(r)  BY <1>1, <2>1, <2>2, Allowed DEF Turn
  <2> QED  BY <1>5, <2>1, <2>3, OthersStand
<1> QED  BY <1>4, <1>5 DEF Submit

LEMMA ClientExchange ==
  ASSUME OrderInv, NEW r \in Request, Client(r)
  PROVE  Exchange!Next
<1>1. CASE Submit(r) /\ New(r)  BY <1>1, SubmitExchange
<1>2. CASE /\ \/ Sees(r, "refused") /\ New(r)
              \/ Sees(r, "uploading") /\ client[r] = "absent"
              \/ Sees(r, "gone") /\ client[r] \in Open \cup {"uploading"}
           /\ UNCHANGED <<pending, record, queue>>
  <2>1. \A q \in Request \ {r} : client'[q] = client[q]
    BY <1>2 DEF Sees, OrderInv, SlotInv
  <2>2. CASE Sees(r, "refused") /\ New(r)
    <3>1. client'[r] = "refused" /\ PhaseOf(r) = "unseen"
      BY <2>2, Phases DEF Sees, OrderInv, SlotInv
    <3>2. ~record[r].registered  BY <2>2 DEF OrderInv, Place
    <3>3. PhaseOf(r)' = "released"  BY <1>2, <3>1, <3>2 DEF PhaseOf
    <3> QED  BY <1>2, <2>1, <2>2, <3>1, <3>3, Allowed, OthersStand DEF Turn
  <2>3. CASE Sees(r, "uploading") /\ client[r] = "absent"
    <3>1. client'[r] = "uploading" /\ New(r) /\ PhaseOf(r) = "unseen"
      BY <2>3, Phases DEF Sees, OrderInv, SlotInv, New
    <3>2. PhaseOf(r)' = "unseen"  BY <1>2, <3>1 DEF PhaseOf, InQueue, OrderInv, Place
    <3> QED  BY <1>2, <2>1, <2>3, <3>1, <3>2, Allowed, OthersStand DEF Turn
  <2>4. CASE Sees(r, "gone") /\ client[r] \in Open \cup {"uploading"}
    <3>1. client'[r] = "gone"  BY <2>4 DEF Sees, OrderInv, SlotInv
    <3>2. PhaseOf(r)' = PhaseOf(r)  BY <1>2, <2>4, <3>1 DEF PhaseOf, InQueue, Open
    <3> QED  BY <1>2, <2>1, <2>4, <3>1, <3>2, Allowed, OthersStand
  <2> QED  BY <1>2, <2>2, <2>3, <2>4
<1> QED  BY <1>1, <1>2 DEF Client, Arrive, Uploaded, Disconnect, New

(* The watchdog and the end of the server: a started response is cut short, *)
(* any other gets the status of the host.                                   *)
LEMMA HostEnds ==
  ASSUME OrderInv, NEW r \in Request, r \in pending, ~record[r].completed,
         PhaseOf(r)' = "released", client'[r] = HostEnd(r)
  PROVE  Fine(r)
<1>1. /\ PhaseOf(r) = IF In(queue, r) THEN "queued" ELSE "accepted"
      /\ In(queue, r) => ~record[r].started
      /\ client[r] = "streaming" => record[r].started
  BY Phases
<1>2. CASE client[r] \in Open /\ record[r].started
  BY <1>1, <1>2, Allowed DEF HostEnd, Turn
<1>3. CASE ~(client[r] \in Open /\ record[r].started)
  <2>1. client'[r] = IF client[r] = "waiting" THEN "refused" ELSE client[r]
    BY <1>1, <1>3 DEF HostEnd, Open
  <2> QED  BY <1>1, <2>1, Allowed
<1> QED  BY <1>2, <1>3

LEMMA Released ==
  ASSUME OrderInv, NEW r \in Request, Release(r)
  PROVE  /\ \A q \in Request \ {r} : record'[q] = record[q] /\ (q \in pending' <=> q \in pending)
         /\ r \in pending => PhaseOf(r)' = "released"
<1>1. record[r] \in Response  BY DEF OrderInv, SlotInv
<1>2. record'[r] = Completed(r) /\ \A q \in Request \ {r} : record'[q] = record[q]
  BY DEF Release, OrderInv, SlotInv
<1>3. record'[r].registered = record[r].registered /\ record'[r].completed
  BY <1>1, <1>2 DEF Completed, Response
<1>4. r \in pending => record[r].registered  BY Phases
<1> QED  BY <1>2, <1>3, <1>4 DEF Release, PhaseOf

LEMMA Rearms ==
  ASSUME OrderInv, NEW r \in Request, NEW b,
         record' = [record EXCEPT ![r].armed = b], UNCHANGED <<client, pending, queue>>
  PROVE  Exchange!Next
<1>1. record[r] \in Response  BY DEF OrderInv, SlotInv
<1>2. /\ record'[r].registered = record[r].registered
      /\ record'[r].completed = record[r].completed
      /\ \A q \in Request \ {r} : record'[q] = record[q]
  BY <1>1 DEF Response, OrderInv, SlotInv
<1> QED  BY <1>2, Standing, OthersStand

LEMMA TimeoutExchange ==
  ASSUME OrderInv, NEW r \in Request, Timeout(r)
  PROVE  Exchange!Next
<1>1. CASE r \in pending /\ ~record[r].completed
  <2>1. Release(r) /\ queue' = Without(r) /\ Sees(r, HostEnd(r))
    BY <1>1 DEF Timeout, CompletePending
  <2>2. \A q \in Request \ {r} : In(queue', q) <=> In(queue, q)
    BY <2>1, WithoutFacts DEF OrderInv
  <2>3. client'[r] = HostEnd(r) /\ \A q \in Request \ {r} : client'[q] = client[q]
    BY <2>1 DEF Sees, OrderInv, SlotInv
  <2>4. Fine(r)  BY <1>1, <2>1, <2>3, Released, HostEnds
  <2> QED  BY <2>1, <2>2, <2>3, <2>4, Released, OthersStand
<1>2. CASE ~(r \in pending /\ ~record[r].completed)
  BY <1>2, Rearms DEF Timeout
<1> QED  BY <1>1, <1>2

LEMMA AcceptExchange ==
  ASSUME OrderInv, Accept
  PROVE  Exchange!Next
<1>1. UNCHANGED <<client, pending, record>>  BY DEF Accept
<1>2. CASE queue = <<>>  BY <1>1, <1>2, AllStand DEF Accept
<1>3. CASE queue # <<>>
  <2>1. queue \in Seq(Request)  BY DEF OrderInv, Carried
  <2>2. PICK h \in Request : h = Head(queue)  BY <1>3, <2>1
  <2>3. /\ \A y : In(queue', y) => In(queue, y)
        /\ \A y : In(queue, y) => y = h \/ In(queue', y)
        /\ In(queue, h) /\ ~In(queue', h)
    BY <1>3, <2>1, <2>2, TailIn DEF OrderInv, Lines, Accept
  <2>4. Unanswered(h)  BY <2>3 DEF OrderInv, Place
  <2>5. PhaseOf(h) = "queued"  BY <2>3, <2>4, Phases DEF Unanswered
  <2>6. PhaseOf(h)' = "accepted"
    BY <1>1, <2>3, <2>4, Phases DEF PhaseOf, Unanswered, InQueue, In
  <2>7. Fine(h)  BY <1>1, <2>5, <2>6, Allowed DEF Turn
  <2> QED  BY <1>1, <2>3, <2>7, OthersStand
<1> QED  BY <1>2, <1>3

LEMMA ReadingExchange ==
  ASSUME OrderInv, Reading
  PROVE  Exchange!Next
<1>1. UNCHANGED <<client, pending, queue>>
  BY DEF Reading, ReadRest, ReadBody, NativeRead, ReadReturns, exchangeVars
<1>2. CASE UNCHANGED record  BY <1>1, <1>2, AllStand
<1>3. ASSUME NEW c \in Reader, NativeRead(c)  PROVE Exchange!Next
  <2> DEFINE r == reads[c].request
             b == record[r].armed \/ (r \in pending /\ ~record[r].completed)
  <2>1. reads[c] # NoRead  BY <1>3 DEF NativeRead, NoRead
  <2>2. r \in Request  BY <2>1, ReadCases DEF OrderInv
  <2>3. record' = [record EXCEPT ![r].armed = b] \/ UNCHANGED record  BY <1>3 DEF NativeRead
  <2> HIDE DEF r, b
  <2> QED  BY <1>1, <1>2, <2>2, <2>3, Rearms
<1> QED  BY <1>2, <1>3 DEF Reading, ReadRest, ReadBody, ReadReturns, exchangeVars

LEMMA AnsweringExchange ==
  ASSUME OrderInv, NEW r \in Request, Answering(r)
  PROVE  Exchange!Next
<1>1. record[r] \in Response /\ client[r] \in Seen  BY DEF OrderInv, SlotInv
<1>2. UNCHANGED queue
  BY DEF Answering, Respond, StartResponse, WriteResponse, WriteSucceeds, WriteFails,
         FinishResponse
<1>3. r \in held
  BY DEF OrderInv, Place, Answering, Respond, StartResponse, WriteResponse, WriteSucceeds,
         WriteFails, FinishResponse
<1>4. ~In(queue, r) /\ (r \in pending /\ ~record[r].completed => PhaseOf(r) = "accepted")
  BY <1>3, Phases
<1> DEFINE answered == IF client[r] \in Open THEN "answered" ELSE client[r]
<1>5. CASE r \in pending /\ ~record[r].completed /\ Release(r)
           /\ (UNCHANGED client \/ Sees(r, answered))
  <2>1. /\ client'[r] = client[r] \/ (client[r] \in Open /\ client'[r] = "answered")
        /\ \A q \in Request \ {r} : client'[q] = client[q]
    BY <1>5 DEF Sees, OrderInv, SlotInv
  <2>2. Fine(r)  BY <1>4, <1>5, <2>1, Released, Allowed DEF Turn
  <2> QED  BY <1>2, <1>5, <2>1, <2>2, Released, OthersStand
<1>6. CASE UNCHANGED <<client, pending, record>>  BY <1>2, <1>6, AllStand
<1>7. CASE StartResponse(r) \/ WriteResponse(r)
  <2>1. /\ r \in pending /\ ~record[r].completed /\ UNCHANGED pending
        /\ client'[r] = client[r] \/ (client[r] = "waiting" /\ client'[r] = "streaming")
        /\ \A q \in Request \ {r} : record'[q] = record[q] /\ client'[q] = client[q]
    BY <1>7 DEF StartResponse, WriteResponse, Sees, OrderInv, SlotInv
  <2>2. /\ record'[r].registered = record[r].registered
        /\ record'[r].completed = record[r].completed
    <3>1. record'[r] \in {record[r], [record[r] EXCEPT !.started = TRUE, !.armed = TRUE]}
      BY <1>7 DEF StartResponse, WriteResponse, OrderInv, SlotInv
    <3> QED  BY <1>1, <3>1 DEF Response
  <2>3. PhaseOf(r)' = "accepted"
    BY <1>2, <1>4, <2>1, <2>2, Phases DEF PhaseOf, InQueue, In
  <2>4. Fine(r)  BY <1>4, <2>1, <2>3, Allowed DEF Turn, Fine, Stays
  <2> QED  BY <1>2, <2>1, <2>4, OthersStand
<1>8. CASE WriteSucceeds(r)  BY <1>2, <1>8, Rearms DEF WriteSucceeds
<1>9. CASE WriteFails(r)
  <2>1. /\ UNCHANGED <<client, pending>>
        /\ record'[r] = [record[r] EXCEPT !.completed = TRUE, !.streamWriteFailed = TRUE,
                                          !.armed = FALSE]
        /\ \A q \in Request \ {r} : record'[q] = record[q]
    BY <1>9 DEF WriteFails, OrderInv, SlotInv
  <2>2. record'[r].registered = record[r].registered /\ record'[r].completed
    BY <1>1, <2>1 DEF Response
  <2>3. CASE r \in pending /\ ~record[r].completed
    <3>1. PhaseOf(r)' = "released"  BY <2>2, <2>3, Phases DEF PhaseOf
    <3> QED  BY <1>2, <1>4, <2>1, <2>3, <3>1, Allowed, OthersStand DEF Turn
  <2>4. CASE ~(r \in pending /\ ~record[r].completed)
    <3>1. Stays(r)  BY <2>1, <2>2, <2>4 DEF Stays, PhaseOf
    <3> QED  BY <1>2, <2>1, <3>1, OthersStand DEF Fine
  <2> QED  BY <2>3, <2>4
<1>10. CASE /\ r \in pending /\ record[r].streamWriteFailed
            /\ pending' = pending \ {r} /\ UNCHANGED <<client, record>>
  <2>1. record[r].completed  BY <1>10 DEF OrderInv, SlotInv
  <2>2. Stays(r)  BY <1>10, <2>1 DEF Stays, PhaseOf
  <2> QED  BY <1>2, <1>10, <2>2, OthersStand DEF Fine
<1>11. CASE Respond(r)  BY <1>5, <1>6, <1>11 DEF Respond
<1>12. CASE FinishResponse(r)
  <2>1. CASE r \in pending /\ ~record[r].streamWriteFailed
    <3>1. ~record[r].completed  BY <2>1 DEF OrderInv, SlotInv, SlotsWatched
    <3> QED  BY <1>5, <1>6, <1>12, <2>1, <3>1 DEF FinishResponse
  <2> QED  BY <1>6, <1>10, <1>12, <2>1 DEF FinishResponse
<1> QED  BY <1>7, <1>8, <1>9, <1>11, <1>12 DEF Answering

LEMMA EndExchange ==
  ASSUME OrderInv, ReleaseAll
  PROVE  Exchange!Next
<1>1. queue' = <<>> /\ pending' = {}  BY DEF ReleaseAll
<1>2. ASSUME NEW q \in Request  PROVE Fine(q)
  <2>1. record[q] \in Response  BY DEF OrderInv, SlotInv
  <2>2. /\ record'[q].registered = record[q].registered
        /\ q \notin pending => record'[q] = record[q]
    <3>1. /\ q \notin pending => record'[q] = record[q]
          /\ record'[q] \in {record[q], [record[q] EXCEPT !.completed = TRUE, !.armed = FALSE],
                             [record[q] EXCEPT !.armed = FALSE]}
      BY DEF ReleaseAll, Completed
    <3> QED  BY <2>1, <3>1 DEF Response
  <2>3. client'[q] = IF q \in pending /\ ~record[q].completed THEN HostEnd(q) ELSE client[q]
    BY DEF ReleaseAll
  <2>4. CASE q \in pending /\ ~record[q].completed
    <3>1. PhaseOf(q)' = "released"  BY <1>1, <2>2, <2>4, Phases DEF PhaseOf
    <3> QED  BY <2>3, <2>4, <3>1, HostEnds
  <2>5. CASE ~(q \in pending /\ ~record[q].completed)
    BY <1>1, <2>2, <2>3, <2>5 DEF Fine, Stays, PhaseOf
  <2> QED  BY <2>4, <2>5
<1> QED  BY <1>2 DEF Exchange!Next, Fine, Stays

LEMMA StepExchange == OrderInv /\ [Next]_vars => Exchange!Next
<1> SUFFICES ASSUME OrderInv, [Next]_vars  PROVE Exchange!Next  OBVIOUS
<1>1. CASE \E r \in Request : Client(r) \/ Timeout(r) \/ Answering(r)
  BY <1>1, ClientExchange, TimeoutExchange, AnsweringExchange
<1>2. CASE Accept  BY <1>2, AcceptExchange
<1>3. CASE AcceptReturns  BY <1>3, AllStand DEF AcceptReturns, exchangeVars
<1>4. CASE Reading  BY <1>4, ReadingExchange
<1>5. CASE Close \/ ServerClosed  BY <1>5, EndExchange DEF Close, ServerClosed
<1>6. CASE UNCHANGED vars  BY <1>6, AllStand DEF vars, exchangeVars
<1> QED  BY <1>1, <1>2, <1>3, <1>4, <1>5, <1>6 DEF Next

LEMMA InitExchange == Init => Exchange!Init
BY DEF Init, Exchange!Init, PhaseOf, Absent

(* The server implements HttpExchange: each request is queued, accepted and *)
(* released at most once and in this order, and its client gets one answer, *)
(* the host's status only in place of a response that was never started.    *)
THEOREM KeepsExchange == Spec => ExchangeSpec
<1>1. Init => OrderInv /\ Exchange!Init  BY InitOrder, InitExchange
<1>2. OrderInv /\ [Next]_vars => OrderInv'  BY StepOrder
<1>3. OrderInv /\ [Next]_vars => [Exchange!Next]_(Exchange!exchangeVars)  BY StepExchange
<1> QED  BY <1>1, <1>2, <1>3, PTL DEF Spec, ExchangeSpec, Exchange!Spec

-----------------------------------------------------------------------------
(* The pieces of a body.  What the program has been given of it is numbered *)
(* from one; what comes next is in hand, with the one task that reads it or *)
(* in the remainder, and completes what the client has sent.  A request the *)
(* wrapper has forgotten has no remainder, and one the program has never    *)
(* held nothing at all, so that it starts afresh when its accept returns.   *)
Numbered(s, n) == \A i \in DOMAIN s : s[i] = n + i
Reads(c, r) == reads[c] # NoRead /\ reads[c].request = r
Brought(c) == IF reads[c].at = "back" THEN reads[c].chunk ELSE <<>>
Follows(r, s) == Numbered(s, Len(got[r])) /\ Len(got[r]) + Len(s) = sent[r]
Untold(r) == sent[r] = 0 /\ got[r] = <<>> /\ rest[r] = <<>> /\ \A c \in Reader : ~Reads(c, r)

Body(r) ==
  /\ Numbered(got[r], 0)
  /\ r \notin held => Untold(r)
  /\ r \notin known => rest[r] = <<>>
  /\ \A c \in Reader : Reads(c, r) => rest[r] = <<>> /\ \A d \in Reader : Reads(d, r) => d = c
  /\ r \in known =>
       /\ \A c \in Reader : Reads(c, r) => Follows(r, Brought(c))
       /\ (\A c \in Reader : ~Reads(c, r)) => Follows(r, rest[r])

BodyInv == OrderInv /\ \A r \in Request : Body(r)

LEMMA InitBody == Init => BodyInv
<1> SUFFICES ASSUME Init PROVE BodyInv  OBVIOUS
<1>1. ASSUME NEW r \in Request PROVE Body(r)
  <2>1. got[r] = <<>> /\ rest[r] = <<>> /\ sent[r] = 0 /\ r \notin known
        /\ \A c \in Reader : ~Reads(c, r)
    BY DEF Init, Reads
  <2> QED  BY <2>1 DEF Body, Untold, Numbered
<1> QED  BY <1>1, InitOrder DEF BodyInv

(* A step that has to do with the body of one request only.                 *)
Elsewhere(q) ==
  /\ got'[q] = got[q] /\ sent'[q] = sent[q] /\ rest'[q] = rest[q]
  /\ q \in held' <=> q \in held
  /\ q \in known' <=> q \in known
  /\ \A c \in Reader : Reads(c, q)' <=> Reads(c, q)
  /\ \A c \in Reader : Reads(c, q) => reads'[c] = reads[c]

LEMMA BodyKept ==
  ASSUME NEW q \in Request, Body(q), Elsewhere(q)
  PROVE  Body(q)'
<1>1. \A c \in Reader : Reads(c, q) /\ Follows(q, Brought(c)) => Follows(q, Brought(c))'
  <2> SUFFICES ASSUME NEW c \in Reader, Reads(c, q), Follows(q, Brought(c))
               PROVE  Follows(q, Brought(c))'
    OBVIOUS
  <2>1. Brought(c)' = Brought(c)  BY DEF Elsewhere, Brought
  <2> HIDE DEF Brought
  <2> QED  BY <2>1 DEF Follows, Numbered, Elsewhere
<1>2. Follows(q, rest[q]) => Follows(q, rest[q])'  BY DEF Follows, Numbered, Elsewhere
<1>3. (q \in known =>
        /\ \A c \in Reader : Reads(c, q) => Follows(q, Brought(c))
        /\ (\A c \in Reader : ~Reads(c, q)) => Follows(q, rest[q]))'
  BY <1>1, <1>2 DEF Body, Elsewhere
<1>4. Numbered(got[q], 0)' /\ (Untold(q) => Untold(q)')
  BY DEF Body, Numbered, Untold, Elsewhere
<1> QED  BY <1>3, <1>4 DEF Body, Elsewhere

LEMMA OneBody ==
  ASSUME BodyInv, NEW r \in Request, Body(r)', \A q \in Request \ {r} : Elsewhere(q)
  PROVE  \A q \in Request : Body(q)'
<1> SUFFICES ASSUME NEW q \in Request PROVE Body(q)'  OBVIOUS
<1>1. CASE q = r  BY <1>1
<1>2. CASE q # r  BY <1>2, BodyKept DEF BodyInv
<1> QED  BY <1>1, <1>2

LEMMA NoBody ==
  ASSUME BodyInv, UNCHANGED <<bodyVars, known, rest, held>>
  PROVE  \A q \in Request : Body(q)'
<1> SUFFICES ASSUME NEW q \in Request PROVE Body(q)'  OBVIOUS
<1>1. Elsewhere(q)  BY DEF Elsewhere, bodyVars, Reads
<1> QED  BY <1>1, BodyKept DEF BodyInv

(* The wrapper forgets a request: its remainder goes with it.               *)
LEMMA ForgottenBody ==
  ASSUME BodyInv, NEW r \in Request, r \notin known', rest'[r] = <<>>,
         r \in held' <=> r \in held, UNCHANGED bodyVars
  PROVE  Body(r)'
BY DEF BodyInv, Body, Untold, Reads, Numbered, bodyVars

LEMMA ClearBody ==
  ASSUME BodyInv, NEW r \in Request, ClearRequest(r), UNCHANGED <<bodyVars, held>>
  PROVE  \A q \in Request : Body(q)'
<1>1. /\ r \notin known' /\ rest'[r] = <<>>
      /\ \A q \in Request \ {r} : rest'[q] = rest[q] /\ (q \in known' <=> q \in known)
  BY DEF ClearRequest, BodyInv, OrderInv, Carried
<1>2. \A q \in Request \ {r} : Elsewhere(q)  BY <1>1 DEF Elsewhere, bodyVars, Reads
<1> QED  BY <1>1, <1>2, ForgottenBody, OneBody

(* The next piece is given to the program and what it came with is kept.    *)
LEMMA GivenBody ==
  ASSUME BodyInv, NEW r \in Request, NEW t \in Seq(Piece), t # <<>>, Follows(r, t),
         r \in known, r \in held, UNCHANGED <<known, held, sent>>,
         got'[r] = Append(got[r], Head(t)), rest'[r] = Tail(t),
         \A c \in Reader : ~Reads(c, r)'
  PROVE  Body(r)'
<1>1. got[r] \in Seq(Piece) /\ Numbered(got[r], 0) /\ sent[r] \in Nat
  BY DEF BodyInv, OrderInv, Carried, Body
<1>2. PICK n \in Nat : n = Len(got[r]) /\ DOMAIN got[r] = 1 .. n  BY <1>1
<1>3. PICK m \in Nat : m = Len(t) /\ m > 0 /\ DOMAIN t = 1 .. m  OBVIOUS
<1>4. Head(t) = n + 1  BY <1>2, <1>3 DEF Follows, Numbered
<1>5. Len(got'[r]) = n + 1 /\ DOMAIN got'[r] = 1 .. n + 1
      /\ \A i \in 1 .. n + 1 : got'[r][i] = IF i = n + 1 THEN Head(t) ELSE got[r][i]
  BY <1>1, <1>2
<1>6. Numbered(got'[r], 0)  BY <1>1, <1>2, <1>4, <1>5 DEF Numbered
<1>7. Len(rest'[r]) = m - 1 /\ DOMAIN rest'[r] = 1 .. m - 1
      /\ \A i \in 1 .. m - 1 : rest'[r][i] = t[i + 1]
  BY <1>3
<1>8. \A i \in 1 .. m : t[i] = n + i  BY <1>2, <1>3 DEF Follows, Numbered
<1>9. Numbered(rest'[r], n + 1)
  <2> SUFFICES ASSUME NEW i \in 1 .. m - 1 PROVE rest'[r][i] = n + 1 + i  BY <1>7 DEF Numbered
  <2>1. i + 1 \in 1 .. m  BY <1>3
  <2>2. t[i + 1] = n + (i + 1)  BY <1>8, <2>1
  <2> QED  BY <1>7, <2>2
<1>10. (n + 1) + (m - 1) = sent'[r]
  <2>1. n + m = sent[r]  BY <1>2, <1>3 DEF Follows
  <2> QED  BY <2>1
<1>11. Follows(r, rest[r])'  BY <1>5, <1>7, <1>9, <1>10 DEF Follows, Numbered
<1> QED  BY <1>6, <1>11 DEF Body, Numbered

LEMMA ReadRestBody ==
  ASSUME BodyInv, NEW r \in Request, ReadRest(r)
  PROVE  \A q \in Request : Body(q)'
<1>1. /\ r \in held /\ r \in known /\ rest[r] # <<>> /\ UNCHANGED <<known, held, sent, reads>>
      /\ \A c \in Reader : ~Reads(c, r)
  BY DEF ReadRest, Readable, NotBeingRead, Reads, acceptVars
<1>2. rest \in [Request -> Seq(Piece)] /\ got \in [Request -> Seq(Piece)]
  BY DEF BodyInv, OrderInv, Carried
<1>3. /\ got'[r] = Append(got[r], Head(rest[r])) /\ rest'[r] = Tail(rest[r])
      /\ \A q \in Request \ {r} : got'[q] = got[q] /\ rest'[q] = rest[q]
  BY <1>2 DEF ReadRest, Give
<1>4. Follows(r, rest[r])  BY <1>1 DEF BodyInv, Body
<1>5. \A c \in Reader : ~Reads(c, r)'  BY <1>1 DEF Reads
<1>6. Body(r)'  BY <1>1, <1>2, <1>3, <1>4, <1>5, GivenBody
<1>7. \A q \in Request \ {r} : Elsewhere(q)  BY <1>1, <1>3 DEF Elsewhere, Reads
<1> QED  BY <1>6, <1>7, OneBody

(* A task begins, goes on with or ends its read of a request.               *)
LEMMA OneReader ==
  ASSUME BodyInv, NEW c \in Reader, NEW r \in Request, NEW x,
         reads[c] = NoRead \/ reads[c].request = r,
         x = NoRead \/ x.request = r,
         reads' = [reads EXCEPT ![c] = x]
  PROVE  /\ reads'[c] = x /\ \A d \in Reader \ {c} : reads'[d] = reads[d]
         /\ \A q \in Request \ {r}, d \in Reader : Reads(d, q)' <=> Reads(d, q)
         /\ \A q \in Request \ {r}, d \in Reader : Reads(d, q) => reads'[d] = reads[d]
<1>1. reads'[c] = x /\ \A d \in Reader \ {c} : reads'[d] = reads[d]
  BY DEF BodyInv, OrderInv, Carried
<1>2. \A q \in Request \ {r} : ~Reads(c, q) /\ ~Reads(c, q)'  BY <1>1 DEF Reads
<1>3. \A q \in Request \ {r}, d \in Reader : d # c => (Reads(d, q)' <=> Reads(d, q))
  BY <1>1 DEF Reads
<1> QED  BY <1>1, <1>2, <1>3

LEMMA ReadBodyBody ==
  ASSUME BodyInv, NEW r \in Request, NEW c \in Reader, ReadBody(c, r)
  PROVE  \A q \in Request : Body(q)'
<1> DEFINE x == [at |-> "native", request |-> r]
<1>1. /\ reads[c] = NoRead /\ rest[r] = <<>> /\ r \in held /\ r \in known
      /\ reads' = [reads EXCEPT ![c] = x]
      /\ UNCHANGED <<known, held, rest, sent, got>>
      /\ \A d \in Reader : ~Reads(d, r)
  BY DEF ReadBody, Readable, NotBeingRead, Reads, acceptVars, wrapperVars
<1>2. x # NoRead /\ x.request = r /\ x.at # "back"  BY DEF NoRead
<1>3. Body(r) /\ Follows(r, <<>>)  BY <1>1 DEF BodyInv, Body
<1> HIDE DEF x
<1>4. /\ reads'[c] = x /\ \A d \in Reader \ {c} : reads'[d] = reads[d]
      /\ \A q \in Request \ {r}, d \in Reader : Reads(d, q)' <=> Reads(d, q)
      /\ \A q \in Request \ {r}, d \in Reader : Reads(d, q) => reads'[d] = reads[d]
  BY <1>1, <1>2, OneReader
<1>5. \A d \in Reader : Reads(d, r)' <=> d = c  BY <1>1, <1>2, <1>4 DEF Reads
<1>6. Brought(c)' = <<>>  BY <1>2, <1>4 DEF Brought
<1>7. Body(r)'  BY <1>1, <1>3, <1>5, <1>6 DEF Body, Follows, Numbered
<1>8. \A q \in Request \ {r} : Elsewhere(q)  BY <1>1, <1>4 DEF Elsewhere
<1> QED  BY <1>7, <1>8, OneBody

LEMMA NativeReadBody ==
  ASSUME BodyInv, NEW c \in Reader, NativeRead(c)
  PROVE  \A q \in Request : Body(q)'
<1>1. reads[c].at = "native" /\ reads[c] # NoRead  BY DEF NativeRead, NoRead
<1>2. PICK r \in Request : r = reads[c].request  BY <1>1, ReadCases DEF BodyInv, OrderInv
<1>3. Reads(c, r) /\ Body(r)  BY <1>1, <1>2 DEF Reads, BodyInv
<1>4. /\ UNCHANGED <<known, held, rest, got>> /\ rest[r] = <<>> /\ r \in held
      /\ \A d \in Reader : Reads(d, r) => d = c
      /\ r \in known => Follows(r, <<>>)
  BY <1>1, <1>3 DEF NativeRead, Body, Untold, Brought, acceptVars, wrapperVars
<1>5. /\ sent[r] \in Nat /\ sent \in [Request -> Nat] /\ got[r] \in Seq(Piece)
  BY DEF BodyInv, OrderInv, Carried
<1>6. ASSUME NEW s \in Seq(Piece), NEW n \in Nat, n = Len(s), Numbered(s, sent[r]),
             reads' = [reads EXCEPT ![c] = [at |-> "back", request |-> r, chunk |-> s]],
             sent'[r] = sent[r] + n, \A q \in Request \ {r} : sent'[q] = sent[q]
      PROVE  \A q \in Request : Body(q)'
  <2> DEFINE x == [at |-> "back", request |-> r, chunk |-> s]
  <2>1. x # NoRead /\ x.request = r /\ x.at = "back" /\ x.chunk = s
    <3>1. x.at # NoRead.at  BY DEF NoRead
    <3> QED  BY <3>1
  <2>2. reads' = [reads EXCEPT ![c] = x]  BY <1>6
  <2> HIDE DEF x
  <2>3. /\ reads'[c] = x /\ \A d \in Reader \ {c} : reads'[d] = reads[d]
        /\ \A q \in Request \ {r}, d \in Reader : Reads(d, q)' <=> Reads(d, q)
        /\ \A q \in Request \ {r}, d \in Reader : Reads(d, q) => reads'[d] = reads[d]
    BY <1>2, <2>1, <2>2, OneReader
  <2>4. \A d \in Reader : Reads(d, r)' <=> d = c  BY <1>3, <1>4, <2>1, <2>3 DEF Reads
  <2>5. Brought(c)' = s  BY <2>1, <2>3 DEF Brought
  <2>6. r \in known => Follows(r, s)'
    <3>1. r \in known => Len(got[r]) = sent[r]  BY <1>4, <1>5 DEF Follows
    <3> QED  BY <1>4, <1>5, <1>6, <3>1 DEF Follows, Numbered
  <2>7. Body(r)'  BY <1>3, <1>4, <2>4, <2>5, <2>6 DEF Body, Numbered, Follows
  <2>8. \A q \in Request \ {r} : Elsewhere(q)  BY <1>4, <1>6, <2>3 DEF Elsewhere
  <2> QED  BY <2>7, <2>8, OneBody
<1>7. ASSUME NEW n \in 1..2,
             reads' = [reads EXCEPT ![c] =
               [at |-> "back", request |-> r, chunk |-> [i \in 1..n |-> sent[r] + i]]],
             sent' = [sent EXCEPT ![r] = sent[r] + n]
      PROVE  \A q \in Request : Body(q)'
  <2> DEFINE s == [i \in 1..n |-> sent[r] + i]
  <2>1. s \in Seq(Piece)
    <3>1. \A i \in 1..n : sent[r] + i \in Piece  BY <1>5 DEF Piece
    <3> QED  BY <3>1, IsASeq
  <2>2. n \in Nat /\ n = Len(s) /\ Numbered(s, sent[r])  BY DEF Numbered
  <2> HIDE DEF s
  <2>3. reads' = [reads EXCEPT ![c] = [at |-> "back", request |-> r, chunk |-> s]]
    BY <1>7 DEF s
  <2> QED  BY <1>5, <1>6, <1>7, <2>1, <2>2, <2>3
<1>8. CASE /\ reads' = [reads EXCEPT ![c] = [at |-> "back", request |-> r, chunk |-> <<>>]]
           /\ UNCHANGED sent
  <2>1. <<>> \in Seq(Piece) /\ Len(<<>>) = 0 /\ Numbered(<<>>, sent[r])  BY DEF Numbered
  <2>2. sent'[r] = sent[r] + 0 /\ \A q \in Request \ {r} : sent'[q] = sent[q]  BY <1>5, <1>8
  <2>3. reads' = [reads EXCEPT ![c] = [at |-> "back", request |-> r, chunk |-> <<>>]]  BY <1>8
  <2> QED  BY <1>6, <2>1, <2>2, <2>3
<1>9. CASE reads' = [reads EXCEPT ![c] = NoRead] /\ UNCHANGED sent
  <2>1. /\ reads'[c] = NoRead /\ \A d \in Reader \ {c} : reads'[d] = reads[d]
        /\ \A q \in Request \ {r}, d \in Reader : Reads(d, q)' <=> Reads(d, q)
        /\ \A q \in Request \ {r}, d \in Reader : Reads(d, q) => reads'[d] = reads[d]
    BY <1>2, <1>9, OneReader
  <2>2. \A d \in Reader : ~Reads(d, r)'  BY <1>4, <2>1 DEF Reads
  <2>3. Body(r)'  BY <1>3, <1>4, <1>9, <2>2 DEF Body, Numbered, Follows
  <2>4. \A q \in Request \ {r} : Elsewhere(q)  BY <1>4, <1>9, <2>1 DEF Elsewhere
  <2> QED  BY <2>3, <2>4, OneBody
<1> QED  BY <1>2, <1>7, <1>8, <1>9 DEF NativeRead

LEMMA ReadReturnsBody ==
  ASSUME BodyInv, NEW c \in Reader, ReadReturns(c)
  PROVE  \A q \in Request : Body(q)'
<1>1. reads[c].at = "back" /\ reads[c] # NoRead  BY DEF ReadReturns, NoRead
<1>2. PICK r \in Request : r = reads[c].request  BY <1>1, ReadCases DEF BodyInv, OrderInv
<1>3. PICK t \in Seq(Piece) : t = reads[c].chunk  BY <1>1, ReadCases DEF BodyInv, OrderInv
<1>4. Reads(c, r) /\ Body(r) /\ Brought(c) = t  BY <1>1, <1>2, <1>3 DEF Reads, BodyInv, Brought
<1>5. /\ rest[r] = <<>> /\ r \in held /\ UNCHANGED <<held, sent>>
      /\ \A d \in Reader : Reads(d, r) => d = c
      /\ r \in known => Follows(r, t)
  BY <1>4 DEF ReadReturns, Body, Untold, acceptVars
<1>6. /\ reads'[c] = NoRead /\ \A d \in Reader \ {c} : reads'[d] = reads[d]
      /\ \A q \in Request \ {r}, d \in Reader : Reads(d, q)' <=> Reads(d, q)
      /\ \A q \in Request \ {r}, d \in Reader : Reads(d, q) => reads'[d] = reads[d]
  <2>1. reads' = [reads EXCEPT ![c] = NoRead]  BY DEF ReadReturns
  <2> QED  BY <1>2, <2>1, OneReader
<1>7. \A d \in Reader : ~Reads(d, r)'  BY <1>5, <1>6 DEF Reads
<1>8. rest \in [Request -> Seq(Piece)] /\ got \in [Request -> Seq(Piece)]
  BY DEF BodyInv, OrderInv, Carried
<1>9. CASE r \notin known' /\ rest'[r] = <<>> /\ got' = got
           /\ \A q \in Request \ {r} : rest'[q] = rest[q] /\ (q \in known' <=> q \in known)
  <2>1. Body(r)'  BY <1>4, <1>5, <1>7, <1>9 DEF Body, Numbered
  <2>2. \A q \in Request \ {r} : Elsewhere(q)  BY <1>5, <1>6, <1>9 DEF Elsewhere
  <2> QED  BY <2>1, <2>2, OneBody
<1>10. CASE /\ r \in known /\ t # <<>> /\ UNCHANGED known
            /\ got'[r] = Append(got[r], Head(t)) /\ rest'[r] = Tail(t)
            /\ \A q \in Request \ {r} : rest'[q] = rest[q] /\ got'[q] = got[q]
  <2>1. Body(r)'  BY <1>5, <1>7, <1>10, GivenBody
  <2>2. \A q \in Request \ {r} : Elsewhere(q)  BY <1>5, <1>6, <1>10 DEF Elsewhere
  <2> QED  BY <2>1, <2>2, OneBody
<1>11. CASE r \notin known
  BY <1>2, <1>5, <1>9, <1>11 DEF ReadReturns, wrapperVars
<1>12. CASE r \in known /\ t = <<>>
  BY <1>2, <1>3, <1>8, <1>9, <1>12 DEF ReadReturns, ClearRequest
<1>13. CASE r \in known /\ t # <<>> /\ Len(t) = 1
  <2>1. Tail(t) = <<>>
    <3>1. Tail(t) \in Seq(Piece) /\ Len(Tail(t)) = 0  BY <1>13
    <3> QED  BY <3>1, EmptySeq
  <2>2. got' = [got EXCEPT ![r] = Append(got[r], Head(t))] /\ UNCHANGED wrapperVars
    BY <1>2, <1>3, <1>13 DEF ReadReturns
  <2> QED  BY <1>5, <1>8, <1>10, <1>13, <2>1, <2>2 DEF wrapperVars
<1>14. CASE r \in known /\ t # <<>> /\ Len(t) # 1
  <2>1. Give(r, t) /\ UNCHANGED known  BY <1>2, <1>3, <1>14 DEF ReadReturns
  <2> QED  BY <1>8, <1>10, <1>14, <2>1 DEF Give
<1> QED  BY <1>11, <1>12, <1>13, <1>14

(* A request that is accepted is one the program has never held.            *)
LEMMA AcceptReturnsBody ==
  ASSUME BodyInv, AcceptReturns
  PROVE  \A q \in Request : Body(q)'
<1>1. accepting \in Seq(Request) /\ accepting # <<>>
      /\ rest \in [Request -> Seq(Piece)]
  BY DEF BodyInv, OrderInv, Carried, AcceptReturns
<1>2. PICK h \in Request : h = Head(accepting)  BY <1>1
<1>3. In(accepting, h)  BY <1>1, <1>2, TailIn
<1>4. Untold(h)  BY <1>3 DEF BodyInv, OrderInv, Place, Unknown, Body
<1>5. /\ known' = known \cup {h} /\ held' \in {held, held \cup {h}}
      /\ rest'[h] = <<>> /\ \A q \in Request \ {h} : rest'[q] = rest[q]
      /\ UNCHANGED bodyVars
  BY <1>1, <1>2 DEF AcceptReturns
<1>6. Body(h)'
  BY <1>4, <1>5 DEF Body, Untold, Follows, Numbered, Reads, bodyVars
<1>7. \A q \in Request \ {h} : Elsewhere(q)  BY <1>5 DEF Elsewhere, bodyVars, Reads
<1> QED  BY <1>6, <1>7, OneBody

LEMMA StepBody == BodyInv /\ [Next]_vars => BodyInv'
<1> SUFFICES ASSUME BodyInv, [Next]_vars  PROVE BodyInv'  OBVIOUS
<1>0. OrderInv'  BY StepOrder DEF BodyInv
<1> SUFFICES \A q \in Request : Body(q)'  BY <1>0 DEF BodyInv
<1>1. ASSUME NEW r \in Request, Client(r) \/ Timeout(r) \/ Answering(r)
      PROVE  \A q \in Request : Body(q)'
  <2>1. UNCHANGED <<held, bodyVars>>
    BY <1>1 DEF Client, Arrive, Uploaded, Disconnect, Timeout, Answering, Respond,
       StartResponse, WriteResponse, WriteSucceeds, WriteFails, FinishResponse, acceptVars
  <2>2. ClearRequest(r) \/ UNCHANGED wrapperVars
    BY <1>1 DEF Client, Arrive, Uploaded, Disconnect, Timeout, CompletePending, Release,
       Answering, Respond, StartResponse, WriteResponse, WriteSucceeds, WriteFails,
       FinishResponse
  <2> QED  BY <2>1, <2>2, ClearBody, NoBody DEF wrapperVars
<1>2. CASE Accept  BY <1>2, NoBody DEF Accept, wrapperVars
<1>3. CASE AcceptReturns  BY <1>3, AcceptReturnsBody
<1>4. CASE Reading
  BY <1>4, ReadRestBody, ReadBodyBody, NativeReadBody, ReadReturnsBody DEF Reading
<1>5. CASE Close
  <2>1. /\ known' = {} /\ \A q \in Request : rest'[q] = <<>>
        /\ UNCHANGED <<held, bodyVars>>
    BY <1>5 DEF Close
  <2> QED  BY <2>1, ForgottenBody
<1>6. CASE ServerClosed  BY <1>6, NoBody DEF ServerClosed, wrapperVars
<1>7. CASE UNCHANGED vars  BY <1>7, NoBody DEF vars, acceptVars, wrapperVars
<1> QED  BY <1>1, <1>2, <1>3, <1>4, <1>5, <1>6, <1>7 DEF Next

(* The pieces of a body reach the program in order, none lost and none      *)
(* twice, however the chunks are cut, whichever task reads them, and        *)
(* whenever the response ends under a read.                                 *)
THEOREM BodiesInOrder == Spec => []BodyInOrder
<1>1. BodyInv => BodyInOrder
  <2> SUFFICES ASSUME BodyInv, NEW r \in Request
               PROVE  got[r] = [i \in 1..Len(got[r]) |-> i]
    BY DEF BodyInOrder
  <2>1. got[r] \in Seq(Piece) /\ Numbered(got[r], 0)
    BY DEF BodyInv, OrderInv, Carried, Body
  <2>2. \A i \in 1..Len(got[r]) : got[r][i] = i  BY <2>1 DEF Numbered
  <2>3. got[r] = [i \in 1..Len(got[r]) |-> got[r][i]]  BY <2>1
  <2> QED  BY <2>2, <2>3
<1> QED  BY InitBody, StepBody, <1>1, PTL DEF Spec
=============================================================================

-------------------------------- MODULE Upload --------------------------------
(***************************************************************************)
(* One upload of an object: the gRPC handler store_media                   *)
(* (crates/kaidadb-api/src/grpc.rs) or the REST handler put_media          *)
(* (rest.rs) pumps the request's frames into a bounded channel, a blocking *)
(* worker writes them into a StoreSession and commits it.                  *)
(*                                                                         *)
(* Frames are numbered and have size one.  The client may break off, the   *)
(* handler's future may be dropped at any await (disconnect, timeout); the *)
(* worker runs on.  Uploads meet only in the engine (StorageEngine), here  *)
(* one step: the commit.                                                   *)
(***************************************************************************)
EXTENDS Integers, Sequences

CONSTANTS
  Capacity,    \* mpsc::channel's bound
  ChunkSize,   \* chunk_size, in frames
  MaxObject,   \* max_object_size, in frames; 0 is no limit
  MaxFrames,   \* bound: frames of a body
  MaxFaults,   \* bound: failing calls
  None, Old    \* no object; the object the key had before

ASSUME UploadBounds ==
  /\ {Capacity, ChunkSize} \subseteq Nat \ {0}
  /\ {MaxObject, MaxFrames, MaxFaults} \subseteq Nat
  /\ None \notin {"created", "invalid", "too large", "timeout"}

VARIABLES
  proto,      \* "grpc" or "rest"
  size,       \* the frames the client has for us
  client,     \* "sending", or "broken": its stream yields an error
  read,       \* frames the handler has read
  handler,    \* start, pump, send (with frame read in hand), join, replied, gone
  bodyError,  \* put_media's body_error is set
  reply,      \* the response, None before it
  chan,       \* the frames in the channel
  tx, rx,     \* sender and receiver are alive
  worker,     \* none, begin, recv, write, abort, finish, over
  frame,      \* the frame the worker has in hand
  taken,      \* the frames the session has accepted
  result,     \* the worker's result
  stored,     \* the object under the key: None, Old or its frames
  faults

requestVars == <<proto, size>>
handlerVars == <<read, handler, bodyError, reply>>
workerVars  == <<worker, frame, taken, result, stored>>
vars == <<requestVars, client, handlerVars, chan, tx, rx, workerVars, faults>>

Frames(n) == [i \in 1..n |-> i]

Init ==
  /\ proto \in {"grpc", "rest"} /\ size \in 0..MaxFrames
  /\ client = "sending"
  /\ read = 0 /\ handler = "start" /\ bodyError = FALSE /\ reply = None
  /\ chan = <<>> /\ tx = TRUE /\ rx = TRUE
  /\ worker = "none" /\ frame = 0 /\ taken = <<>> /\ result = None
  /\ stored \in {None, Old}
  /\ faults = 0

-----------------------------------------------------------------------------
(* The client *)

ClientBreaks ==
  /\ client = "sending"
  /\ client' = "broken"
  /\ UNCHANGED <<requestVars, handlerVars, chan, tx, rx, workerVars, faults>>

-----------------------------------------------------------------------------
(* The handler *)

\* The worker is spawned; store_media reads the header first, and refuses a
\* stream that breaks or does not begin with a header that has a key.
Open ==
  /\ handler = "start"
  /\ \/ /\ proto = "rest" \/ client = "sending"
        /\ handler' = "pump" /\ worker' = "begin"
        /\ UNCHANGED <<reply, tx>>
     \/ /\ proto = "grpc"
        /\ handler' = "replied" /\ reply' = "refused" /\ tx' = FALSE
        /\ UNCHANGED worker
  /\ UNCHANGED <<requestVars, client, read, bodyError, chan, rx, frame, taken, result,
                 stored, faults>>

\* stream.message(), stream.next(): a frame; stray headers are ignored.
Receive ==
  /\ handler = "pump" /\ client = "sending" /\ read < size
  /\ read' = read + 1
  /\ handler' = "send"
  /\ UNCHANGED <<requestVars, client, bodyError, reply, chan, tx, rx, workerVars, faults>>

SendFrame_Unbounded ==
  /\ handler = "send" /\ rx
  /\ chan' = Append(chan, read)
  /\ handler' = "pump"
  /\ UNCHANGED <<requestVars, client, read, bodyError, reply, tx, rx, workerVars, faults>>

\* tx.send(): waits for room.
SendFrame ==
  /\ handler = "send" /\ rx /\ Len(chan) < Capacity
  /\ chan' = Append(chan, read)
  /\ handler' = "pump"
  /\ UNCHANGED <<requestVars, client, read, bodyError, reply, tx, rx, workerVars, faults>>

\* The worker is gone: the handler stops pumping and waits for its result.
SendFails ==
  /\ handler = "send" /\ ~rx
  /\ tx' = FALSE
  /\ handler' = "join"
  /\ UNCHANGED <<requestVars, client, read, bodyError, reply, chan, rx, workerVars, faults>>

EndOfStream_KeepsSender ==
  /\ handler = "pump" /\ client = "sending" /\ read = size
  /\ handler' = "join"
  /\ UNCHANGED <<requestVars, client, read, bodyError, reply, chan, tx, rx, workerVars, faults>>

\* drop(tx) signals the end to the worker.
EndOfStream ==
  /\ handler = "pump" /\ client = "sending" /\ read = size
  /\ tx' = FALSE
  /\ handler' = "join"
  /\ UNCHANGED <<requestVars, client, read, bodyError, reply, chan, rx, workerVars, faults>>

StreamError_Swallowed ==
  /\ handler = "pump" /\ client = "broken"
  /\ tx' = FALSE
  /\ handler' = "join"
  /\ UNCHANGED <<requestVars, client, read, bodyError, reply, chan, rx, workerVars, faults>>

\* The stream yields an error: store_media returns it at once, put_media keeps
\* it and waits for the worker.  Either way the sender is dropped.
StreamError ==
  /\ handler = "pump" /\ client = "broken"
  /\ tx' = FALSE
  /\ \/ /\ proto = "grpc"
        /\ handler' = "replied" /\ reply' = "failed"
        /\ UNCHANGED bodyError
     \/ /\ proto = "rest"
        /\ handler' = "join" /\ bodyError' = TRUE
        /\ UNCHANGED reply
  /\ UNCHANGED <<requestVars, client, read, chan, rx, workerVars, faults>>

\* worker.await
Join ==
  /\ handler = "join" /\ worker = "over"
  /\ handler' = "replied"
  /\ reply' = IF bodyError THEN "bad body" ELSE result
  /\ UNCHANGED <<requestVars, client, read, bodyError, chan, tx, rx, workerVars, faults>>

\* The server drops the future of a request whose connection is gone.
Cancel ==
  /\ client = "broken" /\ handler \in {"start", "pump", "send", "join"}
  /\ tx' = FALSE
  /\ handler' = "gone"
  /\ UNCHANGED <<requestVars, client, read, bodyError, reply, chan, rx, workerVars, faults>>

\* REST's TimeoutLayer drops the future after 60 seconds, pumping or not.
Timeout ==
  /\ proto = "rest" /\ handler \in {"start", "pump", "send", "join"}
  /\ tx' = FALSE
  /\ handler' = "replied" /\ reply' = "timeout"
  /\ UNCHANGED <<requestVars, client, read, bodyError, chan, rx, workerVars, faults>>

-----------------------------------------------------------------------------
(* The worker *)

Return(r) == worker' = "over" /\ result' = r /\ rx' = FALSE

\* begin_store, which refuses an invalid key.
Begin ==
  /\ worker = "begin"
  /\ \/ worker' = "recv" /\ UNCHANGED <<result, rx>>
     \/ Return("invalid")
  /\ UNCHANGED <<requestVars, client, handlerVars, chan, tx, frame, taken, stored, faults>>

\* rx.blocking_recv(): a frame, or the end when the channel is empty and closed.
Recv ==
  /\ worker = "recv"
  /\ \/ /\ chan # <<>>
        /\ frame' = Head(chan) /\ chan' = Tail(chan)
        /\ worker' = "write"
     \/ /\ chan = <<>> /\ ~tx
        /\ worker' = "finish"
        /\ UNCHANGED <<frame, chan>>
  /\ UNCHANGED <<requestVars, client, handlerVars, tx, rx, taken, result, stored, faults>>

\* bytes_written() + data.len() > max_object_size
TooLarge == MaxObject # 0 /\ Len(taken) + 1 > MaxObject

Write_Breaks ==
  /\ worker = "write"
  /\ \/ ~TooLarge /\ worker' = "recv" /\ taken' = Append(taken, frame) /\ UNCHANGED result
     \/ TooLarge /\ worker' = "finish" /\ result' = "too large" /\ UNCHANGED taken
  /\ UNCHANGED <<requestVars, client, handlerVars, chan, tx, rx, frame, stored, faults>>

\* session.write: the limit, then the frame fills the buffer; a full buffer is
\* flushed, which can fail.  An error aborts the session.
Write ==
  /\ worker = "write"
  /\ \/ /\ ~TooLarge
        /\ worker' = "recv" /\ taken' = Append(taken, frame)
        /\ UNCHANGED <<result, faults>>
     \/ /\ TooLarge
        /\ worker' = "abort" /\ result' = "too large"
        /\ UNCHANGED <<taken, faults>>
     \/ /\ ~TooLarge /\ (Len(taken) + 1) % ChunkSize = 0
        /\ faults < MaxFaults /\ faults' = faults + 1
        /\ worker' = "abort" /\ result' = "failed"
        /\ UNCHANGED taken
  /\ UNCHANGED <<requestVars, client, handlerVars, chan, tx, rx, frame, stored>>

\* session.abort() has released the chunks: the worker returns its error.
Abort ==
  /\ worker = "abort"
  /\ Return(result)
  /\ UNCHANGED <<requestVars, client, handlerVars, chan, tx, frame, taken, stored, faults>>

\* session.finish(): the manifest is written, the object is visible.
Finish ==
  /\ worker = "finish"
  /\ stored' = taken
  /\ Return("created")
  /\ UNCHANGED <<requestVars, client, handlerVars, chan, tx, frame, taken, faults>>

\* finish fails on the trailing chunk or the manifest; or, behind the manifest,
\* on releasing the chunks of the object it replaced.
FinishFails ==
  /\ worker = "finish"
  /\ faults < MaxFaults /\ faults' = faults + 1
  /\ \/ UNCHANGED stored
     \/ stored = Old /\ stored' = taken
  /\ Return("failed")
  /\ UNCHANGED <<requestVars, client, handlerVars, chan, tx, frame, taken>>

HandlerStep ==
  Open \/ Receive \/ SendFrame \/ SendFails \/ EndOfStream \/ StreamError \/ Join
WorkerStep == Begin \/ Recv \/ Write \/ Abort \/ Finish \/ FinishFails

Next == ClientBreaks \/ HandlerStep \/ Cancel \/ Timeout \/ WorkerStep

Spec == Init /\ [][Next]_vars

\* The worker has its thread and the handler its task; the timer fires.  The
\* client owes nothing: it may stall for ever, and its end or error never come.
Fairness ==
  /\ WF_vars(WorkerStep)
  /\ WF_vars(SendFrame \/ SendFails \/ Join)
  /\ WF_vars(Timeout)

FairSpec == Spec /\ Fairness

-----------------------------------------------------------------------------
(* Properties *)

FramesTypeOK ==
  /\ size \in 0..MaxFrames /\ read \in 0..size /\ faults \in 0..MaxFaults
  /\ chan \in Seq(0..MaxFrames) /\ Len(chan) <= Capacity
  /\ frame \in 0..MaxFrames /\ taken \in Seq(0..MaxFrames)

StoredTypeOK == stored \in {None, Old} \cup Seq(0..MaxFrames)

StatesTypeOK ==
  /\ proto \in {"grpc", "rest"} /\ client \in {"sending", "broken"}
  /\ handler \in {"start", "pump", "send", "join", "replied", "gone"}
  /\ reply \in {None, "created", "refused", "invalid", "too large", "failed", "bad body",
                "timeout"}
  /\ worker \in {"none", "begin", "recv", "write", "abort", "finish", "over"}
  /\ result \in {None, "created", "invalid", "too large", "failed"}

FlagsTypeOK == bodyError \in BOOLEAN /\ tx \in BOOLEAN /\ rx \in BOOLEAN

\* Every variable has its type.
UploadTypeOK == FramesTypeOK /\ StoredTypeOK /\ StatesTypeOK /\ FlagsTypeOK

\* A client that is told "created" has its whole object stored, frame by frame,
\* whatever happened between handler and worker.
CreatedWhole == reply = "created" => stored = Frames(size)

\* What is stored, even of an upload that was cut, is the beginning of its body:
\* no frame is missing in the middle, doubled or out of order.
NoHoles == stored \in {None, Old} \/ stored = Frames(Len(stored))

\* An upload that is refused, or is over the limit and not cut short, leaves the
\* key as it was, although the worker has flushed chunks and frames are still in
\* the channel or on their way.
RefusedUnchanged ==
  \/ result \in {"invalid", "too large"}
  \/ MaxObject # 0 /\ size > MaxObject /\ client = "sending" /\ reply # "timeout"
  => stored \in {None, Old}

\* No object exceeds max_object_size, not even one cut by a disconnect.
LimitHolds == stored \in {None, Old} \/ MaxObject = 0 \/ Len(stored) <= MaxObject

\* Between the network and the session there are never more frames than the
\* channel, the handler's and the worker's hand hold (grpc.rs:106-108,
\* rest.rs:135-137: "the whole object is never buffered in memory").
Backpressure == worker # "over" => read - Len(taken) <= Capacity + 2

\* The invariant behind these, inductive together with the type invariant.
InHand == IF worker \in {"write", "abort"} THEN 1 ELSE 0

\* While the worker runs, the session, its hand, the channel and the handler's
\* hand hold the frames read so far, in this order; a dropped handler lost one
\* at most.
InFlight == worker # "over" =>
  /\ \A i \in 1..Len(chan) : chan[i] = Len(taken) + InHand + i
  /\ read <= Len(taken) + InHand + Len(chan) + 1
  /\ handler = "send" => read = Len(taken) + InHand + Len(chan) + 1
  /\ handler \in {"start", "pump", "join"} => read = Len(taken) + InHand + Len(chan)

\* Which ends are alive, and what the handler's state says of the worker's.
Ends ==
  /\ tx <=> handler \in {"start", "pump", "send"}
  /\ rx <=> worker # "over"
  /\ worker = "none" => chan = <<>> /\ taken = <<>> /\ handler \in {"start", "replied", "gone"}
  /\ handler = "start" => worker = "none"
  /\ handler = "join" /\ ~bodyError /\ worker # "over" => read = size
  /\ client = "sending" => ~bodyError /\ handler # "gone"
  /\ client = "sending" /\ handler = "replied" /\ reply # "timeout" => worker \in {"none", "over"}
  /\ handler # "replied" => reply = None

\* What the session holds, and what its end made of it.
Session ==
  /\ taken = Frames(Len(taken))
  /\ MaxObject # 0 => Len(taken) <= MaxObject
  /\ worker = "write" => frame = Len(taken) + 1
  /\ worker = "finish" => chan = <<>> /\ ~tx
  /\ worker \in {"none", "begin", "recv", "write", "finish"} => result = None
  /\ worker = "abort" => result \in {"too large", "failed"}
  /\ \/ stored \in {None, Old}
     \/ stored = taken /\ worker = "over" /\ result \in {"created", "failed"}

\* A commit while the handler waits undisturbed is a commit of the whole body.
Outcome ==
  /\ worker = "over" /\ result = "created" =>
       /\ ~tx /\ stored = taken
       /\ handler = "join" /\ ~bodyError => Len(taken) = size
  /\ reply = "created" => worker = "over" /\ stored = Frames(size)
  /\ MaxObject # 0 /\ size > MaxObject /\ client = "sending" /\ reply # "timeout" =>
       stored \in {None, Old}

UInv == InFlight /\ Ends /\ Session /\ Outcome

\* What handler, channel, worker and session are to one another at each step
\* (grpc.rs:98-165, rest.rs:128-180): NoHoles, LimitHolds and Backpressure follow.
UploadInv == UploadTypeOK /\ UInv

\* Handler and worker never wait on each other for ever: a frame in hand is
\* sent or the worker's end noticed, the worker ends once the sender is gone,
\* the handler gets its result.  A stalled client holds a gRPC upload for ever
\* and a REST upload until the timeout.
UploadEnds ==
  /\ handler = "send" ~> handler # "send"
  /\ worker # "none" /\ ~tx ~> worker = "over"
  /\ handler = "join" ~> handler # "join"
  /\ proto = "rest" ~> handler \in {"replied", "gone"} /\ worker \in {"none", "over"}

\* engine.rs:459-460: finish commits, drop or abort discards, "so a partial upload
\* never becomes visible".
NoPartial == stored \in {None, Old, Frames(size)}
=============================================================================

----------------------------- MODULE UploadProofs -----------------------------
(***************************************************************************)
(* Proofs about Upload, for every capacity, chunk size, object limit,      *)
(* length of the body and number of failures.                              *)
(***************************************************************************)
EXTENDS Upload, TLAPS

\* The constants, one by one.
LEMMA Bounds ==
  /\ Capacity \in Nat \ {0} /\ ChunkSize \in Nat \ {0}
  /\ MaxObject \in Nat /\ MaxFrames \in Nat /\ MaxFaults \in Nat
  BY UploadBounds DEF UploadBounds

\* None is no reply.
LEMMA NoneDistinct == None \notin {"created", "invalid", "too large", "timeout"}
  BY UploadBounds DEF UploadBounds

\* The frames up to n, and the next one.
LEMMA FramesAppend ==
  ASSUME NEW n \in Nat
  PROVE  /\ Frames(n) \in Seq(Nat) /\ Len(Frames(n)) = n
         /\ Append(Frames(n), n + 1) = Frames(n + 1)
  BY DEF Frames

\* What an element at the end makes of a sequence.
LEMMA AppendFacts ==
  ASSUME NEW S, NEW s \in Seq(S), NEW x \in S
  PROVE  /\ Append(s, x) \in Seq(S) /\ Len(Append(s, x)) = Len(s) + 1
         /\ Append(s, x)[Len(s) + 1] = x
         /\ \A i \in 1..Len(s) : Append(s, x)[i] = s[i]
  OBVIOUS

\* And what is left without the first one.
LEMMA TailFacts ==
  ASSUME NEW S, NEW s \in Seq(S), s # <<>>
  PROVE  /\ Len(s) > 0 /\ Head(s) = s[1] /\ Head(s) \in S
         /\ Tail(s) \in Seq(S) /\ Len(Tail(s)) = Len(s) - 1
         /\ \A i \in 1..Len(s) - 1 : Tail(s)[i] = s[i + 1]
  OBVIOUS

\* The types of the counters and of the channel.
LEMMA Numbers ==
  ASSUME UploadTypeOK
  PROVE  /\ read \in Nat /\ size \in Nat /\ read <= size
         /\ frame \in 0..MaxFrames /\ read \in 0..MaxFrames
         /\ chan \in Seq(0..MaxFrames) /\ Len(chan) \in Nat /\ Len(chan) <= Capacity
         /\ taken \in Seq(0..MaxFrames) /\ Len(taken) \in Nat
         /\ faults \in 0..MaxFaults
  BY Bounds DEF UploadTypeOK, FramesTypeOK

\* What a write does to the session.
LEMMA WriteEffect ==
  ASSUME Write
  PROVE  /\ worker = "write"
         /\ \/ /\ ~TooLarge /\ worker' = "recv" /\ taken' = Append(taken, frame)
               /\ result' = result /\ faults' = faults
            \/ /\ worker' = "abort" /\ taken' = taken /\ result' \in {"too large", "failed"}
               /\ \/ faults' = faults
                  \/ faults < MaxFaults /\ faults' = faults + 1
         /\ UNCHANGED <<proto, size, client, read, handler, bodyError, reply, chan, tx, rx,
                        frame, stored>>
<1>1. worker = "write" /\ UNCHANGED <<proto, size, client, read, handler, bodyError, reply,
                                        chan, tx, rx, frame, stored>>
  BY DEF Write, requestVars, handlerVars
<1>2. CASE ~TooLarge /\ worker' = "recv" /\ taken' = Append(taken, frame) /\ UNCHANGED <<result, faults>>
  BY <1>1, <1>2
<1>3. CASE worker' = "abort" /\ result' = "too large" /\ UNCHANGED <<taken, faults>>
  BY <1>1, <1>3
<1>4. CASE /\ faults < MaxFaults /\ faults' = faults + 1
           /\ worker' = "abort" /\ result' = "failed" /\ UNCHANGED taken
  BY <1>1, <1>4
<1> QED
  BY <1>2, <1>3, <1>4 DEF Write

\* It keeps the types.
LEMMA WriteTypes ==
  ASSUME UploadTypeOK, Write
  PROVE  taken' \in Seq(0..MaxFrames) /\ faults' \in 0..MaxFaults
<1>1. CASE taken' = Append(taken, frame) /\ faults' = faults
  BY <1>1, AppendFacts, Numbers
<1>2. CASE taken' = taken /\ (faults' = faults \/ (faults < MaxFaults /\ faults' = faults + 1))
  BY <1>2, Numbers, Bounds
<1> QED
  BY <1>1, <1>2, WriteEffect

\* What the worker gets from the channel.
LEMMA RecvEffect ==
  ASSUME Recv
  PROVE  /\ worker = "recv"
         /\ \/ chan # <<>> /\ frame' = Head(chan) /\ chan' = Tail(chan) /\ worker' = "write"
            \/ chan = <<>> /\ ~tx /\ worker' = "finish" /\ frame' = frame /\ chan' = chan
         /\ UNCHANGED <<proto, size, client, read, handler, bodyError, reply, tx, rx,
                        taken, result, stored, faults>>
  BY DEF Recv, requestVars, handlerVars

-----------------------------------------------------------------------------
(* Types *)

\* Every step keeps the types of the frames.
LEMMA FramesTypeStep ==
  ASSUME UploadTypeOK, [Next]_vars
  PROVE  FramesTypeOK'
<1> USE Bounds DEF UploadTypeOK, FramesTypeOK, requestVars, handlerVars, workerVars
<1>1. CASE ClientBreaks
  BY <1>1 DEF ClientBreaks
<1>2. CASE Open
  BY <1>2 DEF Open
<1>3. CASE Receive
  <2>1. read' \in 0..size'
    BY <1>3 DEF Receive
  <2> QED
    BY <1>3, <2>1 DEF Receive
<1>4. CASE SendFrame
  <2>1. chan' \in Seq(0..MaxFrames) /\ Len(chan') <= Capacity
    BY <1>4 DEF SendFrame
  <2> QED
    BY <1>4, <2>1 DEF SendFrame
<1>5. CASE SendFails
  BY <1>5 DEF SendFails
<1>6. CASE EndOfStream
  BY <1>6 DEF EndOfStream
<1>7. CASE StreamError
  BY <1>7 DEF StreamError
<1>8. CASE Join
  BY <1>8 DEF Join
<1>9. CASE Cancel
  BY <1>9 DEF Cancel
<1>10. CASE Timeout
  BY <1>10 DEF Timeout
<1>11. CASE Begin
  BY <1>11 DEF Begin, Return
<1>12. CASE Recv
  <2>1. CASE chan # <<>> /\ frame' = Head(chan) /\ chan' = Tail(chan)
    <3>1. Head(chan) \in 0..MaxFrames /\ Tail(chan) \in Seq(0..MaxFrames) /\ Len(Tail(chan)) <= Len(chan)
      BY <2>1
    <3> QED
      BY <1>12, <2>1, <3>1 DEF Recv
  <2>2. CASE UNCHANGED <<frame, chan>>
    BY <1>12, <2>2 DEF Recv
  <2> QED
    BY <1>12, <2>1, <2>2 DEF Recv
<1>13. CASE Write
  <2>1. taken' \in Seq(0..MaxFrames)
    BY <1>13, WriteTypes
  <2>2. faults' \in 0..MaxFaults
    BY <1>13, WriteTypes
  <2> QED
    BY <1>13, <2>1, <2>2, WriteEffect
<1>14. CASE Abort
  BY <1>14 DEF Abort, Return
<1>15. CASE Finish
  BY <1>15 DEF Finish, Return
<1>16. CASE FinishFails
  BY <1>16 DEF FinishFails, Return
<1>17. CASE UNCHANGED vars
  BY <1>17 DEF vars
<1> QED
  BY <1>1, <1>2, <1>3, <1>4, <1>5, <1>6, <1>7, <1>8, <1>9, <1>10, <1>11, <1>12, <1>13, <1>14, <1>15, <1>16, <1>17 DEF Next, HandlerStep, WorkerStep

\* Of the session's data.
LEMMA StoredTypeStep ==
  ASSUME UploadTypeOK, [Next]_vars
  PROVE  StoredTypeOK'
<1> USE DEF UploadTypeOK, StoredTypeOK, requestVars, handlerVars, workerVars
<1>1. CASE ClientBreaks
  BY <1>1 DEF ClientBreaks
<1>2. CASE Open
  BY <1>2 DEF Open
<1>3. CASE Receive
  BY <1>3 DEF Receive
<1>4. CASE SendFrame
  BY <1>4 DEF SendFrame
<1>5. CASE SendFails
  BY <1>5 DEF SendFails
<1>6. CASE EndOfStream
  BY <1>6 DEF EndOfStream
<1>7. CASE StreamError
  BY <1>7 DEF StreamError
<1>8. CASE Join
  BY <1>8 DEF Join
<1>9. CASE Cancel
  BY <1>9 DEF Cancel
<1>10. CASE Timeout
  BY <1>10 DEF Timeout
<1>11. CASE Begin
  BY <1>11 DEF Begin, Return
<1>12. CASE Recv
  BY <1>12 DEF Recv
<1>13. CASE Write
  BY <1>13 DEF Write, TooLarge
<1>14. CASE Abort
  BY <1>14 DEF Abort, Return
<1>15. CASE Finish
  BY <1>15, Numbers DEF Finish, StoredTypeOK
<1>16. CASE FinishFails
  BY <1>16, Numbers DEF FinishFails, StoredTypeOK
<1>17. CASE UNCHANGED vars
  BY <1>17 DEF vars
<1> QED
  BY <1>1, <1>2, <1>3, <1>4, <1>5, <1>6, <1>7, <1>8, <1>9, <1>10, <1>11, <1>12, <1>13, <1>14, <1>15, <1>16, <1>17 DEF Next, HandlerStep, WorkerStep

\* Of the steps each part is at.
LEMMA StatesTypeStep ==
  ASSUME UploadTypeOK, [Next]_vars
  PROVE  StatesTypeOK'
<1> USE DEF UploadTypeOK, StatesTypeOK, requestVars, handlerVars, workerVars
<1>1. CASE ClientBreaks
  BY <1>1, ZenonT(60) DEF ClientBreaks
<1>2. CASE Open
  BY <1>2 DEF Open
<1>3. CASE Receive
  BY <1>3 DEF Receive
<1>4. CASE SendFrame
  BY <1>4 DEF SendFrame
<1>5. CASE SendFails
  BY <1>5 DEF SendFails
<1>6. CASE EndOfStream
  BY <1>6 DEF EndOfStream
<1>7. CASE StreamError
  BY <1>7 DEF StreamError
<1>8. CASE Join
  BY <1>8 DEF Join
<1>9. CASE Cancel
  BY <1>9 DEF Cancel
<1>10. CASE Timeout
  BY <1>10 DEF Timeout
<1>11. CASE Begin
  BY <1>11 DEF Begin, Return
<1>12. CASE Recv
  BY <1>12 DEF Recv
<1>13. CASE Write
  BY <1>13 DEF Write, TooLarge
<1>14. CASE Abort
  BY <1>14 DEF Abort, Return
<1>15. CASE Finish
  BY <1>15 DEF Finish, Return
<1>16. CASE FinishFails
  BY <1>16 DEF FinishFails, Return
<1>17. CASE UNCHANGED vars
  BY <1>17, ZenonT(60) DEF vars
<1> QED
  BY <1>1, <1>2, <1>3, <1>4, <1>5, <1>6, <1>7, <1>8, <1>9, <1>10, <1>11, <1>12, <1>13, <1>14, <1>15, <1>16, <1>17 DEF Next, HandlerStep, WorkerStep

\* And of the flags.
LEMMA FlagsTypeStep ==
  ASSUME UploadTypeOK, [Next]_vars
  PROVE  FlagsTypeOK'
<1> USE DEF UploadTypeOK, FlagsTypeOK, requestVars, handlerVars, workerVars
<1>1. CASE ClientBreaks
  BY <1>1 DEF ClientBreaks
<1>2. CASE Open
  BY <1>2 DEF Open
<1>3. CASE Receive
  BY <1>3 DEF Receive
<1>4. CASE SendFrame
  BY <1>4 DEF SendFrame
<1>5. CASE SendFails
  BY <1>5 DEF SendFails
<1>6. CASE EndOfStream
  BY <1>6 DEF EndOfStream
<1>7. CASE StreamError
  BY <1>7 DEF StreamError
<1>8. CASE Join
  BY <1>8 DEF Join
<1>9. CASE Cancel
  BY <1>9 DEF Cancel
<1>10. CASE Timeout
  BY <1>10 DEF Timeout
<1>11. CASE Begin
  BY <1>11 DEF Begin, Return
<1>12. CASE Recv
  BY <1>12 DEF Recv
<1>13. CASE Write
  BY <1>13 DEF Write, TooLarge
<1>14. CASE Abort
  BY <1>14 DEF Abort, Return
<1>15. CASE Finish
  BY <1>15 DEF Finish, Return
<1>16. CASE FinishFails
  BY <1>16 DEF FinishFails, Return
<1>17. CASE UNCHANGED vars
  BY <1>17 DEF vars
<1> QED
  BY <1>1, <1>2, <1>3, <1>4, <1>5, <1>6, <1>7, <1>8, <1>9, <1>10, <1>11, <1>12, <1>13, <1>14, <1>15, <1>16, <1>17 DEF Next, HandlerStep, WorkerStep

\* Every variable has its type, the channel never above its capacity.
THEOREM UploadTypes == Spec => []UploadTypeOK
<1>1. Init => UploadTypeOK
  <2> USE Bounds DEF Init
  <2>1. Init => FramesTypeOK
    <3>1. <<>> \in Seq(0..MaxFrames) /\ Len(<<>>) = 0
      OBVIOUS
    <3> QED
      BY <3>1 DEF FramesTypeOK
  <2>2. Init => StoredTypeOK /\ StatesTypeOK /\ FlagsTypeOK
    BY DEF StoredTypeOK, StatesTypeOK, FlagsTypeOK
  <2> QED
    BY <2>1, <2>2 DEF UploadTypeOK
<1>2. UploadTypeOK /\ [Next]_vars => UploadTypeOK'
  BY FramesTypeStep, StoredTypeStep, StatesTypeStep, FlagsTypeStep DEF UploadTypeOK
<1> QED
  BY <1>1, <1>2, PTL DEF Spec

-----------------------------------------------------------------------------
(* The invariant *)

\* A frame that is sent follows those in the channel.
LEMMA InFlightSend ==
  ASSUME UploadTypeOK, InFlight, SendFrame
  PROVE  InFlight'
<1>1. /\ chan' = Append(chan, read) /\ handler = "send" /\ handler' = "pump"
      /\ read' = read /\ worker' = worker /\ taken' = taken /\ InHand' = InHand
  BY DEF SendFrame, InHand, workerVars
<1>2. /\ Len(chan') = Len(chan) + 1 /\ chan'[Len(chan) + 1] = read
      /\ \A i \in 1..Len(chan) : chan'[i] = chan[i]
  BY <1>1, AppendFacts, Numbers
<1>3. InHand \in Nat
  BY DEF InHand
<1> HIDE DEF InHand
<1>4. SUFFICES ASSUME worker # "over"
               PROVE  /\ \A i \in 1..Len(chan) + 1 : chan'[i] = Len(taken) + InHand + i
                      /\ read = Len(taken) + InHand + Len(chan) + 1
  BY <1>1, <1>2, <1>3, Numbers DEF InFlight
<1>5. /\ \A i \in 1..Len(chan) : chan[i] = Len(taken) + InHand + i
      /\ read = Len(taken) + InHand + Len(chan) + 1
  BY <1>1, <1>4 DEF InFlight
<1>6. ASSUME NEW i \in 1..Len(chan) + 1
      PROVE  chan'[i] = Len(taken) + InHand + i
  <2>1. CASE i = Len(chan) + 1
    BY <2>1, <1>2, <1>3, <1>5, Numbers
  <2>2. CASE i \in 1..Len(chan)
    BY <2>2, <1>2, <1>5
  <2> QED
    BY <2>1, <2>2, Numbers
<1> QED
  BY <1>5, <1>6

\* The worker takes them in their order.
LEMMA InFlightRecv ==
  ASSUME UploadTypeOK, InFlight, Recv
  PROVE  InFlight'
<1>1. /\ worker = "recv" /\ InHand = 0
      /\ read' = read /\ handler' = handler /\ taken' = taken
  BY RecvEffect DEF InHand
<1>2. CASE chan = <<>> /\ worker' = "finish" /\ chan' = chan
  BY <1>1, <1>2 DEF InFlight, InHand
<1>3. CASE chan # <<>> /\ chan' = Tail(chan) /\ worker' = "write"
  <2>1. /\ Len(chan) > 0 /\ Len(chan') = Len(chan) - 1 /\ InHand' = 1
        /\ \A i \in 1..Len(chan) - 1 : chan'[i] = chan[i + 1]
    BY <1>3, TailFacts, Numbers DEF InHand
  <2>2. \A i \in 1..Len(chan) : chan[i] = Len(taken) + i
    BY <1>1, Numbers DEF InFlight
  <2>3. ASSUME NEW i \in 1..Len(chan) - 1
        PROVE  chan'[i] = Len(taken) + 1 + i
    <3>1. i + 1 \in 1..Len(chan)
      BY Numbers
    <3> QED
      BY <2>1, <2>2, <3>1, Numbers
  <2> QED
    BY <1>1, <1>3, <2>1, <2>3, Numbers DEF InFlight
<1> QED
  BY <1>2, <1>3, RecvEffect

\* A write stores the next frame.
LEMMA SessionWrite ==
  ASSUME UploadTypeOK, Session, Write
  PROVE  Session'
<1>1. CASE ~TooLarge /\ worker' = "recv" /\ taken' = Append(taken, frame) /\ result' = result
  <2>1. taken = Frames(Len(taken)) /\ frame = Len(taken) + 1 /\ result = None
    BY WriteEffect DEF Session
  <2>2. taken' = Frames(Len(taken) + 1)
    BY <1>1, <2>1, FramesAppend, Numbers
  <2>3. Len(taken') = Len(taken) + 1
    BY <2>2, FramesAppend, Numbers
  <2>4. MaxObject # 0 => Len(taken') <= MaxObject
    BY <1>1, <2>3, Numbers, Bounds DEF TooLarge
  <2>5. stored' \in {None, Old}
    BY WriteEffect DEF Session
  <2> QED
    BY <1>1, <2>1, <2>2, <2>3, <2>4, <2>5 DEF Session
<1>2. CASE worker' = "abort" /\ taken' = taken /\ result' \in {"too large", "failed"}
  BY <1>2, WriteEffect DEF Session
<1> QED
  BY <1>1, <1>2, WriteEffect

\* A body over the limit is never finished, but for one cut by the timeout.
LEMMA OverTheLimit ==
  ASSUME UploadTypeOK, UInv, worker = "finish"
  PROVE  /\ ~tx
         /\ handler = "join" /\ ~bodyError => read = size /\ Len(taken) = size
         /\ MaxObject # 0 /\ size > MaxObject /\ client = "sending" => reply = "timeout"
<1>1. ~tx /\ chan = <<>> /\ (MaxObject # 0 => Len(taken) <= MaxObject)
  BY DEF UInv, Session
<1>2. handler = "join" /\ ~bodyError => read = size
  BY DEF UInv, Ends
<1>3. handler = "join" => read = Len(taken)
  BY <1>1, Numbers DEF UInv, InFlight, InHand
<1>4. client = "sending" => ~bodyError /\ (handler = "join" \/ reply = "timeout")
  BY <1>1 DEF UInv, Ends, UploadTypeOK, StatesTypeOK
<1>5. handler = "join" /\ ~bodyError /\ MaxObject # 0 => size <= MaxObject
  BY <1>1, <1>2, <1>3
<1> QED
  BY <1>1, <1>2, <1>3, <1>4, <1>5, Numbers, Bounds

\* Every step keeps the frames in order: stored, in hand, in the channel.
LEMMA InFlightStep ==
  ASSUME UploadTypeOK, UInv, [Next]_vars
  PROVE  InFlight'
<1> USE Bounds DEF UploadTypeOK, FramesTypeOK, UInv, InFlight, InHand, requestVars, handlerVars, workerVars
<1>1. CASE ClientBreaks
  BY <1>1 DEF ClientBreaks
<1>2. CASE Open
  BY <1>2 DEF Open, Ends
<1>3. CASE Receive
  BY <1>3 DEF Receive
<1>4. CASE SendFrame
  BY <1>4, InFlightSend
<1>5. CASE SendFails
  BY <1>5 DEF SendFails, Ends
<1>6. CASE EndOfStream
  BY <1>6 DEF EndOfStream
<1>7. CASE StreamError
  BY <1>7 DEF StreamError
<1>8. CASE Join
  BY <1>8 DEF Join
<1>9. CASE Cancel
  BY <1>9 DEF Cancel
<1>10. CASE Timeout
  BY <1>10 DEF Timeout
<1>11. CASE Begin
  BY <1>11 DEF Begin, Return
<1>12. CASE Recv
  BY <1>12, InFlightRecv
<1>13. CASE Write
  <2>1. CASE worker' = "recv" /\ taken' = Append(taken, frame)
    <3>1. Len(taken') = Len(taken) + 1
      BY <2>1, AppendFacts, Numbers
    <3> QED
      BY <1>13, <2>1, <3>1, Numbers, WriteEffect
  <2>2. CASE worker' = "abort" /\ taken' = taken
    BY <1>13, <2>2, WriteEffect
  <2> QED
    BY <1>13, <2>1, <2>2, WriteEffect
<1>14. CASE Abort
  BY <1>14 DEF Abort, Return
<1>15. CASE Finish
  BY <1>15 DEF Finish, Return
<1>16. CASE FinishFails
  BY <1>16 DEF FinishFails, Return
<1>17. CASE UNCHANGED vars
  BY <1>17 DEF vars
<1> QED
  BY <1>1, <1>2, <1>3, <1>4, <1>5, <1>6, <1>7, <1>8, <1>9, <1>10, <1>11, <1>12, <1>13, <1>14, <1>15, <1>16, <1>17 DEF Next, HandlerStep, WorkerStep

\* Every step keeps what the ends of the channel tell one another.
LEMMA EndsStep ==
  ASSUME UploadTypeOK, UInv, [Next]_vars
  PROVE  Ends'
<1> USE Bounds DEF UploadTypeOK, UInv, Ends, Session, requestVars, handlerVars, workerVars
<1>1. CASE ClientBreaks
  BY <1>1 DEF ClientBreaks
<1>2. CASE Open
  BY <1>2 DEF Open
<1>3. CASE Receive
  BY <1>3 DEF Receive
<1>4. CASE SendFrame
  <2>1. worker # "none"
    BY <1>4 DEF SendFrame
  <2> QED
    BY <1>4, <2>1 DEF SendFrame
<1>5. CASE SendFails
  BY <1>5 DEF SendFails
<1>6. CASE EndOfStream
  BY <1>6 DEF EndOfStream
<1>7. CASE StreamError
  BY <1>7 DEF StreamError
<1>8. CASE Join
  BY <1>8 DEF Join
<1>9. CASE Cancel
  BY <1>9 DEF Cancel
<1>10. CASE Timeout
  BY <1>10 DEF Timeout
<1>11. CASE Begin
  BY <1>11 DEF Begin, Return
<1>12. CASE Recv
  BY <1>12 DEF Recv
<1>13. CASE Write
  BY <1>13 DEF Write, TooLarge
<1>14. CASE Abort
  BY <1>14 DEF Abort, Return
<1>15. CASE Finish
  BY <1>15 DEF Finish, Return
<1>16. CASE FinishFails
  BY <1>16 DEF FinishFails, Return
<1>17. CASE UNCHANGED vars
  BY <1>17 DEF vars
<1> QED
  BY <1>1, <1>2, <1>3, <1>4, <1>5, <1>6, <1>7, <1>8, <1>9, <1>10, <1>11, <1>12, <1>13, <1>14, <1>15, <1>16, <1>17 DEF Next, HandlerStep, WorkerStep

\* And what the session has stored.
LEMMA SessionStep ==
  ASSUME UploadTypeOK, UInv, [Next]_vars
  PROVE  Session'
<1> USE Bounds DEF UploadTypeOK, FramesTypeOK, UInv, Session, Ends, requestVars, handlerVars, workerVars
<1>1. CASE ClientBreaks
  BY <1>1 DEF ClientBreaks
<1>2. CASE Open
  BY <1>2 DEF Open
<1>3. CASE Receive
  BY <1>3 DEF Receive
<1>4. CASE SendFrame
  BY <1>4 DEF SendFrame
<1>5. CASE SendFails
  BY <1>5 DEF SendFails
<1>6. CASE EndOfStream
  BY <1>6 DEF EndOfStream
<1>7. CASE StreamError
  BY <1>7 DEF StreamError
<1>8. CASE Join
  BY <1>8 DEF Join
<1>9. CASE Cancel
  BY <1>9 DEF Cancel
<1>10. CASE Timeout
  BY <1>10 DEF Timeout
<1>11. CASE Begin
  BY <1>11 DEF Begin, Return
<1>12. CASE Recv
  <2>1. CASE chan # <<>> /\ frame' = Head(chan) /\ chan' = Tail(chan) /\ worker' = "write"
    <3>1. frame' = Len(taken) + 1
      BY <1>12, <2>1, TailFacts, Numbers, RecvEffect DEF InFlight, InHand
    <3> QED
      BY <1>12, <2>1, <3>1, RecvEffect
  <2>2. CASE chan = <<>> /\ ~tx /\ worker' = "finish"
    BY <1>12, <2>2, RecvEffect
  <2> QED
    BY <1>12, <2>1, <2>2, RecvEffect
<1>13. CASE Write
  BY <1>13, SessionWrite
<1>14. CASE Abort
  BY <1>14 DEF Abort, Return
<1>15. CASE Finish
  BY <1>15 DEF Finish, Return
<1>16. CASE FinishFails
  BY <1>16 DEF FinishFails, Return
<1>17. CASE UNCHANGED vars
  BY <1>17 DEF vars
<1> QED
  BY <1>1, <1>2, <1>3, <1>4, <1>5, <1>6, <1>7, <1>8, <1>9, <1>10, <1>11, <1>12, <1>13, <1>14, <1>15, <1>16, <1>17 DEF Next, HandlerStep, WorkerStep

\* And what the reply says of it.
LEMMA OutcomeStep ==
  ASSUME UploadTypeOK, UInv, [Next]_vars
  PROVE  Outcome'
<1> USE Bounds DEF UploadTypeOK, UInv, Ends, Session, Outcome, requestVars, handlerVars, workerVars
<1>1. CASE ClientBreaks
  BY <1>1 DEF ClientBreaks
<1>2. CASE Open
  BY <1>2 DEF Open
<1>3. CASE Receive
  BY <1>3 DEF Receive
<1>4. CASE SendFrame
  BY <1>4 DEF SendFrame
<1>5. CASE SendFails
  BY <1>5 DEF SendFails
<1>6. CASE EndOfStream
  BY <1>6 DEF EndOfStream
<1>7. CASE StreamError
  BY <1>7 DEF StreamError
<1>8. CASE Join
  <2>1. /\ handler = "join" /\ worker = "over"
        /\ reply' = IF bodyError THEN "bad body" ELSE result
        /\ UNCHANGED <<size, client, worker, result, bodyError, tx, stored, taken>>
    BY <1>8 DEF Join
  <2>2. reply' = "created" => ~bodyError /\ result = "created" /\ stored = taken /\ Len(taken) = size
    BY <2>1
  <2>3. reply' = "created" => stored' = Frames(size)'
    BY <2>1, <2>2 DEF Frames
  <2>4. client = "sending" => reply # "timeout"
    BY <2>1, NoneDistinct
  <2> QED
    BY <2>1, <2>2, <2>3, <2>4
<1>9. CASE Cancel
  BY <1>9 DEF Cancel
<1>10. CASE Timeout
  BY <1>10 DEF Timeout
<1>11. CASE Begin
  BY <1>11 DEF Begin, Return
<1>12. CASE Recv
  BY <1>12 DEF Recv
<1>13. CASE Write
  BY <1>13 DEF Write, TooLarge
<1>14. CASE Abort
  BY <1>14 DEF Abort, Return
<1>15. CASE Finish
  <2>1. /\ worker = "finish" /\ stored' = taken /\ worker' = "over" /\ result' = "created"
        /\ UNCHANGED <<size, client, handler, bodyError, reply, tx, taken>>
    BY <1>15 DEF Finish, Return
  <2>2. /\ ~tx
        /\ handler = "join" /\ ~bodyError => Len(taken) = size
        /\ MaxObject # 0 /\ size > MaxObject /\ client = "sending" => reply = "timeout"
    BY <2>1, OverTheLimit
  <2> QED
    BY <2>1, <2>2
<1>16. CASE FinishFails
  <2>1. /\ worker = "finish" /\ worker' = "over" /\ result' = "failed"
        /\ stored' = stored \/ stored' = taken
        /\ UNCHANGED <<size, client, handler, bodyError, reply, tx, taken>>
    BY <1>16 DEF FinishFails, Return
  <2>2. /\ ~tx
        /\ handler = "join" /\ ~bodyError => Len(taken) = size
        /\ MaxObject # 0 /\ size > MaxObject /\ client = "sending" => reply = "timeout"
    BY <2>1, OverTheLimit
  <2> QED
    BY <2>1, <2>2
<1>17. CASE UNCHANGED vars
  BY <1>17 DEF vars
<1> QED
  BY <1>1, <1>2, <1>3, <1>4, <1>5, <1>6, <1>7, <1>8, <1>9, <1>10, <1>11, <1>12, <1>13, <1>14, <1>15, <1>16, <1>17 DEF Next, HandlerStep, WorkerStep

\* The inductive invariant: frames in flight stay in order, the ends' states
\* agree, a commit with a waiting handler is a commit of the whole body.
THEOREM UploadInvariant == Spec => []UInv
<1>1. Init => UInv
  <2> SUFFICES ASSUME Init PROVE UInv
    OBVIOUS
  <2>1. Len(taken) = 0 /\ Len(chan) = 0 /\ read = 0
    BY DEF Init
  <2>2. taken = Frames(0)
    BY DEF Init, Frames
  <2>3. InFlight
    BY <2>1 DEF Init, InFlight, InHand
  <2>4. Ends /\ Outcome
    BY NoneDistinct DEF Init, Ends, Outcome
  <2>5. Session
    BY <2>1, <2>2, Bounds DEF Init, Session
  <2> QED
    BY <2>3, <2>4, <2>5 DEF UInv
<1>2. UploadTypeOK /\ UInv /\ [Next]_vars => UInv'
  BY InFlightStep, EndsStep, SessionStep, OutcomeStep DEF UInv
<1> QED
  BY <1>1, <1>2, UploadTypes, PTL DEF Spec

-----------------------------------------------------------------------------
(* What callers may rely on *)

\* Types and invariant together, as the run checks them.
THEOREM UploadInvHolds == Spec => []UploadInv
<1>1. UploadTypeOK /\ UInv => UploadInv
  BY DEF UploadInv
<1> QED
  BY <1>1, UploadTypes, UploadInvariant, PTL

\* A client that is told "created" has its whole object stored.
THEOREM AcknowledgedWhole == Spec => []CreatedWhole
<1>1. UInv => CreatedWhole
  BY DEF UInv, Outcome, CreatedWhole
<1> QED
  BY <1>1, UploadInvariant, PTL

\* What is stored, cut or not, is the beginning of the body.
THEOREM StoredPrefix == Spec => []NoHoles
<1>1. UInv => NoHoles
  BY DEF UInv, Session, NoHoles
<1> QED
  BY <1>1, UploadInvariant, PTL

\* A refused upload leaves the key as it was.
THEOREM RefusalHarmless == Spec => []RefusedUnchanged
<1>1. UInv => RefusedUnchanged
  BY DEF UInv, Session, Outcome, RefusedUnchanged
<1> QED
  BY <1>1, UploadInvariant, PTL

\* No stored object exceeds max_object_size.
THEOREM LimitKept == Spec => []LimitHolds
<1>1. UInv => LimitHolds
  BY DEF UInv, Session, LimitHolds
<1> QED
  BY <1>1, UploadInvariant, PTL

\* At most Capacity + 2 frames are between the network and the session.
THEOREM BoundedBuffers == Spec => []Backpressure
<1>1. ASSUME UploadTypeOK, UInv
      PROVE  Backpressure
  <2>1. InHand \in {0, 1}
    BY DEF InHand
  <2>2. worker # "over" => read <= Len(taken) + InHand + Len(chan) + 1
    BY <1>1 DEF UInv, InFlight
  <2> HIDE DEF InHand
  <2> QED
    BY <1>1, <2>1, <2>2, Numbers, Bounds DEF Backpressure
<1> QED
  BY <1>1, UploadTypes, UploadInvariant, PTL
=============================================================================

-------------------------- MODULE MediaReadInvariant --------------------------
(***************************************************************************)
(* Why the properties of MediaRead hold: an inductive invariant, whose     *)
(* parts say what the request is, where the task stands in it, what is in  *)
(* the channel and what the client has.                                    *)
(***************************************************************************)
EXTENDS MediaRead

Message == [bytes : Seq(Chunks \X Nat), offset : Nat, last : BOOLEAN]

\* Where a message ends; where the client is; where the whole range ends.
Past(m) == m.offset + Len(m.bytes)
GotTo == IF got = <<>> THEN offset ELSE Past(got[Len(got)])
Limit == IF Wrapped THEN Total(object) ELSE end

StoreOK ==
  /\ manifest \in Objects \cup {None} /\ files \in [Chunks -> {"absent", "whole", "damaged"}]
  /\ deleting \in {None} \cup Seq(Chunks)
  /\ writes \in 0..MaxWrites /\ faults \in 0..MaxFaults

\* The limits of the cache, which they are kept by.
CacheOK == CacheTypeOK /\ CacheWithinLimits

\* Only grpc and stream start a range that wraps; only an empty object has an
\* empty range that is started.
RequestOK ==
  /\ route \in Routes \cup {None} /\ object \in Objects \cup {<<>>}
  /\ {offset, end} \subseteq Nat /\ declared \in Nat \cup {None} /\ changed \in BOOLEAN
  /\ task \in {"idle", "lookup", "read", "insert", "send", "fail", "over"}
  /\ task = "idle" => object = <<>> /\ offset = 0 /\ end = 0
  /\ task # "idle" =>
       /\ route \in Routes /\ object \in Objects /\ end <= Total(object)
       /\ route \in {"rest", "whole"} => ~Wrapped
       /\ route = "whole" => offset = 0 /\ end = Total(object)
       /\ route = "rest" => declared = end - offset
  /\ task \notin {"idle", "over"} =>
       \/ offset < end
       \/ Wrapped /\ offset < Total(object) /\ route \in {"grpc", "stream"}
       \/ route \in {"rest", "whole"} /\ Total(object) = 0 /\ offset = 0 /\ end = 0

\* Where the task is: at the chunk that holds the next byte to send, with the
\* chunk's true bytes once it has any.
TaskOK ==
  /\ ahead \in BOOLEAN /\ {idx, position} \subseteq Nat /\ data \in Seq(Chunks \X Nat)
  /\ task \notin {"idle", "over"} =>
       /\ idx >= StartIdx
       /\ ahead => route = "rest" /\ position = offset /\ got = <<>> /\ chan = <<>>
       /\ ~ahead => position = IF idx = StartIdx THEN offset ELSE Lesser(idx * ChunkSize, Limit)
       /\ task # "lookup" => idx < IF ahead THEN AheadEnd ELSE LastIdx + 1
       /\ task \in {"insert", "send"} => data = Content(Chunk)
       /\ task \in {"send", "fail"} => ~ahead
       /\ task = "fail" => changed

\* As long as nothing has happened to the object, its files are there.
Untouched ==
  task \notin {"idle", "over"} /\ ~changed =>
    /\ manifest = object /\ manifest # None
    /\ \A c \in Range(object) : files[c] = "whole"

\* A message is the piece of the object its offset and length say, and the
\* last one if it ends where the range does.
Piece(m) ==
  /\ m \in Message /\ m.bytes # <<>> /\ Past(m) <= Limit
  /\ m.bytes = SubSeq(ContentOf(object), m.offset + 1, Past(m))
  /\ route = "grpc" => (m.last <=> Past(m) = Limit)

\* The messages in the channel follow what the client has and each other
\* without a gap, up to where the task stands; an error is the last of them.
ChannelOK ==
  /\ chan \in Seq(Message \cup {Error})
  /\ task = "idle" => chan = <<>>
  /\ \A i \in 1..Len(chan) :
       \/ /\ chan[i] = Error /\ i = Len(chan) /\ task = "over" /\ changed
       \/ /\ Piece(chan[i])
          /\ chan[i].offset = IF i = 1 THEN GotTo ELSE Past(chan[i - 1])
  /\ task # "idle" /\ client = "reading" =>
       IF chan = <<>> THEN position = GotTo
       ELSE chan[Len(chan)] = Error \/ position = Past(chan[Len(chan)])

\* The client has the range up to where its last message ends.
HeldOK ==
  /\ got \in Seq(Message)
  /\ got # <<>> => task # "idle" /\ offset < GotTo /\ GotTo <= Limit
  /\ Delivered = SubSeq(ContentOf(object), offset + 1, GotTo)
  /\ \A i \in 1..Len(got) :
       got[i].offset = offset + Len(FlattenSeq([j \in 1..(i - 1) |-> got[j].bytes]))
  /\ route = "grpc" => \A i \in 1..Len(got) : got[i].last <=> (i = Len(got) /\ GotTo = Limit)

\* How it ends.
ClientOK ==
  /\ client \in IF task = "idle" THEN {"idle", "not found"} ELSE {"reading", "gone", "done", "failed"}
  /\ task = "over" /\ client = "reading" /\ ~Wrapped =>
       \/ position = Limit
       \/ chan # <<>> /\ chan[Len(chan)] = Error
  /\ client = "done" /\ ~Wrapped => GotTo = Limit
  /\ client = "failed" /\ ~Wrapped => changed

ReadIInv ==
  StoreOK /\ CacheOK /\ RequestOK /\ TaskOK /\ Untouched /\ ChannelOK /\ HeldOK /\ ClientOK
=============================================================================

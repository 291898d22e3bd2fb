--------------------------- MODULE StreamsInvariant ---------------------------
(***************************************************************************)
(* The inductive invariant behind the properties of Streams: what a walk   *)
(* has passed, what its next page still has to bring, and what holds of    *)
(* the entries of a playlist from the moment they are taken.               *)
(***************************************************************************)
EXTENDS Streams

Requests == [prefix : Seq(Nat), limit : Nat, id : Seq(Nat), variant : Seq(Nat)]

Phases(k) ==
  CASE k = "none"    -> {"idle"}
    [] k = "media"   -> {"page", "done"}
    [] k = "streams" -> {"page", "done"}
    [] k = "delete"  -> {"list", "delete", "done"}
    [] k = "master"  -> {"master", "done", "not found"}
    [] k = "hls"     -> {"init", "segments", "done", "not found"}
    [] k = "dash"    -> {"variants", "each", "done", "not found"}

\* The types, and which phases a request goes through.
TypeInv ==
  /\ objects \subseteq Keys /\ start \subseteq Keys /\ put \subseteq Keys /\ lost \subseteq Keys
  /\ changes \in 0..MaxChanges
  /\ kind \in {"none", "media", "streams", "delete", "master", "hls", "dash"}
  /\ phase \in Phases(kind)
  /\ arg \in Requests
  /\ (phase \in {"delete", "each"}) = (phase \notin {"done", "page"} /\ todo # <<>>)

\* Before the request nothing is there to remember.
FreshInv ==
  kind = "none" => changes = 0 /\ put = {} /\ lost = {} /\ cursor = None /\ todo = <<>> /\ answer = <<>>

InFolder(k) == IsPrefix(Folder(arg.id), k)

\* What is stored was so from the start or was put; what is not was lost, or
\* deleted with its stream.
HistoryInv ==
  kind # "none" =>
    /\ objects \subseteq AtSomeTime
    /\ start \ objects \subseteq lost \cup (IF kind = "delete" THEN {k \in Keys : InFolder(k)} ELSE {})

Ascends(s) == \A i, j \in 1..Len(s) : i < j => Less(s[i], s[j])
UnderPrefix(k) == IsPrefix(arg.prefix, k)

\* The pages so far are in order and hold all that stayed up to the cursor.
MediaInv ==
  kind = "media" =>
    /\ answer \in Seq({k \in AtSomeTime : UnderPrefix(k)}) /\ Ascends(answer)
    /\ cursor = None \/ (answer # <<>> /\ cursor = Last(answer))
    /\ phase = "page" /\ cursor = None => answer = <<>>
    /\ \A k \in Throughout : UnderPrefix(k) =>
         \/ k \in Range(answer)
         \/ phase = "page" /\ (cursor = None \/ Less(cursor, k))

\* The keys deleted and those of the page at hand are in order; a key of the
\* stream that was not put meanwhile is on the page or behind the cursor.
DeleteInv ==
  kind = "delete" =>
    LET met == answer \o todo IN
    /\ answer \in Seq({k \in Keys : InFolder(k)}) /\ todo \in Seq({k \in Keys : InFolder(k)})
    /\ Ascends(met)
    /\ cursor = None \/ (met # <<>> /\ cursor = Last(met))
    /\ phase = "list" /\ cursor = None => answer = <<>>
    /\ phase = "done" => todo = <<>>
    /\ \A k \in objects \ put : InFolder(k) =>
         \/ k \in Range(todo)
         \/ phase = "list" /\ cursor = None
         \/ phase # "done" /\ cursor # None /\ Less(cursor, k)

Behind(last) == <<StreamPrefix>> \o last \o <<Zero>>
UnderStreams(k) == IsOfStream(k) /\ IsPrefix(<<StreamPrefix>> \o arg.prefix, k)

\* Every stream returned is no later than the last one of some page, no page
\* ended behind the cursor, and a stream that stayed is returned, stepped over
\* or behind the cursor.
StreamsInv ==
  kind = "streams" =>
    /\ answer \in Seq(StreamIds(AtSomeTime)) /\ todo \in Seq({StreamOf(k) : k \in {l \in Keys : IsOfStream(l)}})
    /\ \A i, j \in 1..Len(answer) : i < j => Less(answer[i], answer[j]) \/ ComesAgain(answer[j])
    /\ phase = "page" => cursor = IF todo = <<>> THEN None ELSE Behind(Last(todo))
    /\ phase = "page" => \A i \in 1..Len(answer) : \E m \in 1..Len(todo) : answer[i] = todo[m] \/ Less(answer[i], todo[m])
    /\ phase = "page" => \A m \in 1..Len(todo) : Behind(todo[m]) = cursor \/ Less(Behind(todo[m]), cursor)
    /\ arg.limit > 0 /\ Len(Index) <= ScanLimit =>
         \A k \in Throughout : UnderStreams(k) =>
           \/ StreamOf(k) \in Range(answer) \/ SteppedOver(StreamOf(k))
           \/ phase = "page" /\ (cursor = None \/ Less(cursor, k))

Segments == [key : Keys, index : Nat, duration : Int]

\* An entry of an HLS playlist or of a DASH manifest.
Whole(r) ==
  LET keys == [i \in 1..Len(r.segments) |-> r.segments[i].key]
  IN /\ r.variant \in Seq(Nat) /\ r.segments \in Seq(Segments)
     /\ InitKey(arg.id, r.variant) \in AtSomeTime
     /\ IsInjective(keys)
     /\ Len(Index) <= ScanLimit => SegmentKeys(Throughout, r.variant) \subseteq Range(keys)
     /\ Range(keys) \subseteq SegmentKeys(AtSomeTime, r.variant)
     /\ (\A k \in Range(keys) : Agrees(k)) =>
          \A i, j \in 1..Len(keys) : i < j => NumberOf(keys[i]) <= NumberOf(keys[j])

\* The entries taken are whole, and the init files of those to come were there.
PlaylistInv ==
  kind \in {"hls", "dash"} =>
    /\ \A i \in 1..Len(answer) : Whole(answer[i])
    /\ phase = "segments" => InitKey(arg.id, arg.variant) \in AtSomeTime
    /\ kind = "dash" => \A i \in 1..Len(todo) :
         todo[i].variant \in Seq(Nat) /\ InitKey(arg.id, todo[i].variant) \in AtSomeTime
    /\ answer \in Seq(Range(answer)) /\ todo \in Seq(Range(todo))

ListingInv ==
  /\ TypeInv /\ FreshInv /\ HistoryInv
  /\ MediaInv /\ DeleteInv /\ StreamsInv
  /\ PlaylistInv /\ MasterComplete
===============================================================================

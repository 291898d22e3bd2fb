------------------------------- MODULE Streams -------------------------------
(***************************************************************************)
(* Streams: what crates/kaidadb-api/src/streaming.rs reads out of the keys *)
(* under the stream prefix for the handlers of grpc.rs and rest.rs, while  *)
(* keys come and go: the list of streams, the deletion of one, the HLS     *)
(* playlists and the DASH manifest.  Wording, URLs and attributes that are *)
(* copied through are left out; a playlist is the sequence of its entries. *)
(***************************************************************************)
EXTENDS Listing

CONSTANTS
  StreamPrefix, Slash, Zero,   \* the tokens "streams/", "/" and "0"
  VariantsDir, InitFile,       \* "variants" and "init.mp4"
  SegFile, Dot,                \* "seg-" and what follows a segment's number
  Number,                      \* the numbers that sequences of digit tokens spell
  Padded,                      \* the token of each number with six digits
  Meta,                        \* the metadata of each init file and segment
  Absent,                      \* a field the metadata lack
  AskedStreams, Ids, Variants, \* what clients name
  ScanLimit, VariantScan,      \* the keys read to find streams or segments, 100000, and variants, 10000
  DeletePage                   \* 1000

ASSUME StreamTokens ==
  /\ {StreamPrefix, Slash, Zero, VariantsDir, InitFile, SegFile} \subseteq Nat /\ Slash < Zero
  /\ AskedStreams \cup Ids \cup Variants \subseteq Seq(Nat)
  /\ {ScanLimit, VariantScan, DeletePage} \subseteq Nat

\* Fields that are numbers are parsed as such; a bandwidth that is none is 0.
\* "seg-" is neither a number nor what follows one.
ASSUME StreamNumbers ==
  /\ \A k \in Keys : /\ Meta[k].bandwidth \in Nat
                     /\ Meta[k].index = Absent \/ Meta[k].index \in Nat
                     /\ Meta[k].duration = Absent \/ Meta[k].duration \in Int
  /\ Range(Number) \subseteq Nat
  /\ SegFile \notin Range(Padded) \cup {Dot}

\* The stream id a key belongs to: what is before the first slash.
StreamOf(k) ==
  LET rest == Tail(k)
      at == SelectInSeq(rest, LAMBDA t : t = Slash)
  IN SubSeq(rest, 1, at - 1)
IsOfStream(k) == Len(k) > 1 /\ Head(k) = StreamPrefix /\ Slash \in Range(Tail(k))
IsInit(k) == IsSuffix(<<Slash, InitFile>>, k)

\* A BTreeMap's order of stream ids.
InOrder(ids) == Ranked(ids, {p \in ids \X ids : Less(p[1], p[2])})

\* sort_by: what is at i goes before what is at j if <<i, j>> is in before;
\* the rest keeps its order.
StableSort(s, before) ==
  LET places == DOMAIN s
      order  == {p \in places \X places : p \in before \/ (p[1] < p[2] /\ <<p[2], p[1]>> \notin before)}
      perm   == Ranked(places, order)
  IN [i \in 1..Len(s) |-> s[perm[i]]]

-----------------------------------------------------------------------------
(* list_streams *)

StreamsList_SlashCursor(prefix, limit, cur) ==
  LET keys == List(<<StreamPrefix>> \o prefix, ScanLimit, cur).page
      ids  == {StreamOf(k) : k \in {l \in Range(keys) : IsOfStream(l)}}
      all  == InOrder(ids)
      page == SubSeq(all, 1, IF limit < Len(all) THEN limit ELSE Len(all))
  IN [page |-> page,
      next |-> IF Len(page) = limit /\ page # <<>>
               THEN <<StreamPrefix>> \o Last(page) \o <<Slash>> ELSE None]

\* One call: up to ScanLimit keys are grouped by stream.  The next cursor lies
\* behind every key "streams/<last id>/...", but also behind those of ids that
\* go on with a character before "0", which come later in the order of ids.
StreamsList(prefix, limit, cur) ==
  LET keys == List(<<StreamPrefix>> \o prefix, ScanLimit, cur).page
      ids  == {StreamOf(k) : k \in {l \in Range(keys) : IsOfStream(l)}}
      all  == InOrder(ids)
      page == SubSeq(all, 1, IF limit < Len(all) THEN limit ELSE Len(all))
  IN [page |-> page,
      next |-> IF Len(page) = limit /\ page # <<>>
               THEN <<StreamPrefix>> \o Last(page) \o <<Zero>> ELSE None]

ListStreams(api, prefix, limit) ==
  Begin("streams", [NoArg EXCEPT !.prefix = prefix, !.limit = Limit(api, limit)], "page")

\* One call; todo keeps the id each page ended with.
StreamsPage ==
  /\ kind = "streams" /\ phase = "page"
  /\ LET l == StreamsList(arg.prefix, arg.limit, cursor)
     IN /\ answer' = answer \o l.page
        /\ todo' = IF l.next = None THEN todo ELSE Append(todo, Last(l.page))
        /\ cursor' = l.next
        /\ phase' = IF l.next = None THEN "done" ELSE "page"
  /\ UNCHANGED <<storeVars, requestVars>>

-----------------------------------------------------------------------------
(* delete_stream *)

Folder(id) == <<StreamPrefix>> \o id \o <<Slash>>

DeleteStream(id) == Begin("delete", [NoArg EXCEPT !.id = id], "list")

DeleteList_NoSlash ==
  /\ kind = "delete" /\ phase = "list"
  /\ LET l == List(<<StreamPrefix>> \o arg.id, DeletePage, cursor)
     IN /\ todo' = l.page /\ cursor' = l.next
        /\ phase' = IF l.page = <<>> THEN "done" ELSE "delete"
  /\ UNCHANGED <<storeVars, requestVars, answer>>

\* The next page of the stream's keys; an empty one ends the loop.
DeleteList ==
  /\ kind = "delete" /\ phase = "list"
  /\ LET l == List(Folder(arg.id), DeletePage, cursor)
     IN /\ todo' = l.page /\ cursor' = l.next
        /\ phase' = IF l.page = <<>> THEN "done" ELSE "delete"
  /\ UNCHANGED <<storeVars, requestVars, answer>>

\* engine.delete: also counted when another request was faster.  The answer is
\* the keys counted.
DeleteNext ==
  /\ kind = "delete" /\ phase = "delete"
  /\ objects' = objects \ {Head(todo)}
  /\ answer' = Append(answer, Head(todo))
  /\ todo' = Tail(todo)
  /\ phase' = IF todo' # <<>> THEN "delete" ELSE IF cursor = None THEN "done" ELSE "list"
  /\ UNCHANGED <<changes, put, lost, requestVars, cursor>>

-----------------------------------------------------------------------------
(* Playlists *)

\* The folder of variants, as the code builds it: id is "movie/" for keys laid
\* out as docs/streaming-guide.md says.
VariantsOf(id) == <<StreamPrefix>> \o id \o <<VariantsDir, Slash>>
InitKey(id, v) == VariantsOf(id) \o v \o <<Slash, InitFile>>

\* discover_variants: the init files, by falling bandwidth.
DiscoverVariants(id) ==
  LET under == Len(VariantsOf(id))
      read  == List(VariantsOf(id), VariantScan, None).page
      keys  == Kept(read, {k \in Range(read) : IsInit(k) /\ Len(k) >= under + 2})
      vs    == [i \in 1..Len(keys) |->
                  [variant |-> SubSeq(keys[i], under + 1, Len(keys[i]) - 2),
                   bandwidth |-> Meta[keys[i]].bandwidth, type |-> Meta[keys[i]].type]]
  IN StableSort(vs, {p \in (DOMAIN vs) \X (DOMAIN vs) : vs[p[1]].bandwidth > vs[p[2]].bandwidth})

\* extract_segment_index: the number between "seg-" and the first dot.
NumberOf(k) ==
  LET name  == SubSeq(k, 1 + SelectLastInSeq(k, LAMBDA t : t = SegFile), Len(k))
      dot   == SelectInSeq(name, LAMBDA t : t = Dot)
      digit == IF dot = 0 THEN name ELSE SubSeq(name, 1, dot - 1)
  IN IF digit \in DOMAIN Number THEN Number[digit] ELSE Absent

IndexOf(k, place) == IF Meta[k].index # Absent THEN Meta[k].index
                     ELSE IF NumberOf(k) # Absent THEN NumberOf(k) ELSE place

DiscoverSegments_KeyOrder(id, v) ==
  LET keys == List(VariantsOf(id) \o v \o <<Slash, SegFile>>, ScanLimit, None).page
  IN [i \in 1..Len(keys) |->
        [key |-> keys[i], index |-> i - 1, duration |-> Meta[keys[i]].duration]]

\* discover_segments: each with its index, from the metadata, else from its
\* name, else its place in the list; then by index.  Durations are seconds, as
\* floats; here they are counts of 0.1 ms.
DiscoverSegments(id, v) ==
  LET keys == List(VariantsOf(id) \o v \o <<Slash, SegFile>>, ScanLimit, None).page
      segs == [i \in 1..Len(keys) |->
                 [key |-> keys[i], index |-> IndexOf(keys[i], i - 1),
                  duration |-> IF Meta[keys[i]].duration = Absent THEN 40000
                               ELSE Meta[keys[i]].duration]]
  IN StableSort(segs, {p \in (DOMAIN segs) \X (DOMAIN segs) : segs[p[1]].index < segs[p[2]].index})

OfType(vs, type) == Kept(vs, {v \in Range(vs) : v.type = type})

Entries(tag, vs, groups) ==
  [i \in 1..Len(vs) |-> [tag |-> tag, variant |-> vs[i].variant, groups |-> groups]]

\* generate_hls_master: audio and subtitle renditions, then the streams that
\* name their groups; audio alone is a stream as well.
MasterEntries(vs) ==
  LET audio  == OfType(vs, "audio")
      subs   == OfType(vs, "subtitle")
      video  == OfType(vs, "video")
      groups == (IF audio # <<>> THEN {"audio"} ELSE {}) \cup (IF subs # <<>> THEN {"subs"} ELSE {})
  IN Entries("audio", audio, {}) \o Entries("subs", subs, {}) \o Entries("stream", video, groups)
       \o (IF video = <<>> THEN Entries("stream", audio, {}) ELSE <<>>)

GetMaster(id) == Begin("master", [NoArg EXCEPT !.id = id], "master")

Master ==
  /\ phase = "master"
  /\ LET vs == DiscoverVariants(arg.id)
     IN /\ answer' = MasterEntries(vs)
        /\ phase' = IF vs = <<>> THEN "not found" ELSE "done"
  /\ UNCHANGED <<storeVars, requestVars, cursor, todo>>

GetPlaylist(id, v) == Begin("hls", [NoArg EXCEPT !.id = id, !.variant = v], "init")

\* get_hls_media_playlist first looks for the init file ...
PlaylistInit ==
  /\ phase = "init"
  /\ phase' = IF InitKey(arg.id, arg.variant) \in objects THEN "segments" ELSE "not found"
  /\ UNCHANGED <<storeVars, requestVars, cursor, todo, answer>>

\* ... then lists the segments.
PlaylistSegments ==
  /\ phase = "segments"
  /\ answer' = <<[variant |-> arg.variant, type |-> Absent,
                  segments |-> DiscoverSegments(arg.id, arg.variant)]>>
  /\ phase' = "done"
  /\ UNCHANGED <<storeVars, requestVars, cursor, todo>>

GetDash(id) == Begin("dash", [NoArg EXCEPT !.id = id], "variants")

DashVariants ==
  /\ phase = "variants"
  /\ todo' = DiscoverVariants(arg.id)
  /\ phase' = IF todo' = <<>> THEN "not found" ELSE "each"
  /\ UNCHANGED <<storeVars, requestVars, cursor, answer>>

\* The segments of one variant after the other.
DashSegments ==
  /\ phase = "each"
  /\ LET v == Head(todo)
     IN answer' = Append(answer, [variant |-> v.variant, type |-> v.type,
                                  segments |-> DiscoverSegments(arg.id, v.variant)])
  /\ todo' = Tail(todo)
  /\ phase' = IF todo' = <<>> THEN "done" ELSE "each"
  /\ UNCHANGED <<storeVars, requestVars, cursor>>

\* generate_dash_mpd: one representation per video and audio variant.
Representations(reps) == OfType(reps, "video") \o OfType(reps, "audio")

Sum(segs) == FoldSeq(LAMBDA s, n : s.duration + n, 0, segs)
\* Of the first variant, whatever its type.
Presentation(reps) == Sum(reps[1].segments)
\* mediaPresentationDuration as format_iso_duration prints it: to 0.1 s, a tie
\* as the float falls.
Tenths(t) == {(t + 500) \div 1000, (t + 499) \div 1000}
\* The duration of a SegmentTemplate, in ms: cut off, and the product of a float
\* with 1000 may fall short of a whole number (2.01 gives 2009).
Millis(t) == IF t <= 0 THEN {0} ELSE {t \div 10, (t - 1) \div 10}
\* Neighbours are within 0.01 s.  Exactly that much passes or not as the floats
\* fall; it is taken to pass, where a player is given a pattern to follow.
Uniform(segs) == \A i \in 2..Len(segs) : segs[i].duration - segs[i - 1].duration \in -100..100

Template_FromOne(segs, d) ==
  LET first == segs[1].key
  IN [duration |-> d, start |-> 1, ext |-> Last(first),
      base |-> SubSeq(first, 1, SelectLastInSeq(first, LAMBDA t : t = SegFile))]

\* dash_segment_template for a uniform duration of d ms: numbers count from 0,
\* in the pattern of the first segment's name.  With a SegmentTimeline no
\* address is given at all.
Template(segs, d) ==
  LET first == segs[1].key
  IN [duration |-> d, start |-> 0, ext |-> Last(first),
      base |-> SubSeq(first, 1, SelectLastInSeq(first, LAMBDA t : t = SegFile))]

\* What a player fetches that follows such a template (ISO/IEC 23009-1): as many
\* segments as it takes to fill the presentation that was printed.
Fetched(template, tenths) ==
  [i \in 1..((100 * tenths + template.duration - 1) \div template.duration) |->
     template.base \o <<Padded[template.start + i - 1], template.ext>>]

-----------------------------------------------------------------------------
Request ==
  \/ \E api \in {"grpc", "rest"}, n \in Limits, p \in Asked : ListMedia(api, p, n)
  \/ \E api \in {"grpc", "rest"}, n \in Limits, p \in AskedStreams : ListStreams(api, p, n)
  \/ \E id \in Ids :
       \/ DeleteStream(id) \/ GetMaster(id) \/ GetDash(id)
       \/ \E v \in Variants : GetPlaylist(id, v)

Next ==
  \/ Request
  \/ MediaPage \/ StreamsPage \/ DeleteList \/ DeleteNext
  \/ Master \/ PlaylistInit \/ PlaylistSegments \/ DashVariants \/ DashSegments
  \/ \E k \in Keys : StoreKey(k) \/ DeleteKey(k)

Spec == Init /\ [][Next]_vars

-----------------------------------------------------------------------------
(* Properties *)

\* Every variable has its type.
StreamsTypeOK ==
  /\ objects \subseteq Keys /\ start \subseteq Keys /\ put \subseteq Keys /\ lost \subseteq Keys
  /\ changes \in 0..MaxChanges
  /\ kind \in {"none", "media", "streams", "delete", "master", "hls", "dash"}
  /\ phase \in {"idle", "page", "list", "delete", "master", "init", "segments", "variants",
                "each", "done", "not found"}
  /\ (phase \in {"delete", "each"}) = (phase \notin {"done", "page"} /\ todo # <<>>)

StreamIds(s) ==
  {StreamOf(k) : k \in {l \in s : IsOfStream(l) /\ IsPrefix(<<StreamPrefix>> \o arg.prefix, l)}}

\* The next cursor steps over the ids that continue the id of a page's last
\* stream with a character before "0": "movie-2" after "movie".
SteppedOver(id) ==
  \E last \in Range(todo) :
    IsStrictPrefix(last, id) /\ id[Len(last) + 1] < Zero

\* Nor is it behind the keys of an id that the id of a page's last stream
\* continues so: after "movie-2", "movie" comes again.
ComesAgain(id) ==
  \E last \in Range(todo) :
    IsStrictPrefix(id, last) /\ last[Len(id) + 1] < Slash

\* A walk through list_streams returns the streams in order and none twice,
\* except those that come again behind their page (streaming.rs:560), none that
\* was never there, and every stream of which some key stayed all the while,
\* except those the cursor steps over, those behind the first ScanLimit keys
\* and, with REST's limit 0, which returns nothing, all.
StreamsExact ==
  kind = "streams" =>
    /\ \A i, j \in 1..Len(answer) : i < j => Less(answer[i], answer[j]) \/ ComesAgain(answer[j])
    /\ Range(answer) \subseteq StreamIds(AtSomeTime)
    /\ phase = "done" /\ arg.limit > 0 /\ Len(Index) <= ScanLimit =>
         \A id \in StreamIds(Throughout) : id \in Range(answer) \/ SteppedOver(id)

\* delete_stream removes no key of another stream, whatever its name, and when
\* it returns every key of the stream is gone, except those stored meanwhile;
\* each is counted once.
StreamDeleted ==
  kind = "delete" =>
    /\ start \ objects \subseteq lost \cup {k \in Keys : IsPrefix(Folder(arg.id), k)}
    /\ IsInjective(answer)
    /\ phase = "done" => {k \in objects : IsPrefix(Folder(arg.id), k)} \subseteq put

Agrees(k) == Meta[k].index \in {Absent, NumberOf(k)} /\ NumberOf(k) # Absent
SegmentKeys(s, v) ==
  {k \in s : IsPrefix(VariantsOf(arg.id) \o v \o <<Slash, SegFile>>, k)}

\* An HLS playlist and each DASH representation hold the segments of a variant
\* whose init file was there, each segment that stayed all the while and none
\* that was never there, once each and in the order of their numbers, also where
\* these are not padded and so not in the order of keys; all this while there
\* are no more keys than one call lists.
PlaylistsExact ==
  kind \in {"hls", "dash"} =>
    \A r \in Range(answer) :
      LET keys == [i \in 1..Len(r.segments) |-> r.segments[i].key]
      IN /\ InitKey(arg.id, r.variant) \in AtSomeTime
         /\ IsInjective(keys)
         /\ Len(Index) <= ScanLimit => SegmentKeys(Throughout, r.variant) \subseteq Range(keys)
         /\ Range(keys) \subseteq SegmentKeys(AtSomeTime, r.variant)
         /\ (\A k \in Range(keys) : Agrees(k)) =>
              \A i, j \in 1..Len(keys) : i < j => NumberOf(keys[i]) <= NumberOf(keys[j])

\* A variant of any of the three types is in the master playlist, unless the
\* segments of the variants before it fill the one list, and what a stream
\* entry refers to is defined before it.
MasterComplete ==
  kind = "master" /\ phase = "done" =>
    /\ Len(Index) <= VariantScan =>
         \A v \in Variants :
           InitKey(arg.id, v) \in Throughout /\ Meta[InitKey(arg.id, v)].type \in {"video", "audio", "subtitle"}
           => \E e \in Range(answer) : e.variant = v
    /\ \A i \in 1..Len(answer) : \A g \in answer[i].groups : \E j \in 1..(i - 1) : answer[j].tag = g

\* What a player of HLS is given is whole, in order and resolvable
\* (streaming.rs:110, 305).
HlsExact == StreamsTypeOK /\ PlaylistsExact /\ MasterComplete

Named(r) ==
  \A i \in 1..Len(r.segments) :
    /\ i - 1 \in DOMAIN Padded
    /\ r.segments[i].key = VariantsOf(arg.id) \o r.variant \o <<Slash, SegFile, Padded[i - 1], Dot>>
    /\ r.segments[i].duration > 0

SameLength(segs) == \A i \in 1..Len(segs) : segs[i].duration = segs[1].duration

\* Where the segments of a variant are numbered from 0 without gap, six digits
\* each, and nearly equally long, what a player of the DASH manifest fetches
\* under its i-th number is the i-th segment.  Where they are equally long and
\* fill the presentation it fetches all of them, and asks for at most one more:
\* the presentation is rounded to 0.1 s and the duration cut off to ms, so that
\* one segment of 2.06 s (PT2.1S over 2060) makes it ask for two.  This is while
\* what is cut off, at most 1 ms for each segment, and 50 ms stay below the
\* duration of one: for segments of 4 s, up to 3950 of them.
DashReaches ==
  kind = "dash" /\ phase = "done" =>
    \A r \in Range(Representations(answer)) :
      r.segments # <<>> /\ Named(r) /\ Uniform(r.segments) =>
        \A d \in Millis(r.segments[1].duration), p \in Tenths(Presentation(answer)) :
          d > 0 =>
            LET got == Fetched(Template(r.segments, d), p)
                n   == Len(r.segments)
            IN /\ \A i \in 1..n \cap DOMAIN got : got[i] = r.segments[i].key
               /\ SameLength(r.segments) /\ Sum(r.segments) = Presentation(answer) /\ n + 50 <= d
                    => Len(got) \in {n, n + 1}

\* Every further call starts behind the one before it, so that a walk, and the
\* loop of delete_stream, meets each key at most once and ends, however many are
\* stored meanwhile.
CursorAdvances ==
  [][MediaPage \/ StreamsPage \/ DeleteList =>
       None \in {cursor, cursor'} \/ Less(cursor, cursor')]_vars
=============================================================================

------------------------------- MODULE Listing -------------------------------
(***************************************************************************)
(* Listing keys page by page (list_manifests in                            *)
(* crates/kaidadb-storage/src/index.rs, list_media in grpc.rs and rest.rs) *)
(* while other requests store and delete keys.  A client follows           *)
(* next_cursor until there is none.                                        *)
(*                                                                         *)
(* A key is a sequence of tokens, numbers that stand for a character or    *)
(* for a fixed part of a key, in the order of their first bytes: no token  *)
(* is a prefix of another where both may stand, so keys compare, and       *)
(* prefixes match, as their bytes do.                                      *)
(***************************************************************************)
EXTENDS Naturals, FiniteSets, Sequences, SequencesExt, Selection

CONSTANTS
  Index,       \* the keys clients use, in byte order
  Initials,    \* sets of keys stored when the request arrives
  Asked,       \* what clients list
  Limits,      \* the limits they ask for
  MaxChanges   \* bound: stores and deletes by others

Keys == Range(Index)

\* The order of the index's BTreeMap.
Less(k, l) ==
  \E n \in 0..Len(k) :
    /\ n < Len(l) /\ SubSeq(k, 1, n) = SubSeq(l, 1, n)
    /\ n = Len(k) \/ k[n + 1] < l[n + 1]

\* Keys are not empty (validate_key, crates/kaidadb-storage/src/engine.rs:33).
ASSUME KeysAreTokens == Index \in Seq(Seq(Nat) \ {<<>>}) /\ Asked \subseteq Seq(Nat)

ASSUME ListingBounds ==
  /\ \A i, j \in 1..Len(Index) : i < j => Less(Index[i], Index[j])
  /\ \A s \in Initials : s \subseteq Keys
  /\ Limits \subseteq Nat /\ MaxChanges \in Nat

VARIABLES
  objects,             \* the keys stored
  changes,
  start, put, lost,    \* history: the keys stored when the request arrived,
                       \* and those stored and deleted since
  kind, arg,           \* the request
  phase,               \* idle, or what it does next, or done, not found
  cursor, todo,
  answer

storeVars   == <<objects, changes, put, lost>>
requestVars == <<start, kind, arg>>
vars == <<storeVars, requestVars, phase, cursor, todo, answer>>

NoArg == [prefix |-> <<>>, limit |-> 0, id |-> <<>>, variant |-> <<>>]

Init ==
  /\ objects \in Initials
  /\ changes = 0 /\ start = {} /\ put = {} /\ lost = {}
  /\ kind = "none" /\ arg = NoArg /\ phase = "idle"
  /\ cursor = <<>> /\ todo = <<>> /\ answer = <<>>

-----------------------------------------------------------------------------
StoreKey(k) ==
  /\ phase \notin {"idle", "done", "not found"}
  /\ changes < MaxChanges /\ changes' = changes + 1
  /\ objects' = objects \cup {k} /\ put' = put \cup {k}
  /\ UNCHANGED <<requestVars, lost, phase, cursor, todo, answer>>

DeleteKey(k) ==
  /\ phase \notin {"idle", "done", "not found"}
  /\ changes < MaxChanges /\ changes' = changes + 1
  /\ k \in objects
  /\ objects' = objects \ {k} /\ lost' = lost \cup {k}
  /\ UNCHANGED <<requestVars, put, phase, cursor, todo, answer>>

-----------------------------------------------------------------------------
None == <<>>    \* next_cursor where there is none

Page(read, limit) ==
  LET many == IF limit = 0 THEN 1 ELSE limit
      page == SubSeq(read, 1, IF many < Len(read) THEN many ELSE Len(read))
  IN [page |-> page, next |-> IF Len(page) = many THEN Last(page) ELSE None]

List_RepeatsCursor(prefix, limit, cur) ==
  LET from == IF cur = None THEN prefix ELSE cur
  IN Page(Kept(Index, {k \in objects : IsPrefix(prefix, k) /\ ~Less(k, from)}), limit)

\* list_manifests: from the cursor or the prefix on, to the first key without
\* the prefix (keys with a prefix stand together, and no cursor lies before
\* them); the cursor itself is not repeated.  The limit is looked at after a key
\* is taken, so that 0 acts as 1, and a page that is full has a next cursor even
\* if nothing follows it.
List(prefix, limit, cur) ==
  LET from == IF cur = None THEN prefix ELSE cur
  IN Page(Kept(Index, {k \in objects : k # cur /\ IsPrefix(prefix, k) /\ ~Less(k, from)}), limit)

\* The limit the handlers pass on: gRPC takes 0 for 100, REST as it is.
Limit(api, limit) == IF api = "grpc" /\ limit = 0 THEN 100 ELSE limit

Begin(k, a, first) ==
  /\ phase = "idle"
  /\ kind' = k /\ arg' = a /\ phase' = first
  /\ start' = objects
  /\ UNCHANGED <<storeVars, cursor, todo, answer>>

ListMedia(api, prefix, limit) ==
  Begin("media", [NoArg EXCEPT !.prefix = prefix, !.limit = Limit(api, limit)], "page")

\* One call of list_media.
MediaPage ==
  /\ kind = "media" /\ phase = "page"
  /\ LET l == List(arg.prefix, arg.limit, cursor)
     IN /\ answer' = answer \o l.page
        /\ cursor' = l.next
        /\ phase' = IF l.next = None THEN "done" ELSE "page"
  /\ UNCHANGED <<storeVars, requestVars, todo>>

-----------------------------------------------------------------------------
(* Properties *)

Throughout == start \ lost         \* stored all the while
AtSomeTime == start \cup put       \* stored at some time

Ascending(s) == \A i \in 1..(Len(s) - 1) : Less(s[i], s[i + 1])

\* Whatever is stored and deleted between two pages, a walk through the pages
\* returns keys in ascending order, so none twice, none that was never there,
\* and in the end every key of the prefix that was there all the while; limits
\* 0 and 1 and full last pages included.
PagesExact ==
  kind = "media" =>
    LET under(s) == {k \in s : IsPrefix(arg.prefix, k)}
    IN /\ Ascending(answer)
       /\ Range(answer) \subseteq under(AtSomeTime)
       /\ phase = "done" => under(Throughout) \subseteq Range(answer)
=============================================================================

----------------------------- MODULE TuiBrowse -----------------------------
(***************************************************************************)
(* The terminal client's view of the store: a local copy of the key list,  *)
(* filtered by a search and shown one directory at a time, and the dialogs *)
(* that delete and rename what the cursor is on.  A key is a sequence of   *)
(* path segments and a prefix the segments before its last slash.  The     *)
(* list is a snapshot: other clients change the store under it, between    *)
(* any two requests of an operation that sends several.                    *)
(***************************************************************************)
EXTENDS TuiText

CONSTANTS HiddenNames,  \* the names that start with a dot
          DirMarker,    \* ".kaidadb_dir", the object that stands for an empty directory
          FirstKeys,    \* what the store holds when the client starts
          OtherKeys,    \* keys other clients store and delete
          MaxDepth,     \* segments in a typed text
          MaxOps,       \* operations of this client that change the store
          MaxChanges    \* changes by other clients

ASSUME DirMarkerAssumption == DirMarker \in HiddenNames /\ HiddenNames \subseteq Names

\* The store holds finitely many keys.
ASSUME KeysAssumption ==
    /\ FirstKeys \cup OtherKeys \subseteq Seq(Names)
    /\ IsFiniteSet(FirstKeys)

VARIABLES
    server,      \* the keys the server holds
    connected,   \* App.client is Some
    items, query, prefix, show_hidden,   \* App: list, search_query, browse_prefix, show_hidden_files
    entries, selected, browse_pos,       \* App: browse_entries, selected, browse_pos
    mode,        \* App.input_mode, or "Exited"
    detail,      \* App.detail_item, while it is shown
    fields,      \* App: rename_input, mkdir_input, new_dir_input, store_key_input and cursors
    target,      \* App: rename_original_key, rename_is_dir
    job,         \* the requests an await of the event loop is waiting for
    asked,       \* history: what the question the user is answering was about
    ops, changes \* bounds

listVars   == <<items, query, prefix, show_hidden, entries, selected, browse_pos>>
dialogVars == <<detail, fields, target, asked>>
netVars    == <<server, connected, job, ops, changes>>
browseVars == <<listVars, dialogVars, netVars, mode>>

NoQuery == 0   \* no name has the number 0

Typeable == Names \ HiddenNames

Under(p, k) == Len(k) > Len(p) /\ IsPrefix(p, k)

KeyBefore(a, b) ==
    \/ Under(a, b)
    \/ \E n \in 1..Len(a) : /\ n <= Len(b)
                            /\ a[n] < b[n]
                            /\ SubSeq(a, 1, n - 1) = SubSeq(b, 1, n - 1)

\* apply_filter: what a search leaves of the list.
Filtered(its, q) == {k \in its : q = NoQuery \/ q \in Range(k)}

\* sort()
Sorted(S) == Ranked(S, {p \in S \X S : p[1] < p[2]})

\* rebuild_browse_entries: directories and then files one level below p.
EntriesOf(keys, p, all) ==
    LET level  == Len(p) + 1
        inside == {k \in keys : Under(p, k) /\ (all \/ k[level] \notin HiddenNames)}
        dirs   == {k[level] : k \in {k \in inside : Len(k) > level}}
        files  == {k[level] : k \in {k \in inside : Len(k) = level}}
        Count(d) == Cardinality({k \in keys : Under(Append(p, d), k)})
        Dir(d)   == [name |-> d, dir |-> TRUE, count |-> Count(d)]
        File(f)  == [name |-> f, dir |-> FALSE, count |-> 0]
    IN  [i \in 1..Cardinality(dirs) |-> Dir(Sorted(dirs)[i])]
          \o [i \in 1..Cardinality(files) |-> File(Sorted(files)[i])]

Clamp(i, list) == IF i < Len(list) THEN i ELSE IF list = << >> THEN 0 ELSE Len(list) - 1

Remembered(pos, at) == IF at \in DOMAIN pos THEN pos[at] ELSE 0

Remember(pos, at, i) == [x \in DOMAIN pos \cup {at} |-> IF x = at THEN i ELSE pos[x]]

Parent(p) == SubSeq(p, 1, Len(p) - 1)

\* The tail of every operation that changes what is listed.
Rebuild(sel) == /\ entries' = EntriesOf(Filtered(items', query'), prefix', show_hidden')
                /\ selected' = Clamp(sel, entries')

OnEntry == entries # << >>

Entry == entries[selected + 1]

EntryPath == Append(prefix, Entry.name)

NoJob == [kind |-> "none", todo |-> {}, done |-> {}, failed |-> {}, to |-> << >>]

StartJob(kind, keys, to) ==
    job' = [NoJob EXCEPT !.kind = kind, !.todo = keys, !.to = to]

\* A key is read only while no request is awaited.
Ready(m) == mode = m /\ job = NoJob

----------------------------------------------------------------------------
(* Moving about in the list.                                               *)

MoveTo(sel) == /\ selected' = sel
               /\ UNCHANGED <<items, query, prefix, show_hidden, entries, browse_pos>>
               /\ UNCHANGED <<dialogVars, netVars, mode>>

\* next, previous, first and last: keys and, for the first two, the wheel.
MoveSelection ==
    /\ Ready("Normal")
    /\ \/ OnEntry /\ MoveTo(Clamp(selected + 1, entries))
       \/ selected > 0 /\ MoveTo(selected - 1)
       \/ MoveTo(0)
       \/ OnEntry /\ MoveTo(Len(entries) - 1)

WheelElsewhere_MovesList ==
    /\ \E m \in {"Detail", "DeleteConfirm", "DeleteDirConfirm", "RenameInput"} : Ready(m)
    /\ OnEntry
    /\ MoveTo(Clamp(selected + 1, entries))

\* scroll_down and scroll_up where the list is not in front: the detail view
\* scrolls its own text, a dialog ignores the wheel.
WheelElsewhere ==
    /\ \E m \in {"Detail", "DeleteConfirm", "DeleteDirConfirm", "RenameInput"} : Ready(m)
    /\ UNCHANGED browseVars

BrowseInto_NoRebuild ==
    /\ Ready("Normal") /\ OnEntry /\ Entry.dir
    /\ browse_pos' = Remember(browse_pos, prefix, selected)
    /\ prefix' = EntryPath
    /\ selected' = Remembered(browse_pos', prefix')
    /\ UNCHANGED <<items, query, show_hidden, entries, dialogVars, netVars, mode>>

\* view_detail on a directory: browse_into.
BrowseInto ==
    /\ Ready("Normal") /\ OnEntry /\ Entry.dir
    /\ browse_pos' = Remember(browse_pos, prefix, selected)
    /\ prefix' = EntryPath
    /\ UNCHANGED <<items, query, show_hidden>>
    /\ Rebuild(Remembered(browse_pos', prefix'))
    /\ UNCHANGED <<dialogVars, netVars, mode>>

ViewDetail ==
    /\ Ready("Normal") /\ OnEntry /\ ~Entry.dir
    /\ EntryPath \in items
    /\ detail' = EntryPath
    /\ mode' = "Detail"
    /\ UNCHANGED <<listVars, fields, target, asked, netVars>>

BrowseUp ==
    /\ Ready("Normal") /\ prefix # << >>
    /\ browse_pos' = Remember(browse_pos, prefix, selected)
    /\ prefix' = Parent(prefix)
    /\ UNCHANGED <<items, query, show_hidden>>
    /\ Rebuild(Remembered(browse_pos', prefix'))
    /\ UNCHANGED <<dialogVars, netVars, mode>>

ToMode(from, to) == /\ Ready(from)
                    /\ mode' = to
                    /\ UNCHANGED <<listVars, dialogVars, netVars>>

EnterSearch == ToMode("Normal", "Search")

\* Esc in the search only drops what was typed; the query stays.
LeaveSearch == ToMode("Search", "Normal")

ExecuteSearch ==
    /\ Ready("Search")
    /\ mode' = "Normal"
    /\ query' \in {NoQuery} \cup Typeable
    /\ UNCHANGED <<items, prefix, show_hidden, browse_pos>>
    /\ Rebuild(selected)
    /\ UNCHANGED <<dialogVars, netVars>>

LeaveDetail ==
    /\ Ready("Detail")
    /\ mode' = "Normal"
    /\ detail' = << >>
    /\ UNCHANGED <<listVars, fields, target, asked, netVars>>

----------------------------------------------------------------------------
(* Dialogs.                                                                *)

\* What the user was looking at when the dialog opened.
Shown == IF mode = "Detail" THEN detail ELSE EntryPath

\* d, from the list or from the detail view: the question is about the
\* entry under the cursor, whatever the detail view shows.
EnterDelete ==
    /\ Ready("Normal") \/ Ready("Detail")
    /\ OnEntry /\ (Entry.dir \/ EntryPath \in items)
    /\ mode' = IF Entry.dir THEN "DeleteDirConfirm" ELSE "DeleteConfirm"
    /\ asked' = {Shown} /\ detail' = << >>
    /\ UNCHANGED <<listVars, fields, target, netVars>>

RefuseDelete ==
    /\ Ready("DeleteConfirm") \/ Ready("DeleteDirConfirm")
    /\ mode' = "Normal" /\ asked' = {}
    /\ UNCHANGED <<listVars, detail, fields, target, netVars>>

ConfirmDelete ==
    /\ Ready("DeleteConfirm") /\ ops < MaxOps
    /\ ops' = ops + 1
    /\ StartJob("delete", {EntryPath}, << >>)
    /\ UNCHANGED <<listVars, dialogVars, mode, server, connected, changes>>

\* execute_delete_directory: every key of the local list under the
\* directory, those that the search or the hidden option keeps off the
\* screen included.
ConfirmDeleteDir ==
    /\ Ready("DeleteDirConfirm") /\ ops < MaxOps
    /\ ops' = ops + 1
    /\ StartJob("deldir", {k \in items : Under(EntryPath, k)}, << >>)
    /\ UNCHANGED <<listVars, dialogVars, mode, server, connected, changes>>

SetField(name, value) == fields' = [fields EXCEPT ![name] = value]

EnterRename ==
    /\ Ready("Normal") \/ Ready("Detail")
    /\ OnEntry /\ (Entry.dir \/ EntryPath \in items)
    /\ target' = [key |-> EntryPath, dir |-> Entry.dir]
    /\ SetField("rename", FieldOf(EntryPath))
    /\ asked' = {Shown} /\ detail' = << >>
    /\ mode' = "RenameInput"
    /\ UNCHANGED <<listVars, netVars>>

NoTarget == [key |-> << >>, dir |-> FALSE]

LeaveRename ==
    /\ Ready("RenameInput")
    /\ SetField("rename", EmptyField)
    /\ target' = [target EXCEPT !.key = << >>]
    /\ mode' = "Normal" /\ asked' = {}
    /\ UNCHANGED <<listVars, detail, netVars>>

Renamed(k, from, to) == to \o SubSeq(k, Len(from) + 1, Len(k))

\* execute_rename up to its requests; an empty name is refused and the
\* dialog stays.
ExecuteRename ==
    LET new  == fields["rename"].text
        keys == IF target.dir THEN {k \in items : Under(target.key, k)} ELSE {target.key}
    IN  /\ Ready("RenameInput") /\ ops < MaxOps
        /\ new # << >>
        /\ ops' = ops + 1
        /\ IF new = target.key \/ keys = {}
             THEN mode' = "Normal" /\ asked' = {} /\ UNCHANGED job
             ELSE /\ StartJob(IF target.dir THEN "rendir" ELSE "rename", keys, new)
                  /\ UNCHANGED <<mode, asked>>
        /\ UNCHANGED <<listVars, detail, fields, target, server, connected, changes>>

EnterMkdir ==
    /\ Ready("Normal")
    /\ SetField("mkdir", EmptyField)
    /\ mode' = "MkdirInput"
    /\ UNCHANGED <<listVars, detail, target, asked, netVars>>

LeaveMkdir ==
    /\ Ready("MkdirInput")
    /\ SetField("mkdir", EmptyField)
    /\ mode' = "Normal"
    /\ UNCHANGED <<listVars, detail, target, asked, netVars>>

\* execute_mkdir: the directory is an empty object inside it.
ExecuteMkdir ==
    LET marker == Append(prefix \o fields["mkdir"].text, DirMarker)
    IN  /\ Ready("MkdirInput") /\ ops < MaxOps
        /\ IF fields["mkdir"].text # << >> /\ connected
             THEN /\ ops' = ops + 1
                  /\ StartJob("mkdir", {marker}, << >>)
                  /\ UNCHANGED <<mode, fields>>
             ELSE /\ mode' = "Normal"
                  /\ SetField("mkdir", EmptyField)
                  /\ UNCHANGED <<job, ops>>
        /\ UNCHANGED <<listVars, detail, target, asked, server, connected, changes>>

Edit(m, name, results) ==
    /\ Ready(m)
    /\ fields' \in {[fields EXCEPT ![name] = f] : f \in results}
    /\ UNCHANGED <<listVars, detail, target, asked, netVars, mode>>

EditRename == Edit("RenameInput", "rename", EditedFully(fields["rename"], MaxDepth, Typeable))

EditMkdir == Edit("MkdirInput", "mkdir", Edited(fields["mkdir"], 1, Typeable))

----------------------------------------------------------------------------
(* Requests.  The event loop waits for each answer; an answer that is an   *)
(* error may follow a request that took effect.                            *)

Least(S) == CHOOSE k \in S : \A j \in S : k = j \/ KeyBefore(k, j)

\* Effect of a request on the server, and whether the server accepts it.
Accepts(k) ==
    \/ job.kind \in {"delete", "deldir", "mkdir"}
    \/ k \in server /\ Renamed(k, target.key, job.to) \notin server

After(k) ==
    CASE job.kind \in {"delete", "deldir"} -> server \ {k}
      [] job.kind = "mkdir" -> server \cup {k}
      [] OTHER -> (server \ {k}) \cup {Renamed(k, target.key, job.to)}

Request ==
    /\ job.todo # {}
    /\ \E k \in {Least(job.todo)} :
         \/ /\ Accepts(k)
            /\ server' = After(k)
            /\ job' = [job EXCEPT !.todo = @ \ {k}, !.done = @ \cup {k}]
         \/ /\ server' \in {server} \cup (IF Accepts(k) THEN {After(k)} ELSE {})
            /\ job' = [job EXCEPT !.todo = @ \ {k}, !.failed = @ \cup {k}]
    /\ UNCHANGED <<listVars, dialogVars, mode, connected, ops, changes>>

\* The fields an operation clears when it is over.
Cleared ==
    /\ fields' = [f \in DOMAIN fields |->
                     IF \/ f = "rename" /\ job.kind \in {"rename", "rendir"}
                        \/ f = "mkdir" /\ job.kind = "mkdir"
                     THEN EmptyField ELSE fields[f]]
    /\ target' = IF job.kind \in {"rename", "rendir"} THEN NoTarget ELSE target
    /\ mode' = "Normal" /\ asked' = {}
    /\ job' = NoJob

Refreshes == job.failed = {} \/ job.kind \in {"deldir", "rendir"}

\* refresh_media_list takes the whole list or, on an error, keeps the old one.
Refresh ==
    /\ job # NoJob /\ job.todo = {} /\ Refreshes
    /\ items' \in {items, server}
    /\ UNCHANGED <<query, prefix, show_hidden, browse_pos>>
    /\ IF items' = items THEN UNCHANGED <<entries, selected>> ELSE Rebuild(selected)
    /\ Cleared
    /\ UNCHANGED <<detail, server, connected, ops, changes>>

NoRefresh ==
    /\ job # NoJob /\ job.todo = {} /\ ~Refreshes
    /\ Cleared
    /\ UNCHANGED <<listVars, detail, server, connected, ops, changes>>

\* r; without a client there is nothing to ask.
AskRefresh ==
    /\ Ready("Normal") /\ connected
    /\ StartJob("refresh", {}, << >>)
    /\ UNCHANGED <<listVars, dialogVars, mode, server, connected, ops, changes>>

OtherClient ==
    /\ changes < MaxChanges
    /\ changes' = changes + 1
    /\ \E k \in OtherKeys :
         server' = IF k \in server THEN server \ {k} ELSE server \cup {k}
    /\ UNCHANGED <<listVars, dialogVars, mode, connected, job, ops>>

\* connect, then the first refresh, which may fail.
BrowseInit ==
    /\ connected \in BOOLEAN
    /\ server = FirstKeys
    /\ items \in {{}} \cup (IF connected THEN {FirstKeys} ELSE {})
    /\ query = NoQuery /\ prefix = << >> /\ show_hidden = FALSE
    /\ entries = EntriesOf(items, << >>, FALSE)
    /\ selected = 0 /\ browse_pos = << >>
    /\ mode = "Normal" /\ detail = << >>
    /\ fields = [f \in {"rename", "mkdir", "new_dir", "store_key"} |-> EmptyField]
    /\ target = NoTarget
    /\ job = NoJob /\ asked = {} /\ ops = 0 /\ changes = 0

BrowseNext ==
    \/ MoveSelection \/ WheelElsewhere \/ BrowseInto \/ ViewDetail \/ BrowseUp \/ LeaveDetail
    \/ EnterSearch \/ LeaveSearch \/ ExecuteSearch
    \/ EnterDelete \/ RefuseDelete \/ ConfirmDelete \/ ConfirmDeleteDir
    \/ EnterRename \/ LeaveRename \/ EditRename \/ ExecuteRename
    \/ EnterMkdir \/ LeaveMkdir \/ EditMkdir \/ ExecuteMkdir
    \/ Request \/ Refresh \/ NoRefresh \/ AskRefresh \/ OtherClient
=============================================================================

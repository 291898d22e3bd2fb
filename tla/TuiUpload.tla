----------------------------- MODULE TuiUpload -----------------------------
(***************************************************************************)
(* Uploading from the terminal client: the browser of the destination, the *)
(* browser of local files with its filter and marks, the confirmation, and *)
(* the worker task that stores the files while the event loop counts its   *)
(* events.  Worker and event loop share a channel and a cancel flag.       *)
(***************************************************************************)
EXTENDS TuiBrowse

CONSTANTS LocalFiles,  \* paths of the files on the user's disk
          Size,        \* the chunks each is sent in
          MaxQueue     \* events that wait for the event loop

ASSUME FilesAssumption == LocalFiles \subseteq Seq(Names) /\ IsFiniteSet(LocalFiles)
ASSUME SizeAssumption == Size \in [LocalFiles -> Nat]

VARIABLES
    path_prefix, path_entries, path_selected,    \* App: the destination browser
    browser_dir, browser_all, browser_entries,   \* App: browser_all_entries and its filtered part
    browser_selected, browser_pos, browser_filter, marked,
    file,        \* App.selected_file_path
    pending,     \* App.pending_upload: pairs of a file and a key
    view,        \* App: upload_total, _current, _successes, _errors and byte counts
    queue,       \* events the worker sent and the event loop has not received
    cancel,      \* the watch channel
    worker,      \* run_upload_worker
    report       \* the upload's final message

pathVars   == <<path_prefix, path_entries, path_selected>>
fileVars   == <<browser_dir, browser_all, browser_entries, browser_selected, browser_pos,
                browser_filter, marked, file>>
uploadVars == <<view, queue, cancel, worker, report>>
tuiVars    == <<browseVars, pathVars, fileVars, pending, uploadVars>>

NoFile == << >>

LocalEntries(dir, all) == EntriesOf(LocalFiles, dir, all)

\* apply_browser_filter
Matching(list, filter) ==
    IF filter = NoQuery THEN list ELSE Kept(list, {e \in Range(list) : e.name = filter})

LocalEntry == browser_entries[browser_selected + 1]

LocalPath == Append(browser_dir, LocalEntry.name)

OnLocal == browser_entries # << >>

\* load_browser_dir, for the directory and positions of the next state.
LoadBrowserDir ==
    /\ browser_all' = LocalEntries(browser_dir', show_hidden')
    /\ browser_entries' = Matching(browser_all', browser_filter')
    /\ browser_selected' = Clamp(Remembered(browser_pos', browser_dir'), browser_entries')

\* load_path_entries: the search and the hidden option do not apply here.
LoadPathEntries ==
    /\ path_entries' = EntriesOf(items, path_prefix', TRUE)
    /\ path_selected' = 0

----------------------------------------------------------------------------
(* Destination.                                                            *)

KeepsOthers == UNCHANGED <<listVars, detail, target, asked, netVars, pending, uploadVars>>

EnterStore ==
    /\ Ready("Normal")
    /\ SetField("store_key", EmptyField)
    /\ path_prefix' = prefix
    /\ browser_filter' = NoQuery
    /\ mode' = "FileBrowser"
    /\ UNCHANGED <<browser_dir, browser_pos, marked, file, path_entries, path_selected>>
    /\ KeepsOthers
    /\ LoadBrowserDir

BackToPathBrowser ==
    /\ Ready("FileBrowser")
    /\ mode' = "PathBrowser"
    /\ UNCHANGED <<path_prefix, fields, fileVars>>
    /\ LoadPathEntries
    /\ KeepsOthers

PathMove ==
    /\ Ready("PathBrowser")
    /\ path_selected' \in {0, Clamp(path_selected + 1, path_entries),
                           Clamp(Len(path_entries), path_entries)}
                          \cup {i \in {path_selected - 1} : path_selected > 0}
    /\ UNCHANGED <<path_prefix, path_entries, fields, fileVars, mode>>
    /\ KeepsOthers

PathGo(p) ==
    /\ path_prefix' = p
    /\ LoadPathEntries
    /\ mode' = "PathBrowser"
    /\ UNCHANGED <<fields, fileVars>>
    /\ KeepsOthers

PathEnter ==
    /\ Ready("PathBrowser") /\ path_entries # << >>
    /\ path_entries[path_selected + 1].dir
    /\ PathGo(Append(path_prefix, path_entries[path_selected + 1].name))

PathGoUp == Ready("PathBrowser") /\ path_prefix # << >> /\ PathGo(Parent(path_prefix))

PathTo(from, to, name, f) ==
    /\ Ready(from)
    /\ mode' = to
    /\ SetField(name, f)
    /\ UNCHANGED <<pathVars, fileVars>>
    /\ KeepsOthers

EnterNewDir == PathTo("PathBrowser", "NewDirInput", "new_dir", EmptyField)

EditNewDir == \E f \in Edited(fields["new_dir"], 1, Typeable) :
                 PathTo("NewDirInput", "NewDirInput", "new_dir", f)

\* Esc, or Enter on an empty name: back with the text left as it is.
LeaveNewDir == PathTo("NewDirInput", "PathBrowser", "new_dir", fields["new_dir"])

\* The destination need not exist; MaxDepth bounds the keys below it.
ConfirmNewDir ==
    /\ Ready("NewDirInput") /\ fields["new_dir"].text # << >>
    /\ Len(path_prefix) < MaxDepth - 1
    /\ PathGo(path_prefix \o fields["new_dir"].text)

AdvanceToFileBrowser ==
    /\ Ready("PathBrowser")
    /\ mode' = "FileBrowser"
    /\ UNCHANGED <<pathVars, fields, browser_dir, browser_pos, browser_filter, marked, file>>
    /\ KeepsOthers
    /\ LoadBrowserDir

\* Esc leaves the marks and the filter for the next visit.
LeavePathBrowser == PathTo("PathBrowser", "Normal", "store_key", fields["store_key"])

----------------------------------------------------------------------------
(* Local files.                                                            *)

StaysInBrowser == UNCHANGED <<pathVars, fields>> /\ KeepsOthers

\* Keys and the wheel; Up and Down also close the filter line.
BrowserMove ==
    /\ \/ Ready("FileBrowser") /\ mode' = mode
       \/ Ready("BrowserFilter") /\ mode' \in {"BrowserFilter", "FileBrowser"}
    /\ browser_selected' \in {Clamp(browser_selected + 1, browser_entries)}
                             \cup {i \in {browser_selected - 1} : browser_selected > 0}
                             \cup (IF mode = "FileBrowser"
                                   THEN {0, Clamp(Len(browser_entries), browser_entries)} ELSE {})
    /\ UNCHANGED <<browser_dir, browser_all, browser_entries, browser_pos, browser_filter,
                   marked, file>>
    /\ StaysInBrowser

\* browser_enter and browser_go_up; the position remembered is that in the
\* filtered list, and the filter is dropped.
BrowserGo(d) ==
    /\ Ready("FileBrowser")
    /\ browser_pos' = Remember(browser_pos, browser_dir, browser_selected)
    /\ browser_filter' = NoQuery
    /\ browser_dir' = d
    /\ UNCHANGED <<marked, file, mode>>
    /\ StaysInBrowser
    /\ LoadBrowserDir

BrowserEnter == OnLocal /\ LocalEntry.dir /\ BrowserGo(LocalPath)

BrowserGoUp == browser_dir # << >> /\ BrowserGo(Parent(browser_dir))

\* Enter on a file: its name under the destination is offered as key.
SelectFile ==
    /\ Ready("FileBrowser") /\ OnLocal /\ ~LocalEntry.dir
    /\ file' = LocalPath
    /\ SetField("store_key", FieldOf(Append(path_prefix, LocalEntry.name)))
    /\ mode' = "StoreKey"
    /\ UNCHANGED <<pathVars, browser_dir, browser_all, browser_entries, browser_selected,
                   browser_pos, browser_filter, marked>>
    /\ KeepsOthers

ToggleMark ==
    /\ Ready("FileBrowser") /\ OnLocal
    /\ marked' = IF LocalPath \in marked THEN marked \ {LocalPath} ELSE marked \cup {LocalPath}
    /\ browser_selected' = Clamp(browser_selected + 1, browser_entries)
    /\ UNCHANGED <<browser_dir, browser_all, browser_entries, browser_pos, browser_filter,
                   file, mode>>
    /\ StaysInBrowser

FileMode(from, to, marks) ==
    /\ Ready(from)
    /\ mode' = to
    /\ marked' = marks
    /\ UNCHANGED <<browser_dir, browser_all, browser_entries, browser_selected, browser_pos,
                   browser_filter, file>>
    /\ StaysInBrowser

AskClearMarks == marked # {} /\ FileMode("FileBrowser", "ClearMarksConfirm", marked)

AnswerClearMarks == \E marks \in {marked, {}} : FileMode("ClearMarksConfirm", "FileBrowser", marks)

EnterFilter == FileMode("FileBrowser", "BrowserFilter", marked)

LeaveFilter == FileMode("BrowserFilter", "FileBrowser", marked)

\* browser_filter_push, _backspace and _clear; a filter is one name.
SetFilter(filter, to) ==
    /\ Ready("BrowserFilter")
    /\ browser_filter' = filter
    /\ browser_entries' = Matching(browser_all, filter)
    /\ browser_selected' = 0
    /\ mode' = to
    /\ UNCHANGED <<browser_dir, browser_all, browser_pos, marked, file>>
    /\ StaysInBrowser

TypeFilter == \/ \E q \in Typeable : browser_filter = NoQuery /\ SetFilter(q, "BrowserFilter")
              \/ SetFilter(NoQuery, "BrowserFilter")
              \/ SetFilter(NoQuery, "FileBrowser")

\* Esc: the key's text is dropped and its cursor is not.
LeaveFileBrowser ==
    /\ Ready("FileBrowser")
    /\ SetField("store_key", [fields["store_key"] EXCEPT !.text = << >>])
    /\ file' = NoFile
    /\ marked' = {}
    /\ mode' = "Normal"
    /\ UNCHANGED <<pathVars, browser_dir, browser_all, browser_entries, browser_selected,
                   browser_pos, browser_filter>>
    /\ KeepsOthers

\* toggle_hidden_files, from either browser.
ToggleHidden ==
    /\ Ready("Normal") \/ Ready("FileBrowser")
    /\ show_hidden' = ~show_hidden
    /\ UNCHANGED <<items, query, prefix, browse_pos>>
    /\ Rebuild(selected)
    /\ UNCHANGED <<browser_dir, browser_pos, browser_filter, marked, file>>
    /\ LoadBrowserDir
    /\ UNCHANGED <<dialogVars, netVars, mode, pathVars, pending, uploadVars>>

----------------------------------------------------------------------------
(* Choosing what to upload.                                                *)

KeyOf(f, base) == path_prefix \o SubSeq(f, Len(base) + 1, Len(f))

\* map_dir_files: every file below, hidden or not.
MapDirFiles(dir, base) ==
    {[file |-> f, key |-> KeyOf(f, base)] : f \in {f \in LocalFiles : Under(dir, f)}}

\* A mark keeps its own name in the key, a single directory does not.
MarkedBatch == UNION {IF m \in LocalFiles THEN {[file |-> m, key |-> KeyOf(m, Parent(m))]}
                                          ELSE MapDirFiles(m, Parent(m)) : m \in marked}

KeysOf(batch) == {p.key : p \in batch}

\* stage_pending_upload; a directory that cannot be read has no files.
Stage(batch) ==
    /\ pending' = batch
    /\ asked' = KeysOf(batch)
    /\ mode' = "UploadConfirm"
    /\ UNCHANGED <<pathVars, fileVars, listVars, detail, fields, target, netVars, uploadVars>>

PrepareUpload ==
    /\ Ready("FileBrowser")
    /\ \/ marked # {} /\ Stage(MarkedBatch)
       \/ marked = {} /\ OnLocal /\ LocalEntry.dir /\ Stage(MapDirFiles(LocalPath, LocalPath))

CancelPending ==
    /\ Ready("UploadConfirm")
    /\ pending' = {} /\ asked' = {}
    /\ mode' = "FileBrowser"
    /\ UNCHANGED <<pathVars, fileVars, listVars, detail, fields, target, netVars, uploadVars>>

NoWorker == [pc |-> "off", left |-> {}, cur |-> {}, sent |-> 0, good |-> {}, bad |-> {}]

\* The counters of a new batch; the bytes of the file shown last stay.
BatchView(batch) ==
    [view EXCEPT !.total = Cardinality(batch), !.current = 0, !.ok = 0, !.bad = 0, !.done = 0,
                 !.bytes = MapThenSumSet(LAMBDA p : Size[p.file], batch)]

BeginUpload(batch) ==
    /\ ops < MaxOps
    /\ view' = BatchView(batch)
    /\ report' = "none"
    /\ IF connected
         THEN /\ ops' = ops + 1
              /\ queue' = << >>
              /\ cancel' = FALSE
              /\ worker' = [NoWorker EXCEPT !.pc = "check", !.left = batch]
              /\ mode' = "Uploading"
         ELSE mode' = "Normal" /\ UNCHANGED <<queue, cancel, worker, ops>>
    /\ UNCHANGED <<pathVars, listVars, detail, target, server, connected, job, changes>>

ConfirmUpload ==
    /\ Ready("UploadConfirm")
    /\ BeginUpload(pending)
    /\ pending' = {}
    /\ marked' = {}
    /\ UNCHANGED <<browser_dir, browser_all, browser_entries, browser_selected, browser_pos,
                   browser_filter, file, fields, asked>>

EditStoreKey ==
    /\ Edit("StoreKey", "store_key", EditedFully(fields["store_key"], MaxDepth, Typeable))
    /\ UNCHANGED <<pathVars, fileVars, pending, uploadVars>>

\* Esc drops the text and not the cursor; Tab goes back to the files.
LeaveStoreKey ==
    \/ PathTo("StoreKey", "Normal", "store_key", [fields["store_key"] EXCEPT !.text = << >>])
    \/ PathTo("StoreKey", "FileBrowser", "store_key", fields["store_key"])

\* Enter on a key: the one file goes up without a confirmation.
StoreFile ==
    LET key == fields["store_key"].text
    IN  /\ Ready("StoreKey") /\ key # << >> /\ file # NoFile
        /\ BeginUpload({[file |-> file, key |-> key]})
        /\ asked' = {key}
        /\ SetField("store_key", EmptyField)
        /\ UNCHANGED <<fileVars, pending>>

----------------------------------------------------------------------------
(* run_upload_worker.  It and the event loop interleave freely.            *)

Event(ev, n) == [ev |-> ev, n |-> n]

\* A worker lives as long as the process.
Working(pc) == worker.pc = pc /\ mode # "Exited"

\* The channel is unbounded.
RoomInQueue == Len(queue) < MaxQueue

WorkerKeeps == UNCHANGED <<listVars, dialogVars, connected, job, ops, changes, mode, pathVars,
                           fileVars, pending, view, cancel, report>>

\* The next file is read and announced.
WorkerStart ==
    /\ Working("check") /\ ~cancel /\ RoomInQueue
    /\ \E p \in worker.left :
         /\ worker' = [worker EXCEPT !.pc = "call", !.left = @ \ {p}, !.cur = {p}, !.sent = 0]
         /\ queue' = Append(queue, Event("Started", Size[p.file]))
    /\ UNCHANGED server
    /\ WorkerKeeps

WorkerCannotRead_Stops ==
    /\ Working("check") /\ ~cancel /\ RoomInQueue
    /\ \E p \in worker.left :
         /\ worker' = [worker EXCEPT !.left = {}, !.bad = @ \cup {p}]
         /\ queue' = queue \o <<Event("Started", 0), Event("FileFailed", 0)>>
    /\ UNCHANGED server
    /\ WorkerKeeps

\* A file that cannot be read is reported and skipped.
WorkerCannotRead ==
    /\ Working("check") /\ ~cancel /\ RoomInQueue
    /\ \E p \in worker.left :
         /\ worker' = [worker EXCEPT !.left = @ \ {p}, !.bad = @ \cup {p}]
         /\ queue' = queue \o <<Event("Started", 0), Event("FileFailed", 0)>>
    /\ UNCHANGED server
    /\ WorkerKeeps

CurrentSize == Size[(CHOOSE p \in worker.cur : TRUE).file]

\* The call takes the header and then the chunks from the stream.
WorkerSends ==
    /\ Working("call") /\ worker.sent <= CurrentSize /\ RoomInQueue
    /\ worker' = [worker EXCEPT !.sent = @ + 1]
    /\ queue' = Append(queue, Event("ChunkSent", worker.sent))
    /\ UNCHANGED server
    /\ WorkerKeeps

\* The answer; an error may come early, or after the object was stored.
WorkerAnswered ==
    /\ Working("call") /\ RoomInQueue
    /\ \/ /\ worker.sent > CurrentSize
          /\ server' = server \cup KeysOf(worker.cur)
          /\ worker' = [worker EXCEPT !.pc = "check", !.cur = {}, !.good = @ \cup worker.cur]
          /\ queue' = Append(queue, Event("FileCompleted", 0))
       \/ /\ server' \in {server, server \cup KeysOf(worker.cur)}
          /\ worker' = [worker EXCEPT !.pc = "check", !.cur = {}, !.bad = @ \cup worker.cur]
          /\ queue' = Append(queue, Event("FileFailed", 0))
    /\ WorkerKeeps

WorkerStops_AtCheck ==
    /\ Working("check") /\ (cancel \/ worker.left = {})
    /\ worker' = [worker EXCEPT !.pc = "off"]
    /\ queue' = Append(queue, Event("Finished", 0))
    /\ UNCHANGED server
    /\ WorkerKeeps

\* The loop ends, at its check or because the call was dropped for a
\* cancellation; the server may have stored the object all the same.
WorkerStops ==
    /\ \/ Working("check") /\ (cancel \/ worker.left = {}) /\ UNCHANGED server
       \/ Working("call") /\ cancel /\ server' \in {server, server \cup KeysOf(worker.cur)}
    /\ worker' = [worker EXCEPT !.pc = "off"]
    /\ queue' = Append(queue, Event("Finished", 0))
    /\ WorkerKeeps

----------------------------------------------------------------------------
(* The event loop's side.                                                  *)

CancelUpload ==
    /\ Ready("Uploading")
    /\ cancel' = TRUE
    /\ UNCHANGED <<browseVars, pathVars, fileVars, pending, view, queue, worker, report>>

Counted_FailureIsSuccess(v, e) ==
    CASE e.ev = "Started"       -> [v EXCEPT !.current = @ + 1, !.sent = 0, !.size = e.n]
      [] e.ev = "ChunkSent"     -> [v EXCEPT !.sent = e.n]
      [] e.ev \in {"FileCompleted", "FileFailed"} ->
           [v EXCEPT !.ok = @ + 1, !.sent = v.size, !.done = @ + v.size]
      [] OTHER                  -> v

\* What one event does to the counters.
Counted(v, e) ==
    CASE e.ev = "Started"       -> [v EXCEPT !.current = @ + 1, !.sent = 0, !.size = e.n]
      [] e.ev = "ChunkSent"     -> [v EXCEPT !.sent = e.n]
      [] e.ev = "FileCompleted" -> [v EXCEPT !.ok = @ + 1, !.sent = v.size, !.done = @ + v.size]
      [] e.ev = "FileFailed"    -> [v EXCEPT !.bad = @ + 1, !.done = @ + v.size]
      [] OTHER                  -> v

\* The message shown when the worker is done.
Outcome(v) == IF v.ok + v.bad < v.total THEN "cancelled" ELSE "uploaded"

\* drain_upload_events, one event at a time.  The last event also closes the
\* channel and, in the same turn of the loop, refreshes the list.
DrainEvent ==
    /\ job = NoJob /\ mode = "Uploading" /\ queue # << >>
    /\ \E e \in {Head(queue)} :
         /\ view' = Counted(view, e)
         /\ queue' = Tail(queue)
         /\ IF e.ev = "Finished"
              THEN /\ report' = Outcome(view)
                   /\ mode' = "Normal"
                   /\ StartJob("refresh", {}, << >>)
              ELSE UNCHANGED <<report, mode, job>>
    /\ UNCHANGED <<listVars, dialogVars, server, connected, ops, changes, pathVars, fileVars,
                   pending, cancel, worker>>

\* q in the root of the list, or Ctrl-C there and during an upload: the
\* process ends, and its worker with it.
Quit ==
    /\ Ready("Normal") \/ Ready("Uploading")
    /\ mode' = "Exited"
    /\ cancel' = (cancel \/ mode = "Uploading")
    /\ UNCHANGED <<listVars, dialogVars, netVars, pathVars, fileVars, pending, view, queue,
                   worker, report>>
=============================================================================

-------------------------------- MODULE Tui --------------------------------
(***************************************************************************)
(* The terminal client: one event loop over the list, the dialogs, the two *)
(* browsers and the uploads, with the worker task beside it.               *)
(***************************************************************************)
EXTENDS TuiUpload

Browsing == BrowseNext /\ UNCHANGED <<pathVars, fileVars, pending, uploadVars>>

Choosing ==
    \/ EnterStore \/ BackToPathBrowser \/ PathMove \/ PathEnter \/ PathGoUp
    \/ EnterNewDir \/ EditNewDir \/ LeaveNewDir \/ ConfirmNewDir
    \/ AdvanceToFileBrowser \/ LeavePathBrowser
    \/ BrowserMove \/ BrowserEnter \/ BrowserGoUp \/ SelectFile \/ ToggleMark
    \/ AskClearMarks \/ AnswerClearMarks \/ EnterFilter \/ LeaveFilter \/ TypeFilter
    \/ LeaveFileBrowser \/ ToggleHidden
    \/ PrepareUpload \/ CancelPending \/ ConfirmUpload
    \/ EditStoreKey \/ LeaveStoreKey \/ StoreFile

Uploads == \/ WorkerStart \/ WorkerCannotRead \/ WorkerSends \/ WorkerAnswered \/ WorkerStops

Init ==
    /\ BrowseInit
    /\ path_prefix = << >> /\ path_entries = << >> /\ path_selected = 0
    /\ browser_dir = << >> /\ browser_all = << >> /\ browser_entries = << >>
    /\ browser_selected = 0 /\ browser_pos = << >>
    /\ browser_filter = NoQuery /\ marked = {} /\ file = NoFile /\ pending = {}
    /\ view = [total |-> 0, current |-> 0, ok |-> 0, bad |-> 0, sent |-> 0, size |-> 0,
               bytes |-> 0, done |-> 0]
    /\ queue = << >> /\ cancel = FALSE /\ worker = NoWorker /\ report = "none"

Next == Browsing \/ Choosing \/ Uploads \/ DrainEvent \/ CancelUpload \/ Quit

Fairness == WF_tuiVars(WorkerStops) /\ WF_tuiVars(DrainEvent)

Spec == Init /\ [][Next]_tuiVars /\ Fairness

----------------------------------------------------------------------------
(* Properties.                                                             *)

\* Every part has its type (app.rs:67-157).
TuiTypeOK ==
    /\ items \in SUBSET Seq(Names) /\ server \in SUBSET Seq(Names)
    /\ mode \in {"Normal", "Search", "PathBrowser", "NewDirInput", "StoreKey", "FileBrowser",
                 "BrowserFilter", "UploadConfirm", "ClearMarksConfirm", "DeleteConfirm",
                 "DeleteDirConfirm", "Detail", "RenameInput", "MkdirInput", "Uploading", "Exited"}
    /\ selected \in Nat /\ path_selected \in Nat /\ browser_selected \in Nat
    /\ job.done \cap job.failed = {} /\ job.todo \cap (job.done \cup job.failed) = {}
    /\ worker.pc \in {"off", "check", "call"}
    /\ pending # {} <=> mode = "UploadConfirm"

InRange(i, list) == i < Len(list) \/ (i = 0 /\ list = << >>)

\* What the list shows is what the local copy, the search, the directory and
\* the hidden option say now, and the cursor is on one of its lines: the
\* entries are a cache that every handler must rebuild (app.rs:317).
ListFresh ==
    /\ entries = EntriesOf(Filtered(items, query), prefix, show_hidden)
    /\ InRange(selected, entries)

\* d and m act on the entry under the cursor, also when pressed in the
\* detail view: it must be the object shown there (app.rs:464, 1209, 1241).
DetailIsSelected == mode = "Detail" => OnEntry /\ ~Entry.dir /\ EntryPath = detail

\* Both browsers show their directory as it is filtered now, with the cursor
\* on a line: main.rs:203 indexes browser_entries with browser_selected.
BrowsersFresh ==
    /\ mode \in {"FileBrowser", "BrowserFilter", "StoreKey", "UploadConfirm", "ClearMarksConfirm"} =>
         /\ browser_entries = Matching(LocalEntries(browser_dir, show_hidden), browser_filter)
         /\ InRange(browser_selected, browser_entries)
    /\ mode \in {"PathBrowser", "NewDirInput"} =>
         /\ path_entries = EntriesOf(items, path_prefix, TRUE)
         /\ InRange(path_selected, path_entries)

\* While a field takes keys its cursor is between two characters of its
\* text: insert and drain panic elsewhere.  Esc leaves the key's cursor
\* behind an emptied text (main.rs:175, 189).
CursorsValid ==
    /\ mode = "RenameInput" => OnBoundary(fields["rename"])
    /\ mode = "MkdirInput"  => OnBoundary(fields["mkdir"])
    /\ mode = "NewDirInput" => OnBoundary(fields["new_dir"])
    /\ mode = "StoreKey"    => OnBoundary(fields["store_key"])

\* No view is stale: each shows, and its keys act on, what the local copy, the
\* filter and the directory say after the last handler (app.rs:317, 870, 1209).
ViewsFresh == TuiTypeOK /\ ListFresh /\ DetailIsSelected /\ BrowsersFresh

\* Whatever this client removes was named, or is under the directory that
\* was named, in the question the user answered; whatever its worker adds
\* was in the list the user confirmed (app.rs:1504, 1531, 1049).
OnlyAskedChanges ==
    [][changes' = changes =>
         /\ \A k \in server \ server' : \E a \in asked : a = k \/ Under(a, k)
         /\ mode = "Uploading" => server' \ server \subseteq asked]_tuiVars

\* A directory deleted without an error leaves none of the objects of the
\* local list behind, the hidden and the filtered ones included (app.rs:1537).
DirDeletionComplete ==
    /\ job.kind = "deldir" /\ job.todo = {} /\ job.failed = {} /\ changes = 0
    => \A k \in items \cap server : \A a \in asked : ~Under(a, k)

Queued(ev) == Cardinality({i \in 1..Len(queue) : queue[i].ev = ev})

\* While a file is on its way the progress shown never exceeds the batch:
\* upload_overall_sent adds the finished files and the part of this one
\* (app.rs:1171).
ProgressBounded ==
    mode = "Uploading" /\ view.current > view.ok + view.bad =>
      /\ view.sent <= view.size
      /\ view.done + view.sent <= view.bytes

\* No event is lost or counted twice: what the view has counted and what
\* is on its way add up to what the worker did (app.rs:1100), and the bytes
\* shown are bytes of the batch.
EventsAccounted ==
    /\ ProgressBounded
    /\ mode = "Uploading" =>
      /\ view.current + Queued("Started") = Cardinality(worker.good \cup worker.bad \cup worker.cur)
      /\ view.ok + Queued("FileCompleted") = Cardinality(worker.good)
      /\ view.bad + Queued("FileFailed") = Cardinality(worker.bad)

\* The final message: "cancelled" only if the user did cancel, and a success
\* without errors only if the server acknowledged every file (app.rs:1142).
OutcomeTrue ==
    /\ report = "cancelled" => cancel
    /\ report = "uploaded" /\ view.bad = 0 => Cardinality(worker.good) = view.total

\* Esc during an upload ends it, whether or not the server ever answers the
\* call in progress (app.rs:1164, 1674).
CancelReturns == (mode = "Uploading" /\ cancel) ~> mode # "Uploading"
=============================================================================

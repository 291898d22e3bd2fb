---------------------------- MODULE TuiInvariant ----------------------------
(***************************************************************************)
(* The inductive invariant of the terminal client, in the parts its proof  *)
(* goes through: the values of the fields, which mode a request in         *)
(* progress belongs to, what the question on the screen is about, and how  *)
(* the worker, the events on their way and the counters hang together.     *)
(***************************************************************************)
EXTENDS Tui

Paths == Seq(Names)

Pairs == [file : LocalFiles, key : Paths]

FieldNames == {"rename", "mkdir", "new_dir", "store_key"}

\* Positions remembered for directories are numbers.
PositionsOK(pos) == \A at \in DOMAIN pos : pos[at] \in Nat

\* The store, the local copy and the list.
ListTypes ==
    /\ server \subseteq Paths /\ IsFiniteSet(server)
    /\ items \subseteq Paths /\ IsFiniteSet(items)
    /\ prefix \in Paths /\ PositionsOK(browse_pos) /\ changes \in Nat

\* The text fields.
FieldValues == [text : Paths, cursor : Nat]

FieldTypes == fields \in [FieldNames -> FieldValues]

JobKinds == {"none", "delete", "deldir", "rename", "rendir", "mkdir", "refresh"}

JobTypes ==
    /\ job \in [kind : JobKinds, todo : SUBSET Paths, done : SUBSET Paths,
                failed : SUBSET Paths, to : Paths]
    /\ IsFiniteSet(job.todo)
    /\ job.done \cap job.failed = {} /\ job.todo \cap (job.done \cup job.failed) = {}
    /\ job.kind = "none" => job = NoJob
    /\ job.kind = "refresh" => job.todo = {}
    /\ target \in [key : Paths, dir : BOOLEAN]

\* The event loop awaits the requests of a job in the mode it was started in.
JobMode ==
    /\ job.kind = "delete" => mode = "DeleteConfirm"
    /\ job.kind = "deldir" => mode = "DeleteDirConfirm"
    /\ job.kind \in {"rename", "rendir"} => mode = "RenameInput"
    /\ job.kind = "mkdir" => mode = "MkdirInput"
    /\ job.kind = "refresh" => mode = "Normal"

\* What the question on the screen is about is what the cursor is on.
Questions ==
    /\ mode = "DeleteConfirm" => OnEntry /\ ~Entry.dir /\ asked = {EntryPath}
    /\ mode = "DeleteDirConfirm" => OnEntry /\ Entry.dir /\ asked = {EntryPath}
    /\ mode = "RenameInput" => asked = {target.key}
    /\ mode = "UploadConfirm" => asked = KeysOf(pending)

\* What a job will still do was asked for, and a deletion of a directory
\* has dealt with, or will, each of the local list's keys under it.
JobAsked ==
    /\ job.kind \in {"delete", "deldir", "rename", "rendir"} =>
         \A k \in job.todo : \E a \in asked : a = k \/ Under(a, k)
    /\ job.kind = "deldir" =>
         \A a \in asked, k \in items :
           Under(a, k) => k \in job.todo \cup job.done \cup job.failed
    /\ job.kind = "deldir" /\ changes = 0 => job.done \cap server = {}

\* A browser was filled by its last load and filtered since.
Browsers ==
    /\ mode \in {"FileBrowser", "BrowserFilter", "StoreKey", "UploadConfirm", "ClearMarksConfirm"} =>
         browser_all = LocalEntries(browser_dir, show_hidden)
    /\ browser_dir \in Paths /\ path_prefix \in Paths
    /\ PositionsOK(browser_pos)
    /\ \A m \in marked : m # << >> /\ (m \in LocalFiles \/ \E f \in LocalFiles : Under(m, f))
    /\ marked \subseteq Paths /\ IsFiniteSet(marked)
    /\ file # NoFile => file \in LocalFiles

Events == [ev : {"Started", "ChunkSent", "FileCompleted", "FileFailed", "Finished"}, n : Nat]

Views == [total : Nat, current : Nat, ok : Nat, bad : Nat, sent : Nat, size : Nat,
          bytes : Nat, done : Nat]

Batch == worker.left \cup worker.cur \cup worker.good \cup worker.bad

PendingTypes == pending \subseteq Pairs /\ IsFiniteSet(pending)

UploadTypes ==
    /\ view \in Views /\ queue \in Seq(Events) /\ cancel \in BOOLEAN
    /\ worker \in [pc : {"off", "check", "call"}, left : SUBSET Pairs, cur : SUBSET Pairs,
                   sent : Nat, good : SUBSET Pairs, bad : SUBSET Pairs]
    /\ IsFiniteSet(Batch)

\* The worker: no file in two places, one on its way during a call, none at
\* the check; it runs during an upload only, and an uncancelled one ends
\* with nothing left.  Its last event is the last.
WorkerOK ==
    /\ worker.left \cap worker.cur = {} /\ worker.left \cap worker.good = {}
    /\ worker.left \cap worker.bad = {} /\ worker.cur \cap worker.good = {}
    /\ worker.cur \cap worker.bad = {} /\ worker.good \cap worker.bad = {}
    /\ worker.pc = "call" => \E p \in Pairs : worker.cur = {p}
    /\ worker.pc = "check" => worker.cur = {}
    /\ worker.pc # "off" => mode \in {"Uploading", "Exited"}
    /\ mode = "Uploading" /\ worker.pc = "off" /\ ~cancel => worker.left = {} /\ worker.cur = {}
    /\ \A i \in 1..Len(queue) :
         queue[i].ev = "Finished" => i = Len(queue) /\ worker.pc = "off"

\* The batch is what was confirmed, and as large as the total shown.
BatchOK ==
    mode = "Uploading" => KeysOf(Batch) \subseteq asked /\ Cardinality(Batch) = view.total

\* What the counters and the events on their way add up to.
CountsOK ==
    mode = "Uploading" =>
      /\ view.current + Queued("Started") = Cardinality(worker.good \cup worker.bad \cup worker.cur)
      /\ view.ok + Queued("FileCompleted") = Cardinality(worker.good)
      /\ view.bad + Queued("FileFailed") = Cardinality(worker.bad)

\* The final message came after the counting was over.
ReportOK ==
    /\ report # "none" => mode # "Uploading" /\ worker.pc = "off"
    /\ OutcomeTrue

BytesOf(batch) == MapThenSumSet(LAMBDA p : Size[p.file], batch)

Bounded(v) ==
    v.current > v.ok + v.bad => v.sent <= v.size /\ v.done + v.sent <= v.bytes

\* What a view that has counted all events says of the worker: the bytes done,
\* those of the file on its way and those left are within the batch.
UpToDate(v) ==
    /\ worker.pc = "check" =>
         v.current = v.ok + v.bad /\ v.done + BytesOf(worker.left) <= v.bytes
    /\ worker.pc = "call" =>
         /\ v.current = v.ok + v.bad + 1 /\ v.sent <= v.size
         /\ \A p \in worker.cur : v.size = Size[p.file]
         /\ v.done + v.size + BytesOf(worker.left) <= v.bytes

\* h are the views from v on while the events of q are counted; none shows
\* more than the batch.
Drained(h, q, v) ==
    /\ h \in [1..(Len(q) + 1) -> Views]
    /\ h[1] = v
    /\ \A i \in 1..Len(q) : h[i + 1] = Counted(h[i], q[i])
    /\ \A i \in 1..(Len(q) + 1) : Bounded(h[i])

\* No view to come shows more than the batch.
ProgressOK ==
    mode = "Uploading" =>
      \E h \in [1..(Len(queue) + 1) -> Views] :
        Drained(h, queue, view) /\ UpToDate(h[Len(queue) + 1])

TuiInv == /\ ViewsFresh /\ ListTypes /\ FieldTypes /\ JobTypes /\ JobMode /\ Questions /\ JobAsked /\ Browsers
          /\ CursorsValid /\ PendingTypes /\ UploadTypes /\ WorkerOK /\ BatchOK /\ CountsOK /\ ReportOK
          /\ ProgressOK
=============================================================================

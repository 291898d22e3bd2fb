------------------------------- MODULE MCTui -------------------------------
(***************************************************************************)
(* Names: 1 a directory, 2 a file, 3 the directory marker.  A session is   *)
(* one of three kinds, a bound on the keys that are pressed.  A librarian  *)
(* never uploads.  The other two stay in the root of the list, open no     *)
(* dialog there and upload once: a picker uploads one file under a key of  *)
(* its choice, a marker uploads directories and marked files.              *)
(***************************************************************************)
EXTENDS Tui

VARIABLE user

MCNames == 1..3
MCWidth == [n \in MCNames |-> IF n = 2 THEN 2 ELSE 1]
MCFirstKeys == {<<1, 2>>, <<1, 3>>, <<2>>}
MCOtherKeys == {<<1, 2>>}
MCLocalFiles == {<<1, 3>>, <<2>>}
MCSize == [f \in MCLocalFiles |-> IF f = <<2>> THEN 0 ELSE 1]

UploadsOnce ==
    /\ prefix' = << >> /\ selected' = 0 /\ changes' = 0
    /\ ops = 1 => mode' # "FileBrowser"
    /\ mode' \notin {"Search", "Detail", "DeleteConfirm", "DeleteDirConfirm", "RenameInput",
                     "MkdirInput"}

Pressed ==
    \/ user = "librarian" /\ mode' # "FileBrowser"
         /\ (ops = MaxOps /\ mode = "Normal" => mode' \in {"Normal", "Detail", "Exited"})
    \/ user = "picker" /\ UploadsOnce /\ marked' = {} /\ show_hidden' = FALSE
         /\ mode' \notin {"UploadConfirm", "BrowserFilter"}
    \/ user = "marker" /\ UploadsOnce /\ mode' \notin {"PathBrowser", "StoreKey"}

MCInit ==
    /\ Init
    /\ user \in {"librarian", "picker", "marker"}
    /\ user = "marker" => items = FirstKeys

MCNext == Next /\ Pressed /\ user' = user

MCSpec == MCInit /\ [][MCNext]_<<tuiVars, user>> /\ Fairness
=============================================================================

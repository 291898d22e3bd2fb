------------------------------- MODULE Server -------------------------------
(***************************************************************************)
(* The server process: its start, the key that remote clients must know,   *)
(* the requests it serves, its collector and its end (kaidadb-server       *)
(* main.rs, kaidadb-common server_key.rs).  A request runs on a thread and *)
(* takes the locks of KeyLocks.  `kaidadb-server --regenerate-key' is a    *)
(* second process that rewrites the key file at any time.  Keys are        *)
(* numbered as they are generated; a hash is the number of its key, and 0  *)
(* is none.  A kill is SIGKILL or SIGTERM, which main.rs does not catch    *)
(* and `kaidadb-ctl stop' sends: what was written stays.  A power cut may  *)
(* take back what the kernel has not written back, as the key file is      *)
(* never synced.                                                           *)
(***************************************************************************)
EXTENDS KeyLocks

CONSTANTS MaxKeys,   \* bound: keys generated
          MaxKills   \* bound: kills, of either process, and power cuts

ASSUME ServerAssumption == MaxKeys \in Nat /\ MaxKills \in Nat

VARIABLES
    proc,         \* the server's phase
    keyFile,      \* the key whose hash .server_key holds
    torn,         \* .server_key exists but is not 64 characters long
    older,        \* what a power cut may leave in its place
    keyMem,       \* the hash the server compares with; kept when it stops
    draft,        \* the key it is creating
    regen,        \* the phase of --regenerate-key ...
    regenKey,     \* ... and the key it generated
    issued,       \* keys generated so far
    shown,        \* keys whose plaintext has been printed
    lost,         \* keys on disk whose process was killed before it printed
    since,        \* keys the file has held since the server looked at it
    rewritten,    \* --regenerate-key has touched the file since then
    reverted,     \* a power cut has changed it since the server had its key
    collecting,   \* a garbage collection runs
    conn,         \* requests whose client is still connected
    pass,         \* the key each request presented, 0 for a loopback peer
    kills

fileVars == <<keyFile, torn, older>>
keyVars == <<fileVars, keyMem, draft, shown, lost, issued, since, rewritten, reverted>>
regenVars == <<regen, regenKey>>
reqVars == <<conn, pass>>
vars == <<lockVars, keyVars, regenVars, reqVars, proc, collecting, kills>>

Up == proc \in {"serving", "draining", "leaving"}

Init ==
    /\ LocksInit
    /\ proc = "down" /\ keyFile = 0 /\ torn = FALSE /\ keyMem = 0 /\ draft = 0
    /\ regen = "idle" /\ regenKey = 0 /\ issued = 0 /\ shown = {} /\ lost = {}
    /\ since = {} /\ rewritten = FALSE /\ reverted = FALSE /\ older = {}
    /\ collecting = FALSE
    /\ conn = {} /\ pass = [t \in Threads |-> 0] /\ kills = 0

----------------------------------------------------------------------------
(* The start.                                                              *)

Exists == torn \/ keyFile # 0

\* A start that finds a torn file ends with an error and changes nothing.
StartLoad ==
    /\ proc = "down" /\ keyFile # 0 /\ ~torn
    /\ proc' = "opening" /\ keyMem' = keyFile
    /\ since' = {keyFile} /\ rewritten' = FALSE /\ reverted' = FALSE
    /\ UNCHANGED <<lockVars, regenVars, reqVars, collecting, kills,
                   fileVars, draft, shown, lost, issued>>

StartCreate_Always ==
    /\ proc = "down" /\ issued < MaxKeys
    /\ proc' = "creating" /\ draft' = issued + 1 /\ issued' = issued + 1
    /\ since' = {} /\ rewritten' = FALSE
    /\ UNCHANGED <<lockVars, regenVars, reqVars, collecting, kills,
                   fileVars, keyMem, shown, lost, reverted>>

\* No key file: generate_key.
StartCreate ==
    /\ proc = "down" /\ ~Exists /\ issued < MaxKeys
    /\ proc' = "creating" /\ draft' = issued + 1 /\ issued' = issued + 1
    /\ since' = {} /\ rewritten' = FALSE
    /\ UNCHANGED <<lockVars, regenVars, reqVars, collecting, kills,
                   fileVars, keyMem, shown, lost, reverted>>

\* std::fs::write empties the file, then fills it, and syncs nothing.
Superseded == older' = older \cup {[key |-> keyFile, torn |-> torn]}

Truncate == keyFile' = 0 /\ torn' = TRUE /\ Superseded

Fill(key) ==
    /\ keyFile' = key /\ torn' = FALSE /\ Superseded
    /\ since' = since \cup {key}

\* The kernel writes the file back, some seconds later.
Writeback ==
    /\ older # {} /\ older' = {}
    /\ UNCHANGED <<lockVars, regenVars, reqVars, proc, collecting, kills, keyFile,
                   torn, keyMem, draft, shown, lost, issued, since, rewritten,
                   reverted>>

CreateTruncate ==
    /\ proc = "creating" /\ proc' = "filling"
    /\ Truncate
    /\ UNCHANGED <<lockVars, regenVars, reqVars, collecting, kills, keyMem, draft,
                   shown, lost, issued, since, rewritten, reverted>>

CreateFill ==
    /\ proc = "filling" /\ proc' = "announcing"
    /\ Fill(draft) /\ keyMem' = draft /\ reverted' = FALSE
    /\ UNCHANGED <<lockVars, regenVars, reqVars, collecting, kills, draft, shown,
                   lost, issued, rewritten>>

\* main.rs:106
Announce ==
    /\ proc = "announcing" /\ proc' = "opening"
    /\ shown' = shown \cup {keyMem}
    /\ UNCHANGED <<lockVars, regenVars, reqVars, collecting, kills, fileVars,
                   keyMem, draft, lost, issued, since, rewritten, reverted>>

\* The engine opens and the REST port is bound, or one of them fails.
Open ==
    /\ proc = "opening" /\ proc' \in {"serving", "down"}
    /\ UNCHANGED <<lockVars, keyVars, regenVars, reqVars, collecting, kills>>

----------------------------------------------------------------------------
(* --regenerate-key.                                                       *)

RegenBegin ==
    /\ regen = "idle" /\ issued < MaxKeys
    /\ regen' = "creating" /\ regenKey' = issued + 1 /\ issued' = issued + 1
    /\ UNCHANGED <<lockVars, reqVars, proc, collecting, kills, fileVars,
                   keyMem, draft, shown, lost, since, rewritten, reverted>>

RegenTruncate ==
    /\ regen = "creating" /\ regen' = "filling"
    /\ Truncate /\ rewritten' = TRUE
    /\ UNCHANGED <<lockVars, reqVars, proc, collecting, kills, regenKey, keyMem,
                   draft, shown, lost, issued, since, reverted>>

RegenFill ==
    /\ regen = "filling" /\ regen' = "announcing"
    /\ Fill(regenKey) /\ rewritten' = TRUE
    /\ UNCHANGED <<lockVars, reqVars, proc, collecting, kills, regenKey, keyMem,
                   draft, shown, lost, issued, reverted>>

RegenAnnounce ==
    /\ regen = "announcing" /\ regen' = "idle"
    /\ shown' = shown \cup {regenKey} /\ regenKey' = 0
    /\ UNCHANGED <<lockVars, reqVars, proc, collecting, kills, fileVars, keyMem,
                   draft, lost, issued, since, rewritten, reverted>>

\* The plaintext of a key that is on disk goes with the process that generated
\* it, if that has not printed it yet.
Silenced == IF proc = "announcing" THEN {keyMem} ELSE {}
RegenSilenced == IF regen = "announcing" THEN {regenKey} ELSE {}

RegenKilled ==
    /\ regen # "idle" /\ kills < MaxKills
    /\ regen' = "idle" /\ regenKey' = 0 /\ kills' = kills + 1
    /\ lost' = lost \cup RegenSilenced
    /\ UNCHANGED <<lockVars, reqVars, proc, collecting, fileVars, keyMem, draft,
                   shown, issued, since, rewritten, reverted>>

----------------------------------------------------------------------------
(* Requests.                                                               *)

Admits_Any(key) == keyMem # 0

\* check_auth, auth_middleware: a loopback peer needs no key.
Admits(key) == key = 0 \/ key = keyMem

\* A client knows a key that was printed, or guesses none.
Arrive(t, key, ks, uploads) ==
    /\ proc = "serving" /\ key \in {0} \cup shown
    /\ Admits(key)
    /\ Begin(t, ks, uploads)
    /\ conn' = conn \cup {t} /\ pass' = [pass EXCEPT ![t] = key]
    /\ UNCHANGED <<keyVars, regenVars, proc, collecting, kills>>

Answered(t) ==
    /\ conn' = conn \ {t} /\ pass' = [pass EXCEPT ![t] = 0]

\* A step of a request's thread; its end is the answer.
Work(t) ==
    /\ Up
    /\ \/ /\ \/ \E k \in Keys : Fetch(t, k) \/ Lock(t, k)
             \/ BodyEnds(t)
          /\ UNCHANGED reqVars
       \/ (Finish(t) \/ Abandon(t)) /\ Answered(t)
    /\ UNCHANGED <<keyVars, regenVars, proc, collecting, kills>>

\* The client goes; the thread carries on.
Disconnect(t) ==
    /\ t \in conn /\ conn' = conn \ {t}
    /\ UNCHANGED <<lockVars, keyVars, regenVars, proc, pass, collecting, kills>>

\* The ticker awaits each collection before the next tick.
Collect ==
    /\ proc \in {"serving", "draining"} /\ ~collecting /\ collecting' = TRUE
    /\ UNCHANGED <<lockVars, keyVars, regenVars, reqVars, proc, kills>>

Collected ==
    /\ collecting /\ collecting' = FALSE
    /\ UNCHANGED <<lockVars, keyVars, regenVars, reqVars, proc, kills>>

----------------------------------------------------------------------------
(* The end.                                                                *)

\* Ctrl-C: both servers stop accepting.
Signal ==
    /\ proc = "serving" /\ proc' = "draining"
    /\ UNCHANGED <<lockVars, keyVars, regenVars, reqVars, collecting, kills>>

\* Both servers have answered their clients: main returns.
Drained ==
    /\ proc = "draining" /\ conn = {} /\ proc' = "leaving"
    /\ UNCHANGED <<lockVars, keyVars, regenVars, reqVars, collecting, kills>>

\* Nothing in memory outlives the process.
Exit ==
    /\ proc' = "down" /\ collecting' = FALSE
    /\ map' = [k \in Keys |-> NoMutex]
    /\ handle' = [t \in Threads |-> [k \in Keys |-> NoMutex]]
    /\ owner' = [m \in Mutexes |-> NoThread]
    /\ want' = [t \in Threads |-> {}]
    /\ body' = {} /\ conn' = {} /\ pass' = [t \in Threads |-> 0]

Deadline_Idle ==
    /\ proc = "draining" /\ conn = {}
    /\ Exit
    /\ UNCHANGED <<keyVars, regenVars, kills>>

\* 30 seconds after the signal the process exits, whatever still runs.
Deadline ==
    /\ proc = "draining"
    /\ Exit
    /\ UNCHANGED <<keyVars, regenVars, kills>>

\* The runtime's threads have ended: an upload, delete or rename whose
\* client is gone, or a collection, delays this.
Leave ==
    /\ proc = "leaving" /\ ~collecting /\ \A t \in Threads : want[t] = {}
    /\ Exit
    /\ UNCHANGED <<keyVars, regenVars, kills>>

Kill ==
    /\ proc # "down" /\ kills < MaxKills
    /\ kills' = kills + 1
    /\ lost' = lost \cup Silenced
    /\ Exit
    /\ UNCHANGED <<regenVars, fileVars, keyMem, draft, shown, issued, since,
                   rewritten, reverted>>

\* Both processes are gone, and the file is as it is or as it was at some time
\* since it was last written back: with another key, empty or missing.
PowerCut ==
    /\ kills < MaxKills /\ kills' = kills + 1
    /\ lost' = lost \cup Silenced \cup RegenSilenced
    /\ Exit /\ regen' = "idle" /\ regenKey' = 0
    /\ \/ UNCHANGED <<keyFile, torn, reverted>>
       \/ \E f \in older : keyFile' = f.key /\ torn' = f.torn /\ reverted' = TRUE
    /\ older' = {}
    /\ UNCHANGED <<keyMem, draft, shown, issued, since, rewritten>>

----------------------------------------------------------------------------

Next ==
    \/ StartLoad \/ StartCreate \/ CreateTruncate \/ CreateFill \/ Announce \/ Open
    \/ Writeback \/ PowerCut
    \/ RegenBegin \/ RegenTruncate \/ RegenFill \/ RegenAnnounce \/ RegenKilled
    \/ \E t \in Threads, key \in 0 .. issued :
         \/ \E j, k \in Keys : Arrive(t, key, {j, k}, FALSE)
         \/ \E k \in Keys : Arrive(t, key, {k}, TRUE)
    \/ \E t \in Threads : Work(t) \/ Disconnect(t)
    \/ Collect \/ Collected
    \/ Signal \/ Drained \/ Deadline \/ Leave \/ Kill

Spec == Init /\ [][Next]_vars

\* What runs on a thread of its own goes on: an operation that has its body,
\* an upload whose client is gone, a collection.  A mutex that is released
\* again and again is granted in the end (parking_lot's eventual fairness).
\* The signal task's timer fires.  No client is obliged to do anything.
Running(t) == t \notin body \/ t \notin conn

Fairness ==
    /\ \A t \in Threads : SF_vars(Running(t) /\ Work(t))
    /\ WF_vars(Collected) /\ WF_vars(Drained) /\ WF_vars(Deadline) /\ WF_vars(Leave)

FairSpec == Spec /\ Fairness

----------------------------------------------------------------------------
(* Properties.                                                             *)

FlagsOK ==
    /\ torn \in BOOLEAN /\ rewritten \in BOOLEAN /\ reverted \in BOOLEAN
    /\ collecting \in BOOLEAN

ProcessTypeOK ==
    /\ proc \in {"down", "creating", "filling", "announcing", "opening",
                 "serving", "draining", "leaving"}
    /\ regen \in {"idle", "creating", "filling", "announcing"}
    /\ keyFile \in 0 .. MaxKeys /\ keyMem \in 0 .. MaxKeys /\ draft \in 0 .. MaxKeys
    /\ regenKey \in 0 .. MaxKeys /\ issued \in 0 .. MaxKeys
    /\ shown \subseteq 1 .. MaxKeys /\ lost \subseteq 1 .. MaxKeys
    /\ since \subseteq 1 .. MaxKeys
    /\ conn \subseteq Threads /\ pass \in [Threads -> 0 .. MaxKeys]
    /\ kills \in 0 .. MaxKills

OlderOK == older \subseteq [key : 0 .. MaxKeys, torn : BOOLEAN]

ServerTypeOK == LocksTypeOK /\ FlagsOK /\ ProcessTypeOK /\ OlderOK

\* A key that somebody has seen, or would have but for a kill, or that one of
\* the processes is about to print.
Printed(key) == key \in shown \cup lost \cup Silenced \cup RegenSilenced

\* The inductive invariant of the keys: what the phases of the server and of
\* --regenerate-key mean for the file, for what a power cut may leave of it,
\* for the memory and the requests.
KeyInv ==
    /\ proc \in {"creating", "filling"} => draft # 0 /\ (keyMem = 0 \/ reverted)
    /\ proc \notin {"down", "creating", "filling"} => keyMem # 0 /\ keyMem \in since
    /\ regen # "idle" => regenKey # 0
    /\ keyMem # 0 /\ ~reverted => Exists
    /\ keyMem # 0 /\ ~reverted /\ ~rewritten => keyFile = keyMem /\ ~torn
    /\ keyFile # 0 => Printed(keyFile)
    /\ \A f \in older : f.key # 0 => Printed(f.key)
    /\ proc = "opening" \/ Up => Printed(keyMem)
    /\ \A t \in Threads : pass[t] # 0 => Up /\ pass[t] = keyMem

\* A server that serves compares with the hash of a key that was printed,
\* unless a kill came between the writing and the printing
\* (server_key.rs:52, main.rs:106).
KeyUsable ==
    proc = "serving" => keyMem \in shown \cup lost \cup {regenKey} /\ keyMem # 0

\* A remote request under way presented a key that the file has held since this
\* process looked at it: once the server has been started again, no key that was
\* replaced before opens it, whoever still knows it (grpc.rs:63, rest.rs:88).
AuthCurrent == \A t \in Threads : pass[t] # 0 => pass[t] \in since

\* However often the server is killed and restarted, and wherever, its key is
\* replaced only by --regenerate-key (server_key.rs:45).  The exception is a power
\* cut before the kernel has written the file back: it may bring back an older
\* key, or none, and then the next start generates another without a word of it
\* (server_key.rs:64).
KeySurvives == [][keyMem' # keyMem => keyMem = 0 \/ rewritten \/ reverted]_vars

\* A signalled server stops, whatever its clients do (main.rs:172).
StopEnds == proc = "draining" ~> proc = "down"

\* A delete, a rename and a commit get their locks and return, two renames
\* in opposite directions included (engine.rs:403).
CallsReturn == \A t \in Threads : (want[t] # {} /\ t \notin body) ~> want[t] = {}
=============================================================================

---------------------------- MODULE DeviceMonitor ----------------------------
(***************************************************************************)
(* The ALSA device monitor (system_audio/alsa_device_enumerator.cpp) and   *)
(* the engine's side of it (managers/audio_manager.cpp:1001-1049): a thread*)
(* scans the PCM names and the runtime directory where the ALSA plugin     *)
(* keeps its FIFOs, stores what it found in the registry, announces the    *)
(* differences through the notification queue, and sleeps in poll() until  *)
(* something happens or two seconds have passed.  The notification thread  *)
(* answers an announcement by copying the registry; so does a caller of    *)
(* list_system_devices.                                                    *)
(***************************************************************************)
EXTENDS Naturals, Sequences, FiniteSets

CONSTANTS
    Hints,      \* PCM names, which are the tags of their devices
    Probed,     \* those is_probe_safe lets the monitor open
    Files,      \* names in the runtime directory
    Manifests,  \* those of manifests (srmeta.*), which may say that the device is absent
    TagOf,      \* parse_...: the tag a name stands for, or Ignored
    Ignored,
    Listing,    \* somebody calls list_system_devices
    MaxChanges  \* bound: changes of hardware and directory

VARIABLES
    card,       \* the hardware behind a PCM name: a number, 0 when there is none
    dir, files, \* the runtime directory is there; the names in it
    denying,    \* the manifests in it that say "present=0"
    changes,    \* changes so far
    running, registry,
    pc, todo, previous, scanned, push, polled, rescan,  \* monitor_loop
    denied,     \* history: tags whose entry in the registry is of a manifest that denies
    watch,      \* inotify_fd_: "off", "fd", "on" (and watching) or "stale" (closed)
    events,     \* what the watch has to tell: "change", "gone"
    pipe,       \* wake_pipe_: "none", "idle" or "signalled"
    stopper,    \* stop(): "no", "tear", "wake", "join" or "done"
    queue, heard, copy, reader, snapshot

worldVars == <<card, dir, files, denying, changes>>
scanVars == <<todo, previous, scanned, push, denied>>
loopVars == <<polled, rescan>>
watchVars == <<watch, events>>
monitorVars == <<pc, scanVars, loopVars>>
engineVars == <<queue, heard, copy, reader, snapshot>>
vars == <<worldVars, running, registry, monitorVars, watchVars, pipe, stopper, engineVars>>

Tags == Hints \cup ({TagOf[f] : f \in Files} \ {Ignored})
Nothing == [present |-> FALSE, id |-> Ignored, caps |-> 0]
Empty == [t \in Tags |-> Nothing]

Listed(info) == info.id # Ignored   \* it is in the map

\* Two names may stand for one tag.  A device is there when its name is, or as one of its
\* files says.
FilesOf(t) == {f \in files : TagOf[f] = t}
Plugged(t) == t \in Hints /\ card[t] # 0
Claims(t) == IF FilesOf(t) # {} THEN {f \notin denying : f \in FilesOf(t)} ELSE {Plugged(t)}

Init ==
    /\ card = [h \in Hints |-> 0] /\ dir = TRUE /\ changes = 0
    /\ files \in SUBSET Files /\ denying \in SUBSET (files \cap Manifests)
    /\ running = TRUE /\ registry = Empty
    /\ pc = "start" /\ todo = {} /\ previous = Empty /\ scanned = Empty /\ push = {} /\ denied = {}
    /\ polled = FALSE /\ rescan = FALSE
    /\ watch = "off" /\ events = {} /\ pipe = "none" /\ stopper = "no"
    /\ queue = <<>> /\ heard = [t \in Tags |-> FALSE] /\ copy = Empty
    /\ reader = [r \in {"notifier", "lister"} |-> "idle"]
    /\ snapshot = [r \in {"notifier", "lister"} |-> Empty]

-----------------------------------------------------------------------------
(* The world.                                                              *)

Tell(e) == events' = IF watch = "on" THEN events \cup {e} ELSE events

Plug(h) ==
    /\ changes < MaxChanges /\ changes' = changes + 1
    /\ card' = [card EXCEPT ![h] = IF @ = 0 THEN changes + 1 ELSE 0]
    /\ UNCHANGED <<dir, files, denying, running, registry, monitorVars, watchVars, pipe, stopper, engineVars>>

\* A FIFO of the plugin or a manifest appears or goes, or a manifest is written anew.
Fifo(f) ==
    /\ changes < MaxChanges /\ changes' = changes + 1
    /\ dir
    /\ \/ /\ f \notin files /\ files' = files \cup {f}
          /\ denying' \in {denying, denying \cup ({f} \cap Manifests)}
       \/ f \in files /\ files' = files \ {f} /\ denying' = denying \ {f}
       \/ /\ f \in files \cap Manifests /\ files' = files
          /\ denying' = IF f \in denying THEN denying \ {f} ELSE denying \cup {f}
    /\ Tell("change")
    /\ UNCHANGED <<card, dir, running, registry, monitorVars, watch, pipe, stopper, engineVars>>

DirectoryRemoved ==
    /\ changes < MaxChanges /\ changes' = changes + 1
    /\ dir /\ dir' = FALSE /\ files' = {} /\ denying' = {}
    /\ Tell("gone")
    /\ UNCHANGED <<card, running, registry, monitorVars, watch, pipe, stopper, engineVars>>

-----------------------------------------------------------------------------
(* enumerate_devices                                                       *)

BeginScan(from) ==
    /\ pc \in from
    /\ IF running
        THEN todo' = Hints /\ previous' = registry /\ scanned' = Empty /\ pc' = "hints"
        ELSE pc' = "watch" /\ UNCHANGED <<todo, previous, scanned>>
    /\ UNCHANGED <<worldVars, running, registry, push, denied, loopVars, watchVars, pipe, stopper, engineVars>>

\* create_hint_device_info: the capabilities found before are kept; a device that is in
\* use, or whose name is not safe to open, has none.
Caps(h) ==
    IF previous[h].caps # 0 THEN {previous[h].caps}
    ELSE IF h \in Probed THEN {0, card[h]} ELSE {0}

ScanHint ==
    /\ pc = "hints"
    /\ IF todo = {} \/ ~running
        THEN pc' = "directory" /\ UNCHANGED <<todo, scanned>>
        ELSE \E h \in todo :
                /\ todo' = todo \ {h}
                /\ IF card[h] = 0 THEN UNCHANGED scanned
                   ELSE \E c \in Caps(h) :
                        scanned' = [scanned EXCEPT ![h] = [present |-> TRUE, id |-> h, caps |-> c]]
                /\ UNCHANGED pc
    /\ UNCHANGED <<worldVars, running, registry, previous, push, denied, loopVars, watchVars, pipe,
                   stopper, engineVars>>

\* append_screamrouter_runtime_devices.  The directory is made if need be, and reading it
\* is an event for whoever watches it (IN_OPEN, IN_CLOSE_NOWRITE).
ScanDirectory ==
    /\ pc = "directory"
    /\ \E pick \in [Tags -> Files \cup {Ignored}] :
        /\ \A t \in Tags : IF FilesOf(t) = {} THEN pick[t] = Ignored ELSE pick[t] \in FilesOf(t)
        /\ scanned' = [t \in Tags |-> IF FilesOf(t) = {} THEN scanned[t]
                                      ELSE [present |-> pick[t] \notin denying, id |-> pick[t], caps |-> 1]]
    /\ dir' = TRUE
    /\ Tell("change")
    /\ pc' = "compare"
    /\ UNCHANGED <<card, files, denying, changes, running, registry, todo, previous, push, denied,
                   loopVars, watch, pipe, stopper, engineVars>>

\* Under registry_mutex_: what is listed is announced as present when it is new or
\* changed, whatever its manifest says; a device that is gone stays, as not present.
StillPresent(info) == info \* mutant: the entry is left as it was
Gone(info) == [info EXCEPT !.present = FALSE]

Compare ==
    /\ pc = "compare"
    /\ LET lost == {t \in Tags : ~Listed(scanned[t]) /\ previous[t].present}
           new == {t \in Tags : Listed(scanned[t]) /\ scanned[t] # previous[t]}
       IN  /\ registry' = [t \in Tags |-> IF Listed(scanned[t]) THEN scanned[t]
                                          ELSE IF t \in lost THEN Gone(previous[t])
                                          ELSE registry[t]]
           /\ push' = (new \X {TRUE}) \cup (lost \X {FALSE})
    /\ denied' = {t \in Tags : IF Listed(scanned[t]) THEN ~scanned[t].present ELSE t \in denied}
    /\ pc' = "push"
    /\ UNCHANGED <<worldVars, running, todo, previous, scanned, loopVars, watchVars, pipe, stopper,
                   engineVars>>

\* The notifications, one by one
Announce ==
    /\ pc = "push"
    /\ IF push = {}
        THEN pc' = "watch" /\ UNCHANGED <<push, queue>>
        ELSE \E n \in push : /\ push' = push \ {n}
                             /\ queue' = Append(queue, n)
                             /\ UNCHANGED pc
    /\ UNCHANGED <<worldVars, running, registry, todo, previous, scanned, denied, loopVars, watchVars,
                   pipe, stopper, heard, copy, reader, snapshot>>

-----------------------------------------------------------------------------
(* monitor_loop                                                            *)

\* setup_fifo_watch: a descriptor, and a watch on the directory, made if need be; both are
\* tried again when they failed.
Watched ==
    IF watch \in {"on", "stale"} THEN UNCHANGED <<watchVars, dir>>
    ELSE /\ dir' = TRUE
         /\ watch' = "on" /\ events' = {}

\* After a scan; the wake pipe is made once, and may fail.
SetupWatch ==
    /\ pc = "watch"
    /\ Watched
    /\ pipe' \in IF pipe = "none" THEN {"none", "idle"} ELSE {pipe}
    /\ pc' = "loop"
    /\ UNCHANGED <<card, files, denying, changes, running, registry, scanVars, loopVars, stopper, engineVars>>

\* The control handles are opened and the descriptors listed; then the watch is tried again.
PrepareToPoll ==
    /\ pc = "loop" /\ running
    /\ polled' = (watch # "off")
    /\ Watched
    /\ pc' = "poll"
    /\ UNCHANGED <<card, files, denying, changes, running, registry, scanVars, rescan, pipe, stopper, engineVars>>

FifoEvent == polled /\ watch = "on" /\ events # {}

\* drain_fifo_watch_events: with the directory gone, the watch is given up.
DrainEvents ==
    IF FifoEvent
    THEN events' = {} /\ watch' = IF "gone" \in events THEN "off" ELSE watch
    ELSE UNCHANGED watchVars

\* poll() returns for an event of a sound card, of the directory or of the pipe ...
PollEvent ==
    /\ pc = "poll"
    /\ \E control \in BOOLEAN :
        /\ control \/ FifoEvent \/ pipe = "signalled"
        /\ control => \E h \in Hints : card[h] # 0
        /\ rescan' = (control \/ FifoEvent)
    /\ DrainEvents
    /\ pipe' = IF pipe = "signalled" THEN "idle" ELSE pipe
    /\ pc' = "polled"
    /\ UNCHANGED <<worldVars, running, registry, scanVars, polled, stopper, engineVars>>

\* ... or because two seconds have passed.
PollTimeout ==
    /\ pc = "poll" /\ ~FifoEvent /\ pipe # "signalled"
    /\ rescan' = TRUE
    /\ pc' = "polled"
    /\ UNCHANGED <<worldVars, running, registry, scanVars, polled, watchVars, pipe, stopper, engineVars>>

Polled ==
    /\ pc = "polled"
    /\ pc' = IF ~running THEN "leave" ELSE IF rescan THEN "rescan" ELSE "loop"
    /\ UNCHANGED <<worldVars, running, registry, scanVars, loopVars, watchVars, pipe, stopper, engineVars>>

Leave ==
    /\ pc = "leave" \/ (pc = "loop" /\ ~running)
    /\ watch' = "off" /\ events' = {}
    /\ pipe' = "none"
    /\ pc' = "ended"
    /\ UNCHANGED <<worldVars, running, registry, scanVars, loopVars, stopper, engineVars>>

Monitor ==
    \/ BeginScan({"start", "rescan"}) \/ ScanHint \/ ScanDirectory \/ Compare \/ Announce
    \/ SetupWatch \/ PrepareToPoll \/ PollEvent \/ PollTimeout \/ Polled \/ Leave

-----------------------------------------------------------------------------
(* stop(), on the engine's thread: the watch is torn down while the monitor may use it.  *)

Stop ==
    /\ stopper = "no"
    /\ running' = FALSE
    /\ watch' = IF watch = "off" THEN "off" ELSE "stale"
    /\ stopper' = "tear"
    /\ UNCHANGED <<worldVars, registry, monitorVars, events, pipe, engineVars>>

TornDown ==
    /\ stopper = "tear"
    /\ watch' = IF watch = "stale" THEN "off" ELSE watch
    /\ events' = IF watch = "stale" THEN {} ELSE events
    /\ stopper' = "wake"
    /\ UNCHANGED <<worldVars, running, registry, monitorVars, pipe, engineVars>>

Wake ==
    /\ stopper = "wake"
    /\ pipe' = IF pipe = "none" THEN "none" ELSE "signalled"
    /\ stopper' = "join"
    /\ UNCHANGED <<worldVars, running, registry, monitorVars, watchVars, engineVars>>

Joined ==
    /\ stopper = "join" /\ pc = "ended"
    /\ registry' = Empty
    /\ stopper' = "done"
    /\ UNCHANGED <<worldVars, running, monitorVars, watchVars, pipe, engineVars>>

-----------------------------------------------------------------------------
(* The engine.                                                             *)

\* process_notifications: an announcement is kept for the clients; then the registry is
\* read under its own mutex, and stored under the engine's.
Notified ==
    /\ reader["notifier"] = "idle" /\ queue # <<>>
    /\ queue' = Tail(queue)
    /\ heard' = [heard EXCEPT ![Head(queue)[1]] = Head(queue)[2]]
    /\ reader' = [reader EXCEPT !["notifier"] = "read"]
    /\ UNCHANGED <<worldVars, running, registry, monitorVars, watchVars, pipe, stopper, copy, snapshot>>

\* list_system_devices
List ==
    /\ Listing /\ reader["lister"] = "idle"
    /\ reader' = [reader EXCEPT !["lister"] = "read"]
    /\ UNCHANGED <<worldVars, running, registry, monitorVars, watchVars, pipe, stopper, queue, heard,
                   copy, snapshot>>

ReadRegistry(r) ==
    /\ reader[r] = "read"
    /\ snapshot' = [snapshot EXCEPT ![r] = registry]
    /\ reader' = [reader EXCEPT ![r] = "store"]
    /\ UNCHANGED <<worldVars, running, registry, monitorVars, watchVars, pipe, stopper, queue, heard, copy>>

StoreOld(r) == copy \* mutant: the notifier keeps the announcement only
Store(r) == snapshot[r]

StoreCopy(r) ==
    /\ reader[r] = "store"
    /\ copy' = Store(r)
    /\ reader' = [reader EXCEPT ![r] = "idle"]
    /\ snapshot' = [snapshot EXCEPT ![r] = Empty]
    /\ UNCHANGED <<worldVars, running, registry, monitorVars, watchVars, pipe, stopper, queue, heard>>

Notifier == Notified \/ ReadRegistry("notifier") \/ StoreCopy("notifier")
Lister == ReadRegistry("lister") \/ StoreCopy("lister")

Next ==
    \/ \E h \in Hints : Plug(h)
    \/ \E f \in Files : Fifo(f)
    \/ DirectoryRemoved
    \/ Monitor \/ Stop \/ TornDown \/ Wake \/ Joined
    \/ Notifier \/ List \/ Lister

Spec == Init /\ [][Next]_vars

\* The two threads run, poll() returns, and a stop that was begun goes on.
Fairness ==
    /\ WF_vars(Monitor) /\ WF_vars(Notifier) /\ WF_vars(Lister)
    /\ WF_vars(TornDown \/ Wake \/ Joined)
FairSpec == Spec /\ Fairness

-----------------------------------------------------------------------------
\* Between two scans, a client that has heard every announcement knows which devices the
\* registry holds as present, through removals, reappearances and updates: none is
\* announced twice over or not at all.  It errs only of a tag whose entry is of a manifest
\* that says "present=0", and only in believing it present
\* (alsa_device_enumerator.cpp:624-683, 1000-1009).
After(beliefs) ==
    [t \in Tags |-> LET told == {i \in DOMAIN queue : queue[i][1] = t}
                    IN  IF told = {} THEN beliefs[t]
                        ELSE queue[CHOOSE i \in told : \A j \in told : j <= i][2]]
AnnouncedIsRegistered ==
    (pc \notin {"push"} /\ stopper # "done") =>
        \A t \in Tags : \/ After(heard)[t] = registry[t].present
                        \/ t \in denied /\ After(heard)[t] /\ ~registry[t].present

\* Once devices and directory stay as they are, the engine's copy of the registry knows
\* them for good, and so do the clients but for those tags, unless the monitor is
\* stopped, whatever the thread was doing when the last of them changed
\* (alsa_device_enumerator.cpp:359-684, audio_manager.cpp:1019-1049).
Known == \A t \in Tags : /\ copy[t].present \in Claims(t)
                         /\ heard[t] = copy[t].present \/ t \in denied
EventuallyKnown == <>[](~running \/ Known)

\* stop() returns although its wake may come before there is a pipe
\* (alsa_device_enumerator.cpp:60-92).
StopEnds == (stopper = "tear") ~> (stopper = "done")

\* "Watching %s for FIFO changes", "timeout -> periodic rescan"
\* (alsa_device_enumerator.cpp:475, 754): a scan finds the runtime directory changed, or
\* follows a timeout or an event of a card; it is not brought about by the scan before.
RescanAfterChange ==
    [][(PollEvent /\ FifoEvent /\ \A h \in Hints : card[h] = 0)
        => \E t \in Tags : registry[t].present \notin Claims(t)]_vars
=============================================================================

------------------------------ MODULE Session -------------------------------
(***************************************************************************)
(* Sessions of the library (lib/blksnap/Session.cpp over Blksnap.cpp): the *)
(* process that creates a snapshot, takes it, feeds its difference storage *)
(* and destroys it, composed with the kernel side of Snapshots.            *)
(*                                                                         *)
(* A session is a thread that runs the constructor and the destructor of   *)
(* CSession and, between them, the watcher that BlksnapThread() runs.      *)
(* Each session is a process of its own.  An exception in the constructor  *)
(* ends the session: while the watcher runs, it ends the process, because  *)
(* the handle of the running thread is destroyed.                          *)
(***************************************************************************)
EXTENDS Snapshots

CONSTANTS
  Sessions, \* the threads of the sessions
  Watcher,  \* the watcher thread of each session
  Rmmod,    \* the thread that unloads the module
  Mishaps   \* what may go wrong in the library: "event", "storage"

ASSUME SessionsAssumption ==
  /\ Watcher \in [Sessions -> Threads] /\ IsInjective(Watcher)
  /\ Sessions \subseteq Threads /\ Rmmod \in Threads
  /\ Rmmod \notin Sessions \cup Range(Watcher)
  /\ Sessions \cap Range(Watcher) = {}
  /\ Mishaps \subseteq {"event", "storage"}

VARIABLE
  sess      \* where the session and its watcher are, and what they share

sessionVars == <<vars, sess>>

Returned(t) == At(t, "idle")
Threw(t) == ret[t] = "error"

Ready(m, pc) == sess[m].pc = pc /\ Returned(m)
To(m, pc) == sess' = [sess EXCEPT ![m].pc = pc]
Watching(m, w) == sess[m].watch = w /\ Returned(Watcher[m])
WatchTo(m, w) == sess' = [sess EXCEPT ![m].watch = w]

NoSession == [pc |-> "new", id |-> NULL, watch |-> "none", stop |-> FALSE,
              files |-> FALSE, removed |-> FALSE]

Gone(m) ==
  /\ sess[m].pc \in {"new", "over", "thrown", "terminated"}
  /\ sess[m].watch \in {"none", "ended"}

-----------------------------------------------------------------------------
(* CSession::CSession()                                                    *)

(* A session begins, the first one or after the one before is gone.        *)
Create(m) ==
  /\ Gone(m) /\ Returned(m)
  /\ \E s \in SnapshotSet, l \in DeviceLists :
       /\ snapshot_create(m, s, l)
       /\ sess' = [sess EXCEPT ![m] =
                     [NoSession EXCEPT !.pc = "created", !.id = s]]

(* The first portion of the difference storage is appended if the event    *)
(* that asks for it is there.                                              *)
FirstWait(m) ==
  /\ Ready(m, "created") /\ ~ Threw(m)
  /\ snapshot_wait_event(m, sess[m].id)
  /\ To(m, "waited")

FirstAppend(m) ==
  /\ Ready(m, "waited") /\ ~ Threw(m)
  /\ snapshot_append_storage(m, sess[m].id)
  /\ sess' = [sess EXCEPT ![m].pc = "appended", ![m].files = TRUE]

(* The watcher is started.                                                 *)
Start(m) ==
  /\ \/ Ready(m, "appended") /\ ~ Threw(m)
     \/ Ready(m, "waited") /\ ~ Threw(m) /\ "event" \in Mishaps
  /\ sess' = [sess EXCEPT ![m].pc = "started", ![m].watch = "loop"]
  /\ UNCHANGED vars

Take(m) ==
  /\ Ready(m, "started")
  /\ snapshot_take(m, sess[m].id)
  /\ To(m, "taken")

Collect(m) ==
  /\ Ready(m, "taken") /\ ~ Threw(m)
  /\ snapshot_collect_images(m, sess[m].id)
  /\ To(m, "collected")

Constructed(m) ==
  /\ Ready(m, "collected") /\ ~ Threw(m)
  /\ To(m, "running")
  /\ UNCHANGED vars

(* An ioctl failed, or the storage could not be allocated.                 *)
Throw(m) ==
  /\ \/ \E pc \in {"created", "waited", "appended"} : Ready(m, pc) /\ Threw(m)
     \/ Ready(m, "waited") /\ "storage" \in Mishaps
  /\ To(m, "thrown")
  /\ UNCHANGED vars

Terminate(m) ==
  /\ \E pc \in {"taken", "collected"} : Ready(m, pc) /\ Threw(m)
  /\ To(m, "terminated")
  /\ UNCHANGED vars

-----------------------------------------------------------------------------
(* BlksnapThread()                                                         *)

WatchWait(m) ==
  /\ Watching(m, "loop") /\ ~ sess[m].stop /\ sess[m].pc # "terminated"
  /\ snapshot_wait_event(Watcher[m], sess[m].id)
  /\ WatchTo(m, "waited")

(* An event asks for more storage, ...                                     *)
WatchAppend(m) ==
  /\ Watching(m, "waited") /\ ~ Threw(Watcher[m]) /\ sess[m].pc # "terminated"
  /\ snapshot_append_storage(Watcher[m], sess[m].id)
  /\ sess' = [sess EXCEPT ![m].watch = "appended", ![m].files = TRUE]

(* ... or there is none, or its handling ended, with an error or not.      *)
WatchAgain(m) ==
  /\ \/ Watching(m, "waited") /\ ~ Threw(Watcher[m])
     \/ Watching(m, "appended")
  /\ WatchTo(m, "loop")
  /\ UNCHANGED vars

(* Mutant: the flag that tells the watcher to stop is not looked at.       *)
WatchIgnoresStop(m) ==
  /\ \/ Watching(m, "waited") /\ Threw(Watcher[m])
     \/ sess[m].pc = "terminated" /\ sess[m].watch # "none"
          /\ Returned(Watcher[m])
  /\ sess[m].watch # "ended"
  /\ WatchTo(m, "ended")
  /\ UNCHANGED vars

(* The watcher is told to stop, its wait fails, or its process ends.       *)
WatchEnd(m) ==
  /\ \/ Watching(m, "loop") /\ sess[m].stop
     \/ Watching(m, "waited") /\ Threw(Watcher[m])
     \/ sess[m].pc = "terminated" /\ sess[m].watch # "none"
          /\ Returned(Watcher[m])
  /\ sess[m].watch # "ended"
  /\ WatchTo(m, "ended")
  /\ UNCHANGED vars

-----------------------------------------------------------------------------
(* CSession::~CSession()                                                   *)

Stop(m) ==
  /\ Ready(m, "running")
  /\ sess' = [sess EXCEPT ![m].pc = "joining", ![m].stop = TRUE]
  /\ UNCHANGED vars

(* Mutant: the watcher is not joined.                                      *)
DestroyWithoutJoin(m) ==
  /\ Ready(m, "joining")
  /\ snapshot_destroy(m, sess[m].id)
  /\ To(m, "destroyed")

Destroy(m) ==
  /\ Ready(m, "joining") /\ sess[m].watch = "ended"
  /\ snapshot_destroy(m, sess[m].id)
  /\ To(m, "destroyed")

(* The files of the storage are removed unless the ioctl failed.           *)
Cleanup(m) ==
  /\ Ready(m, "destroyed")
  /\ sess' = [sess EXCEPT ![m].pc = "over",
                          ![m].files = IF Threw(m) THEN @ ELSE FALSE,
                          ![m].removed = ~ Threw(m)]
  /\ UNCHANGED vars

-----------------------------------------------------------------------------
(* The module can be unloaded when no process has the control device open. *)
Unload ==
  /\ \A m \in Sessions : Gone(m)
  /\ UnloadStart(Rmmod)
  /\ UNCHANGED sess

SessionInit ==
  /\ Init
  /\ sess = [m \in Sessions |-> NoSession]

Constructor(m) ==
  \/ Create(m) \/ FirstWait(m) \/ FirstAppend(m) \/ Start(m) \/ Take(m)
  \/ Collect(m) \/ Constructed(m) \/ Throw(m) \/ Terminate(m)

Watch(m) == WatchWait(m) \/ WatchAppend(m) \/ WatchAgain(m) \/ WatchEnd(m)

Destructor(m) == Destroy(m) \/ Cleanup(m)

SessionNext ==
  \/ \E m \in Sessions : Constructor(m) \/ Watch(m) \/ Stop(m) \/ Destructor(m)
  \/ \E t \in Threads : Kernel(t) /\ UNCHANGED sess
  \/ Writes /\ UNCHANGED sess
  \/ Unload

SessionSpec == SessionInit /\ [][SessionNext]_sessionVars

(* The scheduler runs the threads of the processes and of the kernel.  A   *)
(* session need not be created or end.                                     *)
SessionFairness ==
  /\ \A t \in Threads : SF_sessionVars(Kernel(t) /\ UNCHANGED sess)
  /\ \A b \in Bios : WF_sessionVars(BioLeave(b) /\ UNCHANGED sess)
  /\ \A m \in Sessions :
       /\ WF_sessionVars(Watch(m))
       /\ WF_sessionVars(Destructor(m))
       /\ WF_sessionVars(~ Gone(m) /\ Constructor(m))

FairSessionSpec == SessionSpec /\ SessionFairness

-----------------------------------------------------------------------------
(* Properties                                                              *)

(* The files of the difference storage are removed when the snapshot that  *)
(* uses their blocks is gone, not before (CSession::~CSession()).          *)
FilesOutliveSnapshot ==
  \A m \in Sessions : sess[m].removed => snap[sess[m].id].mem = "freed"

(* A session that was constructed has an image of every device, with its   *)
(* copy-on-write, until its destructor runs (CSession::CSession()).        *)
RunningHasImages ==
  \A m \in Sessions : sess[m].pc \in {"running", "joining"} =>
    LET s == snap[sess[m].id]
    IN /\ s.mem = "live" /\ s.is_taken
       /\ \A i \in DOMAIN s.devices :
            /\ s.images[i] # 0 /\ areas[s.images[i]] = 2
            /\ trk[s.devices[i]].taken

(* The destructor ends: the watcher can be joined, and the snapshot goes.  *)
DestructorEnds ==
  \A m \in Sessions : sess[m].pc = "joining" ~> sess[m].pc = "over"
=============================================================================

---------------------------- MODULE StorageManager ----------------------------
(***************************************************************************)
(* The choice of the medium logs are written to (StorageManager,           *)
(* MediaStorCheck, the uevents UeventMonitor reports), and the storages of *)
(* the subsystems (CpStorage), which it stops when the medium changes.     *)
(* CpStorage.tla has the steps of a storage in which the I/O thread may    *)
(* run; here a function of the main thread is one operator, and what is    *)
(* with the I/O thread is one unit of data (flight).                       *)
(***************************************************************************)
EXTENDS CpDirectory

CONSTANTS NoMedia, Data, External

ASSUME ManagerAssumption == NoMedia \notin AllMedia /\ {Data, External} \subseteq AllMedia

NoRef == <<NoMedia, 0>>

------------------------------------------------------------------------------
(* CpStorage                                                               *)

\* A reference <<medium, number>> to a file of p whose LogFile still exists.
Live(w, p, ref) ==
  ref # NoRef /\ \E i \in DOMAIN w.files[<<ref[1], p>>] : w.files[<<ref[1], p>>][i].id = ref[2]

FileOf(w, p, ref) ==
  LET fs == w.files[<<ref[1], p>>] IN fs[CHOOSE i \in DOMAIN fs : fs[i].id = ref[2]]

\* process_io_result(): a unit is on the disk.  If the LogFile has been
\* destroyed its memory is written to; a directory that exists still counts it.
Written(w, p) ==
  LET ref == w.stor[p].io
      d == <<ref[1], p>>
      i == CHOOSE i \in DOMAIN w.files[d] : w.files[d][i].id = ref[2]
      f == w.files[d][i]
      w1 == IF d \in w.dirs THEN AddSize(w, d, 1) ELSE w
  IN IF ~Live(w, p, ref) THEN w1
     ELSE [w1 EXCEPT
             !.files[d][i].size = @ + 1,
             !.disk.files[d] =
               {IF SameName(x, f) /\ f.size + 1 > x.size /\ HasDir(w, d)
                THEN [x EXCEPT !.size = f.size + 1] ELSE x : x \in @}]

\* IoScheduler::close(), which waits for the I/O thread.
CloseSched(w, p) ==
  LET w1 == IF w.stor[p].flight THEN Written(w, p) ELSE w IN
  [w1 EXCEPT !.stor[p].flight = FALSE, !.stor[p].io = NoRef]

StopStor(w, p) ==
  IF Live(w, p, w.stor[p].cur) THEN [CloseSched(w, p) EXCEPT !.stor[p].cur = NoRef] ELSE w

StopAllCps(w) == FoldSet(LAMBDA p, acc : StopStor(acc, p), w, Cps)

OnCurMediaDisabled(w, p) == [CloseSched(w, p) EXCEPT !.stor[p].cur = NoRef]

------------------------------------------------------------------------------
(* MediaStorCheck::get_state()                                             *)

\* parse_external_storage_mount(): it is in the table of mounted file systems.
Mounted(w, c) == c \in w.disk.acc

\* The path of a medium that vanished is found again, that of the external one
\* only when it is mounted.
FindPath(w, c) == [w EXCEPT !.msc[c].path = @ \/ c # External \/ Mounted(w, c)]

\* access() to the path of the medium; on /data only the directory of all logs
\* can be accessed.
Accessible(w, c) == c \in w.disk.acc /\ (c = Data => c \in w.disk.top)

Removed(w, c) == w.msc[c].mount = "MMS_MEDIA_REMOVED"

State(w, c) ==
  IF ~w.msc[c].path THEN "NOT_READY"
  ELSE IF ~Accessible(w, c) \/ Removed(w, c)
       THEN IF w.msc[c].in_use THEN "VANISHED" ELSE "NOT_READY"
  ELSE IF c = External /\ ~w.ext_ready THEN "NOT_READY"
  ELSE "STOR_READY"

Noticed(w, c) ==
  [w EXCEPT !.msc[c].mount =
     IF w.msc[c].path /\ Accessible(w, c) /\ @ # "MMS_MEDIA_REMOVED" THEN "MMS_MOUNTED" ELSE @]

------------------------------------------------------------------------------
(* The choice of the medium.                                               *)

\* Fault: the medium is still marked as synchronized.
Unsync_synced(w, c) == [StorMediaVanished(w, c) EXCEPT !.msc[c].path = FALSE]

Unsync(w, c) ==
  [StorMediaVanished(w, c) EXCEPT !.msc[c].sync = FALSE, !.msc[c].path = FALSE]

\* Fault: the storages go on with the files of the medium that was in use.
Use_running(w, c) ==
  LET idle == IF w.current = NoMedia THEN w ELSE [w EXCEPT !.msc[w.current].in_use = FALSE] IN
  [idle EXCEPT !.root[TypeOf[c]] = c, !.msc[c].in_use = TRUE, !.msc[c].sync = TRUE, !.current = c]

\* c takes the place of the medium that was in use.
Use(w, c) ==
  LET idle == IF w.current = NoMedia THEN w
              ELSE StopAllCps([w EXCEPT !.msc[w.current].in_use = FALSE]) IN
  [idle EXCEPT !.root[TypeOf[c]] = c, !.msc[c].in_use = TRUE, !.msc[c].sync = TRUE, !.current = c]

UseSynced(w, synced, c) ==
  [w |-> IF synced.ok THEN Use(synced.w, c) ELSE w, ok |-> synced.ok]

\* media_determiner(), STOR_READY, for a medium that is permitted but not in use.
SwitchTo(w, c, env) ==
  UseSynced(w, IF w.msc[c].sync THEN [w |-> w, ok |-> TRUE] ELSE SyncMedia(w, c, env), c)

\* media_determiner(): ok if c is being used in the end.
MediaDeterminer(w, c, state, env) ==
  CASE state = "STOR_READY" /\ ~w.msc[c].permit ->
         [w |-> IF w.current = c THEN [w EXCEPT !.current = NoMedia, !.msc[c].in_use = FALSE] ELSE w,
          ok |-> FALSE]
    [] state = "STOR_READY" /\ w.msc[c].permit ->
         IF w.current = c THEN [w |-> w, ok |-> TRUE] ELSE SwitchTo(w, c, env)
    [] state = "VANISHED" ->
         [w |-> [Unsync([StopAllCps(w) EXCEPT !.msc[c].in_use = FALSE], c) EXCEPT !.current = NoMedia],
          ok |-> FALSE]
    [] OTHER -> [w |-> IF w.msc[c].sync THEN Unsync(w, c) ELSE w, ok |-> FALSE]

Determine(w, c, env) == MediaDeterminer(Noticed(w, c), c, State(w, c), env)

\* check_media_change(): from the highest priority, till one is being used.
CheckMediaChange(w, env) ==
  FoldLeft(LAMBDA acc, c : IF acc.ok THEN acc ELSE Determine(FindPath(acc.w, c), c, env),
           [w |-> w, ok |-> FALSE], Reverse(Media)).w

\* enable_media(mt, false), for one medium of the type.
DisableMedium(w, c) ==
  LET w1 == [w EXCEPT !.msc[c].permit = FALSE] IN
  IF w.current # c THEN w1
  ELSE [FoldSet(LAMBDA p, acc : OnCurMediaDisabled(acc, p), w1, Cps)
        EXCEPT !.msc[c].in_use = FALSE, !.current = NoMedia]

EnableMedia(w, t, en) ==
  FoldSet(LAMBDA c, acc : IF en THEN [acc EXCEPT !.msc[c].permit = TRUE] ELSE DisableMedium(acc, c),
          w, {c \in AllMedia : TypeOf[c] = t /\ w.msc[c].permit # en})

\* A medium that is ready is synchronized.
SyncIfReady(w, c, env) ==
  LET Marked(r) == [r.w EXCEPT !.msc[c].sync = r.ok]
      Sync(w1) == IF State(w1, c) # "STOR_READY" \/ w1.msc[c].sync THEN Noticed(w1, c)
                  ELSE Marked(SyncMedia(Noticed(w1, c), c, env))
  IN Sync(FindPath(w, c))

\* sync_cp_directory(), before logs are conveyed.
SyncCpDirectory(w, env) == FoldLeft(LAMBDA acc, c : SyncIfReady(acc, c, env), w, Media)

\* sync_media_storages(): what is no longer ready is forgotten.
SyncMediaStorages(w, env) ==
  LET Forget(w1, c) ==
        IF State(w1, c) # "STOR_READY" /\ w1.msc[c].sync
        THEN [StorMediaVanished(w1, c) EXCEPT !.msc[c].sync = FALSE] ELSE w1
  IN FoldLeft(LAMBDA acc, c : Forget(SyncIfReady(acc, c, env), c), w, Media)

\* Fault: the storages go on with files that are being deleted.
ClearAll_running(w, env) ==
  LET w1 == IF w.current = NoMedia THEN w
            ELSE [w EXCEPT !.msc[w.current].in_use = FALSE, !.current = NoMedia]
      w2 == SyncMediaStorages(w1, env)
  IN FoldSet(LAMBDA t, acc : ClearStorage(acc, t, env), w2, Types)

\* clear(): all logs are deleted.
ClearAll(w, env) ==
  LET w1 == IF w.current = NoMedia THEN w
            ELSE [StopAllCps(w) EXCEPT !.msc[w.current].in_use = FALSE, !.current = NoMedia]
      w2 == SyncMediaStorages(w1, env)
  IN FoldSet(LAMBDA t, acc : ClearStorage(acc, t, env), w2, Types)

------------------------------------------------------------------------------
(* Directories to write to.                                                *)

\* The directory of all logs, in the medium of a storage; if it is not there no
\* directory of the storage is, as far as the program is concerned.
PrepareTop(w, t, env) ==
  LET c == w.root[t]
      gone == ClearLogDirs(IF w.current # NoMedia /\ TypeOf[w.current] = t
                           THEN StopAllCps(w) ELSE w, t)
  IN IF c # NoMedia /\ HasTop(w, c) THEN w
     ELSE [gone EXCEPT
             !.disk.top = IF c # NoMedia /\ c \in w.disk.acc /\ env.create THEN @ \cup {c} ELSE @,
             !.lost = @ \cup {x \in AllMedia : TypeOf[x] = t /\ w.msc[x].sync}]

\* A set of directories that has gone is forgotten.
ForgetSet(w, s) ==
  IF s \in Range(w.sets) /\ ~HasSet(w, s)
  THEN DropSet([w EXCEPT !.msize[TypeOf[s[1]]] = Unsigned(@ - w.ssize[s])], s) ELSE w

MakeSet(w, s, env) ==
  LET known == s \in Range(w.sets) IN
  [w |-> IF known \/ ~env.create THEN w
         ELSE [w EXCEPT !.disk.sets = @ \cup {s}, !.sets = Append(@, s)],
   ok |-> known \/ env.create]

\* MediaStorage::prepare_cp_set() of the storage of type t.
PrepareSet(w, t, k, env) ==
  LET Prepare(w1, s) ==
        IF s[1] = NoMedia \/ ~HasTop(w1, s[1]) THEN [w |-> w1, ok |-> FALSE]
        ELSE MakeSet(ForgetSet(w1, s), s, env)
  IN Prepare(PrepareTop(w, t, env), <<w.root[t], k>>)

\* prepare_cp_set() and prepare_cp_dir(), of files of subsystems and of units to convey.
PrepareBoth(w, t, p, env) ==
  LET In(set) == IF set.ok THEN PrepareDir(set.w, <<w.root[t], p>>, env) ELSE set IN
  In(PrepareSet(w, t, ClassOf[p], env))

\* A log file is created in the current medium and opened by the scheduler.
NewLogFile(w, p, env) ==
  LET c == w.root[TypeOf[w.current]]
      Without(w1) == [w1 EXCEPT !.stor[p].cur = NoRef]
      Opened(made) ==
        IF made.id = 0 THEN Without(made.w)
        ELSE [made.w EXCEPT !.stor[p].cur = <<c, made.id>>, !.stor[p].io = <<c, made.id>>]
      Create(dir) ==
        IF dir.ok THEN Opened(CreateLogFile(dir.w, <<c, p>>, env)) ELSE Without(dir.w)
  IN Create(PrepareBoth(w, TypeOf[w.current], p, env))

------------------------------------------------------------------------------
(* CpStorage::write() and on_file_size_update()                            *)

\* The block goes to the I/O thread, if nothing is there.
Enqueue(w, p) == [w EXCEPT !.stor[p].flight = TRUE]

\* check_quota(), by which a storage that has stopped may go on.
CheckQuota(w, p, env) ==
  LET Known(q) == [q.w EXCEPT !.stor[p].stop = ~q.ok] IN
  IF w.current = NoMedia THEN w ELSE Known(CheckCpQuota(w, TypeOf[w.current], p, env))

WriteStor(w, p, env) ==
  LET EnqueueIfOpen(w1) == IF Live(w1, p, w1.stor[p].cur) THEN Enqueue(w1, p) ELSE w1
      Open(w1) == IF w1.current = NoMedia THEN w1 ELSE NewLogFile(w1, p, env)
      Take(w1) ==
        IF w1.current = NoMedia \/ w1.stor[p].stop THEN w1
        ELSE IF Live(w1, p, w1.stor[p].cur) THEN Enqueue(w1, p)
        ELSE EnqueueIfOpen(Open(IF w.current = NoMedia THEN w1 ELSE CheckMediaChange(w1, env)))
  IN Take(IF w.current = NoMedia THEN CheckQuota(CheckMediaChange(w, env), p, env)
          ELSE IF w.stor[p].stop THEN CheckQuota(w, p, env)
          ELSE w)

\* The medium has changed: go on there.
OnMediaChanged(w, p, env) ==
  LET GoOn(q) ==
        IF q.ok THEN NewLogFile([q.w EXCEPT !.stor[p].stop = FALSE], p, env)
        ELSE [q.w EXCEPT !.stor[p].stop = TRUE]
  IN IF w.current = NoMedia THEN w
     ELSE GoOn(CheckCpQuota(w, TypeOf[w.current], p, env))

\* A file that is full is closed.
CloseFull(w, p, ref) ==
  IF FileOf(w, p, ref).size >= MaxFileSize THEN [w EXCEPT !.stor[p].cur = NoRef] ELSE w

\* Fault: the quota is looked at only while the file is not full.
KeepWithin_early(w, p, ref, env) ==
  LET Limited(q) == [q.w EXCEPT !.stor[p].stop = @ \/ ~q.ok] IN
  IF FileOf(w, p, ref).size >= MaxFileSize THEN CloseFull(w, p, ref)
  ELSE Limited(CheckCpQuota(w, TypeOf[w.current], p, env))

\* There may be no room.
KeepWithin(w, p, ref, env) ==
  LET Limited(q) == [q.w EXCEPT !.stor[p].stop = @ \/ ~q.ok] IN
  Limited(CheckCpQuota(CloseFull(w, p, ref), TypeOf[w.current], p, env))

\* It is the same: the file may be full or have been removed.
OnSameMedia(w, p, ref, full, env) ==
  LET d == <<ref[1], p>>
      There(w1) == Live(w1, p, ref) /\ Exists(w1, d, FileOf(w1, p, ref))
      Look(w1) == IF There(w1) THEN KeepWithin(w1, p, ref, env) ELSE FileRemoved(w1, d, ref[2], env)
      Close(w1) == IF Live(w1, p, w1.stor[p].cur) THEN w1 ELSE CloseSched(w1, p)
      GoOn(w1) == IF w1.stor[p].stop \/ Live(w1, p, w1.stor[p].cur) THEN w1 ELSE NewLogFile(w1, p, env)
  IN GoOn(Close(Look(IF full /\ w.overwrite THEN RmOldestLogFile(w, d, env) ELSE w)))

\* The I/O thread has answered: process_io_result() and the callback.
OnFileSizeUpdate(w, p, full, env) ==
  LET Update(w1) ==
        IF w1.current # w.current THEN OnMediaChanged(w1, p, env)
        ELSE OnSameMedia(w1, p, w.stor[p].io, full, env)
  IN Update(CheckMediaChange([IF full THEN w ELSE Written(w, p) EXCEPT !.stor[p].flight = FALSE], env))
==============================================================================

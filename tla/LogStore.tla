------------------------------- MODULE LogStore -------------------------------
(***************************************************************************)
(* The logs on the media, through the storage manager: data of subsystems  *)
(* is written, dumps are saved and logs conveyed, while media come and go  *)
(* and the user and the file system interfere; the program may end and be  *)
(* started again at any time, and then knows what it finds on the disk.    *)
(*                                                                         *)
(* An action is a handler of the main thread, or something that happens to *)
(* the media between two handlers.                                         *)
(***************************************************************************)
EXTENDS StorageManager

CONSTANTS
  Kinds,          \* kinds of other files that are saved: "dump", "lib"
  Removals,       \* what the user may remove: "file", "dir", "set", "top"
  Starts,         \* how the program may find things: the media permitted by the configuration and
                  \* whether logs are overwritten, the media that have a log of each subsystem,
                  \* whether the external one can be used yet, and how many of the events
                  \* are not left
  OtherSize,      \* the size of another file
  MaxUnits, MaxEvents, MaxFaults,  \* bounds, and one for all of them together
  MaxTogether

VARIABLES
  w,              \* the memory of the program, and the disk
  units, events, faults,           \* counted against the bounds
  full,           \* some medium has been full
  meddled         \* the user has removed a directory

vars == <<w, units, events, faults, full, meddled>>

Fine == [full |-> {}, unlink |-> TRUE, create |-> TRUE, cleared |-> FALSE, unsynced |-> {}]
Faulty ==
  {[Fine EXCEPT !.full = {t}] : t \in Types}
  \cup {[Fine EXCEPT !.unlink = FALSE], [Fine EXCEPT !.create = FALSE], [Fine EXCEPT !.cleared = TRUE]}
  \cup {[Fine EXCEPT !.unsynced = {c}] : c \in AllMedia \ {Data}}

\* More may happen, where a fault counts twice; a step of the program in one of the
\* environments.
Room(n) == units + events + 2 * faults + n <= MaxTogether
MoreUnits == units < MaxUnits /\ Room(1)
MoreEvents == events < MaxEvents /\ Room(1)
Envs == {Fine} \cup (IF faults < MaxFaults /\ Room(3) THEN Faulty ELSE {})
Suffers(env) ==
  /\ faults' = IF env = Fine THEN faults ELSE faults + 1
  /\ full' = (full \/ env.full # {})
  /\ UNCHANGED meddled

\* The program starts: StorageManager::init().
Boot(disk, permitted, overwrite, now) ==
  [msc |-> [c \in AllMedia |-> [permit |-> c \in permitted, in_use |-> FALSE, sync |-> FALSE,
                                path |-> c # External, mount |-> "MMS_NOT_MOUNTED"]],
   current |-> NoMedia, ext_ready |-> FALSE, root |-> [t \in Types |-> NoMedia],
   sets |-> <<>>, ssize |-> [s \in Sets |-> 0], dirs |-> {}, dsize |-> [d \in Dirs |-> 0],
   files |-> [d \in Dirs |-> <<>>], msize |-> [t \in Types |-> 0],
   stor |-> [p \in Cps |-> [cur |-> NoRef, io |-> NoRef, flight |-> FALSE, stop |-> FALSE]],
   disk |-> disk, overwrite |-> overwrite, now |-> now, uncounted |-> {}, lost |-> {}]

Permitted == {c \in AllMedia : w.msc[c].permit}

\* A disk with a log of each subsystem on some media.
DiskWith(before) ==
  [acc |-> AllMedia, top |-> {Data} \cup before, sets |-> before \X Classes, dirs |-> before \X Cps,
   files |-> [d \in Dirs |-> IF d[1] \in before THEN {[time |-> 1, kind |-> "log", size |-> 1]} ELSE {}]]

Init ==
  /\ \E start \in Starts :
       /\ w = [Boot(DiskWith(start.before), start.permitted, start.overwrite, 2) EXCEPT !.ext_ready = start.ready]
       /\ events = start.events
  /\ units = 0 /\ faults = 0
  /\ full = FALSE /\ meddled = FALSE

------------------------------------------------------------------------------
(* Handlers.                                                               *)

\* A block of data comes from a log device.
Write(p) ==
  /\ MoreUnits
  /\ ~(w.stor[p].flight /\ Live(w, p, w.stor[p].cur))
  /\ units' = units + 1
  /\ \E env \in Envs : w' = WriteStor(w, p, env) /\ Suffers(env)
  /\ UNCHANGED events

IoDone(p, diskfull) ==
  /\ w.stor[p].flight
  /\ diskfull => faults < MaxFaults /\ Room(2)
  /\ \E env \in Envs :
       /\ w' = OnFileSizeUpdate(w, p, diskfull, env)
       /\ faults' = faults + Cardinality({x \in {1} : diskfull}) + Cardinality({x \in {1} : env # Fine})
       /\ faults' <= MaxFaults
       /\ full' = (full \/ diskfull \/ env.full # {})
  /\ UNCHANGED <<units, events, meddled>>

\* Logging of p ends: CpStorage::stop().
StopLog(p) ==
  /\ w.stor[p].io # NoRef
  /\ w' = StopStor(w, p)
  /\ UNCHANGED <<units, events, faults, full, meddled>>

\* A file of another kind is created in the storage of type t.
Store(w1, t, p, kind, env) ==
  LET In(dir) == IF dir.ok THEN CreateFile(dir.w, <<dir.w.root[t], p>>, kind, OtherSize, env) ELSE dir.w IN
  In(PrepareBoth(w1, t, p, env))

\* CpStorage::create_file() and the data of a dump; some callers ask check_quota() first.
SaveFile(p, kind) ==
  LET Asked(w1, env) == IF w1.current = NoMedia THEN [w |-> w1, ok |-> TRUE]
                        ELSE CheckCpQuota(w1, TypeOf[w1.current], p, env) IN
  /\ MoreEvents
  /\ \E env \in Envs :
       /\ \E w1 \in {CheckMediaChange(w, env)} : \E q \in {[w |-> w1, ok |-> TRUE], Asked(w1, env)} :
            w' = IF w1.current = NoMedia \/ ~q.ok THEN q.w ELSE Store(q.w, TypeOf[w1.current], p, kind, env)
       /\ Suffers(env)
  /\ events' = events + 1
  /\ UNCHANGED units

\* save_minidump() of the MODEM to internal storage: check_quota() asks the current
\* medium for the limit, and if there is none the program crashes.
SaveMinidump(p) ==
  LET t == TypeOf[Data] IN
  /\ ClassOf[p] # "CLASS_CONNECTIVITY"
  /\ MoreEvents
  /\ \E env \in Envs :
       /\ \E w1 \in {CheckMediaChange(w, env)} : \E q \in {CheckCpQuota(w1, t, p, env)} :
            w' = IF w1.current = NoMedia THEN Boot(w1.disk, Permitted, w.overwrite, w.now)
                 ELSE IF q.ok THEN Store(CheckMediaChange(q.w, env), t, p, "dump", env)
                 ELSE q.w
       /\ Suffers(env)
  /\ events' = events + 1
  /\ UNCHANGED units

\* The copy of a file f of d is known in dest, and the file is removed.
Moved(w1, d, dest, f, env) ==
  LET there == CHOOSE x \in w1.disk.files[d] : SameName(x, f)
      copied == [w1 EXCEPT !.disk.files[dest] = @ \cup {there}]
  IN AddLogFile(RemoveNamed(copied, d, f, env), dest, LogFile(0, f.time, f.kind, there.size, TRUE))

\* MoveDirToDirUnit::post_convey(): a file has been copied from a medium to the current one.
ConveyFile(p, c) ==
  LET d == <<c, p>> IN
  /\ MoreEvents
  /\ w.current \notin {NoMedia, c}
  /\ d \in w.dirs /\ w.files[d] # <<>>
  /\ Exists(w, d, Head(w.files[d]))
  /\ \E env \in Envs, t \in {TypeOf[w.current]} :
       LET dest == <<w.root[t], p>>
           f == Head(w.files[d])
       IN /\ \E dir \in {PrepareBoth(w, t, p, env)} :
               w' = IF dir.ok /\ env.create /\ ~Exists(dir.w, dest, f)
                    THEN Moved(dir.w, d, dest, f, env) ELSE dir.w
          /\ Suffers(env)
  /\ events' = events + 1
  /\ UNCHANGED units

\* Requests of clients: SET_STORAGE_CHOICE, CLEAR_LOG and SAVE_ALL (sync_cp_directory).
SetExternal(en) ==
  /\ MoreEvents
  /\ w.msc[External].permit # en
  /\ w' = EnableMedia(w, TypeOf[External], en)
  /\ events' = events + 1
  /\ UNCHANGED <<units, faults, full, meddled>>

ClearLog ==
  /\ MoreEvents
  /\ \E env \in Envs : w' = ClearAll(w, env) /\ Suffers(env)
  /\ events' = events + 1
  /\ UNCHANGED units

SaveAll ==
  /\ MoreEvents
  /\ \E env \in Envs : w' = SyncCpDirectory(w, env) /\ Suffers(env)
  /\ events' = events + 1
  /\ UNCHANGED units

\* The kernel reports a block device: UeventMonitor::process().
Uevent(added) ==
  /\ MoreEvents
  /\ LET m == w.msc[External].mount IN
     IF added
     THEN /\ m # "MMS_MOUNTED"
          /\ w' = [w EXCEPT !.msc[External].mount = "MMS_MEDIA_INSERTED"]
     ELSE /\ w.msc[External].path /\ m # "MMS_MEDIA_REMOVED"
          /\ w' = [IF w.current = External THEN StopAllCps(w) ELSE w
                   EXCEPT !.msc[External].mount = "MMS_MEDIA_REMOVED"]
  /\ events' = events + 1
  /\ UNCHANGED <<units, faults, full, meddled>>

------------------------------------------------------------------------------
(* What happens to the media.                                              *)

Mount(c) ==
  /\ MoreEvents
  /\ c # Data
  /\ w' = [w EXCEPT !.disk.acc = IF c \in @ THEN @ \ {c} ELSE @ \cup {c}]
  /\ events' = events + 1
  /\ UNCHANGED <<units, faults, full, meddled>>

\* The user removes files and directories.
UserRemoves(c) ==
  /\ MoreEvents
  /\ c \in w.disk.acc
  /\ \/ /\ "file" \in Removals
        /\ \E p \in Cps : \E x \in w.disk.files[<<c, p>>] :
             w' = [w EXCEPT !.disk.files[<<c, p>>] = @ \ {x}]
        /\ UNCHANGED meddled
     \/ /\ meddled' = TRUE
        /\ \E what \in Removals \ {"file"}, p \in Cps :
             LET lost == IF what = "dir" THEN {p}
                         ELSE {q \in Cps : what = "top" \/ ClassOf[q] = ClassOf[p]}
             IN /\ <<c, p>> \in w.disk.dirs
                /\ w' = [w EXCEPT
                      !.disk.files = [d \in Dirs |-> IF d[1] = c /\ d[2] \in lost THEN {} ELSE @[d]],
                      !.disk.dirs = {d \in @ : ~(d[1] = c /\ d[2] \in lost)},
                      !.disk.sets = {s \in @ : ~(s[1] = c /\ \/ what = "top"
                                                             \/ what = "set" /\ s[2] = ClassOf[p])},
                      !.disk.top = IF what = "top" THEN @ \ {c} ELSE @]
  /\ events' = events + 1
  /\ UNCHANGED <<units, faults, full>>

\* A second passes; ten of them after the start the external medium may be used.
Tick ==
  /\ MoreEvents
  /\ w' = [w EXCEPT !.now = @ + 1, !.ext_ready = TRUE]
  /\ events' = events + 1
  /\ UNCHANGED <<units, faults, full, meddled>>

Restart ==
  /\ MoreEvents
  /\ w' = Boot(w.disk, Permitted, w.overwrite, w.now)
  /\ events' = events + 1
  /\ UNCHANGED <<units, faults, full, meddled>>

Next ==
  \/ \E p \in Cps : \/ Write(p) \/ StopLog(p) \/ SaveMinidump(p)
                    \/ \E diskfull \in BOOLEAN : IoDone(p, diskfull)
                    \/ \E kind \in Kinds : SaveFile(p, kind)
                    \/ \E c \in AllMedia : ConveyFile(p, c)
  \/ \E b \in BOOLEAN : SetExternal(b) \/ Uevent(b)
  \/ ClearLog \/ SaveAll \/ Tick \/ Restart
  \/ \E c \in AllMedia : Mount(c) \/ UserRemoves(c)

Spec == Init /\ [][Next]_vars

------------------------------------------------------------------------------
(* Properties.                                                             *)

\* The medium that is in use is the one the manager takes for the current one,
\* is permitted, known and synchronized: the branches of media_determiner()
\* that set m_current_storage to null, whichever medium they look at, rely on it.
InUseIsCurrent ==
  /\ \A c \in AllMedia : w.msc[c].in_use <=> w.current = c
  /\ w.current # NoMedia => LET m == w.msc[w.current] IN m.permit /\ m.sync /\ m.path

\* Logs are written to the current medium only, whatever made it change, and that
\* is the one in use.
WritesToCurrent ==
  InUseIsCurrent /\ \A p \in Cps : Live(w, p, w.stor[p].io) => w.stor[p].io[1] = w.current

\* Files of p were saved in the storage of type t since the program started.
Uncounted(t, p) == \E d \in w.uncounted : TypeOf[d[1]] = t /\ d[2] = p

\* The file the scheduler of a storage writes to is not destroyed by the quota,
\* by another subsystem or by a medium that goes, unless the user has removed
\* directories, a medium has been full, or a dump of the subsystem was saved in
\* that storage, whose size wraps when the dump is trimmed.
FileIsHeld ==
  meddled \/ full \/
  \A p \in Cps : w.stor[p].io # NoRef => Uncounted(TypeOf[w.stor[p].io[1]], p) \/ Live(w, p, w.stor[p].io)

\* No size of a level wraps below which no dump was saved: what it counts is never
\* less than what is below it, so that subtracting a part of it is safe, though
\* trim() and others lower only some of the levels, and conveying, clearing and
\* media that go lower them in other orders.
SizesCover ==
  /\ \A d \in w.dirs \ w.uncounted : w.dsize[d] >= SizeOf(w.files[d], DOMAIN w.files[d])
  /\ \A s \in Range(w.sets) \ {SetOf(d) : d \in w.uncounted} :
       w.ssize[s] >= MapThenSumSet(LAMBDA d : w.dsize[d], DirsOf(w, s))
  /\ \A t \in Types \ {TypeOf[d[1]] : d \in w.uncounted} :
       w.msize[t] >= MapThenSumSet(LAMBDA s : w.ssize[s], {s \in Range(w.sets) : TypeOf[s[1]] = t})

\* The logs of a synchronized medium are all known, to the quota and to the
\* request to clear them, unless the user has removed directories, files could
\* not be removed, or the program has forgotten logs of a medium without marking
\* it so: prepare_cp_set() clears m_log_dirs, and files of a medium that is not
\* mounted count as removed when they are trimmed.
NothingForgotten ==
  meddled \/ faults > 0 \/
  \A c \in AllMedia \ w.lost :
    w.msc[c].sync =>
      \A p \in Cps : \A x \in w.disk.files[<<c, p>>] :
        \E i \in DOMAIN w.files[<<c, p>>] : SameName(x, w.files[<<c, p>>][i])

\* A batch of p has been written to its file, which is still there, and it goes on.
WroteOn(p) ==
  LET ref == w.stor[p].io IN
  /\ w.stor[p].flight /\ ~w'.stor[p].flight
  /\ Live(w, p, ref) /\ Exists(w, <<ref[1], p>>, FileOf(w, p, ref))
  /\ ~w'.stor[p].stop /\ w'.stor[p].io # NoRef

\* The bytes on the media of type t of the files of p that the program knows.
Stored(w1, t, p) ==
  MapThenSumSet(LAMBDA d : MapThenSumSet(LAMBDA x : x.size,
                             {x \in w1.disk.files[d] : \E i \in DOMAIN w1.files[d] : SameName(x, w1.files[d][i])}),
                {d \in w1.dirs : TypeOf[d[1]] = t /\ d[2] = p})

\* A storage that goes on after a batch has been written to its file, which is
\* still there, has on all media of the current storage together no more than its
\* limit, unless a medium is full, or a dump was saved there, which is not counted.
QuotaKept ==
  [][\A p \in Cps :
       WroteOn(p) => \/ full' \/ Capacity = 0 \/ ClassOf[p] = "CLASS_MIX"
                     \/ \E d \in w'.uncounted : TypeOf[d[1]] = TypeOf[w'.current] /\ d[2] = p
                     \/ Stored(w', TypeOf[w'.current], p) <= Capacity]_vars
==============================================================================

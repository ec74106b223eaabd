----------------------------- MODULE CpDirectory -----------------------------
(***************************************************************************)
(* What the program knows of the log files: LogFile, CpDirectory (the logs *)
(* of one subsystem on one medium), CpSetDirectory (the directories of a   *)
(* class of subsystems) and MediaStorage (an internal or external storage, *)
(* of one or two media).  Each level counts the size of what is below it,  *)
(* except what LogFile::write() and copy() store, which only the file does. *)
(*                                                                         *)
(* The operators take the memory w of the program and return it changed.   *)
(* A directory d is a pair <<medium, subsystem>>, a set s of directories   *)
(* <<medium, class>>.  env is what the file system does in this step.      *)
(* Two fields of w are history, for the properties: uncounted has the      *)
(* directories in which a file was saved whose bytes only the file counts, *)
(* lost the media whose logs were forgotten though they stay marked as     *)
(* synchronized: with m_log_dirs, or file by file while not mounted.       *)
(***************************************************************************)
EXTENDS Integers, FiniteSets, Sequences, SequencesExt

CONSTANTS
  Media,          \* the media, in the order of m_stor_check
  TypeOf,         \* the type of each medium
  Cps,            \* subsystems
  ClassOf,        \* the class of each subsystem
  MaxFileNum,     \* MIX_FILE_MAX_NUM
  Capacity,       \* log_capacity(): no limit if 0
  MaxFileSize,    \* get_max_log_file_size()
  SizeBits        \* width of a size, 64 in the code

AllMedia == Range(Media)
Types == {TypeOf[c] : c \in AllMedia}
Classes == {ClassOf[p] : p \in Cps}
Dirs == AllMedia \X Cps
Sets == AllMedia \X Classes

ASSUME DirectoryAssumption ==
  /\ Capacity \in Nat
  /\ {MaxFileNum, MaxFileSize, SizeBits} \subseteq Nat \ {0}

\* Sizes are unsigned.
Unsigned(n) == n % (2 ^ SizeBits)

SetOf(d) == <<d[1], ClassOf[d[2]]>>
DirsOf(w, s) == {d \in w.dirs : SetOf(d) = s}

\* A log file: its number, the second in its name, its kind and size, and whether
\* m_time has been set, which create_file() does not do.  Only the library to parse
\* the log with is not overwritable.
LogFile(id, time, kind, size, dated) ==
  [id |-> id, time |-> time, kind |-> kind, size |-> size, dated |-> dated]
SameName(f, g) == f.time = g.time /\ f.kind = g.kind
Overwritable(fs) == {i \in DOMAIN fs : fs[i].kind # "lib"}
SizeOf(fs, indexes) == MapThenSumSet(LAMBDA i : fs[i].size, indexes)

\* access(): the medium is mounted, and what is asked for is on it.
HasTop(w, c) == c \in w.disk.acc \cap w.disk.top
HasSet(w, s) == s[1] \in w.disk.acc /\ s \in w.disk.sets
HasDir(w, d) == d[1] \in w.disk.acc /\ d \in w.disk.dirs
Exists(w, d, f) == HasDir(w, d) /\ \E x \in w.disk.files[d] : SameName(x, f)

\* LogFile::remove(): a file that is not there counts as removed.
CanUnlink(w, d, env) == env.unlink \/ ~HasDir(w, d)

Earlier(f, g) == f.time < g.time \/ (f.time = g.time /\ f.kind = "log" /\ g.kind = "dump")

\* Any number that no file, and nobody who remembers a file, has.
FreshId(w, p) ==
  CHOOSE n \in 1..100 :
    /\ \A c \in AllMedia : \A i \in DOMAIN w.files[<<c, p>>] : w.files[<<c, p>>][i].id # n
    /\ n \notin {w.stor[p].cur[2], w.stor[p].io[2]}
    /\ \A m \in 1..(n - 1) :
         \/ m \in {w.stor[p].cur[2], w.stor[p].io[2]}
         \/ \E c \in AllMedia : \E i \in DOMAIN w.files[<<c, p>>] : w.files[<<c, p>>][i].id = m

------------------------------------------------------------------------------
(* CpDirectory                                                             *)

AddSize(w, d, n) ==
  [w EXCEPT !.dsize[d] = Unsigned(@ + n), !.ssize[SetOf(d)] = Unsigned(@ + n),
            !.msize[TypeOf[d[1]]] = Unsigned(@ + n)]

DecSize(w, d, n) == AddSize(w, d, -n)

\* The directory alone: the set and the media still count what is gone.
DecDirSize(w, d, n) == [w EXCEPT !.dsize[d] = Unsigned(@ - n)]

\* The LogFile objects are destroyed and their files unlinked.
Delete(w, d, gone) ==
  LET fs == w.files[d]
      kept == SetToSortSeq(DOMAIN fs \ gone, <) IN
  [w EXCEPT !.files[d] = [i \in DOMAIN kept |-> fs[kept[i]]],
            !.disk.files[d] = {x \in @ : HasDir(w, d) => \A i \in gone : ~SameName(x, fs[i])},
            !.lost = IF HasDir(w, d) \/ gone = {} THEN @ ELSE @ \cup {d[1]}]

\* stat(): the files that are there, by the time in their names.
StatDir(w, d) ==
  LET found == SetToSortSeq(w.disk.files[d], Earlier) IN
  [w EXCEPT !.dirs = @ \cup {d},
            !.files[d] = [i \in DOMAIN found |-> LogFile(0, found[i].time, found[i].kind, found[i].size, TRUE)],
            !.dsize[d] = SizeOf(found, DOMAIN found)]

\* trim(): overwritable files are removed, the oldest first, till sz is reached.
\* Only the size of the directory itself is lowered.
Trim(w, d, sz, env) ==
  LET fs == w.files[d]
      gone == {i \in Overwritable(fs) :
                 CanUnlink(w, d, env) /\ SizeOf(fs, {j \in Overwritable(fs) : j < i}) < sz}
      n == SizeOf(fs, gone)
  IN [w |-> DecDirSize(Delete(w, d, gone), d, n), n |-> n]

RmOldestLogFile(w, d, env) ==
  LET ow == Overwritable(w.files[d])
      gone == {i \in ow : CanUnlink(w, d, env) /\ \A j \in ow : i <= j}
  IN DecDirSize(Delete(w, d, gone), d, SizeOf(w.files[d], gone))

\* trim_log_file_num(): nothing overwritable is older than the newest num logs.
TrimLogFileNum(w, d, num, env) ==
  LET fs == w.files[d]
      old == {i \in Overwritable(fs) :
                Cardinality({j \in DOMAIN fs : j > i /\ fs[j].kind = "log"}) >= num}
  IN IF ~CanUnlink(w, d, env) THEN [w |-> w, ok |-> old = {}]
     ELSE [w |-> DecDirSize(Delete(w, d, old), d, SizeOf(fs, old)), ok |-> TRUE]

\* A file is opened, and created if there is none of that name.
OpenNew(w, d, f) ==
  [w EXCEPT !.files[d] = Append(@, f),
            !.disk.files[d] = @ \cup (IF Exists(w, d, f) THEN {}
                                      ELSE {[time |-> f.time, kind |-> f.kind, size |-> 0]})]

\* create_log_file(): the name has the second.  The number is 0 if there is no file.
CreateLogFile(w, d, env) ==
  LET New(w1, id) == [w |-> OpenNew(w1, d, LogFile(id, w1.now, "log", 0, TRUE)), id |-> id]
      Create(trimmed) ==
        IF ~trimmed.ok \/ ~env.create \/ ~HasDir(trimmed.w, d) THEN [w |-> trimmed.w, id |-> 0]
        ELSE New(trimmed.w, FreshId(trimmed.w, d[2]))
  IN Create(IF ClassOf[d[2]] = "CLASS_MIX" THEN TrimLogFileNum(w, d, MaxFileNum, env)
            ELSE [w |-> w, ok |-> TRUE])

\* LogFile::write() and copy(), with the arguments all callers give them: the
\* bytes are counted by the file f, the last of d, and by no level above it.
WriteFile(w, d, n) ==
  LET f == Last(w.files[d]) IN
  [w EXCEPT !.files[d][Len(w.files[d])].size = n,
            !.disk.files[d] = {IF SameName(x, f) /\ x.size < n THEN [x EXCEPT !.size = n] ELSE x : x \in @},
            !.uncounted = @ \cup {d}]

\* create_file() of a file of another kind, and its n bytes.
CreateFile(w, d, kind, n, env) ==
  IF ~env.create \/ ~HasDir(w, d) THEN w
  ELSE WriteFile(OpenNew(w, d, LogFile(0, IF kind = "lib" THEN 0 ELSE w.now, kind, 0, FALSE)), d, n)

\* file_removed(): the object is destroyed, then its size is read; memory that
\* was given back has the old size or has been cleared.
FileRemoved(w, d, id, env) ==
  LET i == CHOOSE i \in DOMAIN w.files[d] : w.files[d][i].id = id IN
  IF \A j \in DOMAIN w.files[d] : w.files[d][j].id # id THEN w
  ELSE [w EXCEPT !.files[d] = RemoveAt(@, i),
                 !.dsize[d] = IF env.cleared THEN @ ELSE Unsigned(@ - w.files[d][i].size)]

\* remove(base_name), of a file that was conveyed to another medium.  It is
\* forgotten even if it could not be removed.
RemoveNamed(w, d, f, env) ==
  LET found == {i \in DOMAIN w.files[d] : SameName(w.files[d][i], f)}
      i == CHOOSE i \in found : \A j \in found : i <= j
      w1 == Delete(w, d, {i})
  IN IF found = {} THEN w
     ELSE DecSize(IF env.unlink THEN w1 ELSE [w1 EXCEPT !.disk = w.disk], d, w.files[d][i].size)

\* add_log_file(): a file that is there is entered before those that are not older.
AddLogFile(w, d, f) ==
  LET later == {i \in DOMAIN w.files[d] : f.time <= w.files[d][i].time /\ (w.files[d][i].dated \/ f.time = 0)}
      place == IF later = {} THEN Len(w.files[d]) + 1
               ELSE CHOOSE i \in later : \A j \in later : i <= j
  IN AddSize([w EXCEPT !.files[d] = InsertAt(@, place, f)], d, f.size)

\* remove(): the directory with all its files.
RemoveDir(w, d, env) ==
  IF ~CanUnlink(w, d, env) /\ w.files[d] # <<>> THEN w
  ELSE LET w1 == DecSize(Delete(w, d, DOMAIN w.files[d]), d, SizeOf(w.files[d], DOMAIN w.files[d])) IN
       [w1 EXCEPT !.disk.dirs = IF w1.disk.files[d] = {} /\ d[1] \in w.disk.acc THEN @ \ {d} ELSE @]

\* The CpDirectory object is destroyed.
DropDir(w, d) ==
  [w EXCEPT !.dirs = @ \ {d}, !.dsize[d] = 0, !.files[d] = <<>>]

------------------------------------------------------------------------------
(* CpSetDirectory                                                          *)

StatSet(w, s) ==
  LET w1 == FoldSet(LAMBDA d, acc : StatDir(acc, d), w, {d \in w.disk.dirs : SetOf(d) = s}) IN
  [w1 EXCEPT !.sets = Append(@, s),
             !.ssize[s] = Unsigned(MapThenSumSet(LAMBDA d : w1.dsize[d], DirsOf(w1, s)))]

\* The CpSetDirectory object is destroyed, with all below it.
DropSet(w, s) ==
  LET w1 == FoldSet(LAMBDA d, acc : DropDir(acc, d), w, DirsOf(w, s)) IN
  [w1 EXCEPT !.sets = SelectSeq(@, LAMBDA x : x # s), !.ssize[s] = 0]

\* remove()
RemoveSet(w, s, env) ==
  LET Gone(acc, d) == ~HasDir(acc, d)
      w1 == FoldSet(LAMBDA d, acc :
                      LET r == RemoveDir(acc, d, env) IN
                      IF Gone(r, d) THEN DropDir(DecSize(r, d, r.dsize[d]), d) ELSE r,
                    w, DirsOf(w, s))
  IN [w1 EXCEPT !.disk.sets =
          IF s[1] \in w.disk.acc /\ \A d \in w1.disk.dirs : SetOf(d) # s THEN @ \ {s} ELSE @]

\* The directory of d is made on the disk.
MakeDir(w, d) == [w EXCEPT !.disk.dirs = @ \cup {d}, !.dirs = @ \cup {d}]

\* Fault: the directory that has gone is still counted by its set, with the new one.
PrepareDir_counted(w, d, env) ==
  LET gone == d \in w.dirs /\ ~HasDir(w, d)
      w1 == IF gone THEN DropDir([w EXCEPT !.ssize[SetOf(d)] = Unsigned(@ - 2 * w.dsize[d])], d) ELSE w
  IN IF d \in w1.dirs THEN [w |-> w1, ok |-> TRUE]
     ELSE IF env.create /\ HasSet(w1, SetOf(d)) THEN [w |-> MakeDir(w1, d), ok |-> TRUE]
     ELSE [w |-> w1, ok |-> FALSE]

\* prepare_cp_dir(): one that has gone is forgotten, and one is made if there is
\* none.  The size of a set is lowered, that of the media not.
PrepareDir(w, d, env) ==
  LET gone == d \in w.dirs /\ ~HasDir(w, d)
      w1 == IF gone THEN DropDir([w EXCEPT !.ssize[SetOf(d)] = Unsigned(@ - w.dsize[d])], d) ELSE w
  IN IF d \in w1.dirs THEN [w |-> w1, ok |-> TRUE]
     ELSE IF env.create /\ HasSet(w1, SetOf(d)) THEN [w |-> MakeDir(w1, d), ok |-> TRUE]
     ELSE [w |-> w1, ok |-> FALSE]

------------------------------------------------------------------------------
(* MediaStorage                                                            *)

\* sync_media(): the sets of directories on the medium are entered.
SyncMedia(w, c, env) ==
  IF c \in env.unsynced \/ c \notin w.disk.acc THEN [w |-> w, ok |-> FALSE]
  ELSE LET w1 == [w EXCEPT !.disk.top = @ \cup {c}, !.lost = @ \ {c}]
           w2 == FoldSet(LAMBDA s, acc :
                           LET st == StatSet(acc, s) IN
                           [st EXCEPT !.msize[TypeOf[c]] = Unsigned(@ + st.ssize[s])],
                         w1, {s \in w1.disk.sets : s[1] = c})
       IN [w |-> w2, ok |-> TRUE]

\* stor_media_vanished(): they are forgotten.
StorMediaVanished(w, c) ==
  FoldSet(LAMBDA s, acc : DropSet([acc EXCEPT !.msize[TypeOf[c]] = Unsigned(@ - acc.ssize[s])], s),
          w, {s \in Range(w.sets) : s[1] = c})

\* m_log_dirs of a storage is cleared.
ClearLogDirs(w, t) ==
  [FoldSet(LAMBDA s, acc : DropSet(acc, s), w, {s \in Range(w.sets) : TypeOf[s[1]] = t})
   EXCEPT !.msize[t] = 0]

\* clear(): the files are removed as well.
ClearStorage(w, t, env) ==
  ClearLogDirs(FoldSet(LAMBDA s, acc : RemoveSet(acc, s, env), w,
                       {s \in Range(w.sets) : TypeOf[s[1]] = t}), t)

\* The directories of a subsystem in a storage, in the order of m_log_dirs.
LogDirs(w, t, p) ==
  LET all == SelectSeq(w.sets, LAMBDA s : TypeOf[s[1]] = t /\ s[2] = ClassOf[p]
                                          /\ <<s[1], p>> \in w.dirs)
  IN [i \in DOMAIN all |-> <<all[i][1], p>>]

LogSize(w, t, p) ==
  LET ds == LogDirs(w, t, p) IN Unsigned(MapThenSumSet(LAMBDA i : w.dsize[ds[i]], DOMAIN ds))

\* How much has to be removed before logs may be written.  A full medium gets
\* room for a file, whatever the limit is.
Excess(w, t, p, full) ==
  IF ~w.overwrite THEN 0
  ELSE IF full THEN MaxFileSize
  ELSE IF Capacity # 0 /\ LogSize(w, t, p) > Capacity THEN LogSize(w, t, p) - Capacity
  ELSE 0

\* The directories are trimmed one after the other.
TrimAll(w, dirs, sz, env) ==
  LET Add(r, n) == [w |-> r.w, n |-> n + r.n] IN
  FoldLeft(LAMBDA acc, d : IF acc.n >= sz THEN acc ELSE Add(Trim(acc.w, d, sz, env), acc.n),
           [w |-> w, n |-> 0], dirs)

\* check_cp_quota(): room is made if logs are overwritten.
CheckCpQuota(w, t, p, env) ==
  LET full == t \in env.full
      Trimmed(r, sz) ==
        [w |-> r.w,
         ok |-> /\ r.n >= sz
                /\ w.overwrite \/ (~full /\ (Capacity = 0 \/ LogSize(w, t, p) < Capacity))]
      Within(sz) == Trimmed(TrimAll(w, LogDirs(w, t, p), sz, env), sz)
  IN IF ClassOf[p] = "CLASS_MIX" THEN [w |-> w, ok |-> TRUE] ELSE Within(Excess(w, t, p, full))
==============================================================================

------------------------------ MODULE CpStorage ------------------------------
(***************************************************************************)
(* CpStorage (cp_stor.cpp): the storage of one subsystem, the client of    *)
(* its IoScheduler.  It opens a log file when there is data to write,      *)
(* rotates it, follows the storage medium and obeys the quota.             *)
(*                                                                         *)
(* A function of CpStorage is a run of the main thread through several     *)
(* operations of the scheduler, some of which block.  What is left of it   *)
(* is the variable todo, a sequence of labels; the action of the label at  *)
(* the head runs next.  The medium, the quota and the file system answer   *)
(* as they like.                                                           *)
(***************************************************************************)
EXTENDS IoScheduler

CONSTANTS
  Media,          \* the storage media (MediaStorCheck objects)
  NoMedia,        \* m_current_storage is null
  MaxFileSize     \* m_cp.get_max_log_file_size(), in units

ASSUME StorageAssumption ==
  /\ NoMedia \notin Media
  /\ MaxFileSize \in Nat \ {0}

VARIABLES
  m_cur_file,     \* the weak pointer to the current log file
  m_shall_stop,   \* no quota for log
  media,          \* StorageManager::m_current_storage
  used,           \* files created so far
  deleted,        \* files whose LogFile object is gone
  todo            \* what the main thread has still to do in the handler it is in

storVars == <<m_cur_file, m_shall_stop, media, used, deleted, todo>>

Labels == {"write", "write_file", "write_create", "write_failed", "open", "enqueue",
           "update", "update_media", "update_file", "update_reopen",
           "close", "discard", "stop", "sched_flush", "forget",
           "pipe_flush", "stor_flush", "read", "off", "truncate", "amend"}

StorTypeOK ==
  /\ m_cur_file \in FileOrNone
  /\ m_shall_stop \in BOOLEAN
  /\ media \in Media \cup {NoMedia}
  /\ used \subseteq Files
  /\ deleted \subseteq used
  /\ todo \in Seq(Labels)

StorInit ==
  /\ m_cur_file = NoFile
  /\ m_shall_stop = FALSE
  /\ media = NoMedia
  /\ used = {}
  /\ deleted = {}
  /\ todo = <<>>

------------------------------------------------------------------------------
\* m_cur_file.lock()
CurFile == IF m_cur_file \in deleted THEN NoFile ELSE m_cur_file

Call(label) == todo # <<>> /\ Head(todo) = label /\ flushing = "no"
Continue(labels) == todo' = labels \o Tail(todo)

\* StorageManager::check_media_change(): the medium to use now is any one, or
\* none.  When the current one is left, every CpStorage is stopped first.
CheckMediaChange(same, changed) ==
  \E new \in Media \cup {NoMedia} :
    /\ media' = new
    /\ Continue(IF new = media THEN same
                ELSE (IF media # NoMedia THEN <<"stop">> ELSE <<>>) \o changed)

CreateFile(created, failed) ==
  \/ \E f \in Files \ used :
       /\ m_cur_file' = f
       /\ used' = used \cup {f}
       /\ Continue(created)
  \/ /\ m_cur_file' = NoFile
     /\ UNCHANGED used
     /\ Continue(failed)

------------------------------------------------------------------------------
(* write()                                                                 *)

Write ==
  /\ Call("write")
  /\ \/ /\ media # NoMedia
        /\ \E quota \in BOOLEAN : m_shall_stop' = (m_shall_stop /\ ~quota)
        /\ UNCHANGED media
        /\ Continue(IF m_shall_stop' THEN <<"write_failed">> ELSE <<"write_file">>)
     \/ \* no medium in use: look for one
        /\ media = NoMedia
        /\ \/ /\ UNCHANGED <<media, m_shall_stop>>
              /\ Continue(<<"write_failed">>)
           \/ \E new \in Media, quota \in BOOLEAN :
                /\ media' = new
                /\ m_shall_stop' = ~quota
                /\ Continue(IF ~quota THEN <<"write_failed">>
                            ELSE IF CurFile # NoFile THEN <<"enqueue">>
                            ELSE <<"write_create">>)
  /\ UNCHANGED <<vars, m_cur_file, used, deleted>>

\* Fault: the block is queued whether or not there is a file.
WriteFile_unchecked ==
  /\ Call("write_file")
  /\ Continue(<<"enqueue">>)
  /\ UNCHANGED <<vars, m_cur_file, m_shall_stop, media, used, deleted>>

WriteFile ==
  /\ Call("write_file")
  /\ IF CurFile # NoFile
     THEN Continue(<<"enqueue">>) /\ UNCHANGED media
     ELSE CheckMediaChange(<<"write_create">>, <<"write_create">>)
  /\ UNCHANGED <<vars, m_cur_file, m_shall_stop, used, deleted>>

WriteCreate ==
  /\ Call("write_create")
  /\ IF media = NoMedia
     THEN Continue(<<"write_failed">>) /\ UNCHANGED <<m_cur_file, used>>
     ELSE CreateFile(<<"open", "enqueue">>, <<"write_failed">>)
  /\ UNCHANGED <<vars, m_shall_stop, media, deleted>>

OpenFile ==
  /\ Call("open")
  /\ SetFile(m_cur_file)
  /\ Continue(<<>>)
  /\ UNCHANGED <<m_cur_file, m_shall_stop, media, used, deleted>>

------------------------------------------------------------------------------
(* on_file_size_update(): the file-written callback.                       *)

\* The I/O result arrives: process_io_result() and the callback.
WrittenCallback ==
  /\ OnIoDone
  /\ todo' = IF m_cur_req.file # NoFile THEN <<"update">> ELSE <<>>
  /\ UNCHANGED <<m_cur_file, m_shall_stop, media, used, deleted>>

Update ==
  /\ Call("update")
  /\ CheckMediaChange(<<"update_file">>, <<"update_media">>)
  /\ UNCHANGED <<vars, m_cur_file, m_shall_stop, used, deleted>>

\* The medium has changed, and the log file was closed.
UpdateMedia ==
  /\ Call("update_media")
  /\ \/ /\ media = NoMedia
        /\ Continue(<<>>)
        /\ UNCHANGED <<m_cur_file, m_shall_stop, used>>
     \/ /\ media # NoMedia
        /\ m_shall_stop' = TRUE
        /\ Continue(<<"discard">>)
        /\ UNCHANGED <<m_cur_file, used>>
     \/ /\ media # NoMedia
        /\ m_shall_stop' = FALSE
        /\ CreateFile(<<"open">>, <<>>)
  /\ UNCHANGED <<vars, media, deleted>>

\* The medium is the same.  The file may have been removed, may be full, and
\* there may be no quota.  (That a quota smaller than a file destroys the file
\* itself is in LogStore.)
UpdateFile ==
  /\ Call("update_file")
  /\ LET lf == m_cur_req.file IN
     \E exists, quota \in BOOLEAN :
       /\ deleted' = IF ~exists THEN deleted \cup {lf} ELSE deleted
       /\ m_cur_file' = IF exists /\ size[lf] >= MaxFileSize THEN NoFile ELSE m_cur_file
       /\ m_shall_stop' = (m_shall_stop \/ (exists /\ ~quota))
       /\ Continue((IF m_cur_file' \in deleted' \cup {NoFile} THEN <<"close">> ELSE <<>>)
                     \o <<"update_reopen">>)
  /\ UNCHANGED <<vars, media, used>>

UpdateReopen ==
  /\ Call("update_reopen")
  /\ IF m_shall_stop \/ CurFile # NoFile
     THEN /\ Continue(IF m_shall_stop THEN <<"discard">> ELSE <<>>)
          /\ UNCHANGED <<m_cur_file, used>>
     ELSE CreateFile(<<"open">>, <<>>)
  /\ UNCHANGED <<vars, m_shall_stop, media, deleted>>

------------------------------------------------------------------------------
(* stop(), flush(), on_cur_media_disabled(), amend_current_file()          *)

CloseFile ==
  /\ Call("close")
  /\ Close
  /\ Continue(<<>>)
  /\ UNCHANGED <<m_cur_file, m_shall_stop, media, used, deleted>>

Discard ==
  /\ Call("discard")
  /\ DiscardQueue
  /\ Continue(<<>>)
  /\ UNCHANGED <<m_cur_file, m_shall_stop, media, used, deleted>>

\* Fault: stop() does not reset m_cur_file.
StopStorage_kept ==
  /\ Call("stop")
  /\ IF CurFile # NoFile THEN Close ELSE UNCHANGED vars
  /\ Continue(<<>>)
  /\ UNCHANGED <<m_cur_file, m_shall_stop, media, used, deleted>>

StopStorage ==
  /\ Call("stop")
  /\ IF CurFile # NoFile
     THEN Close /\ m_cur_file' = NoFile
     ELSE UNCHANGED <<vars, m_cur_file>>
  /\ Continue(<<>>)
  /\ UNCHANGED <<m_shall_stop, media, used, deleted>>

FlushStorage ==
  /\ \/ Call("sched_flush") /\ Flush
     \/ Call("stor_flush") /\ IF CurFile # NoFile THEN Flush ELSE UNCHANGED vars
  /\ Continue(<<>>)
  /\ UNCHANGED <<m_cur_file, m_shall_stop, media, used, deleted>>

\* The last lines of on_cur_media_disabled().
Forget ==
  /\ Call("forget")
  /\ m_cur_file' = NoFile
  /\ Continue(<<>>)
  /\ UNCHANGED <<vars, m_shall_stop, media, used, deleted>>

OnCurMediaDisabled == <<"sched_flush", "close", "forget">>

AmendCurrentFile(b) ==
  /\ Call("amend")
  /\ IF CurFile # NoFile THEN EnqueueOffset(b) ELSE FreeBuffer(b)
  /\ Continue(<<>>)
  /\ UNCHANGED <<m_cur_file, m_shall_stop, media, used, deleted>>

StorageStep ==
  \/ Write \/ WriteFile \/ WriteCreate \/ OpenFile
  \/ WrittenCallback \/ Update \/ UpdateMedia \/ UpdateFile \/ UpdateReopen
  \/ CloseFile \/ Discard \/ StopStorage \/ FlushStorage \/ Forget
==============================================================================

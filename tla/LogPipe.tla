------------------------------- MODULE LogPipe -------------------------------
(***************************************************************************)
(* LogPipeHandler (log_pipe_hdl.cpp) on top of CpStorage: the handler that *)
(* reads the log device of a subsystem block by block and writes the       *)
(* blocks, in the rounds of the main thread's multiplexer.  Beside it run  *)
(* the other handlers and the timers that get to the same storage: client  *)
(* requests, the assertion and revival of the subsystem, time and version  *)
(* amendments, changes of the storage medium.                              *)
(***************************************************************************)
EXTENDS CpStorage

CONSTANTS
  NoBuffer,       \* the null DataBuffer pointer
  BufThreshold,   \* m_buf_commit_threshold: a block this full is written
  MaxTimers       \* bound: reopen_log_dev timers pending at a time

ASSUME PipeAssumption ==
  /\ NoBuffer \notin Buffers
  /\ BufThreshold \in 1 .. BlockLen
  /\ MaxTimers \in Nat

VARIABLES
  m_buffer,       \* the block being filled
  log_on,         \* log_mode_ is LM_NORMAL
  working,        \* m_cp_state is not CWS_NOT_WORKING
  dev_open,       \* m_fd >= 0
  registered,     \* the handler is registered with the multiplexer
  pollin,         \* ... for POLLIN
  reopen_timers,  \* number of reopen_log_dev timers pending
  pipe_revents    \* POLLIN of the log device is pending in this round

devVars == <<dev_open, registered, pollin, reopen_timers, pipe_revents>>
pipeVars == <<m_buffer, log_on, working, devVars>>
pathVars == <<vars, storVars, pipeVars>>

PathTypeOK ==
  /\ ControlTypeOK
  /\ StorTypeOK
  /\ m_buffer \in Buffers \cup {NoBuffer}
  /\ log_on \in BOOLEAN
  /\ working \in BOOLEAN
  /\ dev_open \in BOOLEAN
  /\ registered \in BOOLEAN
  /\ pollin \in BOOLEAN
  /\ reopen_timers \in 0 .. MaxTimers
  /\ pipe_revents \in BOOLEAN

\* Logging has not been started.
PathInit ==
  /\ Init
  /\ StorInit
  /\ m_buffer = NoBuffer
  /\ log_on = FALSE
  /\ working = TRUE
  /\ dev_open = FALSE
  /\ registered = FALSE
  /\ pollin = FALSE
  /\ reopen_timers = 0
  /\ pipe_revents = FALSE

------------------------------------------------------------------------------
(* Opening and closing the device.                                         *)

\* open() and register_fd(), or a timer to try again, where the handler was
\* registered (reg) with some events and some timers were pending before.  To
\* register again a handler that is registered changes nothing.
OpenDevice(reg, events, timers) ==
  /\ \/ /\ dev_open' = TRUE
        /\ registered' = TRUE
        /\ pollin' = (reg => events)
        /\ reopen_timers' = timers
     \/ /\ timers < MaxTimers
        /\ dev_open' = FALSE
        /\ registered' = reg
        /\ pollin' = events
        /\ reopen_timers' = timers + 1
  /\ UNCHANGED pipe_revents

\* unregister_fd(), of an open device, and close(): what was pending in this
\* round is forgotten.
CloseDevice ==
  /\ dev_open' = FALSE
  /\ registered' = (registered /\ ~dev_open)
  /\ pollin' = (pollin /\ ~dev_open)
  /\ pipe_revents' = (pipe_revents /\ ~dev_open)
  /\ UNCHANGED reopen_timers

\* A handler other than this one starts.
Idle == InHandler /\ todo = <<>>
storOnly == <<m_cur_file, m_shall_stop, media, used, deleted>>

------------------------------------------------------------------------------
(* process(): the log device is readable.                                  *)

PipeProcess ==
  /\ Idle
  /\ pipe_revents
  /\ pipe_revents' = FALSE
  /\ IF m_buffer # NoBuffer
     THEN todo' = <<"read">> /\ UNCHANGED <<vars, m_buffer, pollin>>
     ELSE /\ GetFreeBuffer
          /\ IF m_buffers # {}
             THEN /\ m_buffer' \in held' \ held
                  /\ todo' = <<"read">>
                  /\ UNCHANGED pollin
             ELSE /\ pollin' = FALSE
                  /\ UNCHANGED <<m_buffer, todo>>
  /\ UNCHANGED <<storOnly, log_on, working, dev_open, registered, reopen_timers>>

PipeRead ==
  /\ Call("read")
  /\ \/ \* data
        /\ dev_open
        /\ Fill(m_buffer)
        /\ Continue(IF Len(content'[m_buffer]) >= BufThreshold THEN <<"write">> ELSE <<>>)
        /\ UNCHANGED devVars
     \/ \* an error that calls for unregistering, closing and reopening the device
        /\ OpenDevice(FALSE, FALSE, reopen_timers)
        /\ Continue(<<>>)
        /\ UNCHANGED vars
  /\ UNCHANGED <<storOnly, m_buffer, log_on, working>>

PipeEnqueue ==
  /\ Call("enqueue")
  /\ EnqueueData(m_buffer)
  /\ m_buffer' = NoBuffer
  /\ Continue(<<>>)
  /\ UNCHANGED <<storOnly, log_on, working, devVars>>

\* write() failed: process() drops the data and keeps the block, flush() gives
\* the block back.  Only flush() has more to do.
PipeWriteFailed ==
  /\ Call("write_failed")
  /\ IF Len(todo) = 1
     THEN Drop(m_buffer) /\ UNCHANGED m_buffer
     ELSE FreeBuffer(m_buffer) /\ m_buffer' = NoBuffer
  /\ Continue(<<>>)
  /\ UNCHANGED <<storOnly, log_on, working, devVars>>

\* flush(), up to m_storage->flush().
PipeFlush ==
  /\ Call("pipe_flush")
  /\ IF m_buffer # NoBuffer /\ content[m_buffer] # <<>>
     THEN Continue(<<"write">>) /\ UNCHANGED <<vars, m_buffer>>
     ELSE /\ IF m_buffer # NoBuffer THEN FreeBuffer(m_buffer) ELSE UNCHANGED vars
          /\ m_buffer' = NoBuffer
          /\ Continue(<<>>)
  /\ UNCHANGED <<storOnly, log_on, working, devVars>>

\* Fault: the callback was never set.
BufAvailCallback_unset == UNCHANGED pollin

\* buf_avail_callback(), called at the end of a flush and of an I/O callback.
BufAvailCallback ==
  LET called == m_report_buf_avail /\ ~m_report_buf_avail'
  IN pollin' = (pollin \/ (called /\ log_on /\ dev_open /\ registered))

------------------------------------------------------------------------------
(* start_logging(), stop_logging(), and the state of the subsystem.        *)

\* (Not again while a timer of the last time is pending: that is in MainLoop.)
StartLogging ==
  /\ Idle
  /\ ~log_on
  /\ reopen_timers = 0
  /\ log_on' = TRUE
  /\ IF working THEN OpenDevice(registered, pollin, reopen_timers) ELSE UNCHANGED devVars
  /\ IF m_buffer = NoBuffer
     THEN /\ GetFreeBuffer
          /\ IF m_buffers # {} THEN m_buffer' \in held' \ held ELSE UNCHANGED m_buffer
     ELSE UNCHANGED <<vars, m_buffer>>
  /\ UNCHANGED <<storVars, working>>

StopLogging ==
  /\ Idle
  /\ log_on
  /\ todo' = <<"pipe_flush", "stor_flush", "stop", "off">>
  /\ UNCHANGED <<vars, storOnly, pipeVars>>

LoggingOff ==
  /\ Call("off")
  /\ log_on' = FALSE
  /\ CloseDevice
  /\ Continue(<<>>)
  /\ UNCHANGED <<vars, storOnly, m_buffer, working>>

\* reopen_log_dev(), the timer.  It does not look whether the device is open.
ReopenDevice ==
  /\ Idle
  /\ reopen_timers > 0
  /\ IF log_on /\ working
     THEN OpenDevice(registered, pollin, reopen_timers - 1)
     ELSE /\ reopen_timers' = reopen_timers - 1
          /\ UNCHANGED <<dev_open, registered, pollin, pipe_revents>>
  /\ UNCHANGED <<vars, storVars, m_buffer, log_on, working>>

\* close_on_assert(): the subsystem asserted.
CloseOnAssert ==
  /\ Idle
  /\ working' = FALSE
  /\ CloseDevice
  /\ todo' = <<"pipe_flush", "stor_flush", "truncate">>
  /\ UNCHANGED <<vars, storOnly, m_buffer, log_on>>

TruncateLog ==
  /\ Call("truncate")
  /\ Continue(IF CurFile # NoFile THEN OnCurMediaDisabled ELSE <<>>)
  /\ UNCHANGED <<vars, storOnly, pipeVars>>

\* process_alive(): the timers are deleted by their callback.
ProcessAlive ==
  /\ Idle
  /\ working' = TRUE
  /\ IF log_on /\ ~dev_open THEN OpenDevice(registered, pollin, 0) ELSE UNCHANGED devVars
  /\ UNCHANGED <<vars, storVars, m_buffer, log_on>>

\* process_alive() of another subsystem, which deletes the timers of all.
OtherAlive ==
  /\ Idle
  /\ reopen_timers' = 0
  /\ UNCHANGED <<vars, storVars, m_buffer, log_on, working, dev_open, registered,
                 pollin, pipe_revents>>

------------------------------------------------------------------------------
(* Other handlers and timers that get to the storage.                      *)

\* A client's flush request; the power-on timer, which also stops the storage;
\* process_reset().
FlushRequest ==
  /\ Idle
  /\ todo' \in {<<"pipe_flush", "stor_flush">>,
                <<"pipe_flush", "stor_flush", "stop">>,
                <<"stop">>}
  /\ UNCHANGED <<vars, storOnly, pipeVars>>

\* check_media_change() called from elsewhere (another subsystem, create_file,
\* check_quota, a uevent).
MediaEvent ==
  /\ Idle
  /\ \E new \in Media \cup {NoMedia} :
       /\ media' = new
       /\ todo' = IF new # media /\ media # NoMedia THEN <<"stop">> ELSE <<>>
  /\ UNCHANGED <<vars, m_cur_file, m_shall_stop, used, deleted, pipeVars>>

\* enable_media(mt, false) of the current medium; clear().
MediaDisabled ==
  /\ Idle
  /\ media # NoMedia
  /\ media' = NoMedia
  /\ todo' \in {OnCurMediaDisabled, <<"stop">>}
  /\ UNCHANGED <<vars, m_cur_file, m_shall_stop, used, deleted, pipeVars>>

\* notify_modem_time_update(), correct_ver_info(): amend the current file.
Amend ==
  /\ Idle
  /\ log_on
  /\ GetFreeBuffer
  /\ todo' = IF m_buffers # {} THEN <<"amend">> ELSE <<>>
  /\ UNCHANGED <<storOnly, pipeVars>>

PipeAmend ==
  /\ \E b \in held \ {m_buffer} : AmendCurrentFile(b)
  /\ UNCHANGED pipeVars

------------------------------------------------------------------------------
(* The main loop.                                                          *)

PathPoll ==
  /\ Poll
  /\ pipe_revents' \in {FALSE, registered /\ pollin /\ next_unit <= MaxUnits}
  /\ UNCHANGED <<storVars, m_buffer, log_on, working, dev_open, registered, pollin,
                 reopen_timers>>

PathEndRound ==
  /\ EndRound
  /\ todo = <<>> /\ ~pipe_revents
  /\ UNCHANGED <<storVars, pipeVars>>

PathChannelEvent ==
  /\ todo = <<>>
  /\ Process
  /\ UNCHANGED <<storVars, pipeVars>>

PathCallbackDone ==
  /\ todo = <<>>
  /\ CallbackDone
  /\ BufAvailCallback
  /\ UNCHANGED <<storVars, m_buffer, log_on, working, dev_open, registered,
                 reopen_timers, pipe_revents>>

PathFlush ==
  /\ FlushSettle \/ FlushCommit \/ FlushAwait \/ FlushReport
  /\ BufAvailCallback
  /\ UNCHANGED <<storVars, m_buffer, log_on, working, dev_open, registered,
                 reopen_timers, pipe_revents>>

PathThread == ThreadStep /\ UNCHANGED <<storVars, pipeVars>>
PathStorage == StorageStep /\ UNCHANGED pipeVars

\* What the main thread does without being asked from outside.
MainStep ==
  \/ PathPoll \/ PathEndRound \/ PathChannelEvent \/ PathCallbackDone \/ PathFlush
  \/ PathStorage
  \/ PipeProcess \/ PipeRead \/ PipeEnqueue \/ PipeWriteFailed \/ PipeFlush
  \/ LoggingOff \/ TruncateLog \/ PipeAmend

\* Requests, timers and events from outside.
OutsideStep ==
  \/ StartLogging \/ StopLogging \/ ReopenDevice \/ CloseOnAssert \/ ProcessAlive \/ OtherAlive
  \/ FlushRequest \/ MediaEvent \/ MediaDisabled \/ Amend

PathNext == MainStep \/ PathThread \/ OutsideStep

PathSpec == PathInit /\ [][PathNext]_pathVars

\* The I/O thread is a thread of the kernel's scheduler and its disk write
\* returns; the main thread runs whatever handler it is in to the end.  Nothing
\* outside need happen.
FairPathSpec == PathSpec /\ WF_pathVars(PathThread) /\ WF_pathVars(MainStep)

------------------------------------------------------------------------------
(* Properties.                                                             *)

\* Every operation the handlers call on the scheduler is one its header allows,
\* in every interleaving of handlers, timers and callbacks: a block is enqueued
\* only with a file open, a file is opened only after the last was closed, and
\* the file-written callback enqueues nothing.  What IoScheduler promises to
\* such a client (the log in order, no block lost) then holds of this one.
ImplementsIoScheduler == Spec

\* A block has one owner on the client's side too: the handler owns the block it
\* fills and, while an amendment is prepared, the block of the amendment.
HandlerOwnsBlocks == main = "poll" => held = {m_buffer} \ {NoBuffer}

\* on_file_size_update() dereferences get_media_stor() when check_media_change()
\* reports no change, and reads the LogFile the I/O result names: there is a
\* medium, and the file is still the current one.
CallbackHasFile ==
  todo # <<>> /\ Head(todo) = "update_file" =>
    media # NoMedia /\ m_cur_req.file = m_cur_file

\* Between two rounds the scheduler writes to the file CpStorage believes is the
\* current log, and to none when there is none: each of the ways to close a
\* file (rotation, removal, stop(), a disabled medium) updates both pointers,
\* and the handler, the storage and the scheduler agree on who has which block
\* and what the result of a write is about.
FileAgreement ==
  /\ PathTypeOK
  /\ main = "poll" => m_file = CurFile
  /\ HandlerOwnsBlocks
  /\ CallbackHasFile

\* The log device is open and its POLLIN is off, for want of a block.
Paused == log_on /\ dev_open /\ ~pollin

\* No lost wakeup: while the device is paused the scheduler remembers that it
\* owes a callback, and no block becomes idle without the callback, unless the
\* file was closed by stop(), which frees blocks and calls nobody.
NoLostWakeup ==
  main = "poll" /\ Paused => m_report_buf_avail /\ (m_buffers = {} \/ m_file = NoFile)

\* No block stays away: every batch comes back from the I/O thread, whoever reads
\* the response, and a paused device is woken, though the blocks may come back
\* through the poll loop or a flush, in part or after an error; or its file is
\* closed by stop().
DeviceWakes ==
  /\ BatchComesBack
  /\ Paused ~> ~Paused \/ m_file = NoFile
==============================================================================

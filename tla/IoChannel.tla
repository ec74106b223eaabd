------------------------------ MODULE IoChannel ------------------------------
(***************************************************************************)
(* IoChannel (io_chan.cpp): the channel between the main thread of         *)
(* slogmodem and the I/O thread of one CpStorage.  The two ends exchange   *)
(* one-byte messages over a socket pair; the request itself is an object   *)
(* the I/O scheduler owns (m_cur_req) and that names a file and a vector   *)
(* of data blocks, m_data_written, which the I/O thread reads in place.    *)
(*                                                                         *)
(* The operations of the main thread (Request, WaitIo, ReadResult) are     *)
(* given here as constraints on the channel's variables, for the handlers  *)
(* of the modules above to conjoin; the steps of the I/O thread are        *)
(* actions.  Data is abstracted to numbered units: content[b] are the      *)
(* units in block b that still have to be written.                         *)
(***************************************************************************)
EXTENDS Naturals, Sequences, SequencesExt

CONSTANTS
  Buffers,    \* the data blocks of one CpStorage
  Files,      \* the log files it may open
  NoFile,     \* the null LogFile pointer
  Errors      \* the FIO_xxx codes write_raw() may report

ASSUME ChannelAssumption == NoFile \notin Files /\ "none" \notin Errors

VARIABLES
  m_state,         \* IoChannel::m_state
  m_cur_req,       \* IoScheduler::m_cur_req: file, and what the thread reports
  m_data_written,  \* IoScheduler::m_data_written: the vector the request points to
  to_thread,       \* messages on their way to the I/O thread
  to_main,         \* number of ITMT_IO_RESULT bytes on their way to the main thread
  io_thread,       \* where the I/O thread is
  content,         \* units in each block that are not written yet
  disk             \* history: <<file, unit>> in the order units were written

chanVars == <<m_state, m_cur_req, to_thread, to_main, io_thread>>

\* The units of a sequence of blocks, in writev order.
Units(blocks) == FlattenSeq([i \in DOMAIN blocks |-> content[blocks[i]]])

NoError == "none"

ChanControlTypeOK ==
  /\ m_state \in {"IS_IDLE", "IS_EXECUTING"}
  /\ m_cur_req \in [file : Files \cup {NoFile}, written : Nat, err : Errors \cup {NoError}]
  /\ m_data_written \in Seq(Buffers)
  /\ to_thread \in Seq({"ITMT_IO", "ITMT_QUIT"})
  /\ to_main \in Nat
  /\ io_thread \in {"read", "do_io", "respond", "exited"}

DataTypeOK ==
  /\ content \in [Buffers -> Seq(Nat)]
  /\ disk \in Seq(Files \X Nat)

ChanInit ==
  /\ m_state = "IS_IDLE"
  /\ m_cur_req = [file |-> NoFile, written |-> 0, err |-> NoError]
  /\ m_data_written = <<>>
  /\ to_thread = <<>>
  /\ to_main = 0
  /\ io_thread = "read"
  /\ content = [b \in Buffers |-> <<>>]
  /\ disk = <<>>

------------------------------------------------------------------------------
(* Operations of the main thread.                                          *)

\* request(): refused when a request executes.  The scheduler has filled in
\* the request object before the call, so that its file is overwritten anyway.
Request(file) ==
  /\ m_cur_req' = [m_cur_req EXCEPT !.file = file]
  /\ IF m_state = "IS_EXECUTING"
     THEN UNCHANGED <<m_state, to_thread>>
     ELSE /\ m_state' = "IS_EXECUTING"
          /\ to_thread' = Append(to_thread, "ITMT_IO")
  /\ UNCHANGED <<to_main, io_thread>>

\* wait_io(): returns at once when idle, else blocks for the response byte and
\* consumes it.  A disabled WaitIo is a main thread that sits in poll().
WaitIo ==
  /\ \/ m_state = "IS_IDLE" /\ UNCHANGED to_main
     \/ m_state = "IS_EXECUTING" /\ to_main > 0 /\ to_main' = to_main - 1
  /\ m_state' = "IS_IDLE"
  /\ UNCHANGED <<m_cur_req, to_thread, io_thread>>

\* process() and on_io_done(): a blocking read() of one response byte.
ReadResult ==
  /\ to_main > 0
  /\ to_main' = to_main - 1
  /\ m_state' = "IS_IDLE"
  /\ UNCHANGED <<m_cur_req, to_thread, io_thread>>

\* stop() without the join: the I/O thread is told to quit.
SendQuit ==
  /\ to_thread' = Append(to_thread, "ITMT_QUIT")
  /\ UNCHANGED <<m_state, m_cur_req, to_main, io_thread>>

------------------------------------------------------------------------------
(* Steps of the I/O thread (io_thread_func).                               *)

\* read() returns a message.
ThreadRead ==
  /\ io_thread = "read"
  /\ to_thread # <<>>
  /\ io_thread' = IF Head(to_thread) = "ITMT_IO" THEN "do_io" ELSE "exited"
  /\ to_thread' = Tail(to_thread)
  /\ UNCHANGED <<m_state, m_cur_req, m_data_written, to_main, content, disk>>

\* do_io(): one writev() of the whole vector.  It writes any number of the units,
\* or fails; m_mutex is held throughout.
ThreadWrite ==
  /\ io_thread = "do_io"
  /\ LET units == Units(m_data_written) IN
     \E n \in 0 .. Len(units), e \in Errors \cup {NoError} :
       /\ e # NoError => n = 0
       /\ m_cur_req' = [m_cur_req EXCEPT !.written = n, !.err = e]
       /\ disk' = disk \o [i \in 1 .. n |-> <<m_cur_req.file, units[i]>>]
  /\ io_thread' = "respond"
  /\ UNCHANGED <<m_state, m_data_written, to_thread, to_main, content>>

\* send_response(ITMT_IO_RESULT): the results wait in the channel for the main
\* thread.
ThreadRespond ==
  /\ io_thread = "respond"
  /\ to_main' = to_main + 1
  /\ io_thread' = "read"
  /\ UNCHANGED <<m_state, m_cur_req, m_data_written, to_thread, content, disk>>

IoThread == ThreadRead \/ ThreadWrite \/ ThreadRespond

\* The units of the executing request that are on the disk already.
UnitsDone == IF io_thread = "respond" \/ to_main > 0 THEN m_cur_req.written ELSE 0
==============================================================================

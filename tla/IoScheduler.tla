----------------------------- MODULE IoScheduler -----------------------------
(***************************************************************************)
(* IoScheduler (io_sched.cpp): the queue of data blocks between a log      *)
(* device and the I/O thread, with its client left open: in a handler of   *)
(* the multiplexer the client may call any operation in any order          *)
(* io_sched.h allows (enqueue with a file, open without one), and in the   *)
(* file-written callback it may open, close and discard, as CpStorage      *)
(* does.  An enqueue from the callback is not allowed: the commit at the   *)
(* end of io_result_callback does not look whether a batch is being        *)
(* written.  CpStorage and LogPipe compose it with the client it has.       *)
(*                                                                         *)
(* m_data is kept as two parts, because every commit starts with           *)
(* process_write_offset: m_data, the stream blocks in order, and m_amend,  *)
(* the queued blocks with a destination offset (dst_offset >= 0).          *)
(***************************************************************************)
EXTENDS IoChannel, FiniteSets

CONSTANTS
  CommitThreshold,   \* m_commit_threshold, in units
  BlockLen,          \* m_block_size, in units
  MaxUnits           \* bound: units the log device produces

ASSUME SchedulerAssumption ==
  /\ IsFiniteSet(Buffers) /\ Cardinality(Buffers) >= 2
  /\ CommitThreshold \in Nat \ {0}
  /\ BlockLen \in Nat \ {0}
  /\ MaxUnits \in Nat

VARIABLES
  m_buffers,            \* idle blocks
  held,                 \* blocks handed out by get_free_buffer
  m_data,               \* queued stream blocks, oldest first
  m_amend,              \* queued blocks that amend the file at an offset
  m_file,               \* the open log file
  m_report_buf_avail,   \* a client was refused a block
  size,                 \* LogFile::m_size of each file
  next_unit,            \* the next unit the log device produces
  main,                 \* what the main thread is in
  revents,              \* POLLIN of the channel is pending in this round
  flushing              \* how far a flush() has got

schedVars == <<m_buffers, held, m_data, m_amend, m_file, m_report_buf_avail,
               size, m_data_written, content, disk>>
loopVars == <<main, revents, flushing>>
vars == <<chanVars, schedVars, loopVars, next_unit>>

MaxBlocks == Cardinality(Buffers)          \* m_max_blocks
FileOrNone == Files \cup {NoFile}

\* What the scheduler and the loop are in, and the data they move.
ControlTypeOK ==
  /\ ChanControlTypeOK
  /\ m_buffers \subseteq Buffers
  /\ held \subseteq Buffers
  /\ m_data \in Seq(Buffers)
  /\ m_amend \subseteq Buffers
  /\ m_file \in FileOrNone
  /\ m_report_buf_avail \in BOOLEAN
  /\ size \in [Files -> Nat]
  /\ next_unit \in Nat
  /\ main \in {"poll", "dispatch", "reading", "callback", "join", "gone"}
  /\ revents \in BOOLEAN
  /\ flushing \in {"no", "settle", "commit", "await", "report"}

Init ==
  /\ ChanInit
  /\ m_buffers = Buffers
  /\ held = {}
  /\ m_data = <<>>
  /\ m_amend = {}
  /\ m_file = NoFile
  /\ m_report_buf_avail = FALSE
  /\ size = [f \in Files |-> 0]
  /\ next_unit = 1
  /\ main = "poll"
  /\ revents = FALSE
  /\ flushing = "no"

------------------------------------------------------------------------------
(* The private functions, as constraints on the scheduler's variables.     *)

\* free_buffer() of every block in S: nothing is left in it.
Emptied(S) == [b \in Buffers |-> IF b \in S THEN <<>> ELSE content[b]]

\* How many blocks of the vector the units written cover completely.
WholeBlocks(n) ==
  Cardinality({i \in 1 .. Len(m_data_written) :
                 Len(Units(SubSeq(m_data_written, 1, i))) <= n})

\* The blocks that were not written completely go before the queue.
\* Fault: behind it.
Requeue_behind(rest) == m_data \o rest
Requeue(rest) == rest \o m_data

\* m_file->add_size().  Fault: one that counts only batches written in full.
AddSize_full(n) ==
  IF m_file \in Files /\ n = Len(Units(m_data_written)) THEN [size EXCEPT ![m_file] = @ + n] ELSE size
AddSize(n) == IF m_file \in Files THEN [size EXCEPT ![m_file] = @ + n] ELSE size

\* process_io_result(), with `amend` what is left of the queued amendments:
\* blocks written completely, or all of them when nothing was written, become
\* idle; the others go back to the front of the queue, what is left of them.
ProcessIoResult(amend) ==
  LET n == m_cur_req.written
      k == IF n = 0 THEN Len(m_data_written) ELSE WholeBlocks(n)
      done == SubSeq(m_data_written, 1, k)
      rest == SubSeq(m_data_written, k + 1, Len(m_data_written))
      freed == Range(done) \cup (m_amend \ amend)
  IN /\ m_data' = Requeue(rest)
     /\ m_data_written' = <<>>
     /\ m_amend' = amend
     /\ m_buffers' = m_buffers \cup freed
     /\ content' = [b \in Buffers |->
                      IF b \in freed THEN <<>>
                      ELSE IF rest # <<>> /\ b = rest[1]
                           THEN SubSeq(content[b], n - Len(Units(done)) + 1, Len(content[b]))
                           ELSE content[b]]
     /\ size' = AddSize(n)

\* The queued amendments go straight to the file, and data, all of it, to the
\* I/O thread.
CommitAll(data, amend) ==
  /\ m_amend' = {}
  /\ m_buffers' = m_buffers \cup amend
  /\ m_data' = <<>>
  /\ m_data_written' = m_data_written \o data
  /\ Request(m_file)

\* commit_data(): the stream blocks wait until there is enough of them.
CommitData(data, amend) ==
  IF Len(Units(data)) < CommitThreshold /\ Len(data) < MaxBlocks \div 2
  THEN /\ m_amend' = {}
       /\ m_buffers' = m_buffers \cup amend
       /\ m_data' = data
       /\ UNCHANGED <<m_data_written, chanVars>>
  ELSE CommitAll(data, amend)

------------------------------------------------------------------------------
(* Operations of the client, from a handler or also from the callback.     *)

InHandler == main = "dispatch" /\ flushing = "no"
InHandlerOrCallback == main \in {"dispatch", "callback"} /\ flushing = "no"

GetFreeBuffer ==
  /\ InHandler
  /\ \/ \E b \in m_buffers :
          /\ m_buffers' = m_buffers \ {b}
          /\ held' = held \cup {b}
          /\ UNCHANGED m_report_buf_avail
     \/ /\ m_buffers = {}
        /\ m_report_buf_avail' = TRUE
        /\ UNCHANGED <<m_buffers, held>>
  /\ UNCHANGED <<chanVars, loopVars, m_data, m_amend, m_file, size,
                 m_data_written, content, disk, next_unit>>

\* The client reads the log device into its block.
Fill(b) ==
  /\ InHandler
  /\ b \in held
  /\ Len(content[b]) < BlockLen
  /\ next_unit <= MaxUnits
  /\ content' = [content EXCEPT ![b] = Append(@, next_unit)]
  /\ next_unit' = next_unit + 1
  /\ UNCHANGED <<chanVars, loopVars, m_buffers, held, m_data, m_amend, m_file,
                 m_report_buf_avail, size, m_data_written, disk>>

\* The client drops what it has read into its block, and keeps the block.
Drop(b) ==
  /\ InHandler
  /\ b \in held
  /\ content' = Emptied({b})
  /\ UNCHANGED <<chanVars, loopVars, m_buffers, held, m_data, m_amend, m_file,
                 m_report_buf_avail, size, m_data_written, disk, next_unit>>

FreeBuffer(b) ==
  /\ InHandler
  /\ b \in held
  /\ held' = held \ {b}
  /\ m_buffers' = m_buffers \cup {b}
  /\ content' = Emptied({b})
  /\ UNCHANGED <<chanVars, loopVars, m_data, m_amend, m_file, m_report_buf_avail,
                 size, m_data_written, disk, next_unit>>

PutInQueue(data, amend) ==
  IF m_data_written = <<>>
  THEN CommitData(data, amend)
  ELSE /\ m_data' = data
       /\ m_amend' = amend
       /\ UNCHANGED <<m_buffers, m_data_written, chanVars>>

\* enqueue(), of a block of the log stream or of one that amends the file.
EnqueueData(b) ==
  /\ held' = held \ {b}
  /\ PutInQueue(Append(m_data, b), m_amend)
  /\ UNCHANGED <<loopVars, m_file, m_report_buf_avail, size, content, disk, next_unit>>

EnqueueOffset(b) ==
  /\ held' = held \ {b}
  /\ PutInQueue(m_data, m_amend \cup {b})
  /\ UNCHANGED <<loopVars, m_file, m_report_buf_avail, size, content, disk, next_unit>>

\* "This function shall be called when m_file is valid" (io_sched.h).
Enqueue(b) ==
  /\ InHandler
  /\ m_file # NoFile
  /\ b \in held
  /\ \/ content[b] # <<>> /\ EnqueueData(b)
     \/ content[b] = <<>> /\ EnqueueOffset(b)

\* open()
SetFile(f) ==
  /\ m_file' = f
  /\ UNCHANGED <<chanVars, loopVars, m_buffers, held, m_data, m_amend,
                 m_report_buf_avail, size, m_data_written, content, disk,
                 next_unit>>

\* A client closes one file before it opens another.
Open(f) ==
  /\ InHandlerOrCallback
  /\ m_file = NoFile
  /\ SetFile(f)

\* Fault: close() does not wait for the I/O thread.
Close_nowait ==
  /\ InHandlerOrCallback
  /\ m_file' = NoFile
  /\ UNCHANGED <<chanVars, loopVars, m_data, m_data_written, m_amend, m_buffers, content, size,
                 held, m_report_buf_avail, disk, next_unit>>

\* close(): only when a batch is being written are the amendments applied.
Close ==
  /\ InHandlerOrCallback
  /\ IF m_data_written # <<>>
     THEN WaitIo /\ ProcessIoResult({})
     ELSE UNCHANGED <<chanVars, m_data, m_data_written, m_amend, m_buffers, content, size>>
  /\ m_file' = NoFile
  /\ UNCHANGED <<loopVars, held, m_report_buf_avail, disk, next_unit>>

\* discard_queue().  Fault: the blocks are freed and m_data is not cleared.
DiscardQueue_uncleared ==
  /\ InHandlerOrCallback
  /\ m_buffers' = m_buffers \cup Range(m_data) \cup m_amend
  /\ content' = Emptied(Range(m_data) \cup m_amend)
  /\ UNCHANGED <<chanVars, loopVars, held, m_data, m_amend, m_file, m_report_buf_avail, size,
                 m_data_written, disk, next_unit>>

DiscardQueue ==
  /\ InHandlerOrCallback
  /\ m_data' = <<>>
  /\ m_amend' = {}
  /\ m_buffers' = m_buffers \cup Range(m_data) \cup m_amend
  /\ content' = Emptied(Range(m_data) \cup m_amend)
  /\ UNCHANGED <<chanVars, loopVars, held, m_file, m_report_buf_avail, size,
                 m_data_written, disk, next_unit>>

------------------------------------------------------------------------------
(* flush(), cut where the main thread may block in wait_io().              *)

Flush ==
  /\ InHandler
  /\ flushing' = IF m_file # NoFile THEN "settle" ELSE "report"
  /\ UNCHANGED <<chanVars, schedVars, main, revents, next_unit>>

\* The batch being written, if any, is awaited.
FlushSettle ==
  /\ flushing = "settle"
  /\ IF m_data_written # <<>>
     THEN WaitIo /\ ProcessIoResult(m_amend)
     ELSE UNCHANGED <<chanVars, m_data, m_data_written, m_amend, m_buffers, content, size>>
  /\ flushing' = "commit"
  /\ UNCHANGED <<main, revents, held, m_file, m_report_buf_avail, disk, next_unit>>

FlushCommit ==
  /\ flushing = "commit"
  /\ IF m_data # <<>> \/ m_amend # {}
     THEN /\ CommitAll(m_data, m_amend)
          /\ flushing' = "await"
     ELSE /\ flushing' = "report"
          /\ UNCHANGED <<chanVars, m_data, m_data_written, m_amend, m_buffers>>
  /\ UNCHANGED <<main, revents, held, m_file, m_report_buf_avail, size,
                 content, disk, next_unit>>

FlushAwait ==
  /\ flushing = "await"
  /\ WaitIo
  /\ ProcessIoResult(m_amend)
  /\ flushing' = "report"
  /\ UNCHANGED <<main, revents, held, m_file, m_report_buf_avail, disk, next_unit>>

\* The buffer-available callback.
ReportBufAvail == m_report_buf_avail' = (m_report_buf_avail /\ m_buffers' = {})

FlushReport ==
  /\ flushing = "report"
  /\ flushing' = "no"
  /\ UNCHANGED <<chanVars, main, revents, m_buffers, held, m_data, m_amend, m_file,
                 size, m_data_written, content, disk, next_unit>>
  /\ ReportBufAvail

------------------------------------------------------------------------------
(* The main thread: a round of the multiplexer (Multiplexer::run), the     *)
(* channel's handler in it and the result callback of the scheduler.       *)

\* poll() returns; which events are pending is remembered for the whole round.
Poll ==
  /\ main = "poll"
  /\ main' = "dispatch"
  /\ revents' = (to_main > 0)
  /\ UNCHANGED <<chanVars, schedVars, flushing, next_unit>>

EndRound ==
  /\ InHandler
  /\ ~revents
  /\ main' = "poll"
  /\ UNCHANGED <<chanVars, schedVars, revents, flushing, next_unit>>

\* IoChannel::process() is called and reads the response, blocking.
Process ==
  /\ InHandler
  /\ revents
  /\ main' = "reading"
  /\ revents' = FALSE
  /\ UNCHANGED <<chanVars, schedVars, flushing, next_unit>>

\* on_io_done() and the first part of io_result_callback().
OnIoDone ==
  /\ main = "reading"
  /\ ReadResult
  /\ ProcessIoResult(m_amend)
  /\ main' = "callback"
  /\ UNCHANGED <<revents, flushing, held, m_file, m_report_buf_avail, disk,
                 next_unit>>

\* The rest of io_result_callback(), after the client's callback.
CallbackDone ==
  /\ main = "callback"
  /\ IF m_file # NoFile
     THEN CommitData(m_data, m_amend)
     ELSE UNCHANGED <<chanVars, m_data, m_amend, m_buffers, m_data_written>>
  /\ ReportBufAvail
  /\ main' = "dispatch"
  /\ UNCHANGED <<revents, flushing, held, m_file, size, content, disk, next_unit>>

\* ~CpStorage: after close(), the I/O thread is told to quit and joined.
Stop ==
  /\ InHandler
  /\ m_file = NoFile
  /\ SendQuit
  /\ main' = "join"
  /\ UNCHANGED <<schedVars, revents, flushing, next_unit>>

Join ==
  /\ main = "join"
  /\ io_thread = "exited"
  /\ main' = "gone"
  /\ UNCHANGED <<chanVars, schedVars, revents, flushing, next_unit>>

ThreadStep == IoThread /\ UNCHANGED <<m_buffers, held, m_data, m_amend, m_file,
                m_report_buf_avail, size, loopVars, next_unit>>

FlushStep == FlushSettle \/ FlushCommit \/ FlushAwait \/ FlushReport
LoopStep == Poll \/ EndRound \/ Process \/ OnIoDone \/ CallbackDone \/ Join

Next ==
  \/ LoopStep
  \/ FlushStep
  \/ ThreadStep
  \/ GetFreeBuffer
  \/ \E b \in Buffers : Fill(b) \/ Drop(b) \/ FreeBuffer(b) \/ Enqueue(b)
  \/ \E f \in Files : Open(f)
  \/ Close
  \/ DiscardQueue
  \/ Flush
  \/ Stop

Spec == Init /\ [][Next]_vars

------------------------------------------------------------------------------
(* Properties.                                                             *)

\* No data block is ever lost or in two places: each is idle, in a client's
\* hands, queued, or being written, and is queued or written once.
\* (m_buffers, m_data, m_data_written and the pointers handed out, io_sched.cpp)
BuffersAccounted ==
  /\ Buffers = m_buffers \cup held \cup Range(m_data) \cup m_amend \cup Range(m_data_written)
  /\ m_buffers \cap (held \cup Range(m_data) \cup m_amend \cup Range(m_data_written)) = {}
  /\ held \cap (Range(m_data) \cup m_amend \cup Range(m_data_written)) = {}
  /\ Range(m_data) \cap (m_amend \cup Range(m_data_written)) = {}
  /\ m_amend \cap Range(m_data_written) = {}
  /\ IsInjective(m_data)
  /\ IsInjective(m_data_written)

\* The emptiness of m_data_written, which enqueue(), flush() and close() test
\* to know whether the I/O thread is at work, says so: blocks handed to the
\* I/O thread are covered by a request the channel accepted, and a request
\* executes on no block only in a flush() whose queue held amendments alone.
WrittenIffExecuting ==
  /\ m_data_written # <<>> => m_state = "IS_EXECUTING"
  /\ m_state = "IS_EXECUTING" => m_data_written # <<>> \/ flushing = "await"

\* At most one message is in flight per request, in exactly one place, and none
\* when the channel is idle: the response the main thread consumes is never one
\* of an earlier request.  (request(), wait_io(), process(), io_chan.cpp)
InFlight ==
  Cardinality({i \in DOMAIN to_thread : to_thread[i] = "ITMT_IO"})
    + (IF io_thread \in {"do_io", "respond"} THEN 1 ELSE 0) + to_main
OneMessagePerRequest ==
  InFlight = IF m_state = "IS_EXECUTING" THEN 1 ELSE 0

\* What the two above rest on: the channel is in one of six phases, each with
\* its messages, and the main thread knows which from m_data_written alone.
\* When a flush commits nothing is being written, nor is it in the callback.
ChannelPhase ==
  \/ /\ m_state = "IS_IDLE" /\ to_main = 0
     /\ \/ to_thread = <<>> /\ io_thread = "read" /\ main \notin {"join", "gone"}
        \/ to_thread = <<"ITMT_QUIT">> /\ io_thread = "read" /\ main = "join"
        \/ to_thread = <<>> /\ io_thread = "exited" /\ main \in {"join", "gone"}
  \/ /\ m_state = "IS_EXECUTING" /\ main \notin {"callback", "join", "gone"}
     /\ \/ to_thread = <<"ITMT_IO">> /\ io_thread = "read" /\ to_main = 0
        \/ to_thread = <<>> /\ io_thread \in {"do_io", "respond"} /\ to_main = 0
        \/ to_thread = <<>> /\ io_thread = "read" /\ to_main = 1

MainPhase ==
  /\ flushing # "no" => main = "dispatch"
  /\ flushing \in {"settle", "commit", "await"} => m_file # NoFile
  /\ flushing \in {"commit", "report"} => m_data_written = <<>>
  /\ flushing = "await" => m_state = "IS_EXECUTING"
  /\ main = "callback" => m_data_written = <<>>
  /\ m_file = NoFile => m_data_written = <<>>

\* The inductive invariant of the control part.
Control == ControlTypeOK /\ WrittenIffExecuting /\ ChannelPhase /\ MainPhase

\* A file's accounted size is what the I/O thread wrote into it, less the result
\* the main thread has not collected yet.  (add_size() in process_io_result())
SizeMatchesDisk ==
  /\ DataTypeOK
  /\ \A f \in Files :
       Cardinality({i \in DOMAIN disk : disk[i][1] = f})
         = size[f] + (IF f = m_file THEN UnitsDone ELSE 0)

\* While a request executes, the main thread changes neither the vector the I/O
\* thread walks, nor what is in its blocks, nor the file it writes to: there is
\* no lock around do_io() that could excuse it.
RequestUndisturbed ==
  [][m_state = "IS_EXECUTING" /\ m_state' = "IS_EXECUTING" =>
       /\ m_data_written' = m_data_written
       /\ m_cur_req'.file = m_cur_req.file
       /\ m_file' = m_file
       /\ \A b \in Range(m_data_written) : content'[b] = content[b]]_vars

\* The log on the storage is the log accepted, in order, without repetition:
\* partial writes, which send the rest of a batch back to the queue, included.
UnitsLeft(units) == SubSeq(units, UnitsDone + 1, Len(units))
Stream == INSTANCE LogStream WITH
  pending <- UnitsLeft(Units(m_data_written)) \o Units(m_data),
  stored <- [i \in DOMAIN disk |-> disk[i][2]]
ImplementsLogStream == Stream!Spec

\* A batch handed to the I/O thread does not stay there: its blocks come back,
\* to the idle list or to the queue, though the main thread may consume the
\* response in its poll loop or in a flush() or a close().
BatchComesBack ==
  \A b \in Buffers : b \in Range(m_data_written) ~> b \notin Range(m_data_written)
==============================================================================

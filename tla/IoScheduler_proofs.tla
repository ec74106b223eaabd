------------------------- MODULE IoScheduler_proofs -------------------------
(***************************************************************************)
(* Proofs about IoScheduler, for every number of blocks, files and units:  *)
(* the channel and the main thread agree on what executes (Control), no    *)
(* block is lost (BuffersAccounted), the I/O thread is undisturbed, the    *)
(* size of a file is that of the disk, and the log gets there in order:    *)
(* IoScheduler implements LogStream.                                       *)
(***************************************************************************)
EXTENDS IoScheduler, SequenceTheorems, FiniteSetTheorems, WellFoundedInduction, TLAPS

------------------------------------------------------------------------------
(* The operators.                                                          *)

LEMMA EmptyUnits == Len(Units(<<>>)) = 0
  BY DEF Units, FlattenSeq

\* A count of blocks of the vector is a position in it.
LEMMA WholeBlocksType ==
  ASSUME m_data_written \in Seq(Buffers), NEW n
  PROVE  WholeBlocks(n) \in 0 .. Len(m_data_written)
<1> DEFINE I == 1 .. Len(m_data_written)
           W == {i \in I : Len(Units(SubSeq(m_data_written, 1, i))) <= n}
<1>1. Len(m_data_written) \in Nat
  BY LenProperties
<1>2. IsFiniteSet(I) /\ Cardinality(I) = Len(m_data_written)
  BY <1>1, FS_Interval
<1>3. W \subseteq I
  OBVIOUS
<1> HIDE DEF W, I
<1>4. Cardinality(W) \in Nat /\ Cardinality(W) <= Len(m_data_written)
  BY <1>2, <1>3, FS_Subset, FS_CardinalityType
<1>5. WholeBlocks(n) = Cardinality(W)
  BY DEF WholeBlocks, W, I
<1> QED
  BY <1>1, <1>4, <1>5

\* The number of blocks that process_io_result() gives back.
BlocksDone ==
  IF m_cur_req.written = 0 THEN Len(m_data_written) ELSE WholeBlocks(m_cur_req.written)

LEMMA BlocksDoneType ==
  ASSUME m_data_written \in Seq(Buffers)
  PROVE  BlocksDone \in 0 .. Len(m_data_written)
<1>1. Len(m_data_written) \in Nat
  BY LenProperties
<1> QED
  BY <1>1, WholeBlocksType DEF BlocksDone

\* commit_data() hands over no empty batch: it needs a threshold above zero and
\* two blocks or more.
LEMMA HalfOfBlocks == MaxBlocks \div 2 >= 1
<1>1. MaxBlocks \in Nat /\ MaxBlocks >= 2
  BY SchedulerAssumption, FS_CardinalityType DEF MaxBlocks
<1> QED
  BY <1>1

LEMMA EmptyIsNotCommitted ==
  ASSUME NEW data \in Seq(Buffers),
         ~(Len(Units(data)) < CommitThreshold /\ Len(data) < MaxBlocks \div 2)
  PROVE  data # <<>>
<1>1. SUFFICES ASSUME data = <<>> PROVE FALSE
  OBVIOUS
<1>2. Len(Units(data)) = 0 /\ Len(data) = 0
  BY <1>1, EmptyUnits
<1>3. CommitThreshold > 0
  BY SchedulerAssumption
<1>4. MaxBlocks \div 2 >= 1 /\ MaxBlocks \div 2 \in Int
  BY HalfOfBlocks, SchedulerAssumption, FS_CardinalityType DEF MaxBlocks
<1> QED
  BY <1>2, <1>3, <1>4

LEMMA OneMessage ==
  ASSUME NEW x
  PROVE  /\ Append(<<>>, x) = <<x>>
         /\ Head(<<x>>) = x
         /\ Tail(<<x>>) = <<>>
         /\ <<x>> # <<>>
  OBVIOUS

------------------------------------------------------------------------------
(* Control: where the messages are, what the main thread is in, and whether  *)
(* a batch is being written.                                                 *)

LEMMA ControlInit == Init => Control
<1> SUFFICES ASSUME Init PROVE Control
  OBVIOUS
<1> USE DEF Init, ChanInit
<1>1. ControlTypeOK
  <2>1. \A S : <<>> \in Seq(S)
    BY EmptySeq
  <2>2. ChanControlTypeOK
    BY <2>1 DEF ChanControlTypeOK, NoError
  <2>3. size \in [Files -> Nat]
    OBVIOUS
  <2> QED
    BY <2>1, <2>2, <2>3 DEF ControlTypeOK, FileOrNone
<1>2. WrittenIffExecuting /\ ChannelPhase /\ MainPhase
  BY DEF WrittenIffExecuting, ChannelPhase, MainPhase
<1> QED
  BY <1>1, <1>2 DEF Control

\* What the helpers do to the variables of Control.
LEMMA ProcessIoResultControl ==
  ASSUME ControlTypeOK, NEW amend \in SUBSET m_amend, ProcessIoResult(amend)
  PROVE  /\ m_data' \in Seq(Buffers)
         /\ m_data_written' = <<>>
         /\ m_amend' = amend
         /\ m_buffers' \subseteq Buffers
         /\ size' \in [Files -> Nat]
<1> DEFINE k == BlocksDone
           done == SubSeq(m_data_written, 1, k)
           rest == SubSeq(m_data_written, k + 1, Len(m_data_written))
<1>1. /\ m_data \in Seq(Buffers) /\ m_data_written \in Seq(Buffers)
      /\ m_amend \subseteq Buffers /\ m_buffers \subseteq Buffers
      /\ size \in [Files -> Nat] /\ m_cur_req.written \in Nat
  BY DEF ControlTypeOK, ChanControlTypeOK
<1>2. k \in 0 .. Len(m_data_written) /\ Len(m_data_written) \in Nat
  BY <1>1, BlocksDoneType, LenProperties
<1>3. done \in Seq(Buffers) /\ rest \in Seq(Buffers)
  <2>1. \A i \in 1 .. Len(m_data_written) : m_data_written[i] \in Buffers
    BY <1>1, ElementOfSeq
  <2>2. \A i \in 1 .. k : m_data_written[i] \in Buffers
    BY <1>2, <2>1
  <2>3. \A i \in k + 1 .. Len(m_data_written) : m_data_written[i] \in Buffers
    BY <1>2, <2>1
  <2>4. k \in Int /\ k + 1 \in Int /\ Len(m_data_written) \in Int
    BY <1>2
  <2> QED
    BY <2>2, <2>3, <2>4, SubSeqProperties
<1>4. /\ m_data' = rest \o m_data
      /\ m_data_written' = <<>>
      /\ m_amend' = amend
      /\ m_buffers' = m_buffers \cup Range(done) \cup (m_amend \ amend)
      /\ size' = IF m_file \in Files
                 THEN [size EXCEPT ![m_file] = @ + m_cur_req.written] ELSE size
  BY DEF ProcessIoResult, BlocksDone, Requeue, AddSize
<1>5. Range(done) \subseteq Buffers
  BY <1>3, RangeOfSeq
<1> HIDE DEF done, rest, k
<1>6. m_data' \in Seq(Buffers)
  BY <1>1, <1>3, <1>4, ConcatProperties
<1>7. m_buffers' \subseteq Buffers
  BY <1>1, <1>4, <1>5
<1>8. size' \in [Files -> Nat]
  BY <1>1, <1>4
<1> QED
  BY <1>4, <1>6, <1>7, <1>8

\* The channel between requests, and just after one was accepted.
ChanIdle ==
  m_state = "IS_IDLE" /\ to_main = 0 /\ to_thread = <<>> /\ io_thread = "read"
ChanRequested ==
  m_state = "IS_EXECUTING" /\ to_main = 0 /\ to_thread = <<"ITMT_IO">> /\ io_thread = "read"

LEMMA IdleChannel ==
  ASSUME Control, m_state # "IS_EXECUTING", main \notin {"join", "gone"}
  PROVE  ChanIdle
  BY DEF Control, ControlTypeOK, ChanControlTypeOK, ChannelPhase, ChanIdle

\* In a handler or a callback, nothing executes when nothing is being written.
LEMMA NothingExecutes ==
  ASSUME Control, main \notin {"join", "gone"}, m_data_written = <<>>, flushing # "await"
  PROVE  ChanIdle
  BY IdleChannel DEF Control, WrittenIffExecuting

LEMMA WaitIoControl ==
  ASSUME Control, main \notin {"join", "gone"}, WaitIo
  PROVE  ChanIdle' /\ m_cur_req' = m_cur_req
<1>1. CASE m_state = "IS_IDLE"
  <2>1. ChanIdle
    BY <1>1, IdleChannel
  <2> QED
    BY <1>1, <2>1 DEF WaitIo, ChanIdle
<1>2. CASE m_state = "IS_EXECUTING"
  BY <1>2 DEF WaitIo, ChanIdle, Control, ChannelPhase
<1> QED
  BY <1>1, <1>2 DEF WaitIo

LEMMA RequestControl ==
  ASSUME ControlTypeOK, ChanIdle, Request(m_file)
  PROVE  /\ ChanRequested'
         /\ m_cur_req' \in [file : Files \cup {NoFile}, written : Nat, err : Errors \cup {NoError}]
<1>1. m_state # "IS_EXECUTING"
  BY DEF ChanIdle
<1>2. ChanRequested'
  BY <1>1, OneMessage DEF Request, ChanIdle, ChanRequested
<1>3. m_cur_req' \in [file : Files \cup {NoFile}, written : Nat, err : Errors \cup {NoError}]
  BY DEF Request, ControlTypeOK, ChanControlTypeOK, FileOrNone
<1> QED
  BY <1>2, <1>3

LEMMA CommitAllControl ==
  ASSUME ControlTypeOK, ChanIdle, m_data_written = <<>>,
         NEW data \in Seq(Buffers), NEW amend \in SUBSET Buffers,
         CommitAll(data, amend)
  PROVE  /\ m_amend' = {} /\ m_data' = <<>> /\ m_data_written' = data
         /\ m_buffers' = m_buffers \cup amend
         /\ ChanRequested'
         /\ m_cur_req' \in [file : Files \cup {NoFile}, written : Nat, err : Errors \cup {NoError}]
<1>1. m_data_written' = data
  BY ConcatEmptySeq DEF CommitAll
<1> QED
  BY <1>1, RequestControl DEF CommitAll

LEMMA CommitDataControl ==
  ASSUME ControlTypeOK, ChanIdle, m_data_written = <<>>,
         NEW data \in Seq(Buffers), NEW amend \in SUBSET Buffers,
         CommitData(data, amend)
  PROVE  /\ m_amend' = {} /\ m_buffers' = m_buffers \cup amend
         /\ \/ m_data' = data /\ m_data_written' = <<>> /\ UNCHANGED chanVars
            \/ m_data' = <<>> /\ m_data_written' = data /\ data # <<>> /\ ChanRequested'
         /\ m_cur_req' \in [file : Files \cup {NoFile}, written : Nat, err : Errors \cup {NoError}]
<1> DEFINE few == Len(Units(data)) < CommitThreshold /\ Len(data) < MaxBlocks \div 2
<1>1. CASE few
  BY <1>1 DEF CommitData, chanVars, ControlTypeOK, ChanControlTypeOK
<1>2. CASE ~few
  <2>1. data # <<>>
    BY <1>2, EmptyIsNotCommitted
  <2>2. CommitAll(data, amend)
    BY <1>2 DEF CommitData
  <2> QED
    BY <2>1, <2>2, CommitAllControl
<1> QED
  BY <1>1, <1>2

\* The types of the channel's variables follow from its phase.
Requests == [file : Files \cup {NoFile}, written : Nat, err : Errors \cup {NoError}]

LEMMA PhaseTypes ==
  ASSUME ChannelPhase', m_cur_req' \in Requests, m_data_written' \in Seq(Buffers)
  PROVE  ChanControlTypeOK'
<1>1. /\ <<>> \in Seq({"ITMT_IO", "ITMT_QUIT"})
      /\ <<"ITMT_IO">> \in Seq({"ITMT_IO", "ITMT_QUIT"})
      /\ <<"ITMT_QUIT">> \in Seq({"ITMT_IO", "ITMT_QUIT"})
  OBVIOUS
<1>2. to_thread' \in Seq({"ITMT_IO", "ITMT_QUIT"})
  BY <1>1 DEF ChannelPhase
<1>3. /\ m_state' \in {"IS_IDLE", "IS_EXECUTING"} /\ to_main' \in Nat
      /\ io_thread' \in {"read", "do_io", "respond", "exited"}
  BY DEF ChannelPhase
<1> QED
  BY <1>2, <1>3 DEF ChanControlTypeOK, Requests

\* The operations of a client that leave the channel and the vector alone.
LEMMA ClientControl ==
  ASSUME Control,
         \/ GetFreeBuffer
         \/ \E b \in Buffers : Fill(b) \/ Drop(b) \/ FreeBuffer(b)
         \/ \E f \in Files : Open(f)
         \/ DiscardQueue
  PROVE  Control'
<1> USE DEF Control
<1>1. UNCHANGED <<chanVars, loopVars, m_data_written>>
  BY DEF GetFreeBuffer, Fill, Drop, FreeBuffer, Open, SetFile, DiscardQueue
<1>2. UNCHANGED m_file \/ m_file = NoFile
  BY DEF GetFreeBuffer, Fill, Drop, FreeBuffer, Open, SetFile, DiscardQueue
<1>3. (\E f \in Files : m_file' = f) \/ UNCHANGED m_file
  BY DEF GetFreeBuffer, Fill, Drop, FreeBuffer, Open, SetFile, DiscardQueue
<1>4. /\ ChanControlTypeOK' /\ m_file' \in FileOrNone
      /\ main' \in {"poll", "dispatch", "reading", "callback", "join", "gone"}
      /\ revents' \in BOOLEAN
      /\ flushing' \in {"no", "settle", "commit", "await", "report"}
  BY <1>1, <1>3 DEF ControlTypeOK, ChanControlTypeOK, FileOrNone, chanVars, loopVars
<1>5. /\ m_buffers' \subseteq Buffers /\ held' \subseteq Buffers
      /\ m_data' \in Seq(Buffers) /\ m_amend' \subseteq Buffers
      /\ m_report_buf_avail' \in BOOLEAN /\ size' \in [Files -> Nat]
      /\ next_unit' \in Nat
  <2> USE DEF ControlTypeOK
  <2>1. CASE GetFreeBuffer
    BY <2>1 DEF GetFreeBuffer
  <2>2. CASE \E b \in Buffers : Fill(b) \/ Drop(b) \/ FreeBuffer(b)
    BY <2>2 DEF Fill, Drop, FreeBuffer
  <2>3. CASE \E f \in Files : Open(f)
    BY <2>3 DEF Open, SetFile
  <2>4. CASE DiscardQueue
    <3>1. Range(m_data) \subseteq Buffers
      BY RangeOfSeq
    <3>2. <<>> \in Seq(Buffers)
      BY EmptySeq
    <3> QED
      BY <2>4, <3>1, <3>2 DEF DiscardQueue
  <2> QED
    BY <2>1, <2>2, <2>3, <2>4
<1>6. WrittenIffExecuting' /\ ChannelPhase'
  BY <1>1 DEF WrittenIffExecuting, ChannelPhase, chanVars, loopVars
<1>7. MainPhase'
  BY <1>1, <1>2 DEF MainPhase, chanVars, loopVars
<1> QED
  BY <1>4, <1>5, <1>6, <1>7 DEF ControlTypeOK

\* Putting a block in the queue, and committing it or not.
LEMMA EnqueueControl ==
  ASSUME Control, NEW b \in Buffers, Enqueue(b)
  PROVE  Control'
<1> USE DEF Control
<1>1. /\ main = "dispatch" /\ flushing = "no" /\ m_file # NoFile
      /\ held' = held \ {b}
      /\ UNCHANGED <<loopVars, m_file, m_report_buf_avail, size, next_unit>>
  BY DEF Enqueue, InHandler, EnqueueData, EnqueueOffset
<1>2. PICK data \in Seq(Buffers), amend \in SUBSET Buffers : PutInQueue(data, amend)
  <2>1. Append(m_data, b) \in Seq(Buffers) /\ m_data \in Seq(Buffers)
    BY AppendProperties DEF ControlTypeOK
  <2>2. m_amend \in SUBSET Buffers /\ m_amend \cup {b} \in SUBSET Buffers
    BY DEF ControlTypeOK
  <2> QED
    BY <2>1, <2>2 DEF Enqueue, EnqueueData, EnqueueOffset
<1>3. CASE m_data_written = <<>>
  <2>1. ChanIdle
    BY <1>1, <1>3, NothingExecutes
  <2>2. CommitData(data, amend)
    BY <1>2, <1>3 DEF PutInQueue
  <2>3. /\ m_amend' = {} /\ m_buffers' = m_buffers \cup amend
        /\ \/ m_data' = data /\ m_data_written' = <<>> /\ UNCHANGED chanVars
           \/ m_data' = <<>> /\ m_data_written' = data /\ data # <<>> /\ ChanRequested'
        /\ m_cur_req' \in Requests
    BY <1>3, <2>1, <2>2, CommitDataControl DEF Requests
  <2>4. ChannelPhase' /\ WrittenIffExecuting'
    BY <1>1, <2>1, <2>3 DEF ChanIdle, ChanRequested, chanVars, loopVars, ChannelPhase, WrittenIffExecuting
  <2>5. m_data' \in Seq(Buffers) /\ m_data_written' \in Seq(Buffers)
    BY <2>3, EmptySeq
  <2>6. ChanControlTypeOK'
    BY <2>3, <2>4, <2>5, PhaseTypes DEF Requests
  <2>7. ControlTypeOK'
    BY <1>1, <2>3, <2>5, <2>6 DEF ControlTypeOK, loopVars
  <2>8. MainPhase'
    BY <1>1 DEF MainPhase, loopVars
  <2> QED
    BY <2>4, <2>7, <2>8
<1>4. CASE m_data_written # <<>>
  <2>1. m_data' = data /\ m_amend' = amend /\ UNCHANGED <<m_buffers, m_data_written, chanVars>>
    BY <1>2, <1>4 DEF PutInQueue
  <2> QED
    BY <1>1, <2>1 DEF ControlTypeOK, ChanControlTypeOK, WrittenIffExecuting, ChannelPhase,
                      MainPhase, chanVars, loopVars
<1> QED
  BY <1>3, <1>4

\* Collecting a result: close(), and the two waits of flush().  In each the batch
\* is over, nothing is in flight, and the types hold.
LEMMA CollectControl ==
  ASSUME Control, main \notin {"join", "gone"}, NEW amend \in SUBSET m_amend,
         WaitIo, ProcessIoResult(amend)
  PROVE  /\ ChanIdle' /\ m_cur_req' = m_cur_req /\ m_data_written' = <<>>
         /\ m_data' \in Seq(Buffers) /\ m_amend' \subseteq Buffers
         /\ m_buffers' \subseteq Buffers /\ size' \in [Files -> Nat]
<1>1. ChanIdle' /\ m_cur_req' = m_cur_req
  BY WaitIoControl
<1>2. ControlTypeOK
  BY DEF Control
<1>3. /\ m_data' \in Seq(Buffers) /\ m_data_written' = <<>> /\ m_amend' = amend
      /\ m_buffers' \subseteq Buffers /\ size' \in [Files -> Nat]
  BY <1>2, ProcessIoResultControl
<1> QED
  BY <1>1, <1>2, <1>3 DEF ControlTypeOK

\* Control holds once the channel is idle and nothing is being written.
LEMMA QuietControl ==
  ASSUME Control, ChanIdle', m_data_written' = <<>>, m_cur_req' \in Requests,
         m_data' \in Seq(Buffers), m_amend' \subseteq Buffers, m_buffers' \subseteq Buffers,
         size' \in [Files -> Nat], held' = held, next_unit' = next_unit,
         m_file' \in FileOrNone, m_report_buf_avail' \in BOOLEAN,
         main' \in {"poll", "dispatch", "reading", "callback"}, revents' \in BOOLEAN,
         flushing' \in {"no", "settle", "commit", "await", "report"},
         flushing' # "await", flushing' # "no" => main' = "dispatch",
         flushing' \in {"settle", "commit"} => m_file' # NoFile
  PROVE  Control'
<1>1. ChannelPhase' /\ WrittenIffExecuting' /\ MainPhase'
  BY DEF ChannelPhase, WrittenIffExecuting, MainPhase, ChanIdle
<1>2. ChanControlTypeOK'
  BY <1>1, PhaseTypes, EmptySeq
<1> QED
  BY <1>1, <1>2 DEF Control, ControlTypeOK

LEMMA CloseControl ==
  ASSUME Control, Close
  PROVE  Control'
<1>1. /\ main \in {"dispatch", "callback"} /\ flushing = "no" /\ m_file' = NoFile
      /\ UNCHANGED <<loopVars, held, m_report_buf_avail, next_unit>>
  BY DEF Close, InHandlerOrCallback
<1>2. m_cur_req \in Requests /\ m_data_written \in Seq(Buffers)
  BY DEF Control, ControlTypeOK, ChanControlTypeOK, Requests
<1>3. /\ ChanIdle' /\ m_cur_req' = m_cur_req /\ m_data_written' = <<>>
      /\ m_data' \in Seq(Buffers) /\ m_amend' \subseteq Buffers
      /\ m_buffers' \subseteq Buffers /\ size' \in [Files -> Nat]
  <2>1. CASE m_data_written # <<>>
    <3>1. WaitIo /\ ProcessIoResult({})
      BY <2>1 DEF Close
    <3> QED
      BY <1>1, <3>1, CollectControl
  <2>2. CASE m_data_written = <<>>
    <3>1. ChanIdle
      BY <1>1, <2>2, NothingExecutes
    <3>2. UNCHANGED <<chanVars, m_data, m_data_written, m_amend, m_buffers, size>>
      BY <2>2 DEF Close
    <3> QED
      BY <2>2, <3>1, <3>2 DEF ChanIdle, chanVars, Control, ControlTypeOK
  <2> QED
    BY <2>1, <2>2
<1> QED
  BY <1>1, <1>2, <1>3, QuietControl DEF loopVars, Control, ControlTypeOK, FileOrNone

LEMMA FlushControl ==
  ASSUME Control, Flush \/ FlushStep
  PROVE  Control'
<1> USE DEF Control
<1>0. m_cur_req \in Requests /\ m_data_written \in Seq(Buffers)
  BY DEF ControlTypeOK, ChanControlTypeOK, Requests
<1>1. CASE Flush
  BY <1>1 DEF Flush, InHandler, schedVars, chanVars, ControlTypeOK, ChanControlTypeOK,
              WrittenIffExecuting, ChannelPhase, MainPhase
<1>2. CASE FlushSettle
  <2>1. /\ flushing = "settle" /\ main = "dispatch" /\ m_file # NoFile
        /\ flushing' = "commit"
        /\ UNCHANGED <<main, revents, held, m_file, m_report_buf_avail, next_unit>>
    BY <1>2 DEF FlushSettle, MainPhase
  <2>2. /\ ChanIdle' /\ m_cur_req' = m_cur_req /\ m_data_written' = <<>>
        /\ m_data' \in Seq(Buffers) /\ m_amend' \subseteq Buffers
        /\ m_buffers' \subseteq Buffers /\ size' \in [Files -> Nat]
    <3>1. CASE m_data_written # <<>>
      <4>1. WaitIo /\ ProcessIoResult(m_amend)
        BY <1>2, <3>1 DEF FlushSettle
      <4> QED
        BY <2>1, <4>1, CollectControl
    <3>2. CASE m_data_written = <<>>
      <4>1. ChanIdle
        BY <2>1, <3>2, NothingExecutes
      <4>2. UNCHANGED <<chanVars, m_data, m_data_written, m_amend, m_buffers, size>>
        BY <1>2, <3>2 DEF FlushSettle
      <4> QED
        BY <3>2, <4>1, <4>2 DEF ChanIdle, chanVars, ControlTypeOK
    <3> QED
      BY <3>1, <3>2
  <2> QED
    BY <1>0, <2>1, <2>2, QuietControl DEF ControlTypeOK
<1>3. CASE FlushCommit
  <2>1. /\ flushing = "commit" /\ main = "dispatch" /\ m_file # NoFile /\ m_data_written = <<>>
        /\ UNCHANGED <<main, revents, held, m_file, m_report_buf_avail, size, next_unit>>
    BY <1>3 DEF FlushCommit, MainPhase
  <2>2. ChanIdle
    BY <2>1, NothingExecutes
  <2>3. CASE m_data # <<>> \/ m_amend # {}
    <3>1. CommitAll(m_data, m_amend) /\ flushing' = "await"
      BY <1>3, <2>3 DEF FlushCommit
    <3>2. m_data \in Seq(Buffers) /\ m_amend \in SUBSET Buffers /\ m_buffers \subseteq Buffers
      BY DEF ControlTypeOK
    <3>3. /\ m_amend' = {} /\ m_data' = <<>> /\ m_data_written' = m_data
          /\ m_buffers' = m_buffers \cup m_amend /\ ChanRequested' /\ m_cur_req' \in Requests
      BY <2>1, <2>2, <3>1, <3>2, CommitAllControl DEF Requests
    <3>4. ChannelPhase' /\ WrittenIffExecuting' /\ MainPhase'
      BY <2>1, <3>1, <3>3 DEF ChannelPhase, WrittenIffExecuting, MainPhase, ChanRequested
    <3>5. ChanControlTypeOK'
      BY <3>2, <3>3, <3>4, PhaseTypes
    <3>6. <<>> \in Seq(Buffers)
      BY EmptySeq
    <3> QED
      BY <2>1, <3>1, <3>2, <3>3, <3>4, <3>5, <3>6 DEF ControlTypeOK
  <2>4. CASE ~(m_data # <<>> \/ m_amend # {})
    <3>1. /\ flushing' = "report"
          /\ UNCHANGED <<chanVars, m_data, m_amend, m_buffers, m_data_written>>
      BY <1>3, <2>4 DEF FlushCommit
    <3>2. ChanIdle' /\ m_cur_req' = m_cur_req
      BY <2>2, <3>1 DEF ChanIdle, chanVars
    <3> QED
      BY <1>0, <2>1, <3>1, <3>2, QuietControl DEF ControlTypeOK
  <2> QED
    BY <2>3, <2>4
<1>4. CASE FlushAwait
  <2>1. /\ flushing = "await" /\ main = "dispatch" /\ flushing' = "report"
        /\ WaitIo /\ ProcessIoResult(m_amend)
        /\ UNCHANGED <<main, revents, held, m_file, m_report_buf_avail, next_unit>>
    BY <1>4 DEF FlushAwait, MainPhase
  <2>2. /\ ChanIdle' /\ m_cur_req' = m_cur_req /\ m_data_written' = <<>>
        /\ m_data' \in Seq(Buffers) /\ m_amend' \subseteq Buffers
        /\ m_buffers' \subseteq Buffers /\ size' \in [Files -> Nat]
    BY <2>1, CollectControl
  <2> QED
    BY <1>0, <2>1, <2>2, QuietControl DEF ControlTypeOK
<1>5. CASE FlushReport
  <2>1. m_report_buf_avail' \in BOOLEAN
    BY <1>5 DEF FlushReport, ReportBufAvail
  <2> QED
    BY <1>5, <2>1 DEF FlushReport, chanVars, ControlTypeOK, ChanControlTypeOK,
                      WrittenIffExecuting, ChannelPhase, MainPhase
<1> QED
  BY <1>1, <1>2, <1>3, <1>4, <1>5 DEF FlushStep

\* The main thread's loop, and the end of it.
LEMMA LoopControl ==
  ASSUME Control, LoopStep \/ Stop
  PROVE  Control'
<1> USE DEF Control
<1>0. m_cur_req \in Requests /\ m_data_written \in Seq(Buffers)
  BY DEF ControlTypeOK, ChanControlTypeOK, Requests
<1>1. CASE Poll \/ EndRound \/ Process
  <2>1. /\ main \in {"poll", "dispatch"} /\ main' \in {"poll", "dispatch", "reading"}
        /\ flushing = "no"
        /\ UNCHANGED <<chanVars, schedVars, flushing, next_unit>>
    BY <1>1 DEF Poll, EndRound, Process, InHandler, MainPhase
  <2>2. revents' \in BOOLEAN
    <3>1. (to_main > 0) \in BOOLEAN
      OBVIOUS
    <3> QED
      BY <1>1, <3>1 DEF Poll, EndRound, Process, ControlTypeOK
  <2>3. ControlTypeOK'
    BY <2>1, <2>2 DEF chanVars, schedVars, ControlTypeOK, ChanControlTypeOK
  <2>4. WrittenIffExecuting' /\ ChannelPhase' /\ MainPhase'
    BY <2>1 DEF chanVars, schedVars, WrittenIffExecuting, ChannelPhase, MainPhase
  <2> QED
    BY <2>3, <2>4
<1>2. CASE OnIoDone
  <2>1. /\ main = "reading" /\ main' = "callback" /\ ReadResult /\ ProcessIoResult(m_amend)
        /\ flushing = "no"
        /\ UNCHANGED <<revents, flushing, held, m_file, m_report_buf_avail, next_unit>>
    BY <1>2 DEF OnIoDone, MainPhase, ControlTypeOK
  <2>2. ChanIdle' /\ m_cur_req' = m_cur_req
    BY <2>1 DEF ReadResult, ChanIdle, ChannelPhase
  <2>3. /\ m_data' \in Seq(Buffers) /\ m_data_written' = <<>> /\ m_amend' = m_amend
        /\ m_buffers' \subseteq Buffers /\ size' \in [Files -> Nat]
    BY <2>1, ProcessIoResultControl
  <2> QED
    BY <1>0, <2>1, <2>2, <2>3, QuietControl DEF ControlTypeOK
<1>3. CASE CallbackDone
  <2>1. /\ main = "callback" /\ main' = "dispatch" /\ m_data_written = <<>> /\ flushing = "no"
        /\ UNCHANGED <<revents, flushing, held, m_file, size, next_unit>>
        /\ m_report_buf_avail' \in BOOLEAN
    BY <1>3 DEF CallbackDone, MainPhase, ReportBufAvail, ControlTypeOK
  <2>2. ChanIdle
    BY <2>1, NothingExecutes
  <2>3. CASE m_file = NoFile
    <3>1. UNCHANGED <<chanVars, m_data, m_amend, m_buffers, m_data_written>>
      BY <1>3, <2>3 DEF CallbackDone
    <3>2. ChanIdle' /\ m_cur_req' = m_cur_req
      BY <2>2, <3>1 DEF ChanIdle, chanVars
    <3> QED
      BY <1>0, <2>1, <3>1, <3>2, QuietControl DEF ControlTypeOK
  <2>4. CASE m_file # NoFile
    <3>1. CommitData(m_data, m_amend)
      BY <1>3, <2>4 DEF CallbackDone
    <3>2. m_data \in Seq(Buffers) /\ m_amend \in SUBSET Buffers /\ m_buffers \subseteq Buffers
      BY DEF ControlTypeOK
    <3>3. /\ m_amend' = {} /\ m_buffers' = m_buffers \cup m_amend
          /\ \/ m_data' = m_data /\ m_data_written' = <<>> /\ UNCHANGED chanVars
             \/ m_data' = <<>> /\ m_data_written' = m_data /\ m_data # <<>> /\ ChanRequested'
          /\ m_cur_req' \in Requests
      BY <2>1, <2>2, <3>1, <3>2, CommitDataControl DEF Requests
    <3>4. m_data' \in Seq(Buffers) /\ m_data_written' \in Seq(Buffers)
      BY <3>2, <3>3, EmptySeq
    <3>5. ChannelPhase' /\ WrittenIffExecuting'
      BY <2>1, <2>2, <3>3 DEF ChannelPhase, WrittenIffExecuting, ChanIdle, ChanRequested, chanVars
    <3>6. MainPhase'
      BY <2>1, <2>4 DEF MainPhase
    <3>7. ChanControlTypeOK'
      BY <3>3, <3>4, <3>5, PhaseTypes
    <3> QED
      BY <2>1, <3>2, <3>3, <3>4, <3>5, <3>6, <3>7 DEF ControlTypeOK
  <2> QED
    BY <2>3, <2>4
<1>4. CASE Stop
  <2>1. /\ main = "dispatch" /\ main' = "join" /\ flushing = "no" /\ m_data_written = <<>>
        /\ SendQuit /\ UNCHANGED <<schedVars, revents, flushing, next_unit>>
    BY <1>4 DEF Stop, InHandler, MainPhase
  <2>2. ChanIdle
    BY <2>1, NothingExecutes
  <2>3. ChannelPhase' /\ WrittenIffExecuting' /\ MainPhase'
    BY <2>1, <2>2, OneMessage DEF SendQuit, ChanIdle, ChannelPhase, WrittenIffExecuting,
                                   MainPhase, schedVars
  <2>4. ChanControlTypeOK'
    BY <1>0, <2>1, <2>3, PhaseTypes DEF SendQuit, schedVars
  <2> QED
    BY <2>1, <2>3, <2>4 DEF ControlTypeOK, schedVars
<1>5. CASE Join
  BY <1>5 DEF Join, schedVars, chanVars, ControlTypeOK, ChanControlTypeOK,
              WrittenIffExecuting, ChannelPhase, MainPhase
<1> QED
  BY <1>1, <1>2, <1>3, <1>4, <1>5 DEF LoopStep

LEMMA ThreadControl ==
  ASSUME Control, ThreadStep
  PROVE  Control'
<1> USE DEF Control
<1>1. /\ UNCHANGED <<m_buffers, held, m_data, m_amend, m_file, m_report_buf_avail, size,
                     loopVars, next_unit, m_data_written, m_state>>
      /\ m_data_written \in Seq(Buffers)
  BY DEF ThreadStep, IoThread, ThreadRead, ThreadWrite, ThreadRespond, ControlTypeOK,
         ChanControlTypeOK
<1>2. m_cur_req' \in Requests
  <2>1. CASE ThreadWrite
    <3>1. PICK n \in 0 .. Len(Units(m_data_written)), e \in Errors \cup {NoError} :
            m_cur_req' = [m_cur_req EXCEPT !.written = n, !.err = e]
      BY <2>1 DEF ThreadWrite
    <3>2. n \in Nat
      OBVIOUS
    <3> QED
      BY <3>1, <3>2 DEF Requests, ControlTypeOK, ChanControlTypeOK
  <2>2. CASE ThreadRead \/ ThreadRespond
    BY <2>2 DEF ThreadRead, ThreadRespond, Requests, ControlTypeOK, ChanControlTypeOK
  <2> QED
    BY <2>1, <2>2 DEF ThreadStep, IoThread
<1>3. ChannelPhase'
  <2>1. CASE ThreadRead
    BY <1>1, <2>1, OneMessage DEF ThreadRead, ChannelPhase, loopVars
  <2>2. CASE ThreadWrite
    BY <1>1, <2>2 DEF ThreadWrite, ChannelPhase, loopVars
  <2>3. CASE ThreadRespond
    BY <1>1, <2>3 DEF ThreadRespond, ChannelPhase, loopVars
  <2> QED
    BY <2>1, <2>2, <2>3 DEF ThreadStep, IoThread
<1>4. WrittenIffExecuting' /\ MainPhase'
  BY <1>1 DEF WrittenIffExecuting, MainPhase, loopVars
<1>5. ChanControlTypeOK'
  BY <1>1, <1>2, <1>3, PhaseTypes
<1> QED
  BY <1>1, <1>3, <1>4, <1>5 DEF ControlTypeOK, loopVars

LEMMA ControlStep ==
  ASSUME Control, [Next]_vars
  PROVE  Control'
<1>1. CASE LoopStep \/ Stop
  BY <1>1, LoopControl
<1>2. CASE Flush \/ FlushStep
  BY <1>2, FlushControl
<1>3. CASE ThreadStep
  BY <1>3, ThreadControl
<1>4. CASE \/ GetFreeBuffer
           \/ \E b \in Buffers : Fill(b) \/ Drop(b) \/ FreeBuffer(b)
           \/ \E f \in Files : Open(f)
           \/ DiscardQueue
  BY <1>4, ClientControl
<1>5. CASE \E b \in Buffers : Enqueue(b)
  BY <1>5, EnqueueControl
<1>6. CASE Close
  BY <1>6, CloseControl
<1>7. CASE UNCHANGED vars
  BY <1>7 DEF vars, chanVars, schedVars, loopVars, Control, ControlTypeOK, ChanControlTypeOK,
              WrittenIffExecuting, ChannelPhase, MainPhase
<1> QED
  BY <1>1, <1>2, <1>3, <1>4, <1>5, <1>6, <1>7 DEF Next

\* The control part of the type invariant, and the agreement between the queue,
\* the channel and the main thread, hold in every reachable state: the emptiness
\* of m_data_written, which enqueue(), flush() and close() test (io_sched.cpp),
\* says whether the I/O thread is at work.
THEOREM ControlInvariant == Spec => []Control
<1>1. Init => Control
  BY ControlInit
<1>2. Control /\ [Next]_vars => Control'
  BY ControlStep
<1> QED
  BY <1>1, <1>2, PTL DEF Spec

\* enqueue() may commit, and flush() and close() must wait, by the emptiness of
\* m_data_written alone: it tells in every reachable state whether a request
\* executes (io_sched.cpp, io_chan.cpp).
THEOREM WrittenIffExecutingHolds == Spec => []WrittenIffExecuting
<1>1. Control => WrittenIffExecuting
  BY DEF Control
<1> QED
  BY <1>1, ControlInvariant, PTL

\* Whatever the client and the two threads do, at most one message is in flight,
\* and none when the channel is idle: the response the main thread reads is the
\* one of the request that executes (IoChannel, io_chan.cpp).
THEOREM OneMessagePerRequestHolds == Spec => []OneMessagePerRequest
<1>1. Control => OneMessagePerRequest
  <2> SUFFICES ASSUME Control PROVE OneMessagePerRequest
    OBVIOUS
  <2> DEFINE IoMessages(s) == {i \in DOMAIN s : s[i] = "ITMT_IO"}
  <2>1. Cardinality(IoMessages(<<>>)) = 0
    BY FS_EmptySet, IoMessages(<<>>) = {}
  <2>2. Cardinality(IoMessages(<<"ITMT_QUIT">>)) = 0
    BY FS_EmptySet, IoMessages(<<"ITMT_QUIT">>) = {}
  <2>3. Cardinality(IoMessages(<<"ITMT_IO">>)) = 1
    BY FS_Singleton, IoMessages(<<"ITMT_IO">>) = {1}
  <2>4. Cardinality(IoMessages(to_thread)) = IF to_thread = <<"ITMT_IO">> THEN 1 ELSE 0
    <3>1. to_thread \in {<<>>, <<"ITMT_IO">>, <<"ITMT_QUIT">>}
      BY DEF Control, ChannelPhase
    <3>2. <<"ITMT_QUIT">> # <<"ITMT_IO">> /\ <<>> # <<"ITMT_IO">>
      OBVIOUS
    <3> QED
      BY <2>1, <2>2, <2>3, <3>1, <3>2
  <2> HIDE DEF IoMessages
  <2>5. InFlight = (IF to_thread = <<"ITMT_IO">> THEN 1 ELSE 0)
                     + (IF io_thread \in {"do_io", "respond"} THEN 1 ELSE 0) + to_main
    BY <2>4 DEF InFlight, IoMessages
  <2> QED
    BY <2>5 DEF Control, ChannelPhase, OneMessagePerRequest
<1> QED
  BY <1>1, ControlInvariant, PTL

------------------------------------------------------------------------------
(* Blocks: each is in one place.                                             *)

LEMMA RangeOfParts ==
  ASSUME NEW S, NEW s \in Seq(S), NEW k \in 0 .. Len(s)
  PROVE  LET done == SubSeq(s, 1, k)
             rest == SubSeq(s, k + 1, Len(s))
         IN /\ done \in Seq(S) /\ rest \in Seq(S)
            /\ Range(s) = Range(done) \cup Range(rest)
            /\ IsInjective(s) =>
                 IsInjective(done) /\ IsInjective(rest) /\ Range(done) \cap Range(rest) = {}
<1> DEFINE done == SubSeq(s, 1, k)
           rest == SubSeq(s, k + 1, Len(s))
<1>1. Len(s) \in Nat /\ DOMAIN s = 1 .. Len(s) /\ k \in Nat /\ k <= Len(s)
  BY LenProperties
<1>2. \A i \in 1 .. Len(s) : s[i] \in S
  BY ElementOfSeq
<1>3. /\ done \in Seq(S) /\ Len(done) = k
      /\ \A i \in 1 .. k : done[i] = s[i]
  <2>1. \A i \in 1 .. k : s[i] \in S
    BY <1>1, <1>2
  <2> QED
    BY <1>1, <2>1, SubSeqProperties
<1>4. /\ rest \in Seq(S) /\ Len(rest) = Len(s) - k
      /\ \A i \in 1 .. Len(s) - k : rest[i] = s[k + i]
  <2>1. \A i \in k + 1 .. Len(s) : s[i] \in S
    BY <1>1, <1>2
  <2>2. k + 1 \in Int /\ Len(s) \in Int /\ Len(s) - (k + 1) + 1 = Len(s) - k
    BY <1>1
  <2>3. /\ rest \in Seq(S)
        /\ Len(rest) = IF k + 1 <= Len(s) THEN Len(s) - (k + 1) + 1 ELSE 0
        /\ \A i \in 1 .. Len(s) - (k + 1) + 1 : rest[i] = s[k + 1 + i - 1]
    BY <2>1, <2>2, SubSeqProperties
  <2> HIDE DEF rest, done
  <2>4. Len(rest) = Len(s) - k
    <3>1. CASE k + 1 <= Len(s)
      BY <2>2, <2>3, <3>1
    <3>2. CASE ~(k + 1 <= Len(s))
      <4>1. Len(rest) = 0
        BY <2>3, <3>2
      <4>2. ASSUME NEW n \in Nat, NEW l \in Nat, n <= l, ~(n + 1 <= l) PROVE l - n = 0
        BY <4>2
      <4>3. Len(s) - k = 0
        BY <1>1, <3>2, <4>2
      <4> QED
        BY <4>1, <4>3
    <3> QED
      BY <3>1, <3>2
  <2>5. \A i \in 1 .. Len(s) - k : k + 1 + i - 1 = k + i
    BY <1>1
  <2> QED
    BY <2>2, <2>3, <2>4, <2>5
<1>5. DOMAIN done = 1 .. k /\ DOMAIN rest = 1 .. Len(s) - k
  BY <1>3, <1>4, LenProperties
<1>6. s = done \o rest
  <2>1. 1 \in 1 .. Len(s) + 1 /\ k \in 1 - 1 .. Len(s) /\ Len(s) \in k .. Len(s)
    BY <1>1
  <2>2. SubSeq(s, 1, k) \o SubSeq(s, k + 1, Len(s)) = SubSeq(s, 1, Len(s))
    BY <2>1, ConcatAdjacentSubSeq
  <2> QED
    BY <2>2, SubSeqFull
<1> HIDE DEF done, rest
<1>8. Range(s) = Range(done) \cup Range(rest)
  BY <1>3, <1>4, <1>6, RangeConcatenation
<1>9. ASSUME IsInjective(s)
      PROVE  IsInjective(done) /\ IsInjective(rest) /\ Range(done) \cap Range(rest) = {}
  <2>1. \A i, j \in 1 .. Len(s) : s[i] = s[j] => i = j
    BY <1>1, <1>9 DEF IsInjective
  <2>2. IsInjective(done)
    BY <1>1, <1>3, <1>5, <2>1 DEF IsInjective
  <2>3. IsInjective(rest)
    <3>1. \A i \in 1 .. Len(s) - k : k + i \in 1 .. Len(s)
      BY <1>1
    <3>2. \A i, j \in 1 .. Len(s) - k : k + i = k + j => i = j
      BY <1>1
    <3> QED
      BY <1>4, <1>5, <2>1, <3>1, <3>2 DEF IsInjective
  <2>4. ASSUME NEW x \in Range(done), x \in Range(rest) PROVE FALSE
    <3>1. PICK i \in 1 .. k : x = done[i]
      BY <1>5 DEF Range
    <3>2. PICK j \in 1 .. Len(s) - k : x = rest[j]
      BY <1>5, <2>4 DEF Range
    <3>3. i \in 1 .. Len(s) /\ k + j \in 1 .. Len(s) /\ i # k + j
      BY <1>1
    <3>4. s[i] = s[k + j]
      BY <1>3, <1>4, <3>1, <3>2
    <3> QED
      BY <2>1, <3>3, <3>4
  <2> QED
    BY <2>2, <2>3, <2>4
<1> QED
  BY <1>3, <1>4, <1>8, <1>9 DEF done, rest

LEMMA InjectiveConcat ==
  ASSUME NEW S, NEW s \in Seq(S), NEW t \in Seq(S),
         IsInjective(s), IsInjective(t), Range(s) \cap Range(t) = {}
  PROVE  IsInjective(s \o t)
<1> DEFINE u == s \o t
<1>1. Len(s) \in Nat /\ Len(t) \in Nat /\ DOMAIN s = 1 .. Len(s) /\ DOMAIN t = 1 .. Len(t)
  BY LenProperties
<1>2. /\ u \in Seq(S) /\ Len(u) = Len(s) + Len(t)
      /\ \A i \in 1 .. Len(s) + Len(t) : u[i] = IF i <= Len(s) THEN s[i] ELSE t[i - Len(s)]
  BY ConcatProperties
<1>3. DOMAIN u = 1 .. Len(s) + Len(t)
  BY <1>2, LenProperties
<1>4. \A i \in 1 .. Len(s), j \in 1 .. Len(t) : s[i] # t[j]
  BY <1>1 DEF Range
<1> HIDE DEF u
<1>5. SUFFICES ASSUME NEW i \in DOMAIN u, NEW j \in DOMAIN u, u[i] = u[j] PROVE i = j
  BY DEF IsInjective, u
<1>6. CASE i <= Len(s) /\ j <= Len(s)
  BY <1>1, <1>2, <1>3, <1>5, <1>6 DEF IsInjective
<1>7. CASE i <= Len(s) /\ ~(j <= Len(s))
  <2>1. i \in 1 .. Len(s) /\ j - Len(s) \in 1 .. Len(t)
    BY <1>1, <1>3, <1>7
  <2> QED
    BY <1>2, <1>3, <1>4, <1>5, <1>7, <2>1
<1>8. CASE ~(i <= Len(s)) /\ j <= Len(s)
  <2>1. j \in 1 .. Len(s) /\ i - Len(s) \in 1 .. Len(t)
    BY <1>1, <1>3, <1>8
  <2> QED
    BY <1>2, <1>3, <1>4, <1>5, <1>8, <2>1
<1>9. CASE ~(i <= Len(s)) /\ ~(j <= Len(s))
  <2>1. j - Len(s) \in 1 .. Len(t) /\ i - Len(s) \in 1 .. Len(t)
    BY <1>1, <1>3, <1>9
  <2>2. t[i - Len(s)] = t[j - Len(s)]
    BY <1>2, <1>3, <1>5, <1>9
  <2>3. i - Len(s) = j - Len(s)
    BY <1>1, <2>1, <2>2 DEF IsInjective
  <2> QED
    BY <1>1, <1>3, <2>3
<1> QED
  BY <1>6, <1>7, <1>8, <1>9

LEMMA AppendBlock ==
  ASSUME NEW S, NEW s \in Seq(S), NEW e \in S
  PROVE  /\ Range(Append(s, e)) = Range(s) \cup {e}
         /\ IsInjective(s) /\ e \notin Range(s) => IsInjective(Append(s, e))
<1> DEFINE t == <<e>>
<1>1. Append(s, e) = s \o t /\ t \in Seq(S)
  BY AppendIsConcat
<1>2. Range(t) = {e} /\ IsInjective(t)
  <2>1. DOMAIN t = {1} /\ t[1] = e
    OBVIOUS
  <2> QED
    BY <2>1 DEF Range, IsInjective
<1> HIDE DEF t
<1>3. Range(s \o t) = Range(s) \cup {e}
  BY <1>1, <1>2, RangeConcatenation
<1>4. ASSUME IsInjective(s), e \notin Range(s) PROVE IsInjective(s \o t)
  <2>1. Range(s) \cap Range(t) = {}
    BY <1>2, <1>4
  <2> QED
    BY <1>1, <1>2, <1>4, <2>1, InjectiveConcat
<1> QED
  BY <1>1, <1>3, <1>4

LEMMA NoBlocks == Range(<<>>) = {} /\ IsInjective(<<>>)
<1>1. DOMAIN <<>> = {}
  OBVIOUS
<1> QED
  BY <1>1 DEF Range, IsInjective

\* BuffersAccounted, of any five parts.
Accounted(idle, handed, queued, amending, written) ==
  /\ Buffers = idle \cup handed \cup Range(queued) \cup amending \cup Range(written)
  /\ idle \cap (handed \cup Range(queued) \cup amending \cup Range(written)) = {}
  /\ handed \cap (Range(queued) \cup amending \cup Range(written)) = {}
  /\ Range(queued) \cap (amending \cup Range(written)) = {}
  /\ amending \cap Range(written) = {}
  /\ IsInjective(queued)
  /\ IsInjective(written)

LEMMA AccountedParts ==
  /\ BuffersAccounted <=> Accounted(m_buffers, held, m_data, m_amend, m_data_written)
  /\ BuffersAccounted' <=> Accounted(m_buffers', held', m_data', m_amend', m_data_written')
  BY DEF BuffersAccounted, Accounted

\* Blocks whose write is over are idle again, and the rest is queued first.
LEMMA ResultAccounted ==
  ASSUME ControlTypeOK, BuffersAccounted, NEW amend \in SUBSET m_amend,
         ProcessIoResult(amend), held' = held
  PROVE  BuffersAccounted'
<1> DEFINE k == BlocksDone
           done == SubSeq(m_data_written, 1, k)
           rest == SubSeq(m_data_written, k + 1, Len(m_data_written))
<1>1. m_data \in Seq(Buffers) /\ m_data_written \in Seq(Buffers)
  BY DEF ControlTypeOK, ChanControlTypeOK
<1>2. k \in 0 .. Len(m_data_written)
  BY <1>1, BlocksDoneType
<1>3. /\ m_data' = rest \o m_data /\ m_data_written' = <<>> /\ m_amend' = amend
      /\ m_buffers' = m_buffers \cup Range(done) \cup (m_amend \ amend)
  BY DEF ProcessIoResult, BlocksDone, Requeue, AddSize
<1> HIDE DEF k
<1>4. /\ done \in Seq(Buffers) /\ rest \in Seq(Buffers)
      /\ Range(m_data_written) = Range(done) \cup Range(rest)
      /\ IsInjective(m_data_written) =>
           IsInjective(rest) /\ Range(done) \cap Range(rest) = {}
  BY <1>1, <1>2, RangeOfParts
<1> HIDE DEF done, rest
<1>5. Accounted(m_buffers, held, m_data, m_amend, m_data_written)
  BY AccountedParts
<1>6. Range(rest \o m_data) = Range(rest) \cup Range(m_data)
  BY <1>1, <1>4, RangeConcatenation
<1>7. IsInjective(rest \o m_data)
  <2>1. Range(rest) \cap Range(m_data) = {}
    BY <1>4, <1>5 DEF Accounted
  <2> QED
    BY <1>1, <1>4, <1>5, <2>1, InjectiveConcat DEF Accounted
<1>8. Accounted(m_buffers', held, m_data', amend, <<>>)
  <2>1. Range(<<>>) = {} /\ IsInjective(<<>>)
    BY NoBlocks
  <2>2. Range(m_data') = Range(rest) \cup Range(m_data) /\ IsInjective(m_data')
    BY <1>3, <1>6, <1>7
  <2>3. Range(done) \cap Range(rest) = {}
    BY <1>4, <1>5 DEF Accounted
  <2> QED
    BY <1>3, <1>4, <1>5, <2>1, <2>2, <2>3 DEF Accounted
<1> QED
  BY <1>3, <1>8, AccountedParts

LEMMA CommitAllAccounted ==
  ASSUME NEW data \in Seq(Buffers), NEW amend \in SUBSET Buffers,
         m_data_written = <<>>, CommitAll(data, amend),
         Accounted(m_buffers, held', data, amend, <<>>)
  PROVE  BuffersAccounted'
<1>1. m_data_written' = data /\ m_data' = <<>> /\ m_amend' = {} /\ m_buffers' = m_buffers \cup amend
  BY ConcatEmptySeq DEF CommitAll
<1>2. Accounted(m_buffers \cup amend, held', <<>>, {}, data)
  BY NoBlocks DEF Accounted
<1> QED
  BY <1>1, <1>2, AccountedParts

LEMMA CommitDataAccounted ==
  ASSUME NEW data \in Seq(Buffers), NEW amend \in SUBSET Buffers,
         m_data_written = <<>>, CommitData(data, amend),
         Accounted(m_buffers, held', data, amend, <<>>)
  PROVE  BuffersAccounted'
<1> DEFINE few == Len(Units(data)) < CommitThreshold /\ Len(data) < MaxBlocks \div 2
<1>1. CASE few
  <2>1. m_data_written' = <<>> /\ m_data' = data /\ m_amend' = {} /\ m_buffers' = m_buffers \cup amend
    BY <1>1 DEF CommitData
  <2>2. Accounted(m_buffers \cup amend, held', data, {}, <<>>)
    BY DEF Accounted
  <2> QED
    BY <2>1, <2>2, AccountedParts
<1>2. CASE ~few
  <2>1. CommitAll(data, amend)
    BY <1>2 DEF CommitData
  <2> QED
    BY <2>1, CommitAllAccounted
<1> QED
  BY <1>1, <1>2

LEMMA EnqueueAccounted ==
  ASSUME Control, BuffersAccounted, NEW b \in Buffers, Enqueue(b)
  PROVE  BuffersAccounted'
<1>1. /\ m_data \in Seq(Buffers) /\ m_amend \in SUBSET Buffers
      /\ Accounted(m_buffers, held, m_data, m_amend, m_data_written)
      /\ b \in held /\ held' = held \ {b}
  BY AccountedParts DEF Control, ControlTypeOK, Enqueue, EnqueueData, EnqueueOffset
<1>2. PICK data \in Seq(Buffers), amend \in SUBSET Buffers :
        /\ PutInQueue(data, amend)
        /\ Accounted(m_buffers, held', data, amend, m_data_written)
  <2>1. CASE EnqueueData(b)
    <3>1. /\ Append(m_data, b) \in Seq(Buffers)
          /\ Range(Append(m_data, b)) = Range(m_data) \cup {b}
          /\ b \notin Range(m_data) => IsInjective(Append(m_data, b))
      BY <1>1, AppendProperties, AppendBlock DEF Accounted
    <3>2. Accounted(m_buffers, held', Append(m_data, b), m_amend, m_data_written)
      BY <1>1, <3>1 DEF Accounted
    <3> QED
      BY <1>1, <2>1, <3>1, <3>2 DEF EnqueueData
  <2>2. CASE EnqueueOffset(b)
    <3>1. Accounted(m_buffers, held', m_data, m_amend \cup {b}, m_data_written)
      BY <1>1 DEF Accounted
    <3> QED
      BY <1>1, <2>2, <3>1 DEF EnqueueOffset
  <2> QED
    BY <2>1, <2>2 DEF Enqueue
<1>3. CASE m_data_written = <<>>
  BY <1>2, <1>3, CommitDataAccounted DEF PutInQueue
<1>4. CASE m_data_written # <<>>
  <2>1. m_data' = data /\ m_amend' = amend /\ UNCHANGED <<m_buffers, m_data_written>>
    BY <1>2, <1>4 DEF PutInQueue
  <2> QED
    BY <1>2, <2>1, AccountedParts
<1> QED
  BY <1>3, <1>4

LEMMA ClientAccounted ==
  ASSUME Control, BuffersAccounted,
         \/ GetFreeBuffer
         \/ \E b \in Buffers : Fill(b) \/ Drop(b) \/ FreeBuffer(b)
         \/ \E f \in Files : Open(f)
         \/ DiscardQueue
  PROVE  BuffersAccounted'
<1>1. Accounted(m_buffers, held, m_data, m_amend, m_data_written)
  BY AccountedParts
<1>2. CASE GetFreeBuffer
  <2>1. UNCHANGED <<m_data, m_amend, m_data_written>>
    BY <1>2 DEF GetFreeBuffer
  <2>2. CASE \E b \in m_buffers : m_buffers' = m_buffers \ {b} /\ held' = held \cup {b}
    <3>1. Accounted(m_buffers', held', m_data, m_amend, m_data_written)
      BY <1>1, <2>2 DEF Accounted
    <3> QED
      BY <2>1, <3>1, AccountedParts
  <2>3. CASE UNCHANGED <<m_buffers, held>>
    BY <1>1, <2>1, <2>3, AccountedParts
  <2> QED
    BY <1>2, <2>2, <2>3 DEF GetFreeBuffer
<1>3. CASE \E b \in Buffers : Fill(b) \/ Drop(b)
  <2>1. UNCHANGED <<m_buffers, held, m_data, m_amend, m_data_written>>
    BY <1>3 DEF Fill, Drop
  <2> QED
    BY <1>1, <2>1, AccountedParts
<1>4. ASSUME NEW b \in Buffers, FreeBuffer(b) PROVE BuffersAccounted'
  <2>1. /\ b \in held /\ held' = held \ {b} /\ m_buffers' = m_buffers \cup {b}
        /\ UNCHANGED <<m_data, m_amend, m_data_written>>
    BY <1>4 DEF FreeBuffer
  <2>2. Accounted(m_buffers', held', m_data, m_amend, m_data_written)
    BY <1>1, <2>1 DEF Accounted
  <2> QED
    BY <2>1, <2>2, AccountedParts
<1>5. CASE \E f \in Files : Open(f)
  <2>1. UNCHANGED <<m_buffers, held, m_data, m_amend, m_data_written>>
    BY <1>5 DEF Open, SetFile
  <2> QED
    BY <1>1, <2>1, AccountedParts
<1>6. CASE DiscardQueue
  <2>1. /\ m_buffers' = m_buffers \cup Range(m_data) \cup m_amend
        /\ m_data' = <<>> /\ m_amend' = {} /\ UNCHANGED <<held, m_data_written>>
    BY <1>6 DEF DiscardQueue
  <2>2. Accounted(m_buffers', held, <<>>, {}, m_data_written)
    BY <1>1, <2>1, NoBlocks DEF Accounted
  <2> QED
    BY <2>1, <2>2, AccountedParts
<1> QED
  BY <1>2, <1>3, <1>4, <1>5, <1>6

LEMMA AccountedStep ==
  ASSUME Control, BuffersAccounted, [Next]_vars
  PROVE  BuffersAccounted'
<1>1. /\ Accounted(m_buffers, held, m_data, m_amend, m_data_written)
      /\ ControlTypeOK /\ m_data \in Seq(Buffers)
      /\ m_amend \in SUBSET Buffers /\ m_amend \in SUBSET m_amend /\ {} \in SUBSET m_amend
  BY AccountedParts DEF Control, ControlTypeOK
<1>2. CASE UNCHANGED <<m_buffers, held, m_data, m_amend, m_data_written>>
  BY <1>1, <1>2, AccountedParts
<1>3. CASE \/ GetFreeBuffer
           \/ \E b \in Buffers : Fill(b) \/ Drop(b) \/ FreeBuffer(b)
           \/ \E f \in Files : Open(f)
           \/ DiscardQueue
  BY <1>3, ClientAccounted
<1>4. CASE \E b \in Buffers : Enqueue(b)
  BY <1>4, EnqueueAccounted
<1>5. CASE Close
  <2>1. CASE m_data_written # <<>>
    BY <1>1, <1>5, <2>1, ResultAccounted DEF Close
  <2>2. CASE m_data_written = <<>>
    BY <1>2, <1>5, <2>2 DEF Close
  <2> QED
    BY <2>1, <2>2
<1>6. CASE FlushSettle
  <2>1. CASE m_data_written # <<>>
    BY <1>1, <1>6, <2>1, ResultAccounted DEF FlushSettle
  <2>2. CASE m_data_written = <<>>
    BY <1>2, <1>6, <2>2 DEF FlushSettle
  <2> QED
    BY <2>1, <2>2
<1>7. CASE FlushCommit
  <2>1. m_data_written = <<>> /\ held' = held
    BY <1>7 DEF FlushCommit, Control, MainPhase
  <2>2. CASE m_data # <<>> \/ m_amend # {}
    BY <1>1, <1>7, <2>1, <2>2, CommitAllAccounted DEF FlushCommit
  <2>3. CASE ~(m_data # <<>> \/ m_amend # {})
    BY <1>2, <1>7, <2>1, <2>3 DEF FlushCommit
  <2> QED
    BY <2>2, <2>3
<1>8. CASE FlushAwait \/ OnIoDone
  BY <1>1, <1>8, ResultAccounted DEF FlushAwait, OnIoDone
<1>9. CASE CallbackDone
  <2>1. m_data_written = <<>> /\ held' = held
    BY <1>9 DEF CallbackDone, Control, MainPhase
  <2>2. CASE m_file # NoFile
    BY <1>1, <1>9, <2>1, <2>2, CommitDataAccounted DEF CallbackDone
  <2>3. CASE m_file = NoFile
    BY <1>2, <1>9, <2>1, <2>3 DEF CallbackDone
  <2> QED
    BY <2>2, <2>3
<1>10. CASE \/ Poll \/ EndRound \/ Process \/ Join \/ Stop \/ Flush \/ FlushReport \/ ThreadStep
            \/ UNCHANGED vars
  BY <1>2, <1>10 DEF Poll, EndRound, Process, Join, Stop, Flush, FlushReport, ThreadStep,
                     IoThread, ThreadRead, ThreadWrite, ThreadRespond, schedVars, vars
<1> QED
  BY <1>3, <1>4, <1>5, <1>6, <1>7, <1>8, <1>9, <1>10 DEF Next, LoopStep, FlushStep

\* No data block is lost or in two places, whatever the client does, for any
\* number of blocks: the idle stack, the client's hands, the queue and the
\* vector of the I/O thread (io_sched.cpp) share the blocks out.
THEOREM BuffersAccountedHolds == Spec => []BuffersAccounted
<1>1. Init => BuffersAccounted
  BY NoBlocks DEF Init, ChanInit, BuffersAccounted
<1>2. Control /\ BuffersAccounted /\ [Next]_vars => BuffersAccounted'
  BY AccountedStep
<1> QED
  BY <1>1, <1>2, ControlInvariant, PTL DEF Spec

------------------------------------------------------------------------------
(* What the I/O thread reads while it writes.                                *)

ContentOfBlocks == DOMAIN content = Buffers

LEMMA ContentStep ==
  ASSUME ContentOfBlocks, [Next]_vars
  PROVE  ContentOfBlocks'
<1> USE DEF ContentOfBlocks
<1>1. CASE UNCHANGED content
  BY <1>1
<1>2. ASSUME NEW b \in Buffers, Fill(b) PROVE ContentOfBlocks'
  BY <1>2 DEF Fill
<1>3. ASSUME NEW S, content' = Emptied(S) PROVE ContentOfBlocks'
  BY <1>3 DEF Emptied
<1>4. ASSUME NEW amend, ProcessIoResult(amend) PROVE ContentOfBlocks'
  BY <1>4 DEF ProcessIoResult
<1>5. CASE \E b \in Buffers : Fill(b) \/ Drop(b) \/ FreeBuffer(b) \/ Enqueue(b)
  BY <1>1, <1>2, <1>3, <1>5 DEF Drop, FreeBuffer, Enqueue, EnqueueData, EnqueueOffset
<1>6. CASE Close \/ FlushStep
  BY <1>1, <1>4, <1>6 DEF Close, FlushStep, FlushSettle, FlushCommit, FlushAwait, FlushReport
<1>7. CASE LoopStep
  BY <1>1, <1>4, <1>7 DEF LoopStep, Poll, EndRound, Process, OnIoDone, CallbackDone, Join, schedVars
<1>8. CASE GetFreeBuffer \/ DiscardQueue \/ Flush \/ Stop \/ (\E f \in Files : Open(f))
  BY <1>1, <1>3, <1>8 DEF GetFreeBuffer, DiscardQueue, Flush, Stop, Open, SetFile, schedVars
<1>9. CASE ThreadStep \/ UNCHANGED vars
  BY <1>1, <1>9 DEF ThreadStep, IoThread, ThreadRead, ThreadWrite, ThreadRespond, vars, schedVars
<1> QED
  BY <1>5, <1>6, <1>7, <1>8, <1>9 DEF Next

Undisturbed ==
  /\ m_data_written' = m_data_written
  /\ m_cur_req'.file = m_cur_req.file
  /\ m_file' = m_file
  /\ \A b \in Range(m_data_written) : content'[b] = content[b]

LEMMA UndisturbedStep ==
  ASSUME Control, BuffersAccounted, ContentOfBlocks, Next,
         m_state = "IS_EXECUTING", m_state' = "IS_EXECUTING"
  PROVE  Undisturbed
<1>1. /\ m_cur_req \in Requests /\ m_data_written \in Seq(Buffers)
      /\ Accounted(m_buffers, held, m_data, m_amend, m_data_written)
  BY AccountedParts DEF Control, ControlTypeOK, ChanControlTypeOK, Requests
<1>2. Range(m_data_written) \subseteq Buffers
  BY <1>1, RangeOfSeq
<1>3. /\ main \notin {"callback", "join", "gone"}
      /\ flushing # "await" => m_data_written # <<>>
      /\ flushing # "await" => m_file # NoFile
      /\ flushing # "commit"
  BY DEF Control, ChannelPhase, MainPhase, WrittenIffExecuting
<1>4. ~WaitIo /\ ~ReadResult
  BY DEF WaitIo, ReadResult
<1>5. ASSUME NEW S, S \cap Range(m_data_written) = {}, content' = Emptied(S)
      PROVE  \A b \in Range(m_data_written) : content'[b] = content[b]
  BY <1>2, <1>5 DEF Emptied
<1>6. ASSUME UNCHANGED <<chanVars, m_data_written, m_file>>,
             \A b \in Range(m_data_written) : content'[b] = content[b]
      PROVE  Undisturbed
  BY <1>6 DEF Undisturbed, chanVars
<1>7. CASE UNCHANGED <<chanVars, m_data_written, m_file, content>>
  BY <1>6, <1>7
<1>8. ASSUME NEW b \in Buffers, Fill(b) PROVE Undisturbed
  <2>1. b \notin Range(m_data_written)
    BY <1>1, <1>8 DEF Fill, Accounted
  <2>2. \A x \in Range(m_data_written) : content'[x] = content[x]
    BY <1>2, <1>8, <2>1 DEF Fill, ContentOfBlocks
  <2> QED
    BY <1>6, <1>8, <2>2 DEF Fill
<1>9. ASSUME NEW b \in Buffers, Drop(b) \/ FreeBuffer(b) PROVE Undisturbed
  <2>1. {b} \cap Range(m_data_written) = {}
    BY <1>1, <1>9 DEF Drop, FreeBuffer, Accounted
  <2> QED
    BY <1>5, <1>6, <1>9, <2>1 DEF Drop, FreeBuffer
<1>10. ASSUME NEW b \in Buffers, Enqueue(b) PROVE Undisturbed
  <2>1. m_data_written # <<>>
    BY <1>3, <1>10 DEF Enqueue, InHandler
  <2>2. UNCHANGED <<chanVars, m_data_written, m_file, content>>
    BY <1>10, <2>1 DEF Enqueue, EnqueueData, EnqueueOffset, PutInQueue
  <2> QED
    BY <1>7, <2>2
<1>11. CASE GetFreeBuffer
  BY <1>7, <1>11 DEF GetFreeBuffer
<1>12. CASE \E f \in Files : Open(f)
  BY <1>3, <1>12 DEF Open, InHandlerOrCallback
<1>13. CASE Close
  BY <1>3, <1>4, <1>13 DEF Close, InHandlerOrCallback
<1>14. CASE DiscardQueue
  <2>1. (Range(m_data) \cup m_amend) \cap Range(m_data_written) = {}
    BY <1>1 DEF Accounted
  <2> QED
    BY <1>5, <1>6, <1>14, <2>1 DEF DiscardQueue
<1>15. CASE FlushStep
  BY <1>3, <1>4, <1>7, <1>15 DEF FlushStep, FlushSettle, FlushCommit, FlushAwait, FlushReport
<1>16. CASE LoopStep
  BY <1>3, <1>4, <1>7, <1>16 DEF LoopStep, Poll, EndRound, Process, OnIoDone, CallbackDone, Join,
                                 schedVars
<1>17. CASE Flush
  BY <1>7, <1>17 DEF Flush, schedVars
<1>18. CASE Stop
  BY <1>3, <1>18 DEF Stop, InHandler
<1>19. CASE ThreadStep
  <2>1. UNCHANGED <<m_data_written, m_file, content>>
    BY <1>19 DEF ThreadStep, IoThread, ThreadRead, ThreadWrite, ThreadRespond
  <2>2. m_cur_req'.file = m_cur_req.file
    BY <1>1, <1>19 DEF ThreadStep, IoThread, ThreadRead, ThreadWrite, ThreadRespond, Requests
  <2> QED
    BY <2>1, <2>2 DEF Undisturbed
<1> QED
  BY <1>8, <1>9, <1>10, <1>11, <1>12, <1>13, <1>14, <1>15, <1>16, <1>17, <1>18, <1>19 DEF Next

\* do_io() walks the vector, the blocks and the file of a request without a lock
\* the main thread would take to change them (io_chan.cpp).  It needs none: from
\* request() to the response the main thread leaves all of them alone.
THEOREM RequestUndisturbedHolds == Spec => RequestUndisturbed
<1>1. Init => ContentOfBlocks
  BY DEF Init, ChanInit, ContentOfBlocks
<1>2. ContentOfBlocks /\ [Next]_vars => ContentOfBlocks'
  BY ContentStep
<1>3. Control /\ BuffersAccounted /\ ContentOfBlocks /\ [Next]_vars
        => [m_state = "IS_EXECUTING" /\ m_state' = "IS_EXECUTING" =>
              /\ m_data_written' = m_data_written
              /\ m_cur_req'.file = m_cur_req.file
              /\ m_file' = m_file
              /\ \A b \in Range(m_data_written) : content'[b] = content[b]]_vars
  BY UndisturbedStep DEF Undisturbed
<1> QED
  BY <1>1, <1>2, <1>3, ControlInvariant, BuffersAccountedHolds, PTL DEF Spec, RequestUndisturbed

------------------------------------------------------------------------------
(* The units of a sequence of blocks.                                        *)

LEMMA LeastOf ==
  ASSUME NEW S \in SUBSET Nat, S # {}
  PROVE  \E i \in S : \A j \in S : i <= j
<1> DEFINE R == {ss \in Nat \X Nat : ss[1] < ss[2]}
<1>1. IsWellFoundedOn(R, Nat)
  <2>1. IsWellFoundedOn(OpToRel(<, Nat), Nat)
    BY NatLessThanWellFounded
  <2>2. OpToRel(<, Nat) = R
    BY DEF OpToRel
  <2> QED
    BY <2>1, <2>2
<1>2. \A x, y \in Nat : <<x, y>> \in R <=> x < y
  OBVIOUS
<1> HIDE DEF R
<1>3. PICK i \in S : \A j \in S : ~(<<j, i>> \in R)
  BY <1>1, WFMin
<1>4. ASSUME NEW j \in S
      PROVE  i <= j
  <2>1. i \in Nat /\ j \in Nat
    OBVIOUS
  <2>2. ~(j < i)
    BY <1>2, <1>3, <2>1
  <2> QED
    BY <2>1, <2>2
<1> QED
  BY <1>4

\* What the flattening of s has joined up to its i-th part.
Joined(s, i, f) == IF i = 1 THEN s[i] ELSE f[i - 1] \o s[i]
Joins(f, s, n) == f = [i \in 1 .. n |-> Joined(s, i, f)]

LEMMA JoinsValues ==
  ASSUME NEW f, NEW s, NEW n \in Nat, Joins(f, s, n)
  PROVE  DOMAIN f = 1 .. n /\ \A i \in 1 .. n : f[i] = IF i = 1 THEN s[i] ELSE f[i - 1] \o s[i]
BY DEF Joins, Joined

LEMMA JoinsOne ==
  ASSUME NEW s, NEW f, NEW n \in Nat, Joins(f, s, n)
  PROVE  Joins([i \in 1 .. n + 1 |-> IF i = n + 1 THEN Joined(s, n + 1, f) ELSE f[i]], s, n + 1)
<1> DEFINE g == [i \in 1 .. n + 1 |-> IF i = n + 1 THEN Joined(s, n + 1, f) ELSE f[i]]
<1>1. \A i \in 1 .. n : g[i] = f[i] /\ f[i] = Joined(s, i, f)
  BY JoinsValues DEF Joined
<1>2. g[n + 1] = Joined(s, n + 1, f)
  OBVIOUS
<1>3. g = [i \in 1 .. n + 1 |-> g[i]]
  OBVIOUS
<1> HIDE DEF g
<1>4. ASSUME NEW i \in 1 .. n + 1
      PROVE  g[i] = Joined(s, i, g)
  <2>1. g[i] = Joined(s, i, f)
    <3>1. CASE i = n + 1
      BY <1>2, <3>1
    <3>2. CASE i # n + 1
      <4>1. i \in 1 .. n
        BY <3>2
      <4> QED
        BY <1>1, <4>1
    <3> QED
      BY <3>1, <3>2
  <2>2. CASE i = 1
    BY <2>1, <2>2 DEF Joined
  <2>3. CASE i # 1
    <3>1. i - 1 \in 1 .. n
      BY <2>3
    <3>2. g[i - 1] = f[i - 1]
      BY <1>1, <3>1
    <3> QED
      BY <2>1, <2>3, <3>2 DEF Joined
  <2> QED
    BY <2>2, <2>3
<1>5. g = [i \in 1 .. n + 1 |-> Joined(s, i, g)]
  BY <1>3, <1>4
<1> QED
  BY <1>5 DEF Joins, g

LEMMA JoinsExists ==
  ASSUME NEW s, NEW n \in Nat
  PROVE  \E f : Joins(f, s, n)
<1> DEFINE wrong == {m \in Nat : ~ \E f : Joins(f, s, m)}
<1>1. CASE wrong = {}
  BY <1>1
<1>2. CASE wrong # {}
  <2>1. wrong \in SUBSET Nat
    OBVIOUS
  <2>2. PICK m \in wrong : \A j \in wrong : m <= j
    <3> HIDE DEF wrong
    <3> QED
      BY <1>2, <2>1, LeastOf
  <2>3. m # 0
    <3>1. Joins([i \in 1 .. 0 |-> 0], s, 0)
      <4>1. 1 .. 0 = {}
        OBVIOUS
      <4>2. [i \in 1 .. 0 |-> 0] = [i \in 1 .. 0 |-> Joined(s, i, [j \in 1 .. 0 |-> 0])]
        BY <4>1
      <4> QED
        BY <4>2 DEF Joins
    <3> QED
      BY <2>2, <3>1
  <2> DEFINE k == m - 1
  <2>4. k \in Nat /\ k < m /\ m = k + 1
    BY <2>2, <2>3
  <2> HIDE DEF k
  <2>5. k \notin wrong
    BY <2>2, <2>4
  <2>6. PICK f : Joins(f, s, k)
    BY <2>4, <2>5
  <2>7. \E g : Joins(g, s, m)
    BY <2>4, <2>6, JoinsOne
  <2> QED
    BY <2>2, <2>7
<1> QED
  BY <1>1, <1>2

\* Two flattenings agree as far as their parts do.
LEMMA JoinsSame ==
  ASSUME NEW s, NEW t, NEW f, NEW g, NEW n \in Nat, Joins(f, s, n + 1), Joins(g, t, n),
         \A i \in 1 .. n : s[i] = t[i]
  PROVE  \A i \in 1 .. n : f[i] = g[i]
<1> DEFINE wrong == {i \in 1 .. n : f[i] # g[i]}
<1>1. CASE wrong = {}
  BY <1>1
<1>2. CASE wrong # {}
  <2>1. wrong \in SUBSET Nat
    OBVIOUS
  <2>2. PICK i \in wrong : \A j \in wrong : i <= j
    <3> HIDE DEF wrong
    <3> QED
      BY <1>2, <2>1, LeastOf
  <2>3. i \in 1 .. n + 1 /\ i \in 1 .. n /\ s[i] = t[i] /\ f[i] # g[i]
    OBVIOUS
  <2>4. /\ f[i] = IF i = 1 THEN s[i] ELSE f[i - 1] \o s[i]
        /\ g[i] = IF i = 1 THEN t[i] ELSE g[i - 1] \o t[i]
    <3>1. n + 1 \in Nat
      OBVIOUS
    <3>2. f[i] = IF i = 1 THEN s[i] ELSE f[i - 1] \o s[i]
      BY <2>3, <3>1, JoinsValues
    <3>3. g[i] = IF i = 1 THEN t[i] ELSE g[i - 1] \o t[i]
      BY <2>3, JoinsValues
    <3> QED
      BY <3>2, <3>3
  <2>5. i # 1
    BY <2>3, <2>4
  <2>6. i - 1 \in 1 .. n /\ i - 1 < i
    BY <2>3, <2>5
  <2>7. i - 1 \notin wrong
    BY <2>2, <2>6
  <2>8. f[i - 1] = g[i - 1]
    BY <2>6, <2>7
  <2> QED
    BY <2>3, <2>4, <2>5, <2>8
<1> QED
  BY <1>1, <1>2

LEMMA FlattenJoins ==
  ASSUME NEW S, NEW s \in Seq(S), s # <<>>
  PROVE  \E f : Joins(f, s, Len(s)) /\ FlattenSeq(s) = f[Len(s)]
<1> DEFINE f == CHOOSE f : f = [i \in 1 .. Len(s) |-> IF i = 1 THEN s[i] ELSE f[i - 1] \o s[i]]
<1>1. Len(s) \in Nat /\ Len(s) # 0
  OBVIOUS
<1>2. \E g : g = [i \in 1 .. Len(s) |-> IF i = 1 THEN s[i] ELSE g[i - 1] \o s[i]]
  <2>1. PICK g : Joins(g, s, Len(s))
    BY <1>1, JoinsExists
  <2> QED
    BY <2>1 DEF Joins, Joined
<1>3. f = [i \in 1 .. Len(s) |-> IF i = 1 THEN s[i] ELSE f[i - 1] \o s[i]]
  BY <1>2
<1>4. FlattenSeq(s) = f[Len(s)]
  BY <1>1 DEF FlattenSeq
<1> HIDE DEF f
<1>5. Joins(f, s, Len(s))
  BY <1>3 DEF Joins, Joined
<1> QED
  BY <1>4, <1>5

\* A part more is joined at the end.
LEMMA FlattenAppend ==
  ASSUME NEW S, NEW s \in Seq(Seq(S)), NEW x \in Seq(S)
  PROVE  FlattenSeq(Append(s, x)) = IF s = <<>> THEN x ELSE FlattenSeq(s) \o x
<1> DEFINE a == Append(s, x)
           n == Len(s)
<1>1. /\ a \in Seq(Seq(S)) /\ Len(a) = n + 1 /\ n \in Nat /\ a # <<>>
      /\ a[n + 1] = x /\ \A i \in 1 .. n : a[i] = s[i]
  BY AppendProperties
<1> HIDE DEF a
<1>2. PICK f : Joins(f, a, n + 1) /\ FlattenSeq(a) = f[n + 1]
  BY <1>1, FlattenJoins
<1>3. n + 1 \in 1 .. n + 1 /\ n + 1 - 1 = n /\ n + 1 \in Nat
  BY <1>1
<1>4. f[n + 1] = IF n + 1 = 1 THEN x ELSE f[n] \o x
  BY <1>1, <1>2, <1>3, JoinsValues
<1>5. CASE s = <<>>
  BY <1>2, <1>4, <1>5 DEF a
<1>6. CASE s # <<>>
  <2>1. PICK g : Joins(g, s, n) /\ FlattenSeq(s) = g[n]
    BY <1>6, FlattenJoins
  <2>2. n \in 1 .. n /\ n <= n + 1 /\ n <= n /\ n + 1 # 1
    BY <1>1, <1>6
  <2>3. \A i \in 1 .. n : f[i] = g[i]
    <3>1. /\ n \in Nat /\ Joins(f, a, n + 1) /\ Joins(g, s, n)
          /\ \A i \in 1 .. n : a[i] = s[i]
      BY <1>1, <1>2, <2>1
    <3> HIDE DEF n
    <3> QED
      BY <3>1, JoinsSame
  <2> QED
    BY <1>2, <1>4, <1>6, <2>1, <2>2, <2>3 DEF a
<1> QED
  BY <1>5, <1>6

\* Units(blocks), of any contents.
UnitsIn(c, blocks) == FlattenSeq([i \in DOMAIN blocks |-> c[blocks[i]]])
Contents == [Buffers -> Seq(Nat)]

LEMMA UnitsAreIn ==
  /\ \A blocks : Units(blocks) = UnitsIn(content, blocks)
  /\ \A blocks : Units(blocks)' = UnitsIn(content', blocks')
BY DEF Units, UnitsIn

LEMMA NoUnits == ASSUME NEW c PROVE UnitsIn(c, <<>>) = <<>>
BY DEF UnitsIn, FlattenSeq

LEMMA PartsType ==
  ASSUME NEW c \in Contents, NEW blocks \in Seq(Buffers)
  PROVE  /\ [i \in DOMAIN blocks |-> c[blocks[i]]] \in Seq(Seq(Nat))
         /\ DOMAIN [i \in DOMAIN blocks |-> c[blocks[i]]] = DOMAIN blocks
<1>1. DOMAIN blocks = 1 .. Len(blocks) /\ Len(blocks) \in Nat
  OBVIOUS
<1>2. \A i \in 1 .. Len(blocks) : c[blocks[i]] \in Seq(Nat)
  BY DEF Contents
<1>3. [i \in 1 .. Len(blocks) |-> c[blocks[i]]] \in [1 .. Len(blocks) -> Seq(Nat)]
  BY <1>2
<1>4. [1 .. Len(blocks) -> Seq(Nat)] \subseteq Seq(Seq(Nat))
  BY <1>1, SeqDef
<1> QED
  BY <1>1, <1>3, <1>4

LEMMA UnitsAppend ==
  ASSUME NEW c \in Contents, NEW blocks \in Seq(Buffers), NEW b \in Buffers,
         UnitsIn(c, blocks) \in Seq(Nat)
  PROVE  UnitsIn(c, Append(blocks, b)) = UnitsIn(c, blocks) \o c[b]
<1> DEFINE a == Append(blocks, b)
           n == Len(blocks)
           s == [x \in DOMAIN blocks |-> c[blocks[x]]]
           t == [x \in DOMAIN a |-> c[a[x]]]
<1>1. /\ a \in Seq(Buffers) /\ DOMAIN a = 1 .. n + 1 /\ DOMAIN blocks = 1 .. n /\ n \in Nat
      /\ a[n + 1] = b /\ \A i \in 1 .. n : a[i] = blocks[i]
  BY AppendProperties
<1> HIDE DEF a
<1>2. /\ s \in Seq(Seq(Nat)) /\ t \in Seq(Seq(Nat)) /\ DOMAIN s = 1 .. n /\ DOMAIN t = 1 .. n + 1
      /\ \A i \in 1 .. n : s[i] = c[blocks[i]]
      /\ \A i \in 1 .. n + 1 : t[i] = c[a[i]]
  BY <1>1, PartsType
<1>3. c[b] \in Seq(Nat)
  BY DEF Contents
<1>4. UnitsIn(c, a) = FlattenSeq(t) /\ UnitsIn(c, blocks) = FlattenSeq(s)
  BY DEF UnitsIn
<1> HIDE DEF s, t
<1>5. t = Append(s, c[b])
  <2>1. Len(s) = n /\ Len(t) = n + 1
    BY <1>1, <1>2
  <2>2. /\ Append(s, c[b]) \in Seq(Seq(Nat)) /\ Len(Append(s, c[b])) = n + 1
        /\ Append(s, c[b])[n + 1] = c[b] /\ \A i \in 1 .. n : Append(s, c[b])[i] = s[i]
    BY <1>2, <1>3, <2>1, AppendProperties
  <2>3. \A i \in 1 .. n + 1 : t[i] = Append(s, c[b])[i]
    <3> DEFINE r == Append(s, c[b])
    <3>1. \A i \in 1 .. n + 1 : i = n + 1 \/ i \in 1 .. n
      BY <1>1
    <3>2. t[n + 1] = c[b] /\ r[n + 1] = c[b]
      <4>1. n + 1 \in 1 .. n + 1
        BY <1>1
      <4> QED
        BY <1>1, <1>2, <2>2, <4>1
    <3>3. ASSUME NEW i \in 1 .. n
          PROVE  t[i] = c[blocks[i]] /\ r[i] = c[blocks[i]]
      BY <1>1, <1>2, <2>2
    <3> HIDE DEF r
    <3>4. \A i \in 1 .. n + 1 : t[i] = r[i]
      BY <3>1, <3>2, <3>3
    <3> QED
      BY <3>4 DEF r
  <2> QED
    BY <1>2, <2>1, <2>2, <2>3, SeqEqual
<1>6. FlattenSeq(t) = IF s = <<>> THEN c[b] ELSE FlattenSeq(s) \o c[b]
  BY <1>2, <1>3, <1>5, FlattenAppend
<1>7. CASE s = <<>>
  <2>1. FlattenSeq(s) = <<>>
    BY <1>7 DEF FlattenSeq
  <2>2. <<>> \o c[b] = c[b]
    BY <1>3, ConcatEmptySeq
  <2> QED
    BY <1>4, <1>6, <1>7, <2>1, <2>2 DEF a
<1>8. CASE s # <<>>
  BY <1>4, <1>6, <1>8 DEF a
<1> QED
  BY <1>7, <1>8

\* The first m blocks.
UpTo(s, m) == SubSeq(s, 1, m)

LEMMA FirstBlocks ==
  ASSUME NEW S, NEW s \in Seq(S), NEW m \in 0 .. Len(s)
  PROVE  /\ UpTo(s, m) \in Seq(S) /\ Len(UpTo(s, m)) = m
         /\ \A i \in 1 .. m : UpTo(s, m)[i] = s[i]
         /\ m > 0 => s[m] \in S /\ UpTo(s, m) = Append(UpTo(s, m - 1), s[m])
<1>1. Len(s) \in Nat /\ m \in Nat /\ m <= Len(s)
  OBVIOUS
<1>2. /\ UpTo(s, m) \in Seq(S) /\ Len(UpTo(s, m)) = m
      /\ \A i \in 1 .. m : UpTo(s, m)[i] = s[i]
  BY <1>1 DEF UpTo
<1>3. ASSUME m > 0
      PROVE  s[m] \in S /\ UpTo(s, m) = Append(UpTo(s, m - 1), s[m])
  <2>1. s[m] \in S /\ m - 1 \in Nat /\ m - 1 <= Len(s) /\ m - 1 + 1 = m
    BY <1>1, <1>3
  <2> DEFINE p == UpTo(s, m - 1)
             q == Append(p, s[m])
             r == UpTo(s, m)
  <2>2. /\ p \in Seq(S) /\ Len(p) = m - 1 /\ \A i \in 1 .. m - 1 : p[i] = s[i]
    BY <1>1, <2>1 DEF UpTo
  <2> HIDE DEF p
  <2>3. /\ q \in Seq(S) /\ Len(q) = m /\ q[m] = s[m] /\ \A i \in 1 .. m - 1 : q[i] = s[i]
    BY <2>1, <2>2, AppendProperties
  <2> HIDE DEF q, r
  <2>4. \A i \in 1 .. m : i = m \/ i \in 1 .. m - 1
    BY <1>1
  <2>5. \A i \in 1 .. m : q[i] = r[i]
    BY <1>2, <2>3, <2>4 DEF r
  <2>6. r \in Seq(S) /\ Len(r) = m
    BY <1>2 DEF r
  <2>7. q = r
    BY <2>3, <2>5, <2>6, SeqEqual
  <2> QED
    BY <2>1, <2>7 DEF p, q, r
<1> QED
  BY <1>2, <1>3

LEMMA UnitsType ==
  ASSUME NEW c \in Contents, NEW blocks \in Seq(Buffers)
  PROVE  UnitsIn(c, blocks) \in Seq(Nat)
<1> DEFINE wrong == {m \in 0 .. Len(blocks) : UnitsIn(c, UpTo(blocks, m)) \notin Seq(Nat)}
<1>1. Len(blocks) \in Nat
  OBVIOUS
<1>2. UpTo(blocks, Len(blocks)) = blocks
  BY <1>1 DEF UpTo
<1>3. CASE wrong = {}
  BY <1>1, <1>2, <1>3
<1>4. CASE wrong # {}
  <2>1. wrong \in SUBSET Nat
    OBVIOUS
  <2>2. PICK m \in wrong : \A j \in wrong : m <= j
    <3> HIDE DEF wrong
    <3> QED
      BY <1>4, <2>1, LeastOf
  <2>3. m \in 0 .. Len(blocks) /\ UnitsIn(c, UpTo(blocks, m)) \notin Seq(Nat)
    OBVIOUS
  <2>4. CASE m = 0
    <3>1. UpTo(blocks, 0) = <<>>
      BY <1>1 DEF UpTo
    <3>2. UnitsIn(c, UpTo(blocks, 0)) = <<>>
      BY <3>1, NoUnits
    <3>3. <<>> \in Seq(Nat)
      OBVIOUS
    <3> QED
      BY <2>3, <2>4, <3>2, <3>3
  <2>5. CASE m # 0
    <3> DEFINE p == UpTo(blocks, m - 1)
    <3>1. m - 1 \in 0 .. Len(blocks) /\ m - 1 < m /\ m > 0
      BY <1>1, <2>3, <2>5
    <3>2. m - 1 \notin wrong
      BY <2>2, <3>1
    <3>3. UnitsIn(c, p) \in Seq(Nat) /\ p \in Seq(Buffers)
      BY <3>1, <3>2, FirstBlocks
    <3>4. blocks[m] \in Buffers /\ UpTo(blocks, m) = Append(p, blocks[m])
      BY <2>3, <3>1, FirstBlocks
    <3> HIDE DEF p
    <3>5. UnitsIn(c, UpTo(blocks, m)) = UnitsIn(c, p) \o c[blocks[m]]
      BY <3>3, <3>4, UnitsAppend
    <3>6. c[blocks[m]] \in Seq(Nat)
      BY <3>4 DEF Contents
    <3>7. UnitsIn(c, p) \o c[blocks[m]] \in Seq(Nat)
      BY <3>3, <3>6, ConcatProperties
    <3> QED
      BY <2>3, <3>5, <3>7
  <2> QED
    BY <2>4, <2>5
<1> QED
  BY <1>3, <1>4

LEMMA UnitsSame ==
  ASSUME NEW c, NEW d, NEW blocks \in Seq(Buffers),
         \A b \in Range(blocks) : c[b] = d[b]
  PROVE  UnitsIn(c, blocks) = UnitsIn(d, blocks)
<1>1. \A i \in DOMAIN blocks : c[blocks[i]] = d[blocks[i]]
  BY DEF Range
<1>2. [i \in DOMAIN blocks |-> c[blocks[i]]] = [i \in DOMAIN blocks |-> d[blocks[i]]]
  BY <1>1
<1> QED
  BY <1>2 DEF UnitsIn

LEMMA ConcatTwice ==
  \A x, y, z \in Seq(Nat) : (x \o y) \o z = x \o (y \o z)
OBVIOUS

\* The units of two sequences of blocks, one after the other.
LEMMA UnitsConcat ==
  ASSUME NEW c \in Contents, NEW s \in Seq(Buffers), NEW t \in Seq(Buffers)
  PROVE  UnitsIn(c, s \o t) = UnitsIn(c, s) \o UnitsIn(c, t)
<1> DEFINE wrong == {m \in 0 .. Len(t) :
                       UnitsIn(c, s \o UpTo(t, m)) # UnitsIn(c, s) \o UnitsIn(c, UpTo(t, m))}
<1>1. Len(t) \in Nat
  OBVIOUS
<1>2. UpTo(t, Len(t)) = t
  BY <1>1 DEF UpTo
<1>3. CASE wrong = {}
  <2>1. Len(t) \in 0 .. Len(t) /\ Len(t) \notin wrong
    BY <1>1, <1>3
  <2>2. UnitsIn(c, s \o UpTo(t, Len(t))) = UnitsIn(c, s) \o UnitsIn(c, UpTo(t, Len(t)))
    BY <2>1
  <2> QED
    BY <1>2, <2>2
<1>4. CASE wrong # {}
  <2>1. wrong \in SUBSET Nat
    OBVIOUS
  <2>2. PICK m \in wrong : \A j \in wrong : m <= j
    <3> HIDE DEF wrong
    <3> QED
      BY <1>4, <2>1, LeastOf
  <2>3. m \in 0 .. Len(t) /\ UnitsIn(c, s \o UpTo(t, m)) # UnitsIn(c, s) \o UnitsIn(c, UpTo(t, m))
    OBVIOUS
  <2>4. UnitsIn(c, s) \in Seq(Nat)
    BY UnitsType
  <2>5. CASE m = 0
    <3>1. UpTo(t, 0) = <<>>
      BY <1>1 DEF UpTo
    <3>2. s \o <<>> = s /\ UnitsIn(c, s) \o <<>> = UnitsIn(c, s)
      BY <2>4, ConcatEmptySeq
    <3>3. UnitsIn(c, <<>>) = <<>>
      BY NoUnits
    <3> QED
      BY <2>3, <2>5, <3>1, <3>2, <3>3
  <2>6. CASE m # 0
    <3> DEFINE p == UpTo(t, m - 1)
               b == t[m]
    <3>1. m - 1 \in 0 .. Len(t) /\ m - 1 < m /\ m > 0
      BY <1>1, <2>3, <2>6
    <3>2. m - 1 \notin wrong
      BY <2>2, <3>1
    <3>3. UnitsIn(c, s \o p) = UnitsIn(c, s) \o UnitsIn(c, p) /\ p \in Seq(Buffers)
      BY <3>1, <3>2, FirstBlocks
    <3>4. b \in Buffers /\ UpTo(t, m) = Append(p, b)
      BY <2>3, <3>1, FirstBlocks
    <3> HIDE DEF p, b
    <3>5. s \o p \in Seq(Buffers) /\ s \o Append(p, b) = Append(s \o p, b)
      BY <3>3, <3>4
    <3>6. UnitsIn(c, s \o p) \in Seq(Nat) /\ UnitsIn(c, p) \in Seq(Nat) /\ c[b] \in Seq(Nat)
      BY <3>3, <3>4, <3>5, UnitsType DEF Contents
    <3>7. UnitsIn(c, Append(s \o p, b)) = UnitsIn(c, s \o p) \o c[b]
      BY <3>4, <3>5, <3>6, UnitsAppend
    <3>8. UnitsIn(c, Append(p, b)) = UnitsIn(c, p) \o c[b]
      BY <3>3, <3>4, <3>6, UnitsAppend
    <3>9. (UnitsIn(c, s) \o UnitsIn(c, p)) \o c[b] = UnitsIn(c, s) \o (UnitsIn(c, p) \o c[b])
      <4> DEFINE x == UnitsIn(c, s)
                 y == UnitsIn(c, p)
                 z == c[b]
      <4>1. x \in Seq(Nat) /\ y \in Seq(Nat) /\ z \in Seq(Nat)
        BY <2>4, <3>6
      <4> HIDE DEF x, y, z
      <4>2. (x \o y) \o z = x \o (y \o z)
        BY <4>1, ConcatTwice
      <4> QED
        BY <4>2 DEF x, y, z
    <3> QED
      BY <2>3, <3>3, <3>4, <3>5, <3>7, <3>8, <3>9
  <2> QED
    BY <2>5, <2>6
<1> QED
  BY <1>3, <1>4

\* What is left of a sequence after its first n elements.
After(s, n) == SubSeq(s, n + 1, Len(s))

LEMMA AfterType ==
  ASSUME NEW S, NEW s \in Seq(S), NEW n \in 0 .. Len(s)
  PROVE  /\ After(s, n) \in Seq(S) /\ Len(After(s, n)) = Len(s) - n
         /\ \A i \in 1 .. Len(s) - n : After(s, n)[i] = s[n + i]
<1>1. Len(s) \in Nat /\ n \in Nat /\ n <= Len(s)
  OBVIOUS
<1>2. After(s, n) \in Seq(S)
  BY <1>1 DEF After
<1>3. Len(After(s, n)) = Len(s) - n
  BY <1>1, SubSeqProperties DEF After
<1>4. ASSUME NEW i \in 1 .. Len(s) - n
      PROVE  After(s, n)[i] = s[n + i]
  <2>1. i \in 1 .. Len(s) - (n + 1) + 1 /\ n + 1 + i - 1 = n + i
    BY <1>1
  <2> QED
    BY <1>1, <2>1 DEF After
<1> QED
  BY <1>2, <1>3, <1>4

LEMMA AfterBlocks ==
  \A s \in Seq(Buffers) : \A n \in 0 .. Len(s) :
     /\ After(s, n) \in Seq(Buffers) /\ Len(After(s, n)) = Len(s) - n
     /\ \A i \in 1 .. Len(s) - n : After(s, n)[i] = s[n + i]
<1> SUFFICES ASSUME NEW s \in Seq(Buffers), NEW n \in 0 .. Len(s)
             PROVE  /\ After(s, n) \in Seq(Buffers) /\ Len(After(s, n)) = Len(s) - n
                    /\ \A i \in 1 .. Len(s) - n : After(s, n)[i] = s[n + i]
  OBVIOUS
<1> QED
  BY AfterType

LEMMA SplitAt ==
  ASSUME NEW S, NEW s \in Seq(S), NEW n \in 0 .. Len(s)
  PROVE  s = UpTo(s, n) \o After(s, n)
<1> DEFINE p == UpTo(s, n)
           q == After(s, n)
           r == p \o q
<1>1. Len(s) \in Nat /\ n \in Nat /\ n <= Len(s)
  OBVIOUS
<1>2. /\ p \in Seq(S) /\ Len(p) = n /\ \A i \in 1 .. n : p[i] = s[i]
      /\ q \in Seq(S) /\ Len(q) = Len(s) - n /\ \A i \in 1 .. Len(s) - n : q[i] = s[n + i]
  BY AfterType, FirstBlocks
<1> HIDE DEF p, q
<1>3. r \in Seq(S) /\ Len(r) = Len(s)
  BY <1>1, <1>2
<1>4. ASSUME NEW i \in 1 .. Len(s)
      PROVE  r[i] = s[i]
  <2>1. r[i] = IF i <= n THEN p[i] ELSE q[i - n]
    BY <1>1, <1>2, ConcatProperties
  <2>2. CASE i <= n
    BY <1>2, <2>1, <2>2
  <2>3. CASE ~(i <= n)
    <3>1. i - n \in 1 .. Len(s) - n /\ n + (i - n) = i
      BY <1>1, <2>3
    <3> QED
      BY <1>2, <2>1, <2>3, <3>1
  <2> QED
    BY <2>2, <2>3
<1> HIDE DEF r
<1>5. r = s
  BY <1>3, <1>4, SeqEqual
<1> QED
  BY <1>5 DEF p, q, r

\* Elements are taken from the front of the first of two sequences.
LEMMA AfterConcat ==
  ASSUME NEW S, NEW s \in Seq(S), NEW t \in Seq(S), NEW n \in 0 .. Len(s)
  PROVE  After(s \o t, n) = After(s, n) \o t
<1> DEFINE a == s \o t
           p == After(a, n)
           q == After(s, n)
           r == q \o t
<1>1. Len(s) \in Nat /\ Len(t) \in Nat /\ n \in Nat /\ n <= Len(s)
  OBVIOUS
<1>2. /\ a \in Seq(S) /\ Len(a) = Len(s) + Len(t)
      /\ \A i \in 1 .. Len(s) + Len(t) : a[i] = IF i <= Len(s) THEN s[i] ELSE t[i - Len(s)]
  BY ConcatProperties
<1> HIDE DEF a
<1>3. n \in 0 .. Len(a)
  BY <1>1, <1>2
<1>4. /\ p \in Seq(S) /\ Len(p) = Len(a) - n /\ \A i \in 1 .. Len(a) - n : p[i] = a[n + i]
  BY <1>2, <1>3, AfterType
<1>5. q \in Seq(S) /\ Len(q) = Len(s) - n /\ \A i \in 1 .. Len(s) - n : q[i] = s[n + i]
  BY AfterType
<1> HIDE DEF p, q
<1>6. /\ r \in Seq(S) /\ Len(r) = Len(q) + Len(t)
      /\ \A i \in 1 .. Len(q) + Len(t) : r[i] = IF i <= Len(q) THEN q[i] ELSE t[i - Len(q)]
  BY <1>5, ConcatProperties
<1> HIDE DEF r
<1>7. Len(p) = Len(r)
  BY <1>1, <1>2, <1>4, <1>5, <1>6
<1>8. ASSUME NEW i \in 1 .. Len(p)
      PROVE  p[i] = r[i]
  <2>1. i \in 1 .. Len(a) - n /\ i \in 1 .. Len(q) + Len(t) /\ n + i \in 1 .. Len(s) + Len(t)
    BY <1>1, <1>2, <1>4, <1>5, <1>6
  <2>2. p[i] = IF n + i <= Len(s) THEN s[n + i] ELSE t[n + i - Len(s)]
    BY <1>2, <1>4, <2>1
  <2>3. r[i] = IF i <= Len(s) - n THEN q[i] ELSE t[i - (Len(s) - n)]
    BY <1>5, <1>6, <2>1
  <2>4. CASE i <= Len(s) - n
    <3>1. i \in 1 .. Len(s) - n /\ n + i <= Len(s)
      BY <1>1, <2>4
    <3> QED
      BY <1>5, <2>2, <2>3, <2>4, <3>1
  <2>5. CASE ~(i <= Len(s) - n)
    <3>1. ~(n + i <= Len(s)) /\ n + i - Len(s) = i - (Len(s) - n)
      BY <1>1, <2>5
    <3> QED
      BY <2>2, <2>3, <2>5, <3>1
  <2> QED
    BY <2>4, <2>5
<1>9. p = r
  BY <1>4, <1>6, <1>7, <1>8, SeqEqual
<1> QED
  BY <1>9 DEF a, p, q, r

\* Or the whole first sequence is taken, and the rest from the second.
LEMMA AfterFirst ==
  ASSUME NEW S, NEW s \in Seq(S), NEW t \in Seq(S), NEW m \in 0 .. Len(t)
  PROVE  After(s \o t, Len(s) + m) = After(t, m)
<1> DEFINE a == s \o t
           n == Len(s) + m
           p == After(a, n)
           q == After(t, m)
<1>1. Len(s) \in Nat /\ Len(t) \in Nat /\ m \in Nat /\ m <= Len(t) /\ n \in Nat
  OBVIOUS
<1>2. /\ a \in Seq(S) /\ Len(a) = Len(s) + Len(t)
      /\ \A i \in 1 .. Len(s) + Len(t) : a[i] = IF i <= Len(s) THEN s[i] ELSE t[i - Len(s)]
  BY ConcatProperties
<1> HIDE DEF a
<1>3. n \in 0 .. Len(a)
  BY <1>1, <1>2
<1>4. p \in Seq(S) /\ Len(p) = Len(a) - n /\ \A i \in 1 .. Len(a) - n : p[i] = a[n + i]
  <2> HIDE DEF n
  <2> QED
    BY <1>2, <1>3, AfterType
<1>5. q \in Seq(S) /\ Len(q) = Len(t) - m /\ \A i \in 1 .. Len(t) - m : q[i] = t[m + i]
  BY AfterType
<1> HIDE DEF p, q
<1>6. Len(p) = Len(q)
  BY <1>1, <1>2, <1>4, <1>5
<1>7. ASSUME NEW i \in 1 .. Len(p)
      PROVE  p[i] = q[i]
  <2>1. /\ i \in 1 .. Len(a) - n /\ i \in 1 .. Len(t) - m /\ n + i \in 1 .. Len(s) + Len(t)
        /\ ~(n + i <= Len(s)) /\ n + i - Len(s) = m + i
    BY <1>1, <1>2, <1>4, <1>5, <1>6
  <2>2. p[i] = a[n + i] /\ q[i] = t[m + i]
    BY <1>4, <1>5, <2>1
  <2>3. a[n + i] = t[n + i - Len(s)]
    <3> DEFINE j == n + i
    <3>1. j \in 1 .. Len(s) + Len(t) /\ ~(j <= Len(s))
      BY <2>1
    <3> HIDE DEF j
    <3>2. a[j] = t[j - Len(s)]
      BY <1>2, <3>1
    <3> QED
      BY <3>2 DEF j
  <2> QED
    BY <2>1, <2>2, <2>3
<1>8. p = q
  BY <1>4, <1>5, <1>6, <1>7, SeqEqual
<1> QED
  BY <1>8 DEF a, p, q, n

\* How many of the first N numbers are at most n, when they never decrease:
\* those up to some k.
LEMMA CountUpTo ==
  ASSUME NEW N \in Nat, NEW n \in Nat, NEW L, \A i \in 1 .. N : L[i] \in Nat,
         \A i, j \in 1 .. N : i <= j => L[i] <= L[j]
  PROVE  LET k == Cardinality({i \in 1 .. N : L[i] <= n})
         IN  /\ k \in 0 .. N
             /\ k > 0 => L[k] <= n
             /\ k < N => n < L[k + 1]
<1> DEFINE few == {i \in 1 .. N : L[i] <= n}
           many == {i \in 1 .. N + 1 : i = N + 1 \/ n < L[i]}
<1>1. many \in SUBSET Nat /\ many # {}
  <2>1. N + 1 \in many
    OBVIOUS
  <2> QED
    BY <2>1
<1>2. PICK m \in many : \A j \in many : m <= j
  <2> HIDE DEF many
  <2> QED
    BY <1>1, LeastOf
<1>3. m \in 1 .. N + 1 /\ (m = N + 1 \/ n < L[m]) /\ m - 1 \in Nat /\ m - 1 <= N
  OBVIOUS
<1>4. few = 1 .. m - 1
  <2>1. ASSUME NEW i \in few
        PROVE  i \in 1 .. m - 1
    <3>1. i \in 1 .. N /\ L[i] <= n /\ L[i] \in Nat
      OBVIOUS
    <3>2. CASE m <= i
      <4>1. m \in 1 .. N /\ n < L[m] /\ L[m] \in Nat
        BY <1>3, <3>1, <3>2
      <4>2. L[m] <= L[i]
        BY <3>1, <3>2, <4>1
      <4> QED
        BY <3>1, <4>1, <4>2
    <3>3. CASE ~(m <= i)
      BY <1>3, <3>1, <3>3
    <3> QED
      BY <3>2, <3>3
  <2>2. ASSUME NEW i \in 1 .. m - 1
        PROVE  i \in few
    <3>1. i \in 1 .. N /\ i < m /\ i \in 1 .. N + 1 /\ i # N + 1
      BY <1>3
    <3>2. i \notin many
      BY <1>2, <3>1
    <3>3. ~(n < L[i]) /\ L[i] \in Nat
      BY <3>1, <3>2
    <3> QED
      BY <3>1, <3>3
  <2> HIDE DEF few
  <2> QED
    BY <2>1, <2>2
<1>5. Cardinality(1 .. m - 1) = m - 1
  <2> DEFINE k == m - 1
  <2>1. k \in Nat
    BY <1>3
  <2> HIDE DEF k
  <2>2. Cardinality(1 .. k) = k
    <3>1. 1 \in Int /\ k \in Int
      BY <2>1
    <3>2. Cardinality(1 .. k) = IF 1 > k THEN 0 ELSE k - 1 + 1
      BY <3>1, FS_Interval
    <3> QED
      BY <2>1, <3>2
  <2> QED
    BY <2>2 DEF k
<1>6. m - 1 > 0 => L[m - 1] <= n
  <2> SUFFICES ASSUME m - 1 > 0
               PROVE  L[m - 1] <= n
    OBVIOUS
  <2>1. m - 1 \in few
    BY <1>3, <1>4
  <2> QED
    BY <2>1
<1>7. m - 1 < N => n < L[m - 1 + 1]
  BY <1>3
<1> HIDE DEF few
<1>8. Cardinality(few) = m - 1
  BY <1>4, <1>5
<1>9. /\ Cardinality(few) \in 0 .. N
      /\ Cardinality(few) > 0 => L[Cardinality(few)] <= n
      /\ Cardinality(few) < N => n < L[Cardinality(few) + 1]
  BY <1>3, <1>6, <1>7, <1>8
<1> QED
  BY <1>9 DEF few

\* The units of the first i blocks.
FirstUnits(c, w, i) == Len(UnitsIn(c, UpTo(w, i)))

LEMMA FirstUnitsType ==
  ASSUME NEW c \in Contents, NEW w \in Seq(Buffers)
  PROVE  /\ \A i \in 0 .. Len(w) : FirstUnits(c, w, i) \in Nat
         /\ FirstUnits(c, w, 0) = 0
         /\ FirstUnits(c, w, Len(w)) = Len(UnitsIn(c, w))
<1>1. ASSUME NEW i \in 0 .. Len(w)
      PROVE  FirstUnits(c, w, i) \in Nat
  <2>1. UpTo(w, i) \in Seq(Buffers)
    BY FirstBlocks
  <2>2. UnitsIn(c, UpTo(w, i)) \in Seq(Nat)
    BY <2>1, UnitsType
  <2> QED
    BY <2>2 DEF FirstUnits
<1>2. UpTo(w, 0) = <<>> /\ UpTo(w, Len(w)) = w
  BY DEF UpTo
<1>3. UnitsIn(c, <<>>) = <<>> /\ Len(<<>>) = 0
  BY NoUnits
<1> QED
  BY <1>1, <1>2, <1>3 DEF FirstUnits

LEMMA FirstUnitsGrow ==
  ASSUME NEW c \in Contents, NEW w \in Seq(Buffers)
  PROVE  \A i, j \in 0 .. Len(w) : i <= j => FirstUnits(c, w, i) <= FirstUnits(c, w, j)
<1> SUFFICES ASSUME NEW i \in 0 .. Len(w), NEW j \in 0 .. Len(w), i <= j
             PROVE  FirstUnits(c, w, i) <= FirstUnits(c, w, j)
  OBVIOUS
<1> DEFINE p == UpTo(w, j)
           q == UpTo(p, i)
           r == After(p, i)
<1>1. p \in Seq(Buffers) /\ Len(p) = j /\ \A x \in 1 .. j : p[x] = w[x]
  BY FirstBlocks
<1>2. i \in 0 .. Len(p)
  BY <1>1
<1> HIDE DEF p
<1>3. q \in Seq(Buffers) /\ Len(q) = i /\ \A x \in 1 .. i : q[x] = p[x]
  BY <1>1, <1>2, FirstBlocks
<1>4. r \in Seq(Buffers) /\ p = q \o r
  BY <1>1, <1>2, AfterType, SplitAt
<1> HIDE DEF q, r
<1>5. q = UpTo(w, i)
  <2> DEFINE s == UpTo(w, i)
  <2>1. s \in Seq(Buffers) /\ Len(s) = i /\ \A x \in 1 .. i : s[x] = w[x]
    BY FirstBlocks
  <2>2. \A x \in 1 .. i : q[x] = s[x]
    BY <1>1, <1>3, <2>1
  <2> HIDE DEF s
  <2>3. q = s
    BY <1>3, <2>1, <2>2, SeqEqual
  <2> QED
    BY <2>3 DEF s
<1>6. UnitsIn(c, p) = UnitsIn(c, q) \o UnitsIn(c, r)
  BY <1>3, <1>4, UnitsConcat
<1>7. UnitsIn(c, q) \in Seq(Nat) /\ UnitsIn(c, r) \in Seq(Nat)
  BY <1>3, <1>4, UnitsType
<1>8. Len(UnitsIn(c, p)) = Len(UnitsIn(c, q)) + Len(UnitsIn(c, r))
  BY <1>6, <1>7, ConcatProperties
<1>9. Len(UnitsIn(c, q)) \in Nat /\ Len(UnitsIn(c, r)) \in Nat
  BY <1>7
<1>10. Len(UnitsIn(c, q)) <= Len(UnitsIn(c, p))
  BY <1>8, <1>9
<1> QED
  BY <1>5, <1>10 DEF FirstUnits, p

\* WholeBlocks, of any contents and any vector.
Whole(c, w, n) == Cardinality({i \in 1 .. Len(w) : FirstUnits(c, w, i) <= n})

LEMMA WholeIs == \A n : WholeBlocks(n) = Whole(content, m_data_written, n)
<1>1. \A i : Len(Units(SubSeq(m_data_written, 1, i))) = FirstUnits(content, m_data_written, i)
  BY DEF Units, UnitsIn, FirstUnits, UpTo
<1>2. ASSUME NEW n
      PROVE  {i \in 1 .. Len(m_data_written) : Len(Units(SubSeq(m_data_written, 1, i))) <= n}
               = {i \in 1 .. Len(m_data_written) : FirstUnits(content, m_data_written, i) <= n}
  BY <1>1
<1> QED
  BY <1>2 DEF WholeBlocks, Whole

\* The units written cover the whole blocks, and not the one after them.
LEMMA WholeCovers ==
  ASSUME NEW c \in Contents, NEW w \in Seq(Buffers), NEW n \in Nat
  PROVE  /\ Whole(c, w, n) \in 0 .. Len(w)
         /\ FirstUnits(c, w, Whole(c, w, n)) <= n
         /\ Whole(c, w, n) < Len(w) => n < FirstUnits(c, w, Whole(c, w, n) + 1)
<1> DEFINE N == Len(w)
           L == [i \in 1 .. N |-> FirstUnits(c, w, i)]
           k == Cardinality({i \in 1 .. N : L[i] <= n})
<1>1. N \in Nat /\ \A i \in 1 .. N : i \in 0 .. N
  OBVIOUS
<1>2. \A i \in 1 .. N : L[i] = FirstUnits(c, w, i) /\ L[i] \in Nat
  BY <1>1, FirstUnitsType
<1>3. \A i, j \in 1 .. N : i <= j => L[i] <= L[j]
  BY <1>1, <1>2, FirstUnitsGrow
<1>4. {i \in 1 .. N : L[i] <= n} = {i \in 1 .. N : FirstUnits(c, w, i) <= n}
  BY <1>2
<1>5. k = Whole(c, w, n)
  BY <1>4 DEF Whole
<1> HIDE DEF N, L
<1>6. k \in 0 .. N /\ (k > 0 => L[k] <= n) /\ (k < N => n < L[k + 1])
  BY <1>1, <1>2, <1>3, CountUpTo
<1> HIDE DEF k
<1>7. FirstUnits(c, w, k) <= n
  <2>1. CASE k = 0
    BY <2>1, FirstUnitsType
  <2>2. CASE k # 0
    <3>1. k \in 1 .. N /\ k > 0
      BY <1>1, <1>6, <2>2
    <3> QED
      BY <1>2, <1>6, <3>1
  <2> QED
    BY <2>1, <2>2
<1>8. k < N => n < FirstUnits(c, w, k + 1)
  <2> SUFFICES ASSUME k < N
               PROVE  n < FirstUnits(c, w, k + 1)
    OBVIOUS
  <2>1. k + 1 \in 1 .. N
    BY <1>1, <1>6
  <2> QED
    BY <1>2, <1>6, <2>1
<1> QED
  BY <1>5, <1>6, <1>7, <1>8 DEF N

LEMMA FirstBlock ==
  ASSUME NEW c \in Contents, NEW s \in Seq(Buffers), s # <<>>
  PROVE  /\ s[1] \in Buffers /\ After(s, 1) \in Seq(Buffers) /\ Len(s) >= 1
         /\ c[s[1]] \in Seq(Nat)
         /\ UnitsIn(c, s) = c[s[1]] \o UnitsIn(c, After(s, 1))
<1>1. Len(s) \in Nat /\ Len(s) >= 1 /\ 1 \in 0 .. Len(s) /\ s[1] \in Buffers
  OBVIOUS
<1>2. /\ UpTo(s, 1) \in Seq(Buffers) /\ UpTo(s, 0) = <<>> /\ s[1] \in Buffers
      /\ UpTo(s, 1) = Append(UpTo(s, 0), s[1])
  <2>1. UpTo(s, 0) = <<>>
    BY <1>1 DEF UpTo
  <2>2. 1 > 0 /\ 1 - 1 = 0
    OBVIOUS
  <2> QED
    BY <1>1, <2>1, <2>2, FirstBlocks
<1>3. c[s[1]] \in Seq(Nat)
  BY <1>1 DEF Contents
<1>4. UnitsIn(c, UpTo(s, 1)) = c[s[1]]
  <2>1. UnitsIn(c, <<>>) = <<>> /\ <<>> \in Seq(Nat) /\ <<>> \in Seq(Buffers)
    BY NoUnits
  <2>2. UnitsIn(c, Append(<<>>, s[1])) = UnitsIn(c, <<>>) \o c[s[1]]
    BY <1>1, <2>1, UnitsAppend
  <2>3. <<>> \o c[s[1]] = c[s[1]]
    BY <1>3, ConcatEmptySeq
  <2> QED
    BY <1>2, <2>1, <2>2, <2>3
<1>5. After(s, 1) \in Seq(Buffers) /\ s = UpTo(s, 1) \o After(s, 1)
  BY <1>1, AfterType, SplitAt
<1>6. UnitsIn(c, s) = UnitsIn(c, UpTo(s, 1)) \o UnitsIn(c, After(s, 1))
  <2> DEFINE p == UpTo(s, 1)
             q == After(s, 1)
  <2>1. p \in Seq(Buffers) /\ q \in Seq(Buffers) /\ s = p \o q
    BY <1>2, <1>5
  <2> HIDE DEF p, q
  <2>2. UnitsIn(c, s) = UnitsIn(c, p) \o UnitsIn(c, q)
    BY <2>1, UnitsConcat
  <2> QED
    BY <2>2 DEF p, q
<1> QED
  BY <1>1, <1>3, <1>4, <1>5, <1>6

\* The blocks not written completely, the first of them less what is written of
\* it, are what is left of the batch.
LEMMA RestOfBatch ==
  ASSUME NEW c \in Contents, NEW d \in Contents, NEW w \in Seq(Buffers), IsInjective(w),
         NEW n \in 0 .. Len(UnitsIn(c, w)),
         NEW k, k = Whole(c, w, n), NEW rest, rest = After(w, k),
         \A b \in Range(rest) :
            d[b] = IF b = rest[1] THEN After(c[b], n - FirstUnits(c, w, k)) ELSE c[b]
  PROVE  rest \in Seq(Buffers) /\ UnitsIn(d, rest) = After(UnitsIn(c, w), n)
<1> DEFINE done == UpTo(w, k)
           u == UnitsIn(c, done)
           v == UnitsIn(c, rest)
<1>1. UnitsIn(c, w) \in Seq(Nat) /\ n \in Nat /\ Len(UnitsIn(c, w)) \in Nat
  BY UnitsType
<1>2. k \in 0 .. Len(w) /\ FirstUnits(c, w, k) <= n
      /\ (k < Len(w) => n < FirstUnits(c, w, k + 1))
  BY <1>1, WholeCovers
<1>3. /\ done \in Seq(Buffers) /\ Len(done) = k
      /\ rest \in Seq(Buffers) /\ Len(rest) = Len(w) - k
      /\ \A i \in 1 .. Len(w) - k : rest[i] = w[k + i]
      /\ w = done \o rest
  <2>1. k \in 0 .. Len(w)
    BY <1>2
  <2>2. done \in Seq(Buffers) /\ Len(done) = k
    BY <2>1, FirstBlocks
  <2>3. /\ After(w, k) \in Seq(Buffers) /\ Len(After(w, k)) = Len(w) - k
        /\ \A i \in 1 .. Len(w) - k : After(w, k)[i] = w[k + i]
    BY <2>1, AfterBlocks
  <2>4. w = done \o After(w, k)
    BY <2>1, SplitAt
  <2> QED
    BY <2>2, <2>3, <2>4
<1>4. Len(u) = FirstUnits(c, w, k)
  BY DEF FirstUnits
<1> HIDE DEF done
<1>5. u \in Seq(Nat) /\ v \in Seq(Nat) /\ UnitsIn(c, w) = u \o v
  BY <1>3, UnitsType, UnitsConcat
<1> HIDE DEF u, v
<1> DEFINE m == n - Len(u)
<1>6. m \in 0 .. Len(v) /\ n = Len(u) + m
  <2>1. Len(UnitsIn(c, w)) = Len(u) + Len(v) /\ Len(u) \in Nat /\ Len(v) \in Nat
    BY <1>5, ConcatProperties
  <2> QED
    BY <1>1, <1>2, <1>4, <2>1
<1> HIDE DEF m
<1>7. After(UnitsIn(c, w), n) = After(v, m)
  BY <1>5, <1>6, AfterFirst
<1>8. CASE rest = <<>>
  <2>1. v = <<>> /\ UnitsIn(d, rest) = <<>>
    BY <1>8, NoUnits DEF v
  <2>2. After(<<>>, m) = <<>>
    <3>1. m = 0 /\ Len(<<>>) = 0
      BY <1>6, <2>1
    <3> QED
      BY <3>1 DEF After
  <2> QED
    BY <1>3, <1>7, <2>1, <2>2
<1>9. CASE rest # <<>>
  <2> DEFINE b == rest[1]
             tail == After(rest, 1)
             x == c[b]
             y == UnitsIn(c, tail)
  <2>1. /\ b \in Buffers /\ tail \in Seq(Buffers) /\ Len(rest) >= 1
        /\ x \in Seq(Nat) /\ v = x \o y /\ UnitsIn(d, rest) = d[b] \o UnitsIn(d, tail)
    BY <1>3, <1>9, FirstBlock DEF v
  <2>2. b \in Range(rest) /\ d[b] = After(x, m)
    <3>1. b \in Range(rest)
      <4>1. 1 \in DOMAIN rest
        BY <1>3, <2>1
      <4> QED
        BY <4>1 DEF Range
    <3> QED
      BY <1>4, <3>1 DEF m
  <2>3. UnitsIn(d, tail) = y
    <3>1. ASSUME NEW z \in Range(tail)
          PROVE  c[z] = d[z]
      <4>1. PICK i \in 1 .. Len(rest) - 1 : z = rest[1 + i]
        <5>1. /\ 1 \in 0 .. Len(rest) /\ Len(tail) = Len(rest) - 1
              /\ \A i \in 1 .. Len(rest) - 1 : tail[i] = rest[1 + i]
          <6>1. 1 \in 0 .. Len(rest)
            BY <1>3, <2>1
          <6>2. rest \in Seq(Buffers)
            BY <1>3
          <6> QED
            BY <6>1, <6>2, AfterBlocks
        <5>2. PICK i \in 1 .. Len(tail) : z = tail[i]
          BY <2>1 DEF Range
        <5> QED
          BY <5>1, <5>2
      <4>2. 1 + i \in 1 .. Len(rest) /\ 1 + i # 1 /\ 1 \in 1 .. Len(rest)
        BY <1>3, <2>1, <4>1
      <4>3. z \in Range(rest)
        <5>1. 1 + i \in DOMAIN rest
          BY <1>3, <4>2
        <5> QED
          BY <4>1, <5>1 DEF Range
      <4>4. z # b
        <5>1. rest[1 + i] = w[k + (1 + i)] /\ rest[1] = w[k + 1]
          BY <1>3, <4>2
        <5>2. k + (1 + i) \in 1 .. Len(w) /\ k + 1 \in 1 .. Len(w) /\ k + (1 + i) # k + 1
          <6>1. /\ Len(w) \in Nat /\ k \in Nat /\ Len(rest) = Len(w) - k /\ 1 + i \in 1 .. Len(rest)
                /\ 1 + i # 1 /\ i \in Nat
            BY <1>2, <1>3, <4>1, <4>2
          <6> QED
            BY <6>1
        <5>3. k + (1 + i) \in DOMAIN w /\ k + 1 \in DOMAIN w
          BY <5>2
        <5> QED
          BY <4>1, <5>1, <5>2, <5>3 DEF IsInjective
      <4> QED
        BY <4>3, <4>4
    <3> HIDE DEF tail
    <3>2. UnitsIn(c, tail) = UnitsIn(d, tail)
      BY <2>1, <3>1, UnitsSame
    <3> QED
      BY <3>2
  <2>4. y \in Seq(Nat)
    BY <2>1, UnitsType
  <2>5. m \in 0 .. Len(x)
    <3>1. k < Len(w) /\ k + 1 \in 1 .. Len(w) /\ k + 1 \in 0 .. Len(w) /\ k + 1 > 0
          /\ k + 1 - 1 = k
      BY <1>2, <1>3, <2>1
    <3>2. w[k + 1] = b
      <4>1. 1 \in 1 .. Len(w) - k
        BY <1>2, <3>1
      <4> QED
        BY <1>3, <4>1
    <3>3. UpTo(w, k + 1) = Append(done, b)
      <4> DEFINE j == k + 1
      <4>1. j \in 0 .. Len(w) /\ j > 0
        BY <3>1
      <4> HIDE DEF j
      <4>2. UpTo(w, j) = Append(UpTo(w, j - 1), w[j])
        BY <4>1, FirstBlocks
      <4>3. j = k + 1 /\ j - 1 = k /\ w[j] = b
        <5>1. j = k + 1
          BY DEF j
        <5>2. j - 1 = k
          <6>1. k \in Nat
            BY <1>2
          <6> QED
            BY <5>1, <6>1
        <5>3. w[j] = b
          BY <3>2, <5>1
        <5> QED
          BY <5>1, <5>2, <5>3
      <4>4. UpTo(w, j) = Append(UpTo(w, k), b)
        BY <4>2, <4>3
      <4> QED
        BY <4>3, <4>4 DEF done
    <3>4. UnitsIn(c, Append(done, b)) = u \o x
      BY <1>3, <1>5, <2>1, UnitsAppend DEF u
    <3>5. FirstUnits(c, w, k + 1) = Len(u) + Len(x)
      <4>1. FirstUnits(c, w, k + 1) = Len(UnitsIn(c, Append(done, b)))
        BY <3>3 DEF FirstUnits
      <4>2. Len(u \o x) = Len(u) + Len(x)
        BY <1>5, <2>1, ConcatProperties
      <4> QED
        BY <3>4, <4>1, <4>2
    <3>6. n < Len(u) + Len(x)
      BY <1>2, <3>1, <3>5
    <3>7. Len(u) \in Nat /\ Len(x) \in Nat
      BY <1>5, <2>1
    <3> QED
      BY <1>1, <1>6, <3>6, <3>7
  <2> HIDE DEF b, tail, x, y
  <2>6. After(x \o y, m) = After(x, m) \o y
    BY <2>1, <2>4, <2>5, AfterConcat
  <2> QED
    BY <1>3, <1>7, <2>1, <2>2, <2>3, <2>6
<1> QED
  BY <1>8, <1>9

------------------------------------------------------------------------------
(* What a step does to the log: six kinds of it.                             *)

\* A request that executes is one for the open file.
RequestForFile == m_state = "IS_EXECUTING" => m_cur_req.file = m_file

Steady ==
  /\ disk' = disk /\ size' = size /\ UnitsDone' = UnitsDone
  /\ m_file' = m_file \/ UnitsDone = 0
  /\ content' \in Contents

Stays ==
  /\ Steady
  /\ m_data' = m_data /\ m_data_written' = m_data_written
  /\ \A b \in Range(m_data) \cup Range(m_data_written) : content'[b] = content[b]

Queues ==
  /\ Steady
  /\ content' = content /\ m_data_written' = m_data_written
  /\ \E b \in Buffers : m_data' = Append(m_data, b)

Commits ==
  /\ Steady
  /\ content' = content /\ m_data_written = <<>> /\ UnitsDone = 0 /\ m_data' = <<>>
  /\ \/ m_data_written' = m_data
     \/ \E b \in Buffers : m_data_written' = Append(m_data, b)

Discards ==
  /\ Steady
  /\ m_data' = <<>> /\ m_data_written' = m_data_written
  /\ \A b \in Range(m_data_written) : content'[b] = content[b]

Writes ==
  /\ ThreadWrite
  /\ m_state = "IS_EXECUTING" /\ UnitsDone = 0 /\ to_main = 0
  /\ UNCHANGED <<m_data, size, m_file>>

Collects ==
  /\ \E amend \in SUBSET m_amend : ProcessIoResult(amend)
  /\ UnitsDone = m_cur_req.written /\ UnitsDone' = 0
  /\ disk' = disk

Moves == Stays \/ Queues \/ Commits \/ Discards \/ Writes \/ Collects

LEMMA NoneDone ==
  /\ Control /\ m_state # "IS_EXECUTING" => UnitsDone = 0
  /\ Control' /\ m_state' # "IS_EXECUTING" => UnitsDone' = 0
<1>1. Control /\ m_state # "IS_EXECUTING" => UnitsDone = 0
  BY DEF Control, ControlTypeOK, ChanControlTypeOK, ChannelPhase, UnitsDone
<1>2. Control' /\ m_state' # "IS_EXECUTING" => UnitsDone' = 0
  BY DEF Control, ControlTypeOK, ChanControlTypeOK, ChannelPhase, UnitsDone
<1> QED
  BY <1>1, <1>2

LEMMA UnitsDoneSame ==
  ASSUME io_thread' = io_thread, to_main' = to_main, m_cur_req'.written = m_cur_req.written
  PROVE  UnitsDone' = UnitsDone
  BY DEF UnitsDone

\* A commit of what is queued, or of it and one block more.
LEMMA CommitMoves ==
  ASSUME Control, DataTypeOK, m_data_written = <<>>, m_state # "IS_EXECUTING",
         NEW data \in Seq(Buffers), data = m_data \/ \E b \in Buffers : data = Append(m_data, b),
         NEW amend, CommitAll(data, amend),
         UNCHANGED <<m_file, size, content, disk>>
  PROVE  Moves /\ RequestForFile'
<1>1. m_cur_req \in Requests
  BY DEF Control, ControlTypeOK, ChanControlTypeOK, Requests
<1>2. m_data' = <<>> /\ m_data_written' = m_data_written \o data
  BY DEF CommitAll
<1>3. m_data_written' = data
  BY <1>2, ConcatEmptySeq
<1>4. m_cur_req' = [m_cur_req EXCEPT !.file = m_file] /\ to_main' = to_main /\ io_thread' = io_thread
  BY DEF CommitAll, Request
<1>5. m_cur_req'.file = m_file /\ m_cur_req'.written = m_cur_req.written
  BY <1>1, <1>4 DEF Requests
<1>6. UnitsDone' = UnitsDone /\ UnitsDone = 0
  BY <1>4, <1>5, NoneDone, UnitsDoneSame
<1>7. Steady
  BY <1>6 DEF Steady, DataTypeOK, Contents
<1> QED
  BY <1>2, <1>3, <1>5, <1>6, <1>7 DEF Moves, Commits, RequestForFile

LEMMA CommitDataMoves ==
  ASSUME Control, DataTypeOK, RequestForFile, m_data_written = <<>>, m_state # "IS_EXECUTING",
         NEW data \in Seq(Buffers), data = m_data \/ \E b \in Buffers : data = Append(m_data, b),
         NEW amend, CommitData(data, amend),
         UNCHANGED <<m_file, size, content, disk>>
  PROVE  Moves /\ RequestForFile'
<1>1. CASE CommitAll(data, amend)
  BY <1>1, CommitMoves
<1>2. CASE m_data' = data /\ UNCHANGED <<m_data_written, chanVars>>
  <2>1. UnitsDone' = UnitsDone
    BY <1>2, UnitsDoneSame DEF chanVars
  <2>2. Steady
    BY <2>1 DEF Steady, DataTypeOK, Contents
  <2>3. Stays \/ Queues
    BY <1>2, <2>2 DEF Stays, Queues
  <2>4. RequestForFile'
    BY <1>2 DEF RequestForFile, chanVars
  <2> QED
    BY <2>3, <2>4 DEF Moves
<1> QED
  BY <1>1, <1>2 DEF CommitData

\* Nothing of the channel moves, and the content of queued blocks is kept.
LEMMA StaysPut ==
  ASSUME RequestForFile, UnitsDone' = UnitsDone,
         UNCHANGED <<m_state, m_cur_req, m_file, m_data, m_data_written, size, disk>>,
         content' \in Contents,
         \A b \in Range(m_data) \cup Range(m_data_written) : content'[b] = content[b]
  PROVE  Moves /\ RequestForFile'
<1>1. Steady
  BY DEF Steady
<1>2. RequestForFile'
  BY DEF RequestForFile
<1> QED
  BY <1>1, <1>2 DEF Moves, Stays

LEMMA ChannelStays ==
  ASSUME RequestForFile, DataTypeOK,
         UNCHANGED <<chanVars, m_file, m_data, m_data_written, size, disk, content>>
  PROVE  Moves /\ RequestForFile'
<1>1. UnitsDone' = UnitsDone
  BY UnitsDoneSame DEF chanVars
<1>2. content' \in Contents
  BY DEF DataTypeOK, Contents
<1>3. UNCHANGED <<m_state, m_cur_req, m_file, m_data, m_data_written, size, disk>>
  BY DEF chanVars
<1>4. \A b \in Range(m_data) \cup Range(m_data_written) : content'[b] = content[b]
  OBVIOUS
<1> QED
  BY <1>1, <1>2, <1>3, <1>4, StaysPut

LEMMA CollectMoves ==
  ASSUME Control, Control', m_state = "IS_EXECUTING", m_state' = "IS_IDLE",
         to_main > 0, disk' = disk, NEW amend \in SUBSET m_amend, ProcessIoResult(amend)
  PROVE  Moves /\ RequestForFile'
<1>1. UnitsDone = m_cur_req.written
  BY DEF UnitsDone
<1>2. UnitsDone' = 0
  BY NoneDone
<1> QED
  BY <1>1, <1>2 DEF Moves, Collects, RequestForFile

\* Blocks the client or the idle list has are in none of the queues.
LEMMA HeldMoves ==
  ASSUME Control, BuffersAccounted, DataTypeOK, RequestForFile, NEW b \in Buffers,
         Fill(b) \/ Drop(b) \/ FreeBuffer(b)
  PROVE  Moves /\ RequestForFile'
<1>1. b \in held
  BY DEF Fill, Drop, FreeBuffer
<1>2. b \notin Range(m_data) \cup Range(m_data_written)
  BY <1>1 DEF BuffersAccounted
<1>3. UNCHANGED <<chanVars, m_file, m_data, m_data_written, size, disk>>
  BY DEF Fill, Drop, FreeBuffer
<1>4. content \in Contents /\ next_unit \in Nat
  BY DEF DataTypeOK, Contents, Control, ControlTypeOK
<1>5. content' \in Contents /\ \A x \in Buffers \ {b} : content'[x] = content[x]
  <2>1. CASE Fill(b)
    <3>1. content[b] \in Seq(Nat)
      BY <1>4 DEF Contents
    <3>2. Append(content[b], next_unit) \in Seq(Nat)
      BY <1>4, <3>1
    <3>3. content' = [content EXCEPT ![b] = Append(content[b], next_unit)]
      BY <2>1 DEF Fill
    <3> QED
      BY <1>4, <3>2, <3>3 DEF Contents
  <2>2. CASE Drop(b) \/ FreeBuffer(b)
    <3>1. content' = [x \in Buffers |-> IF x \in {b} THEN <<>> ELSE content[x]]
      BY <2>2 DEF Drop, FreeBuffer, Emptied
    <3>2. <<>> \in Seq(Nat)
      OBVIOUS
    <3> QED
      BY <1>4, <3>1, <3>2 DEF Contents
  <2> QED
    BY <2>1, <2>2
<1>6. Range(m_data) \subseteq Buffers /\ Range(m_data_written) \subseteq Buffers
  BY RangeOfSeq DEF Control, ControlTypeOK, ChanControlTypeOK
<1>7. \A x \in Range(m_data) \cup Range(m_data_written) : content'[x] = content[x]
  BY <1>2, <1>5, <1>6
<1>8. UnitsDone' = UnitsDone /\ UNCHANGED <<m_state, m_cur_req, m_file, m_data, m_data_written, size, disk>>
  BY <1>3, UnitsDoneSame DEF chanVars
<1> QED
  BY <1>5, <1>7, <1>8, StaysPut

LEMMA EnqueueMoves ==
  ASSUME Control, DataTypeOK, RequestForFile, NEW b \in Buffers, Enqueue(b)
  PROVE  Moves /\ RequestForFile'
<1>1. /\ UNCHANGED <<m_file, size, content, disk>> /\ m_data \in Seq(Buffers)
      /\ flushing = "no"
  BY DEF Enqueue, EnqueueData, EnqueueOffset, Control, ControlTypeOK, InHandler
<1>2. CASE m_data_written = <<>>
  <2>1. m_state # "IS_EXECUTING"
    BY <1>1, <1>2 DEF Control, WrittenIffExecuting
  <2>2. CASE EnqueueData(b)
    <3>1. CommitData(Append(m_data, b), m_amend)
      BY <1>2, <2>2 DEF EnqueueData, PutInQueue
    <3>2. Append(m_data, b) \in Seq(Buffers) /\ \E x \in Buffers : Append(m_data, b) = Append(m_data, x)
      BY <1>1
    <3> QED
      BY <1>1, <1>2, <2>1, <3>1, <3>2, CommitDataMoves
  <2>3. CASE EnqueueOffset(b)
    <3>1. CommitData(m_data, m_amend \cup {b})
      BY <1>2, <2>3 DEF EnqueueOffset, PutInQueue
    <3> QED
      BY <1>1, <1>2, <2>1, <3>1, CommitDataMoves
  <2> QED
    BY <2>2, <2>3 DEF Enqueue
<1>3. CASE m_data_written # <<>>
  <2>1. /\ UNCHANGED <<m_data_written, chanVars>>
        /\ m_data' = m_data \/ m_data' = Append(m_data, b)
    BY <1>3 DEF Enqueue, EnqueueData, EnqueueOffset, PutInQueue
  <2>2. UnitsDone' = UnitsDone
    BY <2>1, UnitsDoneSame DEF chanVars
  <2>3. Steady
    BY <1>1, <2>2 DEF Steady, DataTypeOK, Contents
  <2>4. RequestForFile'
    BY <1>1, <2>1 DEF RequestForFile, chanVars
  <2>5. Stays \/ Queues
    BY <1>1, <2>1, <2>3 DEF Stays, Queues
  <2> QED
    BY <2>4, <2>5 DEF Moves
<1> QED
  BY <1>2, <1>3

LEMMA OpenMoves ==
  ASSUME Control, DataTypeOK, RequestForFile, NEW f \in Files, Open(f)
  PROVE  Moves /\ RequestForFile'
<1>1. /\ m_file = NoFile /\ UNCHANGED <<chanVars, m_data, m_data_written, size, disk, content>>
      /\ flushing = "no"
  BY DEF Open, SetFile, InHandlerOrCallback
<1>2. m_state # "IS_EXECUTING"
  BY <1>1 DEF Control, MainPhase, WrittenIffExecuting
<1>3. UnitsDone' = UnitsDone /\ UnitsDone = 0
  BY <1>1, <1>2, NoneDone, UnitsDoneSame DEF chanVars
<1>4. Steady
  BY <1>1, <1>3 DEF Steady, DataTypeOK, Contents
<1>5. RequestForFile'
  BY <1>1, <1>2 DEF RequestForFile, chanVars
<1> QED
  BY <1>1, <1>4, <1>5 DEF Moves, Stays

LEMMA CloseMoves ==
  ASSUME Control, Control', DataTypeOK, RequestForFile, Close
  PROVE  Moves /\ RequestForFile'
<1>1. flushing = "no" /\ disk' = disk
  BY DEF Close, InHandlerOrCallback
<1>2. CASE m_data_written # <<>>
  <2>1. WaitIo /\ ProcessIoResult({})
    BY <1>2 DEF Close
  <2>2. m_state = "IS_EXECUTING"
    BY <1>2 DEF Control, WrittenIffExecuting
  <2>3. m_state' = "IS_IDLE" /\ to_main > 0
    BY <2>1, <2>2 DEF WaitIo
  <2>4. {} \in SUBSET m_amend
    OBVIOUS
  <2> QED
    BY <1>1, <2>1, <2>2, <2>3, <2>4, CollectMoves
<1>3. CASE m_data_written = <<>>
  <2>1. UNCHANGED <<chanVars, m_data, m_data_written, content, size, disk>>
    BY <1>3 DEF Close
  <2>2. m_state # "IS_EXECUTING"
    BY <1>1, <1>3 DEF Control, WrittenIffExecuting
  <2>3. UnitsDone' = UnitsDone /\ UnitsDone = 0
    BY <2>1, <2>2, NoneDone, UnitsDoneSame DEF chanVars
  <2>4. Steady
    BY <2>1, <2>3 DEF Steady, DataTypeOK, Contents
  <2>5. RequestForFile'
    BY <2>1, <2>2 DEF RequestForFile, chanVars
  <2> QED
    BY <2>1, <2>4, <2>5 DEF Moves, Stays
<1> QED
  BY <1>2, <1>3

LEMMA DiscardMoves ==
  ASSUME Control, BuffersAccounted, DataTypeOK, RequestForFile, DiscardQueue
  PROVE  Moves /\ RequestForFile'
<1>1. UNCHANGED <<chanVars, m_file, m_data_written, size, disk>> /\ m_data' = <<>>
  BY DEF DiscardQueue
<1>2. content' = [x \in Buffers |-> IF x \in Range(m_data) \cup m_amend THEN <<>> ELSE content[x]]
  BY DEF DiscardQueue, Emptied
<1>3. content' \in Contents
  <2>1. <<>> \in Seq(Nat)
    OBVIOUS
  <2> QED
    BY <1>2, <2>1 DEF Contents, DataTypeOK
<1>4. Range(m_data_written) \subseteq Buffers
  BY RangeOfSeq DEF Control, ControlTypeOK, ChanControlTypeOK
<1>5. \A b \in Range(m_data_written) : content'[b] = content[b]
  BY <1>2, <1>4 DEF BuffersAccounted
<1>6. UnitsDone' = UnitsDone
  BY <1>1, UnitsDoneSame DEF chanVars
<1>7. Steady
  BY <1>1, <1>3, <1>6 DEF Steady
<1>8. RequestForFile'
  BY <1>1 DEF RequestForFile, chanVars
<1> QED
  BY <1>1, <1>5, <1>7, <1>8 DEF Moves, Discards

LEMMA FlushMoves ==
  ASSUME Control, Control', DataTypeOK, RequestForFile, FlushStep
  PROVE  Moves /\ RequestForFile'
<1>1. m_amend \in SUBSET m_amend /\ m_data \in Seq(Buffers)
  BY DEF Control, ControlTypeOK
<1>2. ASSUME WaitIo, ProcessIoResult(m_amend), m_state = "IS_EXECUTING", disk' = disk
      PROVE  Moves /\ RequestForFile'
  <2>1. m_state' = "IS_IDLE" /\ to_main > 0
    BY <1>2 DEF WaitIo
  <2> QED
    BY <1>1, <1>2, <2>1, CollectMoves
<1>3. CASE FlushSettle
  <2>1. CASE m_data_written # <<>>
    <3>1. m_state = "IS_EXECUTING"
      BY <2>1 DEF Control, WrittenIffExecuting
    <3>2. WaitIo /\ ProcessIoResult(m_amend) /\ disk' = disk
      BY <1>3, <2>1 DEF FlushSettle
    <3> QED
      BY <1>2, <3>1, <3>2
  <2>2. CASE m_data_written = <<>>
    <3>1. UNCHANGED <<chanVars, m_file, m_data, m_data_written, size, disk, content>>
      BY <1>3, <2>2 DEF FlushSettle
    <3> QED
      BY <3>1, ChannelStays
  <2> QED
    BY <2>1, <2>2
<1>4. CASE FlushCommit
  <2>1. CASE m_data # <<>> \/ m_amend # {}
    <3>1. m_data_written = <<>> /\ m_state # "IS_EXECUTING"
      BY <1>4 DEF FlushCommit, Control, MainPhase, WrittenIffExecuting
    <3>2. CommitAll(m_data, m_amend) /\ UNCHANGED <<m_file, size, content, disk>>
      BY <1>4, <2>1 DEF FlushCommit
    <3> QED
      BY <1>1, <3>1, <3>2, CommitMoves
  <2>2. CASE ~(m_data # <<>> \/ m_amend # {})
    <3>1. UNCHANGED <<chanVars, m_file, m_data, m_data_written, size, disk, content>>
      BY <1>4, <2>2 DEF FlushCommit
    <3> QED
      BY <3>1, ChannelStays
  <2> QED
    BY <2>1, <2>2
<1>5. CASE FlushAwait
  <2>1. m_state = "IS_EXECUTING"
    BY <1>5 DEF FlushAwait, Control, MainPhase
  <2>2. WaitIo /\ ProcessIoResult(m_amend) /\ disk' = disk
    BY <1>5 DEF FlushAwait
  <2> QED
    BY <1>2, <2>1, <2>2
<1>6. CASE FlushReport
  <2>1. UNCHANGED <<chanVars, m_file, m_data, m_data_written, size, disk, content>>
    BY <1>6 DEF FlushReport
  <2> QED
    BY <2>1, ChannelStays
<1> QED
  BY <1>3, <1>4, <1>5, <1>6 DEF FlushStep

LEMMA LoopMoves ==
  ASSUME Control, Control', DataTypeOK, RequestForFile, LoopStep
  PROVE  Moves /\ RequestForFile'
<1>1. m_amend \in SUBSET m_amend /\ m_data \in Seq(Buffers)
  BY DEF Control, ControlTypeOK
<1>2. CASE Poll \/ EndRound \/ Process \/ Join
  <2>1. UNCHANGED <<chanVars, m_file, m_data, m_data_written, size, disk, content>>
    BY <1>2 DEF Poll, EndRound, Process, Join, schedVars
  <2> QED
    BY <2>1, ChannelStays
<1>3. CASE OnIoDone
  <2>1. ReadResult /\ ProcessIoResult(m_amend) /\ disk' = disk
    BY <1>3 DEF OnIoDone
  <2>2. to_main > 0 /\ m_state' = "IS_IDLE"
    BY <2>1 DEF ReadResult
  <2>3. m_state = "IS_EXECUTING"
    BY <2>2 DEF Control, ChannelPhase
  <2> QED
    BY <1>1, <2>1, <2>2, <2>3, CollectMoves
<1>4. CASE CallbackDone
  <2>1. CASE m_file # NoFile
    <3>1. m_data_written = <<>> /\ m_state # "IS_EXECUTING"
      BY <1>4 DEF CallbackDone, Control, ChannelPhase, MainPhase
    <3>2. CommitData(m_data, m_amend) /\ UNCHANGED <<m_file, size, content, disk>>
      BY <1>4, <2>1 DEF CallbackDone
    <3> QED
      BY <1>1, <3>1, <3>2, CommitDataMoves
  <2>2. CASE m_file = NoFile
    <3>1. UNCHANGED <<chanVars, m_file, m_data, m_data_written, size, disk, content>>
      BY <1>4, <2>2 DEF CallbackDone
    <3> QED
      BY <3>1, ChannelStays
  <2> QED
    BY <2>1, <2>2
<1> QED
  BY <1>2, <1>3, <1>4 DEF LoopStep

LEMMA ThreadMoves ==
  ASSUME Control, DataTypeOK, RequestForFile, ThreadStep
  PROVE  Moves /\ RequestForFile'
<1>1. UNCHANGED <<m_state, m_file, m_data, m_data_written, size, content>>
  BY DEF ThreadStep, IoThread, ThreadRead, ThreadWrite, ThreadRespond
<1>2. content' \in Contents
  BY <1>1 DEF DataTypeOK, Contents
<1>3. \A b \in Range(m_data) \cup Range(m_data_written) : content'[b] = content[b]
  BY <1>1
<1>4. CASE ThreadRead
  <2>1. UNCHANGED <<m_cur_req, disk, to_main>> /\ to_main = 0
    BY <1>4 DEF ThreadRead, Control, ChannelPhase
  <2>2. io_thread \notin {"respond"} /\ io_thread' \notin {"respond"}
    BY <1>4 DEF ThreadRead
  <2>3. UnitsDone' = UnitsDone
    BY <2>1, <2>2 DEF UnitsDone
  <2> QED
    BY <1>1, <1>2, <1>3, <2>1, <2>3, StaysPut
<1>5. CASE ThreadRespond
  <2>1. UNCHANGED <<m_cur_req, disk>> /\ to_main' = to_main + 1 /\ to_main \in Nat /\ io_thread = "respond"
    BY <1>5 DEF ThreadRespond, Control, ControlTypeOK, ChanControlTypeOK
  <2>2. UnitsDone' = UnitsDone
    BY <2>1 DEF UnitsDone
  <2> QED
    BY <1>1, <1>2, <1>3, <2>1, <2>2, StaysPut
<1>6. CASE ThreadWrite
  <2>1. m_state = "IS_EXECUTING" /\ to_main = 0 /\ io_thread = "do_io"
    BY <1>6 DEF ThreadWrite, Control, ChannelPhase
  <2>2. UnitsDone = 0
    BY <2>1 DEF UnitsDone
  <2>3. m_cur_req \in Requests
    BY DEF Control, ControlTypeOK, ChanControlTypeOK, Requests
  <2>4. m_cur_req'.file = m_cur_req.file
    BY <1>6, <2>3 DEF ThreadWrite, Requests
  <2>5. RequestForFile'
    BY <1>1, <2>4 DEF RequestForFile
  <2> QED
    BY <1>1, <1>6, <2>1, <2>2, <2>5 DEF Moves, Writes
<1> QED
  BY <1>4, <1>5, <1>6 DEF ThreadStep, IoThread

LEMMA StepMoves ==
  ASSUME Control, Control', BuffersAccounted, DataTypeOK, RequestForFile, [Next]_vars
  PROVE  Moves /\ RequestForFile'
<1>1. CASE \E b \in Buffers : Fill(b) \/ Drop(b) \/ FreeBuffer(b) \/ Enqueue(b)
  BY <1>1, HeldMoves, EnqueueMoves
<1>2. CASE \E f \in Files : Open(f)
  BY <1>2, OpenMoves
<1>3. CASE GetFreeBuffer \/ Flush \/ UNCHANGED vars
  <2>1. UNCHANGED <<chanVars, m_file, m_data, m_data_written, size, disk, content>>
    BY <1>3 DEF GetFreeBuffer, Flush, vars, schedVars
  <2> QED
    BY <2>1, ChannelStays
<1>4. CASE Stop
  <2>1. UNCHANGED <<m_state, m_cur_req, to_main, io_thread, m_file, m_data, m_data_written, size, disk, content>>
    BY <1>4 DEF Stop, SendQuit, schedVars
  <2>2. UnitsDone' = UnitsDone
    BY <2>1, UnitsDoneSame
  <2>3. content' \in Contents
    BY <2>1 DEF DataTypeOK, Contents
  <2>4. \A b \in Range(m_data) \cup Range(m_data_written) : content'[b] = content[b]
    BY <2>1
  <2>5. UNCHANGED <<m_state, m_cur_req, m_file, m_data, m_data_written, size, disk>>
    BY <2>1
  <2> QED
    BY <2>2, <2>3, <2>4, <2>5, StaysPut
<1> QED
  BY <1>1, <1>2, <1>3, <1>4, CloseMoves, DiscardMoves, FlushMoves, LoopMoves, ThreadMoves DEF Next

------------------------------------------------------------------------------
(* The size of a file.                                                       *)

\* How many of the units on the storage are in file f.
UnitsOf(d, f) == Cardinality({i \in DOMAIN d : d[i][1] = f})

Entries == Files \X Nat

LEMMA UnitsOfType == \A d \in Seq(Entries) : \A f : UnitsOf(d, f) \in Nat
<1> SUFFICES ASSUME NEW d \in Seq(Entries), NEW f
             PROVE  UnitsOf(d, f) \in Nat
  OBVIOUS
<1> DEFINE A == {i \in 1 .. Len(d) : d[i][1] = f}
<1>1. Len(d) \in Nat /\ DOMAIN d = 1 .. Len(d)
  OBVIOUS
<1>2. IsFiniteSet(1 .. Len(d))
  <2>1. 1 \in Int /\ Len(d) \in Int
    BY <1>1
  <2> QED
    BY <2>1, FS_Interval
<1>3. A \subseteq 1 .. Len(d)
  OBVIOUS
<1>4. UnitsOf(d, f) = Cardinality(A)
  BY <1>1 DEF UnitsOf
<1> HIDE DEF A
<1> QED
  BY <1>2, <1>3, <1>4, FS_Subset, FS_CardinalityType

AllIn(e, g) == \A i \in 1 .. Len(e) : e[i][1] = g

\* A write adds its units to the file written.
LEMMA UnitsOfMore ==
  ASSUME NEW d \in Seq(Entries), NEW e \in Seq(Entries), NEW f, NEW g, AllIn(e, g)
  PROVE  /\ f = g => UnitsOf(d \o e, f) = UnitsOf(d, f) + Len(e)
         /\ f # g => UnitsOf(d \o e, f) = UnitsOf(d, f)
<1> DEFINE a == d \o e
           A == {i \in 1 .. Len(d) : d[i][1] = f}
           B == IF f = g THEN Len(d) + 1 .. Len(d) + Len(e) ELSE {}
           C == {i \in DOMAIN a : a[i][1] = f}
<1>1. /\ Len(d) \in Nat /\ Len(e) \in Nat /\ DOMAIN d = 1 .. Len(d)
      /\ DOMAIN a = 1 .. Len(d) + Len(e)
      /\ \A i \in 1 .. Len(d) + Len(e) : a[i] = IF i <= Len(d) THEN d[i] ELSE e[i - Len(d)]
  <2>1. /\ a \in Seq(Entries) /\ Len(a) = Len(d) + Len(e)
        /\ \A i \in 1 .. Len(d) + Len(e) : a[i] = IF i <= Len(d) THEN d[i] ELSE e[i - Len(d)]
    BY ConcatProperties
  <2> QED
    BY <2>1, LenProperties
<1> HIDE DEF a
<1>2. C = A \cup B
  <2>1. ASSUME NEW i \in 1 .. Len(d) + Len(e)
        PROVE  i \in C <=> i \in A \cup B
    <3>1. CASE i <= Len(d)
      <4>1. i \in 1 .. Len(d) /\ a[i] = d[i] /\ i \notin B
        BY <1>1, <3>1
      <4> QED
        BY <1>1, <4>1
    <3>2. CASE ~(i <= Len(d))
      <4>1. i \notin A /\ a[i] = e[i - Len(d)] /\ i - Len(d) \in 1 .. Len(e)
        BY <1>1, <3>2
      <4>2. a[i][1] = g
        BY <4>1 DEF AllIn
      <4>3. i \in Len(d) + 1 .. Len(d) + Len(e)
        BY <1>1, <3>2
      <4> QED
        BY <1>1, <4>1, <4>2, <4>3
    <3> QED
      BY <3>1, <3>2
  <2>2. C \subseteq 1 .. Len(d) + Len(e)
    BY <1>1
  <2>3. A \cup B \subseteq 1 .. Len(d) + Len(e)
    BY <1>1
  <2> HIDE DEF A, B, C
  <2> QED
    BY <2>1, <2>2, <2>3
<1>3. IsFiniteSet(A) /\ Cardinality(A) \in Nat
  <2>1. IsFiniteSet(1 .. Len(d))
    <3>1. 1 \in Int /\ Len(d) \in Int
      BY <1>1
    <3> QED
      BY <3>1, FS_Interval
  <2>2. A \subseteq 1 .. Len(d)
    OBVIOUS
  <2> HIDE DEF A
  <2> QED
    BY <2>1, <2>2, FS_Subset, FS_CardinalityType
<1>4. IsFiniteSet(B) /\ Cardinality(B) = IF f = g THEN Len(e) ELSE 0
  <2>1. CASE f = g
    <3> DEFINE x == Len(d) + 1
               y == Len(d) + Len(e)
    <3>1. x \in Int /\ y \in Int /\ (IF x > y THEN 0 ELSE y - x + 1) = Len(e)
      BY <1>1
    <3> HIDE DEF x, y
    <3>2. IsFiniteSet(x .. y) /\ Cardinality(x .. y) = Len(e)
      BY <3>1, FS_Interval
    <3> QED
      BY <2>1, <3>2 DEF x, y
  <2>2. CASE f # g
    BY <2>2, FS_EmptySet
  <2> QED
    BY <2>1, <2>2
<1>5. A \cap B = {}
  BY <1>1
<1> HIDE DEF A, B, C
<1>6. Cardinality(A \cup B) = Cardinality(A) + Cardinality(B)
  <2>1. Cardinality(A \cup B) = Cardinality(A) + Cardinality(B) - Cardinality(A \cap B)
    BY <1>3, <1>4, FS_Union
  <2>2. Cardinality(A \cap B) = 0
    BY <1>5, FS_EmptySet
  <2>3. Cardinality(B) \in Nat
    BY <1>4, FS_CardinalityType
  <2> QED
    BY <1>3, <2>1, <2>2, <2>3
<1>7. UnitsOf(d, f) = Cardinality(A) /\ UnitsOf(d \o e, f) = Cardinality(C)
  BY <1>1 DEF UnitsOf, A, C, a
<1> QED
  BY <1>2, <1>3, <1>4, <1>6, <1>7

\* The invariant of the data part, on top of that of the control part.
DataInv ==
  /\ RequestForFile
  /\ SizeMatchesDisk
  /\ UnitsDone <= Len(UnitsIn(content, m_data_written))

\* The log that is accepted and not on the storage.
Pending == After(UnitsIn(content, m_data_written), UnitsDone) \o UnitsIn(content, m_data)

\* What a result leaves: the units written are no longer in a block, or, when
\* nothing was written, the whole batch is dropped.
LEMMA CollectedUnits ==
  ASSUME Control, BuffersAccounted, DataTypeOK, NEW amend \in SUBSET m_amend,
         ProcessIoResult(amend),
         m_cur_req.written <= Len(UnitsIn(content, m_data_written))
  PROVE  /\ content' \in Contents /\ m_data_written' = <<>>
         /\ UnitsIn(content', m_data') =
              (IF m_cur_req.written = 0 THEN <<>>
               ELSE After(UnitsIn(content, m_data_written), m_cur_req.written))
                \o UnitsIn(content, m_data)
<1> DEFINE n == m_cur_req.written
           w == m_data_written
           k == IF n = 0 THEN Len(w) ELSE Whole(content, w, n)
           done == UpTo(w, k)
           rest == After(w, k)
           freed == Range(done) \cup (m_amend \ amend)
           m == n - FirstUnits(content, w, k)
<1>1. /\ n \in Nat /\ w \in Seq(Buffers) /\ m_data \in Seq(Buffers) /\ content \in Contents
      /\ Len(w) \in Nat
  BY DEF Control, ControlTypeOK, ChanControlTypeOK, DataTypeOK, Contents
<1>2. /\ m_data' = rest \o m_data /\ m_data_written' = <<>>
      /\ content' = [b \in Buffers |->
                       IF b \in freed THEN <<>>
                       ELSE IF rest # <<>> /\ b = rest[1] THEN After(content[b], m) ELSE content[b]]
  <2>1. k = IF n = 0 THEN Len(w) ELSE WholeBlocks(n)
    BY WholeIs
  <2>2. Len(Units(done)) = FirstUnits(content, w, k)
    BY UnitsAreIn DEF FirstUnits
  <2>3. \A b : After(content[b], m) = SubSeq(content[b], n - Len(Units(done)) + 1, Len(content[b]))
    BY <2>2 DEF After
  <2> HIDE DEF m
  <2> QED
    BY <2>1, <2>3 DEF ProcessIoResult, Requeue, UpTo, After
<1>3. k \in 0 .. Len(w) /\ (k < Len(w) => m \in Nat)
  <2>1. CASE n = 0
    BY <1>1, <2>1
  <2>2. CASE n # 0
    <3>1. k \in 0 .. Len(w) /\ FirstUnits(content, w, k) <= n
      BY <1>1, <2>2, WholeCovers
    <3>2. FirstUnits(content, w, k) \in Nat
      BY <1>1, <3>1, FirstUnitsType
    <3> QED
      BY <1>1, <3>1, <3>2
  <2> QED
    BY <2>1, <2>2
<1> HIDE DEF n, w, k
<1>4. /\ done \in Seq(Buffers) /\ rest \in Seq(Buffers)
      /\ Range(w) = Range(done) \cup Range(rest)
      /\ Range(done) \cap Range(rest) = {} /\ IsInjective(w)
  <2>1. IsInjective(w)
    BY DEF BuffersAccounted, w
  <2> QED
    BY <1>1, <1>3, <2>1, RangeOfParts DEF UpTo, After
<1>5. rest # <<>> => k < Len(w)
  <2>1. CASE k = Len(w)
    <3>1. Len(rest) = 0
      <4>1. Len(rest) = Len(w) - k
        BY <1>1, <1>3, AfterBlocks
      <4> QED
        BY <1>1, <2>1, <4>1
    <3> QED
      BY <1>4, <3>1, EmptySeq
  <2>2. CASE k # Len(w)
    BY <1>1, <1>3, <2>2
  <2> QED
    BY <2>1, <2>2
<1> HIDE DEF done, rest, m
<1>6. content' \in Contents
  <2>1. ASSUME NEW b \in Buffers, rest # <<>>
        PROVE  After(content[b], m) \in Seq(Nat)
    <3>1. m \in Nat /\ content[b] \in Seq(Nat)
      BY <1>1, <1>3, <1>5, <2>1 DEF Contents
    <3>2. m + 1 \in Nat /\ m + 1 >= 1 /\ Len(content[b]) \in Nat
      BY <3>1
    <3> QED
      BY <3>1, <3>2 DEF After
  <2>2. \A b \in Buffers : content[b] \in Seq(Nat) /\ <<>> \in Seq(Nat)
    BY <1>1 DEF Contents
  <2>3. \A b \in Buffers : content'[b] \in Seq(Nat)
    <3> HIDE DEF freed
    <3> QED
      BY <1>2, <2>1, <2>2
  <2>4. content' = [b \in Buffers |-> content'[b]]
    BY <1>2
  <2> QED
    BY <2>3, <2>4 DEF Contents
<1>7. /\ Range(rest) \cap freed = {} /\ Range(m_data) \cap freed = {}
      /\ Range(m_data) \cap Range(rest) = {}
      /\ Range(rest) \subseteq Buffers /\ Range(m_data) \subseteq Buffers
  <2>1. Range(rest) \subseteq Buffers /\ Range(m_data) \subseteq Buffers
    BY <1>1, <1>4, RangeOfSeq
  <2> QED
    BY <1>4, <2>1 DEF BuffersAccounted, w
<1>8. UnitsIn(content', m_data') = UnitsIn(content', rest) \o UnitsIn(content', m_data)
  BY <1>1, <1>2, <1>4, <1>6, UnitsConcat
<1>9. UnitsIn(content', m_data) = UnitsIn(content, m_data)
  <2>1. ASSUME NEW b \in Range(m_data)
        PROVE  content'[b] = content[b]
    <3>1. b \in Buffers /\ b \notin freed /\ b \notin Range(rest)
      BY <1>7
    <3>2. rest # <<>> => rest[1] \in Range(rest)
      <4>1. rest # <<>> => 1 \in DOMAIN rest
        BY <1>4
      <4> QED
        BY <4>1 DEF Range
    <3> HIDE DEF freed
    <3> QED
      BY <1>2, <3>1, <3>2
  <2> QED
    BY <1>1, <2>1, UnitsSame
<1>10. UnitsIn(content', rest) = IF n = 0 THEN <<>> ELSE After(UnitsIn(content, w), n)
  <2>1. CASE n = 0
    <3>1. k = Len(w)
      BY <2>1 DEF k
    <3>2. rest = <<>>
      BY <1>1, <1>5, <3>1
    <3> QED
      BY <2>1, <3>2, NoUnits
  <2>2. CASE n # 0
    <3>1. k = Whole(content, w, n) /\ rest = After(w, k) /\ n \in 0 .. Len(UnitsIn(content, w))
      <4>1. Len(UnitsIn(content, w)) \in Nat
        BY <1>1, UnitsType
      <4> QED
        BY <1>1, <2>2, <4>1 DEF k, rest, n, w
    <3>2. ASSUME NEW b \in Range(rest)
          PROVE  content'[b] = IF b = rest[1] THEN After(content[b], m) ELSE content[b]
      <4>1. b \in Buffers /\ b \notin freed
        BY <1>7
      <4>2. rest # <<>>
        BY NoBlocks
      <4> HIDE DEF freed
      <4> QED
        BY <1>2, <4>1, <4>2
    <3>3. m = n - FirstUnits(content, w, k)
      BY DEF m
    <3>4. UnitsIn(content', rest) = After(UnitsIn(content, w), n)
      BY <1>1, <1>4, <1>6, <3>1, <3>2, <3>3, RestOfBatch
    <3> QED
      BY <2>2, <3>4
  <2> QED
    BY <2>1, <2>2
<1> QED
  BY <1>2, <1>6, <1>8, <1>9, <1>10 DEF n, w

\* A write of the I/O thread: n of the batch's units, oldest first.
LEMMA WrittenUnits ==
  ASSUME Control, DataTypeOK, Writes
  PROVE  \E n \in 0 .. Len(UnitsIn(content, m_data_written)) :
            /\ UnitsDone' = n
            /\ disk' = disk \o [i \in 1 .. n |-> <<m_cur_req.file, UnitsIn(content, m_data_written)[i]>>]
            /\ UNCHANGED <<m_state, m_data_written, content>>
<1>1. PICK n \in 0 .. Len(UnitsIn(content, m_data_written)), e \in Errors \cup {NoError} :
        /\ m_cur_req' = [m_cur_req EXCEPT !.written = n, !.err = e]
        /\ disk' = disk \o [i \in 1 .. n |-> <<m_cur_req.file, UnitsIn(content, m_data_written)[i]>>]
  BY UnitsAreIn DEF Writes, ThreadWrite
<1>2. m_cur_req \in Requests
  BY DEF Control, ControlTypeOK, ChanControlTypeOK, Requests
<1>3. m_cur_req'.written = n
  BY <1>1, <1>2 DEF Requests
<1>4. io_thread' = "respond" /\ UNCHANGED <<m_state, m_data_written, content>>
  BY DEF Writes, ThreadWrite
<1>5. UnitsDone' = n
  BY <1>3, <1>4 DEF UnitsDone
<1> QED
  BY <1>1, <1>4, <1>5

LEMMA DataParts ==
  /\ DataInv <=>
       /\ RequestForFile /\ DataTypeOK
       /\ \A f \in Files : UnitsOf(disk, f) = size[f] + (IF f = m_file THEN UnitsDone ELSE 0)
       /\ UnitsDone <= Len(UnitsIn(content, m_data_written))
  /\ DataInv' <=>
       /\ RequestForFile' /\ DataTypeOK'
       /\ \A f \in Files : UnitsOf(disk', f) = size'[f] + (IF f = m_file' THEN UnitsDone' ELSE 0)
       /\ UnitsDone' <= Len(UnitsIn(content', m_data_written'))
  BY DEF DataInv, SizeMatchesDisk, UnitsOf

\* In each step that neither writes nor collects the batch's units stay.
LEMMA SteadyData ==
  ASSUME Control, Control', DataInv, RequestForFile', Stays \/ Queues \/ Commits \/ Discards
  PROVE  DataInv'
<1>1. /\ DataTypeOK
      /\ \A f \in Files : UnitsOf(disk, f) = size[f] + (IF f = m_file THEN UnitsDone ELSE 0)
      /\ UnitsDone <= Len(UnitsIn(content, m_data_written))
  BY DataParts
<1>2. Steady
  BY DEF Stays, Queues, Commits, Discards
<1>3. DataTypeOK'
  BY <1>1, <1>2 DEF Steady, DataTypeOK, Contents
<1>4. \A f \in Files : UnitsOf(disk', f) = size'[f] + (IF f = m_file' THEN UnitsDone' ELSE 0)
  <2>1. disk' = disk /\ size' = size /\ UnitsDone' = UnitsDone /\ (m_file' = m_file \/ UnitsDone = 0)
    BY <1>2 DEF Steady
  <2>2. CASE m_file' = m_file
    BY <1>1, <2>1, <2>2
  <2>3. CASE UnitsDone = 0
    BY <1>1, <2>1, <2>3
  <2> QED
    BY <2>1, <2>2, <2>3
<1>5. UnitsDone' <= Len(UnitsIn(content', m_data_written'))
  <2>1. /\ m_data_written \in Seq(Buffers) /\ m_data_written' \in Seq(Buffers)
        /\ content' \in Contents
    BY <1>2 DEF Control, ControlTypeOK, ChanControlTypeOK, Steady
  <2>2. CASE Commits
    <3>1. UnitsDone' = 0
      BY <2>2 DEF Commits, Steady
    <3>2. UnitsIn(content', m_data_written') \in Seq(Nat)
      BY <2>1, UnitsType
    <3>3. Len(UnitsIn(content', m_data_written')) \in Nat
      BY <3>2
    <3> QED
      BY <3>1, <3>3
  <2>3. CASE Stays \/ Queues \/ Discards
    <3>1. /\ m_data_written' = m_data_written
          /\ \A b \in Range(m_data_written) : content[b] = content'[b]
      BY <2>3 DEF Stays, Queues, Discards
    <3>2. UnitsIn(content, m_data_written) = UnitsIn(content', m_data_written)
      BY <2>1, <3>1, UnitsSame
    <3> QED
      BY <1>1, <1>2, <3>1, <3>2 DEF Steady
  <2> QED
    BY <2>2, <2>3
<1> QED
  BY <1>3, <1>4, <1>5, DataParts

LEMMA WriteData ==
  ASSUME Control, DataInv, RequestForFile', Writes
  PROVE  DataInv'
<1>1. /\ DataTypeOK /\ RequestForFile
      /\ \A f \in Files : UnitsOf(disk, f) = size[f] + (IF f = m_file THEN UnitsDone ELSE 0)
  BY DataParts
<1> DEFINE u == UnitsIn(content, m_data_written)
<1>2. m_data_written \in Seq(Buffers) /\ content \in Contents /\ disk \in Seq(Files \X Nat)
  BY <1>1 DEF Control, ControlTypeOK, ChanControlTypeOK, DataTypeOK, Contents
<1>3. u \in Seq(Nat) /\ Len(u) \in Nat
  BY <1>2, UnitsType
<1>4. PICK n \in 0 .. Len(u) :
         /\ UnitsDone' = n
         /\ disk' = disk \o [i \in 1 .. n |-> <<m_cur_req.file, u[i]>>]
         /\ UNCHANGED <<m_state, m_data_written, content>>
  BY <1>1, WrittenUnits
<1> HIDE DEF u
<1> DEFINE e == [i \in 1 .. n |-> <<m_cur_req.file, u[i]>>]
<1>5. m_cur_req.file = m_file /\ m_file \in Files
  <2>1. m_cur_req.file = m_file
    BY <1>1 DEF Writes, RequestForFile
  <2>2. m_file # NoFile /\ m_file \in FileOrNone
    BY DEF Writes, Control, WrittenIffExecuting, MainPhase, ControlTypeOK
  <2> QED
    BY <2>1, <2>2 DEF FileOrNone
<1>6. n \in Nat /\ n <= Len(u) /\ \A i \in 1 .. n : u[i] \in Nat
  BY <1>3
<1>7. e \in Seq(Files \X Nat) /\ Len(e) = n /\ \A i \in 1 .. Len(e) : e[i][1] = m_file
  <2>1. e \in [1 .. n -> Files \X Nat] /\ \A i \in 1 .. n : e[i][1] = m_file
    BY <1>5, <1>6
  <2>2. [1 .. n -> Files \X Nat] \subseteq Seq(Files \X Nat)
    BY <1>6, SeqDef
  <2>3. DOMAIN e = 1 .. n
    OBVIOUS
  <2> HIDE DEF e
  <2>4. e \in Seq(Files \X Nat) /\ Len(e) = n
    BY <1>6, <2>1, <2>2, <2>3
  <2> QED
    BY <2>1, <2>4
<1> HIDE DEF e
<1>8. disk' = disk \o e
  BY <1>4 DEF e
<1>9. DataTypeOK'
  <2>1. disk \o e \in Seq(Files \X Nat)
    BY <1>2, <1>7, ConcatProperties
  <2>2. content' = content
    BY <1>4
  <2> QED
    BY <1>1, <1>8, <2>1, <2>2 DEF DataTypeOK
<1>10. ASSUME NEW f \in Files
       PROVE  UnitsOf(disk', f) = size'[f] + (IF f = m_file' THEN UnitsDone' ELSE 0)
  <2>1. UnitsOf(disk \o e, f) = UnitsOf(disk, f) + (IF f = m_file THEN Len(e) ELSE 0)
    <3> DEFINE d == disk
               g == m_file
    <3>1. d \in Seq(Entries) /\ e \in Seq(Entries) /\ AllIn(e, g)
      BY <1>2, <1>7 DEF AllIn, Entries
    <3> HIDE DEF d, g
    <3>2. CASE f = g
      <4>1. UnitsOf(d \o e, f) = UnitsOf(d, f) + Len(e)
        BY <3>1, <3>2, UnitsOfMore
      <4> QED
        BY <3>2, <4>1 DEF d, g
    <3>3. CASE f # g
      <4>1. UnitsOf(d \o e, f) = UnitsOf(d, f)
        BY <3>1, <3>3, UnitsOfMore
      <4>2. UnitsOf(disk, f) \in Nat
        BY <1>1, UnitsOfType DEF DataTypeOK, Entries
      <4> QED
        BY <3>3, <4>1, <4>2 DEF d, g
    <3> QED
      BY <3>2, <3>3
  <2>2. UnitsDone = 0 /\ size' = size /\ m_file' = m_file
    BY DEF Writes
  <2>3. size[f] \in Nat /\ n \in Nat
    BY <1>6 DEF Control, ControlTypeOK
  <2>4. UnitsOf(disk, f) = size[f]
    BY <1>1, <2>2, <2>3
  <2>5. UnitsOf(disk', f) = size[f] + (IF f = m_file THEN n ELSE 0)
    BY <1>7, <1>8, <2>1, <2>4
  <2>6. (IF f = m_file' THEN UnitsDone' ELSE 0) = (IF f = m_file THEN n ELSE 0)
    BY <1>4, <2>2
  <2> QED
    BY <2>2, <2>5, <2>6
<1>11. UnitsDone' <= Len(UnitsIn(content', m_data_written'))
  BY <1>4, <1>6 DEF u
<1> QED
  BY <1>9, <1>10, <1>11, DataParts

LEMMA CollectData ==
  ASSUME Control, Control', BuffersAccounted, DataInv, RequestForFile', Collects
  PROVE  DataInv'
<1>1. /\ DataTypeOK
      /\ \A f \in Files : UnitsOf(disk, f) = size[f] + (IF f = m_file THEN UnitsDone ELSE 0)
      /\ UnitsDone <= Len(UnitsIn(content, m_data_written))
  BY DataParts
<1>2. PICK amend \in SUBSET m_amend : ProcessIoResult(amend)
  BY DEF Collects
<1>3. UnitsDone = m_cur_req.written /\ UnitsDone' = 0 /\ disk' = disk
  BY DEF Collects
<1>4. content' \in Contents /\ m_data_written' = <<>>
  BY <1>1, <1>2, <1>3, CollectedUnits
<1>5. DataTypeOK'
  BY <1>1, <1>3, <1>4 DEF DataTypeOK, Contents
<1>6. size' = AddSize(m_cur_req.written)
  BY <1>2 DEF ProcessIoResult
<1>7. ASSUME NEW f \in Files
      PROVE  UnitsOf(disk', f) = size'[f] + (IF f = m_file' THEN UnitsDone' ELSE 0)
  <2>1. size \in [Files -> Nat] /\ m_cur_req.written \in Nat
    BY DEF Control, ControlTypeOK, ChanControlTypeOK
  <2>2. UnitsOf(disk, f) = size'[f]
    BY <1>1, <1>3, <1>6, <2>1 DEF AddSize
  <2>3. size'[f] \in Nat
    BY DEF Control, ControlTypeOK
  <2> QED
    BY <1>3, <2>2, <2>3
<1>8. UnitsDone' <= Len(UnitsIn(content', m_data_written'))
  <2>1. UnitsIn(content', m_data_written') = <<>>
    BY <1>4, NoUnits
  <2> QED
    BY <1>3, <2>1
<1> QED
  BY <1>5, <1>7, <1>8, DataParts

LEMMA DataInit == Init => DataInv
<1> SUFFICES ASSUME Init PROVE DataInv
  OBVIOUS
<1>1. /\ m_state = "IS_IDLE" /\ disk = <<>> /\ size = [f \in Files |-> 0] /\ m_data_written = <<>>
      /\ to_main = 0 /\ io_thread = "read" /\ content = [b \in Buffers |-> <<>>]
  BY DEF Init, ChanInit
<1>2. UnitsDone = 0
  BY <1>1 DEF UnitsDone
<1>3. DataTypeOK
  <2>1. <<>> \in Seq(Nat) /\ <<>> \in Seq(Files \X Nat)
    OBVIOUS
  <2> QED
    BY <1>1, <2>1 DEF DataTypeOK
<1>4. ASSUME NEW f \in Files
      PROVE  UnitsOf(disk, f) = 0
  <2>1. {i \in DOMAIN disk : disk[i][1] = f} = {}
    BY <1>1
  <2> QED
    BY <2>1, FS_EmptySet DEF UnitsOf
<1>5. UnitsIn(content, m_data_written) = <<>>
  BY <1>1, NoUnits
<1>6. \A f \in Files : UnitsOf(disk, f) = size[f] + (IF f = m_file THEN UnitsDone ELSE 0)
  BY <1>1, <1>2, <1>4
<1> QED
  BY <1>1, <1>2, <1>3, <1>5, <1>6, DataParts DEF RequestForFile

LEMMA DataStep ==
  ASSUME Control, Control', BuffersAccounted, DataInv, [Next]_vars
  PROVE  DataInv'
<1>1. DataTypeOK /\ RequestForFile
  BY DataParts
<1>2. Moves /\ RequestForFile'
  BY <1>1, StepMoves
<1> QED
  BY <1>2, SteadyData, WriteData, CollectData DEF Moves

THEOREM DataInvariant == Spec => []DataInv
<1>1. Init => DataInv
  BY DataInit
<1>2. Control /\ Control' /\ BuffersAccounted /\ DataInv /\ [Next]_vars => DataInv'
  BY DataStep
<1> QED
  BY <1>1, <1>2, ControlInvariant, BuffersAccountedHolds, PTL DEF Spec

\* What a file is accounted for is what was written into it, though the two are
\* counted by two threads: add_size() runs when the result is collected, in the
\* poll loop, in flush() or in close(), and m_file is still the file written.
THEOREM SizeMatchesDiskHolds == Spec => []SizeMatchesDisk
<1>1. DataInv => SizeMatchesDisk
  BY DEF DataInv
<1> QED
  BY <1>1, DataInvariant, PTL

------------------------------------------------------------------------------
(* The refinement of LogStream.                                              *)

Stored == [i \in DOMAIN disk |-> disk[i][2]]

LEMMA PendingValues ==
  /\ Pending = After(UnitsIn(content, m_data_written), UnitsDone) \o UnitsIn(content, m_data)
  /\ Pending' = After(UnitsIn(content', m_data_written'), UnitsDone') \o UnitsIn(content', m_data')
  BY DEF Pending

LEMMA NothingTaken == \A s \in Seq(Nat) : After(s, 0) = s
<1> SUFFICES ASSUME NEW s \in Seq(Nat)
             PROVE  After(s, 0) = s
  OBVIOUS
<1> DEFINE r == After(s, 0)
<1>1. 0 \in 0 .. Len(s) /\ Len(s) \in Nat
  OBVIOUS
<1>2. r \in Seq(Nat) /\ Len(r) = Len(s) - 0 /\ \A i \in 1 .. Len(s) - 0 : r[i] = s[0 + i]
  BY <1>1, AfterType
<1> HIDE DEF r
<1>3. Len(r) = Len(s) /\ \A i \in 1 .. Len(r) : r[i] = s[i]
  BY <1>1, <1>2
<1>4. r = s
  BY <1>2, <1>3, SeqEqual
<1> QED
  BY <1>4 DEF r

\* What each kind of step makes of a stream p.
Accepts(p, q) == Len(q) > Len(p) /\ SubSeq(q, 1, Len(p)) = p
Takes(p, q, s, t) ==
  \E n \in 1 .. Len(p) : t = s \o SubSeq(p, 1, n) /\ q = SubSeq(p, n + 1, Len(p))
Loses(p, q) ==
  \E i, j \in 1 .. Len(p) :
    /\ i <= j
    /\ q = SubSeq(p, 1, i - 1) \o SubSeq(p, j + 1, Len(p))

LEMMA AcceptsMore ==
  ASSUME NEW p \in Seq(Nat), NEW x \in Seq(Nat)
  PROVE  p \o x = p \/ Accepts(p, p \o x)
<1> DEFINE q == p \o x
<1>1. /\ q \in Seq(Nat) /\ Len(q) = Len(p) + Len(x)
      /\ \A i \in 1 .. Len(p) + Len(x) : q[i] = IF i <= Len(p) THEN p[i] ELSE x[i - Len(p)]
  BY ConcatProperties
<1>2. Len(p) \in Nat /\ Len(x) \in Nat
  OBVIOUS
<1>3. CASE Len(x) = 0
  <2>1. x = <<>>
    BY <1>3
  <2> QED
    BY <2>1, ConcatEmptySeq
<1>4. CASE Len(x) # 0
  <2> HIDE DEF q
  <2> DEFINE r == UpTo(q, Len(p))
  <2>1. Len(q) > Len(p) /\ Len(p) \in 0 .. Len(q)
    BY <1>1, <1>2, <1>4
  <2>2. r \in Seq(Nat) /\ Len(r) = Len(p) /\ \A i \in 1 .. Len(p) : r[i] = q[i]
    BY <1>1, <2>1, FirstBlocks
  <2>3. ASSUME NEW i \in 1 .. Len(p)
        PROVE  q[i] = p[i]
    <3>1. i \in 1 .. Len(p) + Len(x) /\ i <= Len(p)
      BY <1>2
    <3> QED
      BY <1>1, <3>1
  <2>4. \A i \in 1 .. Len(p) : r[i] = p[i]
    BY <2>2, <2>3
  <2> HIDE DEF r
  <2>5. r = p
    BY <2>2, <2>4, SeqEqual
  <2>6. Accepts(p, q)
    BY <2>1, <2>5 DEF Accepts, r, UpTo
  <2> QED
    BY <2>6 DEF q
<1> QED
  BY <1>3, <1>4

\* All of the first of two parts is lost.
LEMMA LosesFront ==
  ASSUME NEW u \in Seq(Nat), NEW v \in Seq(Nat)
  PROVE  v = u \o v \/ Loses(u \o v, v)
<1> DEFINE p == u \o v
<1>1. p \in Seq(Nat) /\ Len(p) = Len(u) + Len(v) /\ Len(u) \in Nat /\ Len(v) \in Nat
  BY ConcatProperties
<1>2. CASE Len(u) = 0
  <2>1. u = <<>>
    BY <1>2
  <2> QED
    BY <2>1, ConcatEmptySeq
<1>3. CASE Len(u) # 0
  <2>1. 0 \in 0 .. Len(v) /\ Len(u) + 0 = Len(u)
    BY <1>1
  <2>2. After(p, Len(u)) = v
    <3>1. After(u \o v, Len(u) + 0) = After(v, 0)
      BY <2>1, AfterFirst
    <3> QED
      BY <2>1, <3>1, NothingTaken
  <2> HIDE DEF p
  <2>3. SubSeq(p, 1, 1 - 1) = <<>>
    BY <1>1
  <2>4. <<>> \o v = v
    BY ConcatEmptySeq
  <2>5. v = SubSeq(p, 1, 1 - 1) \o SubSeq(p, Len(u) + 1, Len(p))
    BY <2>2, <2>3, <2>4 DEF After
  <2>6. 1 \in 1 .. Len(p) /\ Len(u) \in 1 .. Len(p) /\ 1 <= Len(u)
    BY <1>1, <1>3
  <2>7. Loses(p, v)
    BY <2>5, <2>6 DEF Loses
  <2> QED
    BY <2>7 DEF p
<1> QED
  BY <1>2, <1>3

\* Or all of the second.
LEMMA LosesTail ==
  ASSUME NEW u \in Seq(Nat), NEW v \in Seq(Nat)
  PROVE  u = u \o v \/ Loses(u \o v, u)
<1> DEFINE p == u \o v
           i == Len(u) + 1
<1>1. p \in Seq(Nat) /\ Len(p) = Len(u) + Len(v) /\ Len(u) \in Nat /\ Len(v) \in Nat
  BY ConcatProperties
<1>2. CASE Len(v) = 0
  <2>1. v = <<>>
    BY <1>2
  <2> QED
    BY <2>1, ConcatEmptySeq
<1>3. CASE Len(v) # 0
  <2>1. SubSeq(p, 1, Len(u)) = u
    <3>1. u = p \/ Accepts(u, p)
      BY AcceptsMore
    <3>2. u # p
      BY <1>1, <1>3
    <3> QED
      BY <3>1, <3>2 DEF Accepts
  <2> HIDE DEF p
  <2>2. i - 1 = Len(u) /\ i \in 1 .. Len(p) /\ Len(p) \in 1 .. Len(p) /\ i <= Len(p)
    BY <1>1, <1>3
  <2>3. SubSeq(p, Len(p) + 1, Len(p)) = <<>>
    BY <1>1
  <2>4. u \o <<>> = u
    BY ConcatEmptySeq
  <2> HIDE DEF i
  <2>5. u = SubSeq(p, 1, i - 1) \o SubSeq(p, Len(p) + 1, Len(p))
    BY <2>1, <2>2, <2>3, <2>4
  <2>6. Loses(p, u)
    BY <2>2, <2>5 DEF Loses
  <2> QED
    BY <2>6 DEF p
<1> QED
  BY <1>2, <1>3

\* What a step promises, of the two histories: a step of LogStream or none.
StreamStep ==
  \/ Pending' = Pending /\ Stored' = Stored
  \/ Accepts(Pending, Pending') /\ Stored' = Stored
  \/ Takes(Pending, Pending', Stored, Stored')
  \/ Loses(Pending, Pending') /\ Stored' = Stored

LEMMA StoredSame == disk' = disk => Stored' = Stored
  BY DEF Stored

\* The two parts of the log, and their units.
LEMMA PartTypes ==
  ASSUME Control, DataInv
  PROVE  /\ m_data \in Seq(Buffers) /\ m_data_written \in Seq(Buffers) /\ content \in Contents
         /\ UnitsIn(content, m_data) \in Seq(Nat)
         /\ UnitsIn(content, m_data_written) \in Seq(Nat)
         /\ UnitsDone \in 0 .. Len(UnitsIn(content, m_data_written))
         /\ After(UnitsIn(content, m_data_written), UnitsDone) \in Seq(Nat)
<1>1. m_data \in Seq(Buffers) /\ m_data_written \in Seq(Buffers) /\ content \in Contents
  BY DataParts DEF Control, ControlTypeOK, ChanControlTypeOK, DataTypeOK, Contents
<1>2. UnitsIn(content, m_data) \in Seq(Nat) /\ UnitsIn(content, m_data_written) \in Seq(Nat)
  BY <1>1, UnitsType
<1>3. UnitsDone \in Nat
  BY DEF UnitsDone, Control, ControlTypeOK, ChanControlTypeOK
<1>4. UnitsDone \in 0 .. Len(UnitsIn(content, m_data_written))
  <2>1. Len(UnitsIn(content, m_data_written)) \in Nat
    BY <1>2
  <2> QED
    BY <1>3, <2>1, DataParts
<1> DEFINE u == UnitsIn(content, m_data_written)
           n == UnitsDone
<1>5. After(u, n) \in Seq(Nat)
  <2>1. u \in Seq(Nat) /\ n \in 0 .. Len(u)
    BY <1>2, <1>4
  <2> HIDE DEF u, n
  <2> QED
    BY <2>1, AfterType
<1> QED
  BY <1>1, <1>2, <1>4, <1>5

LEMMA StaysStream ==
  ASSUME Control, DataInv, Stays
  PROVE  StreamStep
<1>1. m_data \in Seq(Buffers) /\ m_data_written \in Seq(Buffers)
  BY PartTypes
<1>2. UnitsIn(content', m_data) = UnitsIn(content, m_data)
  BY <1>1, UnitsSame DEF Stays
<1>3. UnitsIn(content', m_data_written) = UnitsIn(content, m_data_written)
  BY <1>1, UnitsSame DEF Stays
<1>4. Pending' = Pending
  BY <1>2, <1>3, PendingValues DEF Stays, Steady
<1> QED
  BY <1>4, StoredSame DEF StreamStep, Stays, Steady

\* The units of m_data with at most a block more.
LEMMA MoreUnits ==
  ASSUME Control, DataInv, NEW data, data = m_data \/ \E b \in Buffers : data = Append(m_data, b)
  PROVE  /\ data \in Seq(Buffers)
         /\ \E x \in Seq(Nat) : UnitsIn(content, data) = UnitsIn(content, m_data) \o x
<1>1. m_data \in Seq(Buffers) /\ content \in Contents /\ UnitsIn(content, m_data) \in Seq(Nat)
  BY PartTypes
<1>2. CASE data = m_data
  <2>1. <<>> \in Seq(Nat) /\ UnitsIn(content, m_data) \o <<>> = UnitsIn(content, m_data)
    BY <1>1, ConcatEmptySeq
  <2> QED
    BY <1>1, <1>2, <2>1
<1>3. CASE \E b \in Buffers : data = Append(m_data, b)
  <2>1. PICK b \in Buffers : data = Append(m_data, b)
    BY <1>3
  <2>2. UnitsIn(content, data) = UnitsIn(content, m_data) \o content[b]
    BY <1>1, <2>1, UnitsAppend
  <2>3. content[b] \in Seq(Nat)
    BY <1>1 DEF Contents
  <2>4. data \in Seq(Buffers)
    BY <1>1, <2>1
  <2>5. UnitsIn(content, data) = UnitsIn(content, m_data) \o content[b]
    BY <2>1, <2>2
  <2> QED
    BY <2>3, <2>4, <2>5
<1> QED
  BY <1>2, <1>3

LEMMA QueuesStream ==
  ASSUME Control, DataInv, Queues
  PROVE  StreamStep
<1>1. /\ content' = content /\ m_data_written' = m_data_written /\ UnitsDone' = UnitsDone
      /\ Stored' = Stored
  BY StoredSame DEF Queues, Steady
<1>2. \E b \in Buffers : m_data' = Append(m_data, b)
  BY DEF Queues
<1> DEFINE u == After(UnitsIn(content, m_data_written), UnitsDone)
           v == UnitsIn(content, m_data)
           y == m_data'
<1>3. PICK x \in Seq(Nat) : UnitsIn(content, y) = v \o x
  <2>1. y = m_data \/ \E b \in Buffers : y = Append(m_data, b)
    BY <1>2
  <2> HIDE DEF y
  <2> QED
    BY <2>1, MoreUnits
<1>4. u \in Seq(Nat) /\ v \in Seq(Nat)
  BY PartTypes
<1>5. Pending = u \o v /\ Pending' = u \o (v \o x)
  BY <1>1, <1>3, PendingValues
<1> HIDE DEF u, v
<1>6. u \o (v \o x) = (u \o v) \o x /\ u \o v \in Seq(Nat)
  BY <1>4, ConcatTwice, ConcatProperties
<1>7. Pending' = Pending \o x /\ Pending \in Seq(Nat)
  BY <1>5, <1>6
<1>8. Pending \o x = Pending \/ Accepts(Pending, Pending \o x)
  BY <1>7, AcceptsMore
<1> QED
  BY <1>1, <1>7, <1>8 DEF StreamStep

LEMMA CommitsStream ==
  ASSUME Control, Control', DataInv, DataInv', Commits
  PROVE  StreamStep
<1>1. /\ content' = content /\ m_data_written = <<>> /\ m_data' = <<>>
      /\ UnitsDone = 0 /\ UnitsDone' = 0 /\ Stored' = Stored
  BY StoredSame DEF Commits, Steady
<1> DEFINE v == UnitsIn(content, m_data)
           y == m_data_written'
<1>2. y = m_data \/ \E b \in Buffers : y = Append(m_data, b)
  BY DEF Commits
<1>3. y \in Seq(Buffers) /\ \E x \in Seq(Nat) : UnitsIn(content, y) = v \o x
  <2> HIDE DEF y
  <2> QED
    BY <1>2, MoreUnits
<1>4. PICK x \in Seq(Nat) : UnitsIn(content, y) = v \o x
  BY <1>3
<1>5. v \in Seq(Nat) /\ v \o x \in Seq(Nat)
  <2>1. v \in Seq(Nat)
    BY PartTypes
  <2> HIDE DEF v
  <2> QED
    BY <2>1, ConcatProperties
<1>6. Pending = v
  <2>1. UnitsIn(content, <<>>) = <<>> /\ <<>> \in Seq(Nat)
    BY NoUnits
  <2>2. After(<<>>, 0) = <<>> /\ <<>> \o v = v
    BY <1>5, <2>1, NothingTaken, ConcatEmptySeq
  <2>3. Pending = After(<<>>, 0) \o v
    BY <1>1, <2>1, PendingValues
  <2> QED
    BY <2>2, <2>3
<1>7. Pending' = v \o x
  <2>1. UnitsIn(content', m_data') = <<>>
    BY <1>1, NoUnits
  <2>2. UnitsIn(content', m_data_written') = v \o x
    BY <1>1, <1>4
  <2>3. After(v \o x, 0) = v \o x /\ (v \o x) \o <<>> = v \o x
    <3> DEFINE z == v \o x
    <3>1. z \in Seq(Nat)
      BY <1>5
    <3> HIDE DEF z
    <3>2. After(z, 0) = z /\ z \o <<>> = z
      BY <3>1, NothingTaken, ConcatEmptySeq
    <3> QED
      BY <3>2 DEF z
  <2>4. Pending' = After(v \o x, 0) \o <<>>
    BY <1>1, <2>1, <2>2, PendingValues
  <2> QED
    BY <2>3, <2>4
<1> HIDE DEF v
<1>8. v \o x = v \/ Accepts(v, v \o x)
  BY <1>5, AcceptsMore
<1> QED
  BY <1>1, <1>6, <1>7, <1>8 DEF StreamStep

LEMMA DiscardsStream ==
  ASSUME Control, DataInv, Discards
  PROVE  StreamStep
<1>1. /\ m_data' = <<>> /\ m_data_written' = m_data_written /\ UnitsDone' = UnitsDone
      /\ Stored' = Stored
  BY StoredSame DEF Discards, Steady
<1>2. UnitsIn(content', m_data_written) = UnitsIn(content, m_data_written)
  BY PartTypes, UnitsSame DEF Discards
<1> DEFINE u == After(UnitsIn(content, m_data_written), UnitsDone)
           v == UnitsIn(content, m_data)
<1>3. u \in Seq(Nat) /\ v \in Seq(Nat)
  BY PartTypes
<1>4. UnitsIn(content', m_data') = <<>>
  BY <1>1, NoUnits
<1>5. Pending = u \o v /\ Pending' = u \o <<>>
  BY <1>1, <1>2, <1>4, PendingValues
<1> HIDE DEF u, v
<1>6. Pending' = u
  BY <1>3, <1>5, ConcatEmptySeq
<1>7. u = u \o v \/ Loses(u \o v, u)
  BY <1>3, LosesTail
<1> QED
  BY <1>1, <1>5, <1>6, <1>7 DEF StreamStep

\* What was written leaves the front of the queue without a trace; a batch of
\* which nothing was written is lost as a whole.
LEMMA CollectsStream ==
  ASSUME Control, BuffersAccounted, DataInv, Collects
  PROVE  StreamStep
<1> DEFINE w == UnitsIn(content, m_data_written)
           v == UnitsIn(content, m_data)
           n == UnitsDone
<1>1. PICK amend \in SUBSET m_amend : ProcessIoResult(amend)
  BY DEF Collects
<1>2. m_cur_req.written = n /\ UnitsDone' = 0 /\ Stored' = Stored /\ n <= Len(w) /\ DataTypeOK
  BY StoredSame, DataParts DEF Collects
<1>3. /\ m_data_written' = <<>>
      /\ UnitsIn(content', m_data') = (IF n = 0 THEN <<>> ELSE After(w, n)) \o v
  BY <1>1, <1>2, CollectedUnits
<1>4. w \in Seq(Nat) /\ v \in Seq(Nat) /\ After(w, n) \in Seq(Nat)
  BY PartTypes
<1>5. Pending = After(w, n) \o v
  BY PendingValues
<1> HIDE DEF w, v, n
<1>6. Pending' = (IF n = 0 THEN <<>> ELSE After(w, n)) \o v
  <2> DEFINE z == (IF n = 0 THEN <<>> ELSE After(w, n)) \o v
  <2>1. UnitsIn(content', m_data_written') = <<>> /\ <<>> \in Seq(Nat)
    BY <1>3, NoUnits
  <2>2. After(<<>>, 0) = <<>>
    BY <2>1, NothingTaken
  <2>3. z \in Seq(Nat)
    <3>1. (IF n = 0 THEN <<>> ELSE After(w, n)) \in Seq(Nat)
      BY <1>4
    <3> QED
      BY <1>4, <3>1, ConcatProperties
  <2>4. Pending' = After(<<>>, 0) \o UnitsIn(content', m_data')
    BY <1>2, <2>1, PendingValues
  <2>5. UnitsIn(content', m_data') = z
    BY <1>3
  <2> HIDE DEF z
  <2>6. <<>> \o z = z
    BY <2>3, ConcatEmptySeq
  <2>7. Pending' = z
    BY <2>2, <2>4, <2>5, <2>6
  <2> QED
    BY <2>7 DEF z
<1>7. CASE n = 0
  <2>1. Pending = w \o v /\ Pending' = v
    BY <1>4, <1>5, <1>6, <1>7, NothingTaken, ConcatEmptySeq
  <2>2. v = w \o v \/ Loses(w \o v, v)
    BY <1>4, LosesFront
  <2> QED
    BY <1>2, <2>1, <2>2 DEF StreamStep
<1>8. CASE n # 0
  <2>1. Pending' = Pending
    BY <1>5, <1>6, <1>8
  <2> QED
    BY <1>2, <2>1 DEF StreamStep
<1> QED
  BY <1>7, <1>8

\* The units written join the storage, in their order.
LEMMA StoredMore ==
  ASSUME NEW d \in Seq(Entries), NEW e \in Seq(Entries)
  PROVE  [i \in DOMAIN (d \o e) |-> (d \o e)[i][2]]
           = [i \in DOMAIN d |-> d[i][2]] \o [i \in DOMAIN e |-> e[i][2]]
<1> DEFINE a == d \o e
           s == [i \in DOMAIN d |-> d[i][2]]
           t == [i \in DOMAIN e |-> e[i][2]]
           l == [i \in DOMAIN a |-> a[i][2]]
           r == s \o t
<1>1. /\ a \in Seq(Entries) /\ Len(a) = Len(d) + Len(e)
      /\ \A i \in 1 .. Len(d) + Len(e) : a[i] = IF i <= Len(d) THEN d[i] ELSE e[i - Len(d)]
  BY ConcatProperties
<1>2. /\ Len(d) \in Nat /\ Len(e) \in Nat /\ DOMAIN d = 1 .. Len(d) /\ DOMAIN e = 1 .. Len(e)
  BY LenProperties
<1> HIDE DEF a
<1>3. DOMAIN a = 1 .. Len(d) + Len(e)
  BY <1>1, LenProperties
<1>4. /\ \A i \in 1 .. Len(d) : d[i] \in Files \X Nat /\ d[i][2] \in Nat
      /\ \A i \in 1 .. Len(e) : e[i] \in Files \X Nat /\ e[i][2] \in Nat
  <2>1. \A i \in 1 .. Len(d) : d[i] \in Files \X Nat
    BY <1>2 DEF Entries
  <2>2. \A i \in 1 .. Len(e) : e[i] \in Files \X Nat
    BY <1>2 DEF Entries
  <2> QED
    BY <2>1, <2>2
<1>5. /\ s \in Seq(Nat) /\ Len(s) = Len(d) /\ t \in Seq(Nat) /\ Len(t) = Len(e)
      /\ \A i \in 1 .. Len(d) : s[i] = d[i][2]
      /\ \A i \in 1 .. Len(e) : t[i] = e[i][2]
  <2>1. s \in [1 .. Len(d) -> Nat] /\ t \in [1 .. Len(e) -> Nat]
    BY <1>2, <1>4
  <2>2. \A x \in Nat : \A g \in [1 .. x -> Nat] : g \in Seq(Nat) /\ Len(g) = x
    <3> SUFFICES ASSUME NEW x \in Nat, NEW g \in [1 .. x -> Nat]
                 PROVE  g \in Seq(Nat) /\ Len(g) = x
      OBVIOUS
    <3>1. [1 .. x -> Nat] \subseteq Seq(Nat)
      BY SeqDef
    <3> QED
      BY <3>1
  <2>3. \A i \in 1 .. Len(d) : s[i] = d[i][2]
    BY <1>2
  <2>4. \A i \in 1 .. Len(e) : t[i] = e[i][2]
    BY <1>2
  <2> HIDE DEF s, t
  <2>5. s \in Seq(Nat) /\ Len(s) = Len(d)
    BY <1>2, <2>1, <2>2
  <2>6. t \in Seq(Nat) /\ Len(t) = Len(e)
    BY <1>2, <2>1, <2>2
  <2> QED
    BY <2>3, <2>4, <2>5, <2>6
<1>6. DOMAIN l = 1 .. Len(d) + Len(e) /\ \A i \in 1 .. Len(d) + Len(e) : l[i] = a[i][2]
  BY <1>3
<1> HIDE DEF s, t, l
<1>7. /\ r \in Seq(Nat) /\ Len(r) = Len(d) + Len(e)
      /\ \A i \in 1 .. Len(d) + Len(e) : r[i] = IF i <= Len(d) THEN s[i] ELSE t[i - Len(d)]
  <2>1. /\ r \in Seq(Nat) /\ Len(r) = Len(s) + Len(t)
        /\ \A i \in 1 .. Len(s) + Len(t) : r[i] = IF i <= Len(s) THEN s[i] ELSE t[i - Len(s)]
    <3>1. s \in Seq(Nat) /\ t \in Seq(Nat)
      BY <1>5
    <3> QED
      BY <3>1, ConcatProperties
  <2> HIDE DEF r
  <2> QED
    BY <1>5, <2>1
<1>8. DOMAIN r = 1 .. Len(d) + Len(e)
  BY <1>7, LenProperties
<1> HIDE DEF r
<1>9. ASSUME NEW i \in 1 .. Len(d) + Len(e)
      PROVE  l[i] = r[i]
  <2>1. l[i] = a[i][2]
    BY <1>6
  <2>2. CASE i <= Len(d)
    <3>1. i \in 1 .. Len(d)
      BY <1>2, <2>2
    <3>2. a[i] = d[i] /\ r[i] = s[i]
      BY <1>1, <1>7, <2>2
    <3> QED
      BY <1>5, <2>1, <3>1, <3>2
  <2>3. CASE ~(i <= Len(d))
    <3>1. i - Len(d) \in 1 .. Len(e)
      BY <1>2, <2>3
    <3>2. a[i] = e[i - Len(d)] /\ r[i] = t[i - Len(d)]
      BY <1>1, <1>7, <2>3
    <3>3. t[i - Len(d)] = e[i - Len(d)][2]
      BY <1>5, <3>1
    <3> QED
      BY <2>1, <3>2, <3>3
  <2> QED
    BY <2>2, <2>3
<1>10. l = [i \in 1 .. Len(d) + Len(e) |-> l[i]]
  BY <1>3 DEF l
<1>11. r = [i \in 1 .. Len(d) + Len(e) |-> r[i]]
  BY <1>7, <1>8
<1>12. l = r
  BY <1>9, <1>10, <1>11
<1> QED
  BY <1>12 DEF a, s, t, l, r

\* The first n units of a batch are the first of the whole stream.
LEMMA FirstOfBoth ==
  ASSUME NEW u \in Seq(Nat), NEW v \in Seq(Nat), NEW n \in 0 .. Len(u)
  PROVE  SubSeq(u \o v, 1, n) = [i \in 1 .. n |-> u[i]]
<1> DEFINE p == u \o v
           q == UpTo(p, n)
           r == [i \in 1 .. n |-> u[i]]
<1>1. Len(u) \in Nat /\ Len(v) \in Nat /\ n \in Nat /\ n <= Len(u)
  OBVIOUS
<1>2. /\ p \in Seq(Nat) /\ Len(p) = Len(u) + Len(v)
      /\ \A i \in 1 .. Len(u) + Len(v) : p[i] = IF i <= Len(u) THEN u[i] ELSE v[i - Len(u)]
  BY ConcatProperties
<1> HIDE DEF p
<1>3. n \in 0 .. Len(p)
  BY <1>1, <1>2
<1>4. q \in Seq(Nat) /\ Len(q) = n /\ \A i \in 1 .. n : q[i] = p[i]
  BY <1>2, <1>3, FirstBlocks
<1> HIDE DEF q
<1>5. ASSUME NEW i \in 1 .. n
      PROVE  q[i] = u[i]
  <2>1. i \in 1 .. Len(u) + Len(v) /\ i <= Len(u)
    BY <1>1
  <2> QED
    BY <1>2, <1>4, <2>1
<1>6. DOMAIN q = 1 .. n
  BY <1>4, LenProperties
<1>7. q = [i \in 1 .. n |-> q[i]]
  BY <1>4, <1>6
<1>8. q = r
  BY <1>5, <1>7
<1> QED
  BY <1>8 DEF q, p, UpTo

LEMMA WritesStream ==
  ASSUME Control, DataInv, Writes
  PROVE  StreamStep
<1> DEFINE u == UnitsIn(content, m_data_written)
           v == UnitsIn(content, m_data)
<1>1. /\ u \in Seq(Nat) /\ v \in Seq(Nat) /\ DataTypeOK /\ Len(u) \in Nat
  BY PartTypes, DataParts
<1>2. PICK n \in 0 .. Len(u) :
         /\ UnitsDone' = n
         /\ disk' = disk \o [i \in 1 .. n |-> <<m_cur_req.file, u[i]>>]
         /\ UNCHANGED <<m_state, m_data_written, content>>
  BY <1>1, WrittenUnits
<1>3. UnitsDone = 0 /\ m_data' = m_data
  BY DEF Writes
<1>4. Pending = After(u, 0) \o v /\ Pending' = After(u, n) \o v
  BY <1>2, <1>3, PendingValues
<1>5. m_cur_req.file \in Files
  <2>1. m_cur_req.file = m_file
    BY DataParts DEF Writes, RequestForFile
  <2>2. m_file # NoFile /\ m_file \in FileOrNone
    BY DEF Writes, Control, WrittenIffExecuting, MainPhase, ControlTypeOK
  <2> QED
    BY <2>1, <2>2 DEF FileOrNone
<1> HIDE DEF u, v
<1> DEFINE e == [i \in 1 .. n |-> <<m_cur_req.file, u[i]>>]
           t == [i \in 1 .. n |-> u[i]]
<1>6. n \in Nat /\ n <= Len(u) /\ \A i \in 1 .. n : u[i] \in Nat
  BY <1>1
<1>7. e \in Seq(Entries) /\ [i \in DOMAIN e |-> e[i][2]] = t
  <2>1. e \in [1 .. n -> Entries]
    BY <1>5, <1>6 DEF Entries
  <2>2. [1 .. n -> Entries] \subseteq Seq(Entries)
    BY <1>6, SeqDef
  <2>3. DOMAIN e = 1 .. n /\ \A i \in 1 .. n : e[i][2] = u[i]
    OBVIOUS
  <2> HIDE DEF e
  <2> QED
    BY <2>1, <2>2, <2>3
<1> HIDE DEF e
<1>8. disk \in Seq(Entries)
  BY <1>1 DEF DataTypeOK, Entries
<1>9. Stored' = Stored \o t
  <2> DEFINE d == disk
             a == d \o e
  <2>1. d \in Seq(Entries)
    BY <1>8
  <2> HIDE DEF d
  <2>2. [i \in DOMAIN a |-> a[i][2]] = [i \in DOMAIN d |-> d[i][2]] \o t
    BY <1>7, <2>1, StoredMore
  <2>3. disk' = a
    BY <1>2 DEF d, e
  <2> HIDE DEF a
  <2>4. Stored' = [i \in DOMAIN a |-> a[i][2]]
    BY <2>3 DEF Stored
  <2>5. Stored = [i \in DOMAIN d |-> d[i][2]]
    BY DEF Stored, d
  <2> QED
    BY <2>2, <2>4, <2>5
<1>10. After(u, 0) = u /\ Pending = u \o v /\ Len(u \o v) = Len(u) + Len(v) /\ Len(v) \in Nat
  <2>1. After(u, 0) = u
    BY <1>1, NothingTaken
  <2>2. Len(u \o v) = Len(u) + Len(v) /\ Len(v) \in Nat
    BY <1>1, ConcatProperties
  <2> QED
    BY <1>4, <2>1, <2>2
<1>11. CASE n = 0
  <2>1. Pending' = Pending
    BY <1>4, <1>11
  <2>2. disk' = disk
    <3>1. e = <<>>
      BY <1>11 DEF e
    <3>2. disk' = disk \o e
      BY <1>2 DEF e
    <3> QED
      BY <1>8, <3>1, <3>2, ConcatEmptySeq
  <2> QED
    BY <2>1, <2>2, StoredSame DEF StreamStep
<1>12. CASE n # 0
  <2>1. n \in 1 .. Len(Pending)
    BY <1>6, <1>10, <1>12
  <2>2. t = SubSeq(Pending, 1, n)
    BY <1>1, <1>10, FirstOfBoth
  <2>3. Pending' = SubSeq(Pending, n + 1, Len(Pending))
    <3>1. After(u \o v, n) = After(u, n) \o v
      BY <1>1, AfterConcat
    <3> QED
      BY <1>4, <1>10, <3>1 DEF After
  <2>4. Takes(Pending, Pending', Stored, Stored')
    BY <1>9, <2>1, <2>2, <2>3 DEF Takes
  <2> QED
    BY <2>4 DEF StreamStep
<1> QED
  BY <1>11, <1>12

LEMMA StepStream ==
  ASSUME Control, Control', BuffersAccounted, DataInv, DataInv', [Next]_vars
  PROVE  StreamStep
<1>1. DataTypeOK /\ RequestForFile
  BY DataParts
<1>2. Moves
  BY <1>1, StepMoves
<1> QED
  BY <1>2, StaysStream, QueuesStream, CommitsStream, DiscardsStream, WritesStream, CollectsStream
     DEF Moves

\* The substitution of the instance.
LEMMA StreamVariables ==
  /\ UnitsLeft(Units(m_data_written)) \o Units(m_data) = Pending
  /\ UnitsLeft(Units(m_data_written))' \o Units(m_data)' = Pending'
<1>1. UnitsLeft(Units(m_data_written)) \o Units(m_data) = Pending
  BY UnitsAreIn DEF UnitsLeft, Pending, After
<1>2. UnitsLeft(Units(m_data_written))' \o Units(m_data)' = Pending'
  BY UnitsAreIn DEF UnitsLeft, Pending, After
<1> QED
  BY <1>1, <1>2

\* Whatever the interleaving of the main thread and the I/O thread, partial and
\* failed writes, flush(), close() and discarded queues included, the log on the
\* storage is the log accepted, in order and without repetition, less what was
\* given up in one piece.  (process_io_result(), io_sched.cpp)
THEOREM RefinesLogStream == Spec => ImplementsLogStream
<1>1. Init => Stream!Init
  <2> SUFFICES ASSUME Init PROVE Stream!Init
    OBVIOUS
  <2>1. /\ m_data = <<>> /\ m_data_written = <<>> /\ disk = <<>> /\ to_main = 0 /\ io_thread = "read"
    BY DEF Init, ChanInit
  <2>2. UnitsDone = 0
    BY <2>1 DEF UnitsDone
  <2>3. UnitsIn(content, <<>>) = <<>> /\ <<>> \in Seq(Nat)
    BY NoUnits
  <2>4. Pending = <<>>
    BY <2>1, <2>2, <2>3, NothingTaken, PendingValues, ConcatEmptySeq
  <2>5. [i \in DOMAIN disk |-> disk[i][2]] = <<>>
    BY <2>1
  <2> QED
    BY <2>4, <2>5, StreamVariables DEF Stream!Init
<1>2. Control /\ Control' /\ BuffersAccounted /\ DataInv /\ DataInv' /\ [Next]_vars
        => [Stream!Next]_(Stream!streamVars)
  <2> SUFFICES ASSUME Control, Control', BuffersAccounted, DataInv, DataInv', [Next]_vars
               PROVE  [Stream!Next]_(Stream!streamVars)
    OBVIOUS
  <2>1. StreamStep
    BY StepStream
  <2> QED
    BY <2>1, StreamVariables DEF StreamStep, Accepts, Takes, Loses, Stored, Stream!Next, Stream!Accept,
       Stream!Store, Stream!Lose, Stream!streamVars
<1> QED
  BY <1>1, <1>2, ControlInvariant, BuffersAccountedHolds, DataInvariant, PTL
     DEF Spec, ImplementsLogStream, Stream!Spec

==============================================================================

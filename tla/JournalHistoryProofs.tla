------------------------ MODULE JournalHistoryProofs ------------------------
(***************************************************************************)
(* Proofs about JournalHistory: what a live commit block says and which    *)
(* transactions are atomic, for users who run checklog after a crash and   *)
(* for transactions of any size, also beside oversized ones.               *)
(***************************************************************************)
EXTENDS JournalHistory, JournalProofs

(* A step of the history is a step of the journal.                          *)
LEMMA HistoryStep == [HNext]_allVars => [Next]_vars
<1>1. WriteCommitBlock => CommitPoint
    BY DEF CommitPoint, WriteCommitBlock
<1>2. SkipCommitBlock => CommitPoint
    BY SizeAssumption DEF CommitPoint, SkipCommitBlock
<1> QED
    BY <1>1, <1>2 DEF HNext, BeginStep, LogStep, OtherStep, Next, CommitStep, allVars

(* The history begins with its invariant.                                   *)
LEMMA HistoryInit == HInit => HistoryInv
<1> SUFFICES ASSUME HInit
             PROVE  HistoryInv
    OBVIOUS
<1>1. JournalInv /\ NoLiveMark /\ pc = "free"
    BY SafeInit DEF HInit, Init, JournalInv, NoStaleMark, NoLiveMark
<1>2. Recovered = disk
    BY <1>1, RecoveredDead
<1>3. OwnerInv
    BY <1>1 DEF HInit, OwnerInv, MarkDescribesLog, NoLiveMark
<1>4. TxnInv
    BY <1>1, <1>2 DEF HInit, TxnInv, AtomicIfItFits, AllOrNothing
<1> QED
    BY <1>1, <1>3, <1>4 DEF HistoryInv

(* Where a live commit block comes from.                                    *)
LEMMA LiveFrom ==
    ASSUME JournalInv, JournalInv', [Next]_vars, ~WriteCommitBlock,
           NEW s \in Slots, IsLive(s)'
    PROVE  IsLive(s) /\ log'[s] = log[s]
<1>1. CASE UNCHANGED log
    BY <1>1 DEF IsLive, IsMark
<1>2. CASE LogBlock
  <2>1. pc = "log" /\ blocks_done \in Slots /\ cache[blocks_done + 1] \in CachedBlock
        /\ log' = [log EXCEPT ![blocks_done] = cache[blocks_done + 1].blockdata]
      BY <1>2, SizeAssumption DEF LogBlock, JournalInv, TypeOK, Slots
  <2>2. cache[blocks_done + 1].blockdata \notin CommitBlock
      BY <2>1, DataIsNoMark DEF CachedBlock
  <2> QED BY <2>1, <2>2 DEF JournalInv, TypeOK, IsLive, IsMark
<1>3. CASE EndCommit
    BY <1>3, MarkTypes DEF EndCommit, JournalInv, TypeOK, IsLive, IsMark
<1>4. ASSUME NEW r \in Checker, CancelMark(r)
      PROVE  IsLive(s) /\ log'[s] = log[s]
    BY <1>4, MarkTypes DEF CancelMark, JournalInv, TypeOK, IsLive, IsMark
<1>5. CASE UNCHANGED vars
    BY <1>1, <1>5 DEF vars
<1> QED
    BY <1>1, <1>2, <1>3, <1>4, <1>5
    DEF Next, CommitStep, CommitPoint, ChecklogStep, image, Mount, Exit, Crash, Write, BeginCommit,
        SkipCommitBlock, FlushBlock, Checklog, ChecklogDies, ScanData, ScanMark,
        ScanOverrun, ReplayBlock, ReplayDone

(* Every step keeps what is said of the owners of the commit blocks.        *)
LEMMA OwnerStep ==
    ASSUME HistoryInv, JournalInv', [HNext]_allVars
    PROVE  OwnerInv'
<1> USE SizeAssumption
<1>1. [Next]_vars
    BY HistoryStep
<1>2. CASE LogStep
  <2>1. /\ pc = "log" /\ blocks_done \in Slots
        /\ cache[blocks_done + 1] \in CachedBlock
        /\ owner' = [owner EXCEPT ![blocks_done] = cache[blocks_done + 1].blocknum]
      BY <1>2 DEF LogStep, LogBlock, HistoryInv, JournalInv, TypeOK, Slots
  <2>2. owner' \in [Slots -> Block \cup {NoBlock}]
      BY <2>1 DEF HistoryInv, OwnerInv, CachedBlock
  <2>3. \A s \in Slots : ~IsLive(s)'
    <3>1. ~WriteCommitBlock
        BY <1>2, <2>1 DEF LogStep, LogBlock, WriteCommitBlock
    <3> QED BY <1>1, <2>1, <3>1, LiveFrom DEF HistoryInv, JournalInv, NoStaleMark
  <2>4. ASSUME pc' = "log", NEW j \in 0 .. blocks_done' - 1
        PROVE  cb'[j] = owner'[j]
    <3>1. /\ cb' = [cb EXCEPT ![blocks_done] = cache[blocks_done + 1].blocknum]
          /\ blocks_done' = blocks_done + 1
        BY <1>2, <2>1, <2>4 DEF LogStep, LogBlock
    <3>2. /\ \A i \in 0 .. blocks_done - 1 : cb[i] = owner[i]
          /\ cb \in [Slots -> Block \cup {NoBlock}]
          /\ owner \in [Slots -> Block \cup {NoBlock}]
        BY <2>1 DEF HistoryInv, OwnerInv, JournalInv, TypeOK
    <3>3. j \in Slots /\ (j = blocks_done \/ j \in 0 .. blocks_done - 1)
        BY <2>1, <2>4, <3>1 DEF Slots
    <3> QED BY <2>1, <3>1, <3>2, <3>3
  <2> QED BY <2>2, <2>3, <2>4 DEF OwnerInv, MarkDescribesLog
<1>3. CASE WriteCommitBlock /\ UNCHANGED history
  <2>1. /\ pc = "log" /\ pc' = "flush" /\ blocks_done \in Slots
        /\ log' = [log EXCEPT ![blocks_done] = Marked(cb)]
        /\ Marked(cb).blocknums = cb
        /\ owner' = owner
      BY <1>3, MarkTypes
      DEF WriteCommitBlock, history, HistoryInv, JournalInv, TypeOK, Slots
  <2>2. ASSUME NEW s \in Slots, IsLive(s)', NEW j \in 0 .. s - 1
        PROVE  log'[s].blocknums[j] = owner'[j]
    <3>1. s = blocks_done
        BY <2>1, <2>2 DEF HistoryInv, JournalInv, TypeOK, NoStaleMark, IsLive, IsMark
    <3> QED BY <2>1, <2>2, <3>1 DEF HistoryInv, OwnerInv, JournalInv, TypeOK
  <2> QED BY <2>1, <2>2 DEF OwnerInv, MarkDescribesLog, HistoryInv
<1>4. CASE ~WriteCommitBlock /\ ~LogStep
  <2>1. /\ owner' = owner
        /\ pc' = "log" => blocks_done' = 0 \/ (pc = "log" /\ UNCHANGED <<cb, blocks_done>>)
    <3>1. CASE BeginStep
        BY <3>1 DEF BeginStep, BeginCommit
    <3>2. CASE OtherStep
      <4>1. ASSUME pc' = "log" PROVE pc = "log" /\ UNCHANGED <<cb, blocks_done>>
          BY <3>2, <4>1, <1>4
          DEF OtherStep, Mount, Exit, Crash, Write, SkipCommitBlock, FlushBlock,
              EndCommit, Checklog, ChecklogDies, ChecklogStep, ScanData, ScanMark,
              ScanOverrun, ReplayBlock, ReplayDone, CancelMark, toolVars, commitVars
      <4> QED BY <3>2, <4>1 DEF OtherStep, history
    <3>3. CASE UNCHANGED allVars
        BY <3>3 DEF allVars, vars, history
    <3> QED BY <1>4, <3>1, <3>2, <3>3 DEF HNext
  <2>2. MarkDescribesLog'
      BY <1>1, <1>4, <2>1, LiveFrom DEF HistoryInv, OwnerInv, MarkDescribesLog
  <2>3. pc' = "log" => \A j \in 0 .. blocks_done' - 1 : cb'[j] = owner'[j]
      BY <2>1 DEF HistoryInv, OwnerInv
  <2> QED BY <2>1, <2>2, <2>3 DEF HistoryInv, OwnerInv
<1> QED
    BY <1>2, <1>3, <1>4 DEF HNext, BeginStep, BeginCommit, OtherStep, allVars, vars, WriteCommitBlock, LogStep

(* What recovery restores changes only at the commit point, and while a     *)
(* transaction that has none is on its way home.                            *)
LEMMA RecoveredStep ==
    ASSUME RecoverFirst, JournalInv, JournalInv', [Next]_vars,
           pc = "flush" => blocks_done < LogLen
    PROVE  Recovered' = IF WriteCommitBlock THEN View ELSE Recovered
<1>1. CASE SkipCommitBlock
    BY <1>1, KeepImage DEF SkipCommitBlock, WriteCommitBlock
<1>2. CASE ~SkipCommitBlock
  <2>1. (pc = "log" /\ pc' = "flush") <=> WriteCommitBlock
    <3>1. CASE LogBlock
        BY <3>1 DEF LogBlock, WriteCommitBlock, ForgetMemory, CrashNow
    <3>2. CASE ~LogBlock
        BY <1>2, <3>2
        DEF Next, CommitStep, CommitPoint, ChecklogStep, vars, Mount, Exit, Crash, Write, BeginCommit,
            WriteCommitBlock, FlushBlock, EndCommit, Checklog, ChecklogDies, ScanData,
            ScanMark, ScanOverrun, ReplayBlock, ReplayDone, CancelMark
    <3> QED BY <3>1, <3>2
  <2> QED BY <1>2, <2>1, StepRefines
<1> QED
    BY <1>1, <1>2

(* Every step keeps what is said of the transactions.                       *)
LEMMA TxnStep ==
    ASSUME RecoverFirst, HistoryInv, JournalInv', [HNext]_allVars
    PROVE  TxnInv'
<1> USE SizeAssumption
<1>1. [Next]_vars /\ JournalInv /\ TxnInv
    BY HistoryStep DEF HistoryInv
<1>2. CASE BeginStep
  <2>1. /\ pc = "open" /\ pc' = "log" /\ UNCHANGED <<disk, log, cache>>
        /\ before' = disk /\ after' = View /\ txnLen' = Len(cache)
      BY <1>2 DEF BeginStep, BeginCommit, image
  <2>2. Recovered = disk /\ Recovered' = Recovered
      BY <1>1, <2>1, RecoveredDead, KeepImage DEF JournalInv, NoStaleMark, NoLiveMark, image
  <2>3. View' = View
      BY <2>1 DEF View, ToolRuns, ReadBlock, Cached
  <2> QED BY <1>1, <2>1, <2>2, <2>3 DEF TxnInv, AtomicIfItFits, AllOrNothing, JournalInv, TypeOK
<1>3. CASE LogStep
  <2>1. /\ pc = "log" /\ pc' \in {"log", "down"}
        /\ pc' = "log" => UNCHANGED <<disk, cache>>
        /\ UNCHANGED <<before, after, txnLen>>
      BY <1>3 DEF LogStep, LogBlock
  <2>2. Recovered' = Recovered
      BY <1>1, <1>3, <2>1, RecoveredStep DEF WriteCommitBlock, LogStep, LogBlock
  <2>3. pc' = "log" => View' = View
      BY <2>1 DEF View, ToolRuns, ReadBlock, Cached
  <2> QED BY <1>1, <2>1, <2>2, <2>3 DEF TxnInv, AtomicIfItFits, AllOrNothing
<1>4. CASE WriteCommitBlock /\ UNCHANGED history
  <2>1. pc = "log" /\ pc' = "flush" /\ blocks_done' = blocks_done /\ blocks_done < LogLen
      BY <1>4 DEF WriteCommitBlock, commitVars
  <2>2. Recovered' = View
      BY <1>1, <1>4, <2>1, RecoveredStep
  <2> QED BY <1>1, <1>4, <2>1, <2>2 DEF TxnInv, AtomicIfItFits, AllOrNothing, history
<1>5. CASE SkipCommitBlock /\ UNCHANGED history
  <2>1. /\ pc = "log" /\ pc' = "flush" /\ UNCHANGED <<image, cache, blocks_done>>
        /\ blocks_done = LogLen
      BY <1>5 DEF SkipCommitBlock, commitVars
  <2>2. Recovered' = Recovered /\ LogLen <= Len(cache)
      BY <1>1, <2>1, KeepImage DEF JournalInv, LogInv
  <2> QED BY <1>1, <1>5, <2>1, <2>2 DEF TxnInv, AtomicIfItFits, AllOrNothing, history
<1>6. CASE UNCHANGED history /\ ~WriteCommitBlock /\ ~SkipCommitBlock /\ ~BeginCommit
  <2>1. /\ pc' = "log" => pc = "log" /\ UNCHANGED <<disk, cache>>
        /\ pc' = "flush" => pc = "flush" /\ blocks_done' = blocks_done
    <3>1. CASE FlushBlock
        BY <3>1 DEF FlushBlock
    <3>2. CASE LogBlock
        BY <3>2 DEF LogBlock
    <3>3. CASE ~FlushBlock /\ ~LogBlock
        BY <1>1, <1>6, <3>3
        DEF Next, CommitStep, CommitPoint, ChecklogStep, vars, Mount, Exit, Crash, Write,
            EndCommit, Checklog, ChecklogDies, ScanData, ScanMark, ScanOverrun,
            ReplayBlock, ReplayDone, CancelMark, JournalInv, LogShape, Located
    <3> QED BY <3>1, <3>2, <3>3
  <2>2. CASE pc = "flush" /\ ~(blocks_done < LogLen)
    <3>1. txnLen >= LogLen /\ txnLen' = txnLen /\ (pc' # "log")
        BY <1>1, <1>6, <2>1, <2>2 DEF TxnInv, history
    <3> QED BY <1>1, <2>1, <2>2, <3>1 DEF TxnInv, AtomicIfItFits
  <2>3. CASE pc = "flush" => blocks_done < LogLen
    <3>1. Recovered' = Recovered
        BY <1>1, <1>6, <2>3, RecoveredStep
    <3>2. pc' = "log" => View' = View
        BY <2>1 DEF View, ToolRuns, ReadBlock, Cached
    <3> QED BY <1>1, <1>6, <2>1, <2>3, <3>1, <3>2
            DEF TxnInv, AtomicIfItFits, AllOrNothing, history
  <2> QED BY <2>2, <2>3
<1>7. \/ BeginStep \/ LogStep
      \/ UNCHANGED history /\ (WriteCommitBlock \/ SkipCommitBlock \/ ~BeginCommit)
  <2>1. CASE UNCHANGED allVars
      BY <2>1 DEF allVars, vars, BeginCommit
  <2>2. CASE OtherStep
    <3>1. pc' # "log" \/ pc # "open"
        BY <1>1, <2>2
        DEF OtherStep, Mount, Exit, Crash, Write, FlushBlock, WriteCommitBlock,
            SkipCommitBlock, EndCommit, Checklog, ChecklogDies, ChecklogStep, ScanData,
            ScanMark, ScanOverrun, ReplayBlock, ReplayDone, CancelMark
    <3> QED BY <2>2, <3>1 DEF OtherStep, BeginCommit
  <2> QED BY <2>1, <2>2 DEF HNext
<1> QED
    BY <1>2, <1>3, <1>4, <1>5, <1>6, <1>7

(* The invariant of the history holds at every step.                        *)
LEMMA HistoryInductive == ASSUME RecoverFirst PROVE HSpec => []HistoryInv
<1>1. HistoryInv /\ [HNext]_allVars => HistoryInv'
    BY HistoryStep, SafeStep, OwnerStep, TxnStep DEF HistoryInv
<1> QED
    BY <1>1, HistoryInit, PTL DEF HSpec

(* "where the blocks in the logfile should really be on the disk":          *)
(* whatever commit block checklog acts on, it lists slot by slot the home   *)
(* of the block the log holds there, of however many transactions and       *)
(* crashes the log has remains.                                             *)
THEOREM MarksTellTheTruth == ASSUME RecoverFirst PROVE HSpec => []MarkDescribesLog
<1>1. HistoryInv => MarkDescribesLog
    BY DEF HistoryInv, OwnerInv
<1> QED
    BY <1>1, HistoryInductive, PTL

(* Every transaction that leaves a block of the log for the commit block is *)
(* all or nothing, also between oversized ones, which are not, and with a   *)
(* log full of what they have left.                                         *)
THEOREM FittingIsAtomic == ASSUME RecoverFirst PROVE HSpec => []AtomicIfItFits
<1>1. HistoryInv => AtomicIfItFits
    BY DEF HistoryInv, TxnInv
<1> QED
    BY <1>1, HistoryInductive, PTL
=============================================================================

--------------------------- MODULE JournalProofs ---------------------------
(***************************************************************************)
(* Proofs about Journal, for every volume, log length and transaction.     *)
(***************************************************************************)
EXTENDS JournalSafety, SequenceTheorems, TLAPS

(* What the log and the cache are made of.                                  *)
LEMMA MarkTypes ==
    /\ NoBlocks \in [Slots -> Block \cup {NoBlock}]
    /\ Cancelled \in CommitBlock
    /\ Cancelled.uncommitted = 0
    /\ \A j \in Slots : Cancelled.blocknums[j] = NoBlock
    /\ \A nums \in [Slots -> Block \cup {NoBlock}] :
         /\ Marked(nums) \in CommitBlock
         /\ Marked(nums).uncommitted = 1
         /\ Marked(nums).blocknums = nums
BY DEF NoBlocks, Cancelled, Marked, CommitBlock

(* Put returns a cache.                                                     *)
LEMMA PutType ==
    ASSUME NEW c \in Seq(CachedBlock), NEW b \in Block, NEW d \in Content
    PROVE  Put(c, b, d) \in Seq(CachedBlock)
<1>1. CASE \E k \in DOMAIN c : c[k].blocknum = b
  <2> DEFINE q == [k \in DOMAIN c |->
                     IF c[k].blocknum = b THEN [c[k] EXCEPT !.blockdata = d] ELSE c[k]]
  <2>1. DOMAIN c = 1 .. Len(c) /\ Len(c) \in Nat
      OBVIOUS
  <2>2. \A k \in 1 .. Len(c) : q[k] \in CachedBlock
    <3>1. ASSUME NEW r \in CachedBlock PROVE [r EXCEPT !.blockdata = d] \in CachedBlock
        BY <3>1 DEF CachedBlock
    <3>2. ASSUME NEW k \in 1 .. Len(c) PROVE c[k] \in CachedBlock
        BY <3>2
    <3> QED BY <2>1, <3>1, <3>2
  <2>3. q \in Seq(CachedBlock)
      BY <2>1, <2>2
  <2> QED
      BY <1>1, <2>3 DEF Put
<1>2. CASE ~ \E k \in DOMAIN c : c[k].blocknum = b
    BY <1>2 DEF Put, CachedBlock
<1> QED
    BY <1>1, <1>2

(* ForgetMemory resets the memory to values of its type.                    *)
LEMMA ForgetType == ForgetMemory => /\ cache' \in Seq(CachedBlock)
                                    /\ blocks_done' \in 0 .. LogLen
                                    /\ cb' \in [Slots -> Block \cup {NoBlock}]
                                    /\ crash_after' \in Nat
BY SizeAssumption, MarkTypes DEF ForgetMemory

(* So does Forget with the memory of a recovery.                            *)
LEMMA ForgetCheckerType ==
    ASSUME TypeOK, NEW r \in Checker, Forget(r)
    PROVE  /\ rpc' \in [Checker -> {"idle", "scan", "replay", "cancel"}]
           /\ slot' \in [Checker -> 0 .. LogLen]
           /\ copied' \in [Checker -> 0 .. LogLen]
           /\ blocks' \in [Checker -> [Slots -> Block \cup {NoBlock}]]
BY SizeAssumption, MarkTypes DEF Forget, Goto, TypeOK

(* A block of data is never taken for a commit block.                       *)
LEMMA DataIsNoMark == \A d \in Content : d \notin CommitBlock
BY MagicAssumption

-----------------------------------------------------------------------------
(* Types.                                                                   *)

TypeInv == TypeOK /\ LogShape

Idle == \A r \in Checker : rpc[r] = "idle"

(* No recovery goes on beside a tool.                                       *)
LEMMA ToolAlone == TypeInv /\ pc \notin {"free", "down"} => Idle
BY DEF TypeInv, LogShape, Located, Idle

(* Processes that wait are located.                                         *)
LEMMA IdleLocated ==
    ASSUME TypeInv, Idle, UNCHANGED checklogVars
    PROVE  \A r \in Checker : Located(r)'
BY DEF TypeInv, LogShape, Idle, checklogVars, Located

(* What a process that ends leaves: the log as it is, and no commit in      *)
(* progress.                                                                *)
LEMMA LeaveShape ==
    ASSUME TypeInv, Idle, UNCHANGED <<log, checklogVars>>, pc' \in {"free", "down", "open"}
    PROVE  LogShape'
BY IdleLocated DEF TypeInv, LogShape, IsMark

(* A step of a tool or a crash keeps every variable in its type.            *)
LEMMA ToolTypeStep ==
    ASSUME TypeInv,
           \/ Mount \/ Exit \/ Crash \/ BeginCommit \/ CommitStep
           \/ \E b \in Block, d \in Content : Write(b, d)
    PROVE  TypeOK' /\ LogShape'
<1> USE SizeAssumption, CrashAssumption DEF TypeInv
<1>0. Idle /\ UNCHANGED checklogVars
  <2>1. Idle
      BY ToolAlone DEF Mount, Exit, Crash, BeginCommit, CommitStep, CommitPoint, Write, LogBlock,
                       WriteCommitBlock, SkipCommitBlock, FlushBlock, EndCommit, Idle
  <2>2. UNCHANGED checklogVars
      BY DEF Mount, Exit, Crash, BeginCommit, CommitStep, CommitPoint, Write, LogBlock,
             WriteCommitBlock, SkipCommitBlock, FlushBlock, EndCommit
  <2> QED BY <2>1, <2>2
<1>1. UNCHANGED <<rpc, slot, copied, blocks>> /\ \A r \in Checker : Located(r)'
    BY <1>0, IdleLocated DEF checklogVars
<1>2. CASE Mount
  <2>1. TypeOK' BY <1>1, <1>2, ForgetType DEF Mount, image, TypeOK
  <2>2. LogShape' BY <1>0, <1>2, LeaveShape DEF Mount, image
  <2> QED BY <2>1, <2>2
<1>3. CASE Exit
  <2>1. TypeOK' BY <1>1, <1>3, ForgetType DEF Exit, image, TypeOK
  <2>2. LogShape' BY <1>0, <1>3, LeaveShape DEF Exit, image
  <2> QED BY <2>1, <2>2
<1>4. CASE Crash
  <2>1. TypeOK' BY <1>1, <1>4, ForgetType DEF Crash, image, TypeOK
  <2>2. LogShape' BY <1>0, <1>4, LeaveShape DEF Crash, image
  <2> QED BY <2>1, <2>2
<1>5. CASE \E b \in Block, d \in Content : Write(b, d)
  <2>1. PICK b \in Block, d \in Content : Write(b, d)
      BY <1>5
  <2>2. TypeOK' BY <1>1, <2>1, PutType DEF Write, image, commitVars, TypeOK
  <2>3. LogShape' BY <1>0, <2>1, LeaveShape DEF Write, image
  <2> QED BY <2>2, <2>3
<1>6. CASE BeginCommit
  <2>1. TypeOK' BY <1>1, <1>6, MarkTypes DEF BeginCommit, image, TypeOK
  <2>2. LogShape'
      BY <1>1, <1>6 DEF BeginCommit, image, LogShape, IsMark, NoBlocks, Slots
  <2> QED BY <2>1, <2>2
<1>7. CASE LogBlock
  <2>1. /\ cache[blocks_done + 1] \in CachedBlock
        /\ blocks_done \in Slots
        /\ blocks_done + 1 \in 0 .. LogLen
        /\ pc = "log"
      BY <1>7 DEF LogBlock, TypeOK, Slots
  <2>2. /\ cache[blocks_done + 1].blockdata \in Content
        /\ cache[blocks_done + 1].blocknum \in Block
      BY <2>1 DEF CachedBlock
  <2>3. log' \in [Slots -> Content \cup CommitBlock]
      BY <1>7, <2>1, <2>2 DEF LogBlock, TypeOK
  <2>4. \A s \in Slots : IsMark(s)' => IsMark(s) /\ log'[s] = log[s] /\ s # blocks_done
      BY <1>7, <2>1, <2>2, DataIsNoMark DEF LogBlock, TypeOK, IsMark
  <2>5. CASE CrashNow /\ pc' = "down" /\ ForgetMemory
    <3>1. TypeOK' BY <1>1, <1>7, <2>3, <2>5, ForgetType DEF LogBlock, TypeOK
    <3>2. LogShape' BY <1>1, <2>4, <2>5 DEF LogShape
    <3> QED BY <3>1, <3>2
  <2>6. CASE ~(CrashNow /\ pc' = "down" /\ ForgetMemory)
    <3>1. /\ CountWrite
          /\ cb' = [cb EXCEPT ![blocks_done] = cache[blocks_done + 1].blocknum]
          /\ blocks_done' = blocks_done + 1
          /\ UNCHANGED <<disk, pc, cache>>
        BY <1>7, <2>6 DEF LogBlock
    <3>2. TypeOK' BY <1>1, <2>1, <2>2, <2>3, <3>1 DEF CountWrite, TypeOK
    <3>3. LogShape'
        BY <1>1, <2>1, <2>4, <3>1 DEF LogShape, TypeOK, Slots
    <3> QED BY <3>2, <3>3
  <2> QED BY <2>5, <2>6
<1>8. CASE WriteCommitBlock
  <2>1. TypeOK'
      BY <1>1, <1>8, MarkTypes DEF WriteCommitBlock, commitVars, Slots, TypeOK
  <2>2. LogShape'
    <3>1. /\ blocks_done \in Slots /\ pc = "log" /\ pc' = "flush"
          /\ log' = [log EXCEPT ![blocks_done] = Marked(cb)]
          /\ Marked(cb).blocknums = cb
        BY <1>8, MarkTypes DEF WriteCommitBlock, TypeOK, Slots
    <3>2. \A s, j \in Slots : IsMark(s)' /\ log'[s].blocknums[j] # NoBlock => j < s
        BY <3>1 DEF LogShape, TypeOK, IsMark
    <3> QED BY <1>1, <3>1, <3>2 DEF LogShape
  <2> QED BY <2>1, <2>2
<1>9. CASE SkipCommitBlock
  <2>1. TypeOK' BY <1>1, <1>9 DEF SkipCommitBlock, image, commitVars, TypeOK
  <2>2. LogShape' BY <1>1, <1>9 DEF SkipCommitBlock, image, LogShape, IsMark
  <2> QED BY <2>1, <2>2
<1>10. CASE FlushBlock
  <2>1. Head(cache) \in CachedBlock /\ Tail(cache) \in Seq(CachedBlock)
      BY <1>10 DEF FlushBlock, TypeOK
  <2>2. disk' \in [Block -> Content]
      BY <1>10, <2>1 DEF FlushBlock, TypeOK, CachedBlock
  <2>3. TypeOK'
    <3>1. CASE pc' = "down" /\ ForgetMemory
        BY <1>1, <1>10, <2>2, <3>1, ForgetType DEF FlushBlock, TypeOK
    <3>2. CASE ~(pc' = "down" /\ ForgetMemory)
      <4>1. crash_after' \in Nat
          BY <1>10, <3>2 DEF FlushBlock, CountWrite, TypeOK
      <4>2. /\ cache' = Tail(cache)
            /\ UNCHANGED <<log, pc, blocks_done, cb>>
          BY <1>10, <3>2 DEF FlushBlock
      <4> QED BY <1>1, <2>1, <2>2, <4>1, <4>2 DEF TypeOK
    <3> QED BY <3>1, <3>2
  <2>4. LogShape' BY <1>1, <1>10 DEF FlushBlock, LogShape, IsMark
  <2> QED BY <2>3, <2>4
<1>11. CASE EndCommit
  <2>1. TypeOK' BY <1>1, <1>11, MarkTypes DEF EndCommit, Slots, TypeOK
  <2>2. LogShape'
      BY <1>1, <1>11, MarkTypes DEF EndCommit, LogShape, TypeOK, IsMark, Slots
  <2> QED BY <2>1, <2>2
<1> QED
    BY <1>2, <1>3, <1>4, <1>5, <1>6, <1>7, <1>8, <1>9, <1>10, <1>11 DEF CommitStep, CommitPoint

(* One process of checklog neither makes nor removes a commit block, and    *)
(* leaves the other processes where they are.                               *)
LEMMA ShapeOfOthers ==
    ASSUME TypeInv, NEW r \in Checker, pc' \in {"free", "down"},
           \A s \in Slots : /\ IsMark(s)' <=> IsMark(s)
                            /\ log'[s] = log[s] \/ log'[s] = Cancelled,
           \A q \in Checker \ {r} :
               rpc'[q] = rpc[q] /\ slot'[q] = slot[q] /\ blocks'[q] = blocks[q],
           Located(r)'
    PROVE  LogShape'
<1>1. ASSUME NEW q \in Checker, q # r PROVE Located(q)'
  <2>1. Located(q) /\ slot[q] \in 0 .. LogLen
      BY DEF TypeInv, TypeOK, LogShape
  <2>2. \A t \in 0 .. slot[q] - 1 : t \in Slots
      BY <2>1, SizeAssumption DEF Slots
  <2>3. slot[q] < LogLen => slot[q] \in Slots
      BY <2>1, SizeAssumption DEF Slots
  <2> QED BY <1>1, <2>1, <2>2, <2>3 DEF Located, Found
<1>2. \A s, j \in Slots : IsMark(s)' /\ log'[s].blocknums[j] # NoBlock => j < s
    BY MarkTypes DEF TypeInv, LogShape
<1> QED
    BY <1>1, <1>2 DEF LogShape

(* So does a step of checklog.                                              *)
LEMMA ChecklogTypeStep ==
    ASSUME TypeInv, NEW r \in Checker, Checklog(r) \/ ChecklogDies(r) \/ ChecklogStep(r)
    PROVE  TypeOK' /\ LogShape'
<1> USE SizeAssumption DEF TypeInv
<1>1. pc \in {"free", "down"} /\ pc' \in {"free", "down"}
  <2>1. pc \in {"free", "down"}
      BY DEF Checklog, ChecklogDies, ChecklogStep, ScanData, ScanMark, ScanOverrun,
             ReplayBlock, ReplayDone, CancelMark, LogShape, Located
  <2> QED
      BY <2>1 DEF Checklog, ChecklogDies, ChecklogStep, ScanData, ScanMark, ScanOverrun,
                  ReplayBlock, ReplayDone, CancelMark
<1>2. Located(r)
    BY DEF LogShape
<1> USE DEF toolVars, commitVars, image
<1>3. CASE Checklog(r)
  <2>1. TypeOK' BY <1>3 DEF Checklog, Goto, TypeOK
  <2>2. Located(r)' BY <1>1, <1>2, <1>3 DEF Checklog, Goto, TypeOK, Located, IsMark
  <2> QED BY <1>1, <1>3, <2>1, <2>2, ShapeOfOthers DEF Checklog, Goto, IsMark, TypeOK
<1>4. CASE ChecklogDies(r)
  <2>1. TypeOK' BY <1>4, ForgetCheckerType DEF ChecklogDies, TypeOK
  <2>2. Located(r)' BY <1>4 DEF ChecklogDies, Forget, Goto, TypeOK, Located
  <2> QED BY <1>1, <1>4, <2>1, <2>2, ShapeOfOthers DEF ChecklogDies, Forget, Goto, IsMark, TypeOK
<1>5. CASE ScanData(r)
  <2>1. TypeOK' BY <1>5 DEF ScanData, TypeOK
  <2>2. Located(r)' BY <1>1, <1>2, <1>5 DEF ScanData, TypeOK, Located, IsMark
  <2> QED BY <1>1, <1>5, <2>1, <2>2, ShapeOfOthers DEF ScanData, IsMark, TypeOK
<1>6. CASE ScanMark(r)
  <2>1. /\ slot[r] \in Slots /\ log[slot[r]] \in CommitBlock
        /\ log[slot[r]].blocknums \in [Slots -> Block \cup {NoBlock}]
      BY <1>6 DEF ScanMark, TypeOK, IsMark, Slots, CommitBlock
  <2>2. TypeOK' BY <1>6, <2>1 DEF ScanMark, Goto, TypeOK
  <2>3. Located(r)'
      BY <1>1, <1>2, <1>6, <2>1
      DEF ScanMark, Goto, TypeOK, LogShape, Located, Found, IsMark
  <2> QED BY <1>1, <1>6, <2>2, <2>3, ShapeOfOthers DEF ScanMark, Goto, IsMark, TypeOK
<1>7. CASE ScanOverrun(r)
  <2>1. TypeOK' BY <1>1, <1>7, ForgetCheckerType DEF ScanOverrun, TypeOK
  <2>2. Located(r)' BY <1>7 DEF ScanOverrun, Forget, Goto, TypeOK, Located
  <2> QED BY <1>1, <1>7, <2>1, <2>2, ShapeOfOthers DEF ScanOverrun, Forget, Goto, IsMark, TypeOK
<1>8. CASE ReplayBlock(r)
  <2>1. /\ slot[r] \in Slots /\ copied[r] \in Slots
        /\ blocks[r][copied[r]] \in Block
        /\ copied[r] < slot[r]
      BY <1>2, <1>8 DEF ReplayBlock, MoreToCopy, Located, TypeOK, Slots
  <2>2. log[copied[r]] \in Content
      BY <1>2, <1>8, <2>1 DEF ReplayBlock, Located, TypeOK, Slots, Found, IsMark
  <2>3. TypeOK'
      BY <1>8, <2>1, <2>2 DEF ReplayBlock, Slots, TypeOK
  <2>4. Located(r)' BY <1>1, <1>2, <1>8 DEF ReplayBlock, Located, Found, IsMark
  <2> QED BY <1>1, <1>8, <2>3, <2>4, ShapeOfOthers DEF ReplayBlock, IsMark, TypeOK
<1>9. CASE ReplayDone(r)
  <2>1. TypeOK' BY <1>9 DEF ReplayDone, Goto, TypeOK
  <2>2. Located(r)'
      BY <1>1, <1>2, <1>9 DEF ReplayDone, Goto, TypeOK, Located, Found, IsMark
  <2> QED BY <1>1, <1>9, <2>1, <2>2, ShapeOfOthers DEF ReplayDone, Goto, IsMark, TypeOK
<1>10. CASE CancelMark(r)
  <2>1. slot[r] \in Slots /\ IsMark(slot[r])
      BY <1>2, <1>10 DEF CancelMark, TypeOK, Located, Found, Slots
  <2>2. TypeOK' BY <1>10, <2>1, ForgetCheckerType, MarkTypes DEF CancelMark, TypeOK
  <2>3. Located(r)' BY <1>10 DEF CancelMark, Forget, Goto, TypeOK, Located
  <2>4. \A s \in Slots : /\ IsMark(s)' <=> IsMark(s)
                         /\ log'[s] = log[s] \/ log'[s] = Cancelled
      BY <1>10, <2>1, MarkTypes DEF CancelMark, TypeOK, IsMark
  <2> QED BY <1>1, <1>10, <2>2, <2>3, <2>4, ShapeOfOthers DEF CancelMark, Forget, Goto, TypeOK
<1> QED
    BY <1>3, <1>4, <1>5, <1>6, <1>7, <1>8, <1>9, <1>10 DEF ChecklogStep

(* Every step keeps the types and the shape of the log.                     *)
LEMMA TypeStep == TypeInv /\ [Next]_vars => TypeInv'
<1>1. ASSUME TypeInv, UNCHANGED vars PROVE TypeInv'
    BY <1>1 DEF TypeInv, vars, TypeOK, LogShape, Located, Found, IsMark
<1> QED
    BY <1>1, ToolTypeStep, ChecklogTypeStep DEF TypeInv, Next

(* A new journal has them.                                                  *)
LEMMA TypeInit == Init => TypeInv
BY SizeAssumption, ZeroAssumption, MarkTypes, DataIsNoMark
   DEF Init, TypeInv, TypeOK, LogShape, Located, IsMark

(* Whatever the transactions and whether or not users recover, a block of   *)
(* data stays a block of data: neither a flush nor a replay ever puts a     *)
(* commit block where data belongs.                                         *)
THEOREM TypeCorrect == Spec => []TypeOK
<1>1. Spec => []TypeInv
    BY TypeInit, TypeStep, PTL DEF Spec
<1>2. TypeInv => TypeOK
    BY DEF TypeInv
<1> QED
    BY <1>1, <1>2, PTL

-----------------------------------------------------------------------------
(* Safety, for users who run checklog after a crash.                        *)

MarksInv == NoStaleMark /\ LiveMarkIsFound /\ MarkInv

StepInv == CacheInv /\ LogInv /\ FlushInv /\ ReplayInv

NoLiveMark == \A s \in Slots : ~IsLive(s)

(* The parts of the invariant.                                              *)
LEMMA InvParts == JournalInv <=> TypeInv /\ MarksInv /\ StepInv
BY DEF JournalInv, TypeInv, MarksInv, StepInv

(* A step that leaves the log keeps what is said of its marks.              *)
LEMMA KeepLog ==
    ASSUME MarksInv, UNCHANGED log,
           pc' \in {"free", "open", "log"} => NoLiveMark
    PROVE  MarksInv'
BY DEF MarksInv, NoStaleMark, LiveMarkIsFound, MarkInv, NoLiveMark, IsLive, IsMark, Found

(* A recovery that has not begun has copied nothing.                        *)
LEMMA IdleReplay == ASSUME JournalInv, Idle, UNCHANGED checklogVars PROVE ReplayInv'
BY DEF JournalInv, Idle, checklogVars, ReplayInv, Replaying

(* Without memory and outside a commit or a replay there is nothing to keep.*)
LEMMA LeaveStep ==
    ASSUME JournalInv, ForgetMemory, Idle, UNCHANGED checklogVars,
           pc' \in {"free", "down", "open"}
    PROVE  StepInv'
BY SizeAssumption, IdleReplay DEF ForgetMemory, StepInv, CacheInv, LogInv, FlushInv

(* jfs_write_block keeps one copy of each block.                            *)
LEMMA PutCache ==
    ASSUME NEW c \in Seq(CachedBlock), NEW b \in Block, NEW d \in Content,
           \A k, l \in DOMAIN c : c[k].blocknum = c[l].blocknum => k = l,
           NEW q, q = Put(c, b, d)
    PROVE  /\ \A k, l \in DOMAIN q : q[k].blocknum = q[l].blocknum => k = l
           /\ Len(q) = IF \E k \in DOMAIN c : c[k].blocknum = b
                       THEN Len(c) ELSE Len(c) + 1
           /\ \A k \in DOMAIN q : q[k].blocknum = b => q[k].blockdata = d
           /\ \E k \in DOMAIN q : q[k].blocknum = b
           /\ \A k \in DOMAIN c : c[k].blocknum # b => k \in DOMAIN q /\ q[k] = c[k]
           /\ \A k \in DOMAIN q : q[k].blocknum # b => k \in DOMAIN c /\ q[k] = c[k]
<1>1. DOMAIN c = 1 .. Len(c) /\ Len(c) \in Nat
    OBVIOUS
<1>2. \A k \in 1 .. Len(c) : c[k] \in CachedBlock
    OBVIOUS
<1>3. CASE \E k \in DOMAIN c : c[k].blocknum = b
  <2>1. q = [k \in 1 .. Len(c) |->
               IF c[k].blocknum = b THEN [c[k] EXCEPT !.blockdata = d] ELSE c[k]]
      BY <1>1, <1>3 DEF Put
  <2>2. q \in Seq(CachedBlock)
      BY PutType
  <2>3. DOMAIN q = 1 .. Len(c) /\ Len(q) = Len(c)
      BY <1>1, <2>1, <2>2
  <2>4. ASSUME NEW r \in CachedBlock
        PROVE  /\ [r EXCEPT !.blockdata = d].blocknum = r.blocknum
               /\ [r EXCEPT !.blockdata = d].blockdata = d
      BY DEF CachedBlock
  <2>5. \A k \in 1 .. Len(c) : q[k].blocknum = c[k].blocknum
      BY <1>2, <2>1, <2>4
  <2>6. \A k \in 1 .. Len(c) : q[k].blocknum = b => q[k].blockdata = d
      BY <1>2, <2>1, <2>4
  <2>7. \A k \in 1 .. Len(c) : q[k].blocknum # b => q[k] = c[k]
      BY <1>2, <2>1, <2>5
  <2>8. \A k, l \in DOMAIN q : q[k].blocknum = q[l].blocknum => k = l
      BY <1>1, <2>3, <2>5
  <2>9. \E k \in DOMAIN q : q[k].blocknum = b
      BY <1>1, <1>3, <2>3, <2>5
  <2>10. /\ \A k \in DOMAIN c : c[k].blocknum # b => k \in DOMAIN q /\ q[k] = c[k]
         /\ \A k \in DOMAIN q : q[k].blocknum # b => k \in DOMAIN c /\ q[k] = c[k]
      BY <1>1, <2>3, <2>5, <2>7
  <2> QED
      BY <1>3, <2>3, <2>6, <2>8, <2>9, <2>10
<1>4. CASE ~ \E k \in DOMAIN c : c[k].blocknum = b
  <2> DEFINE e == [blocknum |-> b, blockdata |-> d]
  <2>1. q = Append(c, e) /\ e \in CachedBlock
      BY <1>4 DEF Put, CachedBlock
  <2>2. /\ Len(q) = Len(c) + 1
        /\ DOMAIN q = 1 .. Len(c) + 1
        /\ \A k \in 1 .. Len(c) : q[k] = c[k]
        /\ q[Len(c) + 1] = e
      BY <2>1
  <2>3. e.blocknum = b /\ e.blockdata = d
      OBVIOUS
  <2> HIDE DEF e
  <2> QED
      BY <1>1, <1>4, <2>2, <2>3
<1> QED
    BY <1>3, <1>4

(* A step of write_cached_blocks keeps the invariant.                       *)
LEMMA CommitStepInv ==
    ASSUME JournalInv, TypeInv', CommitStep
    PROVE  MarksInv' /\ StepInv'
<1> USE SizeAssumption
<1>0. Idle /\ UNCHANGED checklogVars
  <2>1. pc \notin {"free", "down"} /\ UNCHANGED checklogVars
      BY DEF CommitStep, CommitPoint, LogBlock, WriteCommitBlock, SkipCommitBlock, FlushBlock, EndCommit
  <2> QED BY <2>1, ToolAlone, InvParts
<1>r. ReplayInv'
    BY <1>0, IdleReplay
<1>1. CASE LogBlock
  <2>1. /\ cache[blocks_done + 1].blockdata \in Content
        /\ cache[blocks_done + 1].blocknum \in Block
        /\ blocks_done \in Slots
        /\ pc = "log"
    <3>1. cache[blocks_done + 1] \in CachedBlock /\ blocks_done \in Slots /\ pc = "log"
        BY <1>1 DEF LogBlock, JournalInv, TypeOK, Slots
    <3> QED BY <3>1 DEF CachedBlock
  <2>2. \A s \in Slots : IsMark(s)' => IsMark(s) /\ log'[s] = log[s] /\ s # blocks_done
      BY <1>1, <2>1, DataIsNoMark DEF LogBlock, JournalInv, TypeOK, IsMark
  <2>3. NoLiveMark'
      BY <2>1, <2>2 DEF JournalInv, NoStaleMark, NoLiveMark, IsLive
  <2>4. MarksInv'
      BY <2>2, <2>3 DEF JournalInv, MarksInv, NoStaleMark, LiveMarkIsFound, MarkInv, NoLiveMark, IsLive
  <2>5. CASE pc' = "down" /\ ForgetMemory
      BY <1>0, <2>4, <2>5, LeaveStep
  <2>6. CASE ~(pc' = "down" /\ ForgetMemory)
    <3>1. /\ cb' = [cb EXCEPT ![blocks_done] = cache[blocks_done + 1].blocknum]
          /\ log' = [log EXCEPT ![blocks_done] = cache[blocks_done + 1].blockdata]
          /\ blocks_done' = blocks_done + 1
          /\ UNCHANGED <<disk, pc, cache>>
          /\ blocks_done < Len(cache)
        BY <1>1, <2>6 DEF LogBlock
    <3>2. CacheInv'
        BY <3>1 DEF JournalInv, CacheInv, ToolRuns
    <3>3. LogInv'
      <4>1. ASSUME NEW j \in 0 .. blocks_done
            PROVE  log'[j] = cache[j + 1].blockdata /\ cb'[j] = cache[j + 1].blocknum
          BY <2>1, <3>1, <4>1 DEF JournalInv, TypeOK, LogInv, Slots
      <4> QED BY <2>1, <3>1, <4>1 DEF LogInv, JournalInv, TypeOK
    <3>4. FlushInv'
        BY <2>1, <3>1 DEF FlushInv
    <3> QED BY <1>r, <2>4, <3>2, <3>3, <3>4 DEF StepInv
  <2> QED BY <2>5, <2>6
<1>2. CASE WriteCommitBlock
  <2>1. /\ blocks_done \in Slots
        /\ pc = "log" /\ pc' = "flush"
        /\ blocks_done = Len(cache)
        /\ log' = [log EXCEPT ![blocks_done] = Marked(cb)]
        /\ UNCHANGED <<disk, cache, blocks_done, cb>>
      BY <1>2 DEF WriteCommitBlock, JournalInv, TypeOK, Slots, commitVars
  <2>2. /\ log'[blocks_done] = Marked(cb)
        /\ Marked(cb) \in CommitBlock
        /\ Marked(cb).uncommitted = 1
        /\ Marked(cb).blocknums = cb
      BY <2>1, MarkTypes DEF JournalInv, TypeOK
  <2>3. \A s \in Slots : s # blocks_done => log'[s] = log[s] /\ ~IsLive(s)
      BY <2>1 DEF JournalInv, TypeOK, NoStaleMark
  <2>4. \A j \in 0 .. blocks_done - 1 :
           /\ ~IsMark(j)
           /\ log[j] = cache[j + 1].blockdata
           /\ cb[j] = cache[j + 1].blocknum
           /\ cb[j] \in Block
    <3> TAKE j \in 0 .. blocks_done - 1
    <3>1. /\ cache[j + 1] \in CachedBlock
          /\ log[j] = cache[j + 1].blockdata
          /\ cb[j] = cache[j + 1].blocknum
        BY <2>1 DEF JournalInv, TypeOK, LogInv
    <3> QED
        BY <3>1, DataIsNoMark DEF IsMark, CachedBlock
  <2>5. MarksInv'
    <3>1. LiveMarkIsFound'
        BY <2>1, <2>2, <2>3, <2>4 DEF LiveMarkIsFound, IsLive, IsMark, Found, Slots
    <3>2. \A i, j \in 0 .. blocks_done - 1 : cb[i] = cb[j] => i = j
      <4>1. \A i \in 0 .. blocks_done - 1 : i + 1 \in DOMAIN cache
          BY <2>1 DEF JournalInv, TypeOK
      <4> QED BY <2>1, <2>4, <4>1 DEF JournalInv, CacheInv, Slots
    <3>3. \A j \in 0 .. blocks_done - 1 : cb[j] # NoBlock
        BY <2>4, BlockAssumption
    <3>4. MarkInv'
        BY <2>1, <2>2, <2>3, <3>2, <3>3 DEF JournalInv, MarkInv, IsMark
    <3> QED BY <2>1, <3>1, <3>4 DEF MarksInv, NoStaleMark
  <2>6. CacheInv' /\ LogInv'
      BY <2>1 DEF JournalInv, CacheInv, LogInv, ToolRuns
  <2>7. FlushInv'
    <3>1. Flushed' = 0 /\ blocks_done < LogLen /\ blocks_done \in Nat
        BY <2>1 DEF JournalInv, TypeOK, Slots, Flushed
    <3>2. ASSUME NEW j \in 0 .. blocks_done - 1
          PROVE  cb[j] = cache[j + 1].blocknum /\ log'[j] = cache[j + 1].blockdata
      <4>1. j \in Slots /\ j # blocks_done
          BY <3>1 DEF Slots
      <4> QED BY <2>3, <2>4, <4>1
    <3>3. ASSUME NEW j \in 0 .. blocks_done - 1
          PROVE  ~(j < Flushed') /\ j - Flushed' + 1 = j + 1
        BY <3>1
    <3>4. /\ blocks_done' = blocks_done /\ cb' = cb /\ cache' = cache
          /\ log'[blocks_done] = Marked(cb)
        BY <2>1, <2>2
    <3>5. ASSUME NEW j \in 0 .. blocks_done - 1
          PROVE  IF j < Flushed'
                 THEN disk'[cb'[j]] = log'[j]
                 ELSE /\ cb'[j] = cache'[j - Flushed' + 1].blocknum
                      /\ log'[j] = cache'[j - Flushed' + 1].blockdata
        BY <3>2, <3>3, <3>4
    <3> QED BY <3>1, <3>4, <3>5 DEF FlushInv
  <2> QED BY <1>r, <2>5, <2>6, <2>7 DEF StepInv
<1>3. CASE SkipCommitBlock
  <2>1. /\ pc = "log" /\ pc' = "flush"
        /\ blocks_done = LogLen
        /\ UNCHANGED <<disk, log, cache, blocks_done, cb>>
      BY <1>3 DEF SkipCommitBlock, image, commitVars
  <2>2. MaxTxn >= LogLen
      BY <2>1 DEF JournalInv, TypeOK, LogInv, CacheInv
  <2>3. NoLiveMark
      BY <2>1 DEF JournalInv, NoStaleMark, NoLiveMark
  <2>4. MarksInv'
      BY <2>1, <2>3, KeepLog DEF JournalInv, MarksInv
  <2>5. CacheInv' /\ LogInv'
      BY <2>1 DEF JournalInv, CacheInv, LogInv, ToolRuns
  <2>6. FlushInv'
      BY <2>1, <2>2, <2>3 DEF FlushInv, NoLiveMark, IsLive, IsMark
  <2> QED BY <1>r, <2>4, <2>5, <2>6 DEF StepInv
<1>4. CASE FlushBlock
  <2>1. /\ pc = "flush" /\ cache # <<>> /\ UNCHANGED log
        /\ disk' = [disk EXCEPT ![cache[1].blocknum] = cache[1].blockdata]
    <3>1. cache # <<>> => Head(cache) = cache[1]
        BY DEF JournalInv, TypeOK
    <3> QED BY <1>4, <3>1 DEF FlushBlock
  <2>2. CASE pc' = "down" /\ ForgetMemory
      BY <1>0, <2>1, <2>2, KeepLog, LeaveStep DEF JournalInv, MarksInv
  <2>3. CASE ~(pc' = "down" /\ ForgetMemory)
    <3>1. /\ cache' = Tail(cache)
          /\ UNCHANGED <<pc, blocks_done, cb>>
        BY <1>4, <2>3 DEF FlushBlock
    <3>2. /\ Len(cache') = Len(cache) - 1
          /\ DOMAIN cache = 1 .. Len(cache) /\ Len(cache) \in Nat \ {0}
          /\ DOMAIN cache' = 1 .. Len(cache) - 1
          /\ \A k \in 1 .. Len(cache) - 1 : cache'[k] = cache[k + 1]
        BY <2>1, <3>1 DEF JournalInv, TypeOK
    <3>3. MarksInv'
        BY <2>1, <3>1, KeepLog DEF JournalInv, MarksInv
    <3>4. CacheInv'
        BY <2>1, <3>1, <3>2 DEF JournalInv, CacheInv, ToolRuns
    <3>5. LogInv'
        BY <2>1, <3>1 DEF LogInv
    <3>6. CASE blocks_done < LogLen
      <4>1. /\ Flushed \in Nat /\ Flushed < blocks_done /\ Flushed' = Flushed + 1
            /\ blocks_done \in Slots /\ blocks_done < LogLen
          BY <2>1, <3>1, <3>2, <3>6 DEF JournalInv, TypeOK, FlushInv, Slots, Flushed
      <4>2. \A j \in 0 .. blocks_done - 1 :
               IF j < Flushed
               THEN disk[cb[j]] = log[j]
               ELSE /\ cb[j] = cache[j - Flushed + 1].blocknum
                    /\ log[j] = cache[j - Flushed + 1].blockdata
          BY <2>1, <3>6 DEF JournalInv, FlushInv
      <4>3. log[blocks_done] = Marked(cb) /\ IsMark(blocks_done)
          BY <2>1, <3>6, MarkTypes DEF JournalInv, FlushInv, TypeOK, IsMark
      <4>4. /\ \A j \in 0 .. blocks_done - 1 : cb[j] # NoBlock
            /\ \A i, j \in 0 .. blocks_done - 1 : cb[i] = cb[j] => i = j
        <5>1. Marked(cb).uncommitted = 1 /\ Marked(cb).blocknums = cb
            BY MarkTypes DEF JournalInv, TypeOK
        <5> QED BY <4>1, <4>3, <5>1 DEF JournalInv, MarkInv
      <4>5. \A j \in 0 .. blocks_done - 1 : cb[j] \in Block
          BY <4>1, <4>4 DEF JournalInv, TypeOK, Slots
      <4>6. cb[Flushed] = cache[1].blocknum /\ log[Flushed] = cache[1].blockdata
        <5>1. /\ Flushed \in 0 .. blocks_done - 1
              /\ ~(Flushed < Flushed)
              /\ Flushed - Flushed + 1 = 1
            BY <4>1 DEF Slots
        <5>2. /\ cb[Flushed] = cache[Flushed - Flushed + 1].blocknum
              /\ log[Flushed] = cache[Flushed - Flushed + 1].blockdata
            BY <4>2, <5>1
        <5> QED BY <5>1, <5>2
      <4>7. ASSUME NEW j \in 0 .. Flushed PROVE disk'[cb[j]] = log[j]
        <5>1. CASE j = Flushed
            BY <2>1, <4>1, <4>5, <4>6, <5>1 DEF JournalInv, TypeOK
        <5>2. CASE j < Flushed
          <6>1. cb[j] # cb[Flushed] /\ disk[cb[j]] = log[j] /\ cb[j] \in Block
            <7>1. /\ j \in 0 .. blocks_done - 1
                  /\ Flushed \in 0 .. blocks_done - 1
                  /\ j # Flushed
                BY <4>1, <4>7, <5>2 DEF Slots
            <7>2. disk[cb[j]] = log[j]
                BY <4>2, <5>2, <7>1
            <7> QED BY <4>4, <4>5, <7>1, <7>2
          <6> QED BY <2>1, <4>6, <6>1 DEF JournalInv, TypeOK
        <5> QED BY <4>1, <5>1, <5>2
      <4>8. ASSUME NEW j \in Flushed + 1 .. blocks_done - 1
            PROVE  /\ cb[j] = cache'[j - (Flushed + 1) + 1].blocknum
                   /\ log[j] = cache'[j - (Flushed + 1) + 1].blockdata
        <5>1. cache'[j - (Flushed + 1) + 1] = cache[j - Flushed + 1]
          <6>1. /\ j - (Flushed + 1) + 1 = j - Flushed
                /\ j - Flushed \in 1 .. Len(cache) - 1
              BY <3>2, <4>1, <4>8 DEF Flushed, JournalInv, TypeOK
          <6> QED BY <3>2, <6>1
        <5>2. j \in 0 .. blocks_done - 1 /\ ~(j < Flushed)
            BY <4>1, <4>8 DEF Slots
        <5> QED BY <4>2, <5>1, <5>2
      <4>9. ASSUME NEW j \in 0 .. blocks_done - 1
            PROVE  IF j < Flushed'
                   THEN disk'[cb[j]] = log[j]
                   ELSE /\ cb[j] = cache'[j - Flushed' + 1].blocknum
                        /\ log[j] = cache'[j - Flushed' + 1].blockdata
        <5>1. CASE j < Flushed + 1
          <6>1. j \in 0 .. Flushed
              BY <4>1, <4>9, <5>1
          <6> QED BY <4>1, <4>7, <5>1, <6>1
        <5>2. CASE ~(j < Flushed + 1)
          <6>1. j \in Flushed + 1 .. blocks_done - 1
              BY <4>1, <4>9, <5>2 DEF Slots
          <6> QED BY <4>1, <4>8, <5>2, <6>1
        <5> QED BY <5>1, <5>2
      <4>10. Flushed' >= 0
          BY <4>1
      <4>11. FlushInv'
          BY <2>1, <3>1, <3>6, <4>1, <4>3, <4>9, <4>10 DEF FlushInv
      <4> QED BY <1>r, <3>3, <3>4, <3>5, <4>11 DEF StepInv
    <3>7. CASE ~(blocks_done < LogLen)
      <4>1. MaxTxn >= LogLen /\ NoLiveMark
          BY <2>1, <3>7 DEF JournalInv, FlushInv, NoLiveMark
      <4>2. FlushInv'
          BY <2>1, <3>1, <3>7, <4>1 DEF FlushInv, NoLiveMark, IsLive, IsMark
      <4> QED BY <1>r, <3>3, <3>4, <3>5, <4>2 DEF StepInv
    <3> QED BY <3>6, <3>7
  <2> QED BY <2>2, <2>3
<1>5. CASE EndCommit /\ blocks_done < LogLen
  <2>1. /\ pc = "flush" /\ pc' = "open" /\ cache = <<>> /\ cache' = <<>>
        /\ blocks_done \in Slots
        /\ log' = [log EXCEPT ![blocks_done] = Cancelled]
      BY <1>5 DEF EndCommit, JournalInv, TypeOK, Slots
  <2>2. IsLive(blocks_done)
      BY <1>5, <2>1, MarkTypes DEF JournalInv, FlushInv, TypeOK, IsLive, IsMark
  <2>3. \A s \in Slots : s # blocks_done => ~IsLive(s)
      BY <2>1, <2>2 DEF JournalInv, LiveMarkIsFound, Found, IsLive, Slots
  <2>4. NoLiveMark'
      BY <2>1, <2>3, MarkTypes DEF JournalInv, TypeOK, NoLiveMark, IsLive, IsMark
  <2>5. MarkInv'
      BY <2>1, MarkTypes DEF JournalInv, TypeOK, MarkInv, IsMark
  <2>6. MarksInv'
      BY <2>4, <2>5 DEF MarksInv, NoStaleMark, LiveMarkIsFound, NoLiveMark
  <2>7. StepInv'
      BY <1>r, <2>1 DEF StepInv, CacheInv, LogInv, FlushInv, ToolRuns
  <2> QED BY <2>6, <2>7
<1>6. CASE EndCommit /\ ~(blocks_done < LogLen)
  <2>1. pc = "flush" /\ pc' = "open" /\ cache = <<>> /\ cache' = <<>> /\ UNCHANGED log
      BY <1>6 DEF EndCommit
  <2>2. NoLiveMark
      BY <1>6, <2>1 DEF JournalInv, FlushInv, NoLiveMark
  <2>3. MarksInv'
      BY <2>1, <2>2, KeepLog DEF JournalInv, MarksInv
  <2>4. StepInv'
      BY <1>r, <2>1 DEF StepInv, CacheInv, LogInv, FlushInv, ToolRuns
  <2> QED BY <2>3, <2>4
<1> QED
    BY <1>1, <1>2, <1>3, <1>4, <1>5, <1>6 DEF CommitStep, CommitPoint

(* Recovery finds one commit block at most.                                 *)
LEMMA FoundOnce ==
    \A s, t \in Slots : Found(s) /\ Found(t) => s = t
BY SizeAssumption DEF Found, Slots

(* A copy home changes the disk only under a live commit block, and then    *)
(* puts there what that commit block lists.                                 *)
LEMMA ReplayData ==
    ASSUME JournalInv, NEW r \in Checker, ReplayBlock(r)
    PROVE  /\ slot[r] \in Slots /\ Found(slot[r])
           /\ copied[r] \in 0 .. slot[r] - 1
           /\ blocks[r][copied[r]] \in Block
           /\ \/ IsLive(slot[r]) /\ blocks[r] = log[slot[r]].blocknums
              \/ ~IsLive(slot[r]) /\ HomeBefore(r, LogLen) /\ disk' = disk
<1> USE SizeAssumption
<1>1. Located(r) /\ Replaying(r)
    BY DEF JournalInv, LogShape, ReplayInv
<1>2. /\ slot[r] \in Slots /\ Found(slot[r])
      /\ copied[r] \in Slots
      /\ blocks[r][copied[r]] # NoBlock
    BY <1>1 DEF ReplayBlock, MoreToCopy, Located, JournalInv, TypeOK, Slots
<1>3. copied[r] \in 0 .. slot[r] - 1
    BY <1>1, <1>2 DEF ReplayBlock, Located, Slots
<1>4. blocks[r][copied[r]] \in Block
    BY <1>2 DEF JournalInv, TypeOK
<1>5. CASE ~IsLive(slot[r]) /\ HomeBefore(r, LogLen)
  <2>1. disk[blocks[r][copied[r]]] = log[copied[r]]
      BY <1>2, <1>5 DEF HomeBefore, Slots
  <2> QED BY <1>2, <1>3, <1>4, <1>5, <2>1 DEF ReplayBlock, JournalInv, TypeOK
<1> QED
    BY <1>1, <1>2, <1>3, <1>4, <1>5 DEF Replaying, ReplayBlock

(* The home blocks a live commit block lists are all different.             *)
LEMMA LiveLists ==
    ASSUME JournalInv, NEW s \in Slots, IsLive(s)
    PROVE  /\ \A j \in 0 .. s - 1 : j \in Slots /\ log[s].blocknums[j] \in Block
           /\ \A i, j \in 0 .. s - 1 :
                log[s].blocknums[i] = log[s].blocknums[j] => i = j
           /\ \A j \in Slots : log[s].blocknums[j] # NoBlock => j \in 0 .. s - 1
<1>1. IsMark(s) /\ log[s] \in CommitBlock
    BY DEF IsLive, IsMark
<1>2. /\ \A j \in 0 .. s - 1 : log[s].blocknums[j] # NoBlock
      /\ \A i, j \in 0 .. s - 1 :
           log[s].blocknums[i] = log[s].blocknums[j] => i = j
    BY <1>1 DEF JournalInv, MarkInv, IsLive
<1>3. \A j \in 0 .. s - 1 : j \in Slots
    BY SizeAssumption DEF Slots
<1>4. \A j \in Slots : log[s].blocknums[j] # NoBlock => j \in 0 .. s - 1
    BY <1>1 DEF JournalInv, LogShape, Slots
<1> QED
    BY <1>1, <1>2, <1>3, <1>4 DEF CommitBlock

(* A copy home by one process leaves what another has copied home.          *)
LEMMA ReplayKeepsHome ==
    ASSUME JournalInv, NEW r \in Checker, ReplayBlock(r),
           NEW q \in Checker, rpc[q] \in {"replay", "cancel"},
           NEW j \in Slots, blocks[q][j] # NoBlock, disk[blocks[q][j]] = log[j]
    PROVE  disk'[blocks[q][j]] = log[j]
<1>1. Located(q) /\ Replaying(q) /\ slot[q] \in 0 .. LogLen
    BY DEF JournalInv, LogShape, ReplayInv, TypeOK
<1>2. slot[q] = slot[r]
    BY <1>1, ReplayData, FoundOnce, SizeAssumption DEF Located, Slots
<1>3. CASE disk' = disk
    BY <1>3
<1>4. CASE disk' # disk
  <2>1. /\ slot[r] \in Slots /\ IsLive(slot[r])
        /\ blocks[r] = log[slot[r]].blocknums
        /\ copied[r] \in 0 .. slot[r] - 1
      BY <1>4, ReplayData
  <2>2. blocks[q] = log[slot[r]].blocknums
      BY <1>1, <1>2, <2>1 DEF Replaying
  <2>3. j \in 0 .. slot[r] - 1
      BY <2>1, <2>2, LiveLists
  <2>4. blocks[q][j] = blocks[r][copied[r]] => j = copied[r]
      BY <2>1, <2>2, <2>3, LiveLists
  <2>5. blocks[q][j] \in Block
      BY DEF JournalInv, TypeOK
  <2> QED BY <2>1, <2>4, <2>5 DEF ReplayBlock, JournalInv, TypeOK
<1> QED
    BY <1>3, <1>4

(* A step of checklog leaves no cache and no commit in progress.            *)
LEMMA NoCommitBeside ==
    ASSUME JournalInv, pc \in {"free", "down"}, pc' \in {"free", "down"}, UNCHANGED cache
    PROVE  CacheInv' /\ LogInv' /\ FlushInv'
BY DEF JournalInv, CacheInv, LogInv, FlushInv, ToolRuns

(* Another process, which the step leaves where it is, keeps its place when *)
(* the image does not change.                                               *)
LEMMA OtherReplays ==
    ASSUME JournalInv, UNCHANGED image, NEW q \in Checker,
           /\ rpc'[q] = rpc[q] /\ slot'[q] = slot[q]
           /\ copied'[q] = copied[q] /\ blocks'[q] = blocks[q]
    PROVE  Replaying(q)'
BY DEF JournalInv, ReplayInv, Replaying, HomeBefore, IsLive, IsMark, image

(* A step of jfs_checklog keeps the invariant.                              *)
LEMMA ChecklogStepInv ==
    ASSUME JournalInv, TypeInv',
           NEW r \in Checker, Checklog(r) \/ ChecklogDies(r) \/ ChecklogStep(r)
    PROVE  MarksInv' /\ StepInv'
<1> USE SizeAssumption
<1>1. Located(r) /\ Replaying(r)
    BY DEF JournalInv, LogShape, ReplayInv
<1>2. /\ pc \in {"free", "down"} /\ pc' \in {"free", "down"}
      /\ UNCHANGED cache
      /\ \A q \in Checker : q # r => /\ rpc'[q] = rpc[q] /\ slot'[q] = slot[q]
                                     /\ copied'[q] = copied[q] /\ blocks'[q] = blocks[q]
  <2>1. pc \in {"free", "down"}
      BY <1>1 DEF Checklog, ChecklogDies, ChecklogStep, ScanData, ScanMark, ScanOverrun,
                  ReplayBlock, ReplayDone, CancelMark, Located
  <2> QED
      BY <2>1 DEF Checklog, ChecklogDies, ChecklogStep, ScanData, ScanMark, ScanOverrun,
                  ReplayBlock, ReplayDone, CancelMark, Goto, Forget, toolVars,
                  JournalInv, TypeOK
<1>3. CacheInv' /\ LogInv' /\ FlushInv'
    BY <1>2, NoCommitBeside
<1>4. ASSUME MarksInv', Replaying(r)', UNCHANGED image
      PROVE  MarksInv' /\ StepInv'
    BY <1>2, <1>3, <1>4, OtherReplays DEF StepInv, ReplayInv
<1>5. ASSUME UNCHANGED <<log, pc>> PROVE MarksInv'
    BY <1>5, KeepLog DEF JournalInv, MarksInv, NoStaleMark, NoLiveMark
<1>6. CASE Checklog(r) \/ ChecklogDies(r)
  <2>1. /\ rpc'[r] \in {"idle", "scan"} /\ copied'[r] = 0
        /\ UNCHANGED image /\ pc' = pc
      BY <1>1, <1>6 DEF Checklog, ChecklogDies, Goto, Forget, Replaying, JournalInv, TypeOK
  <2> QED BY <1>4, <1>5, <2>1 DEF Replaying, image
<1>7. CASE ScanData(r)
  <2>1. /\ rpc'[r] = "scan" /\ copied'[r] = 0 /\ UNCHANGED image /\ pc' = pc
      BY <1>1, <1>7 DEF ScanData, Replaying
  <2> QED BY <1>4, <1>5, <2>1 DEF Replaying, image
<1>8. CASE ScanMark(r)
  <2>1. /\ rpc'[r] = IF IsLive(slot[r]) THEN "replay" ELSE "cancel"
        /\ copied'[r] = 0 /\ slot'[r] = slot[r] /\ slot[r] \in Nat
        /\ blocks'[r] = log[slot[r]].blocknums
        /\ UNCHANGED image /\ pc' = pc
      BY <1>1, <1>8 DEF ScanMark, Goto, Replaying, JournalInv, TypeOK
  <2>2. Replaying(r)'
      BY <2>1 DEF Replaying, HomeBefore, image, IsLive, IsMark
  <2> QED BY <1>4, <1>5, <2>1, <2>2 DEF image
<1>9. CASE ScanOverrun(r)
  <2>1. \A t \in Slots : ~IsMark(t)
      BY <1>1, <1>9 DEF ScanOverrun, Located, Slots
  <2>2. MarksInv'
      BY <1>9, <2>1, KeepLog
      DEF ScanOverrun, image, JournalInv, MarksInv, NoLiveMark, IsLive
  <2>3. rpc'[r] = "idle" /\ copied'[r] = 0 /\ UNCHANGED image
      BY <1>9 DEF ScanOverrun, Forget, Goto, JournalInv, TypeOK
  <2> QED BY <1>4, <2>2, <2>3 DEF Replaying
<1>10. CASE ReplayBlock(r)
  <2>1. /\ rpc[r] = "replay" /\ UNCHANGED <<log, pc, rpc, slot, blocks>>
        /\ copied' = [copied EXCEPT ![r] = copied[r] + 1]
        /\ copied[r] \in 0 .. LogLen
        /\ \A q \in Checker : slot[q] \in 0 .. LogLen
      BY <1>10 DEF ReplayBlock, JournalInv, TypeOK
  <2>2. copied[r] \in 0 .. slot[r] - 1 /\ copied'[r] = copied[r] + 1
      BY <1>10, <2>1, ReplayData DEF JournalInv, TypeOK
  <2> DEFINE HomeAfter(q, n) ==
               \A j \in 0 .. n - 1 : blocks[q][j] # NoBlock => disk'[blocks[q][j]] = log[j]
  <2>3. ASSUME NEW q \in Checker, rpc[q] \in {"replay", "cancel"},
               NEW n \in 0 .. LogLen, HomeBefore(q, n)
        PROVE  HomeAfter(q, n)
    <3>1. \A j \in 0 .. n - 1 : j \in Slots
        BY DEF Slots
    <3> QED BY <1>10, <2>3, <3>1, ReplayKeepsHome DEF HomeBefore
  <2>4. (HomeBefore(r, copied[r]))'
    <3>1. disk'[blocks[r][copied[r]]] = log[copied[r]]
        BY <1>10, ReplayData DEF ReplayBlock, JournalInv, TypeOK
    <3>2. HomeBefore(r, copied[r])
        BY <1>1, <2>1 DEF Replaying
    <3>3. ASSUME NEW j \in 0 .. copied[r], blocks[r][j] # NoBlock
          PROVE  disk'[blocks[r][j]] = log[j]
      <4>1. CASE j = copied[r]
          BY <3>1, <4>1
      <4>2. CASE j # copied[r]
        <5>1. j \in 0 .. copied[r] - 1 /\ j \in Slots
            BY <2>1, <2>2, <4>2 DEF Slots
        <5> QED BY <1>10, <2>1, <3>2, <3>3, <5>1, ReplayKeepsHome DEF HomeBefore
      <4> QED BY <4>1, <4>2
    <3> QED BY <2>1, <2>2, <3>3 DEF HomeBefore
  <2>5. ASSUME NEW q \in Checker PROVE Replaying(q)'
    <3>1. /\ Replaying(q) /\ (IsLive(slot[q])' <=> IsLive(slot[q]))
          /\ copied[q] \in 0 .. LogLen /\ LogLen \in 0 .. LogLen
        BY <2>1 DEF JournalInv, ReplayInv, IsLive, IsMark, TypeOK
    <3>2. ASSUME rpc[q] \in {"replay", "cancel"}, HomeBefore(q, LogLen)
          PROVE  (HomeBefore(q, LogLen))'
      <4>1. HomeAfter(q, LogLen)
          BY <2>3, <3>1, <3>2
      <4> QED BY <2>1, <4>1 DEF HomeBefore
    <3>3. CASE q = r
        BY <2>1, <2>2, <2>4, <3>1, <3>2, <3>3 DEF Replaying
    <3>4. CASE q # r
      <4>1. copied'[q] = copied[q]
          BY <1>2, <3>4
      <4>2. ASSUME rpc[q] \in {"replay", "cancel"}, HomeBefore(q, copied[q])
            PROVE  (HomeBefore(q, copied[q]))'
        <5>1. HomeAfter(q, copied[q])
            BY <2>3, <3>1, <4>2
        <5> QED BY <2>1, <4>1, <5>1 DEF HomeBefore
      <4> QED BY <2>1, <3>1, <3>2, <4>1, <4>2 DEF Replaying
    <3> QED BY <3>3, <3>4
  <2> QED BY <1>3, <1>5, <2>1, <2>5 DEF StepInv, ReplayInv
<1>11. CASE ReplayDone(r)
  <2>1. /\ rpc[r] = "replay" /\ rpc'[r] = "cancel" /\ ~MoreToCopy(r)
        /\ UNCHANGED <<image, pc, slot, copied, blocks>>
        /\ slot[r] \in Slots /\ copied[r] <= slot[r] /\ copied[r] \in Nat
      BY <1>1, <1>11
      DEF ReplayDone, Goto, JournalInv, TypeOK, Located, Replaying, Slots
  <2>2. IsLive(slot[r]) => copied[r] = slot[r] /\ blocks[r] = log[slot[r]].blocknums
    <3> SUFFICES ASSUME IsLive(slot[r])
                 PROVE  copied[r] = slot[r] /\ blocks[r] = log[slot[r]].blocknums
        OBVIOUS
    <3>1. blocks[r] = log[slot[r]].blocknums
        BY <1>1, <2>1 DEF Replaying
    <3>2. \A j \in 0 .. slot[r] - 1 : blocks[r][j] # NoBlock
        BY <2>1, <3>1, LiveLists, BlockAssumption
    <3> QED BY <2>1, <3>1, <3>2 DEF MoreToCopy, Slots
  <2>3. Replaying(r)'
      BY <1>1, <2>1, <2>2 DEF Replaying, HomeBefore, IsLive, IsMark, image
  <2> QED BY <1>4, <1>5, <2>1, <2>3 DEF image
<1>12. CASE CancelMark(r)
  <2>1. /\ rpc[r] = "cancel" /\ slot[r] \in Slots /\ Found(slot[r])
        /\ log' = [log EXCEPT ![slot[r]] = Cancelled]
        /\ disk' = disk /\ pc' = "free"
        /\ rpc'[r] = "idle" /\ copied'[r] = 0
      BY <1>1, <1>12 DEF CancelMark, Forget, Goto, JournalInv, TypeOK, Located, Slots
  <2>2. \A s \in Slots : s # slot[r] => ~IsLive(s)
      BY <2>1 DEF JournalInv, LiveMarkIsFound, Found, IsLive, Slots
  <2>3. NoLiveMark'
      BY <2>1, <2>2, MarkTypes DEF JournalInv, TypeOK, NoLiveMark, IsLive, IsMark
  <2>4. MarkInv'
      BY <2>1, MarkTypes DEF JournalInv, TypeOK, MarkInv, IsMark
  <2>5. MarksInv'
      BY <2>3, <2>4 DEF MarksInv, NoStaleMark, LiveMarkIsFound, NoLiveMark
  <2>6. ASSUME NEW q \in Checker, q # r PROVE Replaying(q)'
    <3>1. /\ Located(q) /\ Replaying(q) /\ slot[q] \in 0 .. LogLen /\ copied[q] \in 0 .. LogLen
          /\ rpc'[q] = rpc[q] /\ slot'[q] = slot[q]
          /\ copied'[q] = copied[q] /\ blocks'[q] = blocks[q]
        BY <1>2, <2>6 DEF JournalInv, LogShape, ReplayInv, TypeOK
    <3>2. CASE rpc[q] \in {"idle", "scan"}
        BY <3>1, <3>2 DEF Replaying
    <3>3. CASE rpc[q] \in {"replay", "cancel"}
      <4>1. slot[q] = slot[r]
          BY <2>1, <3>1, <3>3, FoundOnce DEF Located, Slots
      <4>2. ~IsLive(slot[q])'
          BY <2>1, <2>3, <3>1, <4>1 DEF NoLiveMark
      <4>3. \A j \in 0 .. slot[r] - 1 : j \in Slots /\ log'[j] = log[j]
          BY <2>1 DEF JournalInv, TypeOK, Slots
      <4>4. copied[q] <= slot[q] /\ (HomeBefore(q, copied[q]))'
        <5>1. copied[q] <= slot[q] /\ HomeBefore(q, copied[q])
            BY <3>1, <3>3 DEF Replaying
        <5>2. \A j \in 0 .. copied[q] - 1 : j \in 0 .. slot[r] - 1
            BY <2>1, <3>1, <4>1, <5>1 DEF Slots
        <5> QED BY <2>1, <3>1, <4>3, <5>1, <5>2 DEF HomeBefore
      <4>5. ASSUME rpc[q] = "replay" PROVE (HomeBefore(q, LogLen))'
        <5>1. ASSUME NEW j \in 0 .. LogLen - 1, blocks[q][j] # NoBlock
              PROVE  j \in 0 .. slot[r] - 1
            BY <2>1, <3>1, <4>1, <4>5, <5>1 DEF Located, Slots
        <5>2. ASSUME NEW j \in 0 .. LogLen - 1, blocks[q][j] # NoBlock
              PROVE  disk[blocks[q][j]] = log[j]
          <6>1. CASE IsLive(slot[r])
            <7>1. /\ blocks[q] = log[slot[r]].blocknums
                  /\ blocks[r] = log[slot[r]].blocknums
                  /\ HomeBefore(r, slot[r])
                BY <1>1, <2>1, <3>1, <4>1, <4>5, <6>1 DEF Replaying
            <7> QED BY <5>1, <5>2, <7>1 DEF HomeBefore
          <6>2. CASE ~IsLive(slot[r])
              BY <3>1, <4>1, <4>5, <5>2, <6>2 DEF Replaying, HomeBefore
          <6> QED BY <6>1, <6>2
        <5> QED BY <2>1, <3>1, <4>3, <5>1, <5>2 DEF HomeBefore
      <4> QED BY <3>1, <3>3, <4>2, <4>4, <4>5 DEF Replaying
    <3> QED BY <3>1, <3>2, <3>3 DEF JournalInv, TypeOK
  <2>7. Replaying(r)'
      BY <2>1 DEF Replaying
  <2> QED BY <1>3, <2>5, <2>6, <2>7 DEF StepInv, ReplayInv
<1> QED
    BY <1>6, <1>7, <1>8, <1>9, <1>10, <1>11, <1>12 DEF ChecklogStep

(* So do the other steps of a tool, and a crash.                            *)
LEMMA ToolStepInv ==
    ASSUME JournalInv, TypeInv', RecoverFirst,
           \/ Mount \/ Exit \/ Crash \/ BeginCommit
           \/ \E b \in Block, d \in Content : Write(b, d)
    PROVE  MarksInv' /\ StepInv'
<1>1. UNCHANGED image
    BY DEF Mount, Exit, Crash, BeginCommit, Write
<1>2. pc' \in {"free", "open", "log"} => NoLiveMark
    BY DEF Mount, Exit, Crash, BeginCommit, Write, JournalInv, NoStaleMark,
           NoLiveMark
<1>3. MarksInv'
    BY <1>1, <1>2, KeepLog DEF JournalInv, MarksInv, image
<1>4. Idle /\ UNCHANGED checklogVars
  <2>1. Idle \/ pc \notin {"free", "down"}
      BY DEF Mount, Exit, Crash, BeginCommit, Write, Idle
  <2>2. UNCHANGED checklogVars
      BY DEF Mount, Exit, Crash, BeginCommit, Write
  <2> QED BY <2>1, <2>2, ToolAlone, InvParts
<1>5. ReplayInv'
    BY <1>4, IdleReplay
<1>6. CASE Mount \/ Exit \/ Crash
    BY <1>3, <1>4, <1>6, LeaveStep DEF Mount, Exit, Crash
<1>7. CASE BeginCommit
    BY <1>3, <1>5, <1>7, SizeAssumption
    DEF BeginCommit, JournalInv, TypeOK, StepInv, CacheInv, LogInv, FlushInv, ToolRuns
<1>8. CASE \E b \in Block, d \in Content : Write(b, d)
  <2>1. PICK b \in Block, d \in Content : Write(b, d)
      BY <1>8
  <2>2. /\ pc = "open" /\ pc' = "open"
        /\ Cached(b) \/ Len(cache) < MaxTxn
        /\ cache' = Put(cache, b, d)
      BY <2>1 DEF Write
  <2>3. /\ \A k, l \in DOMAIN cache' : cache'[k].blocknum = cache'[l].blocknum => k = l
        /\ Len(cache') = IF Cached(b) THEN Len(cache) ELSE Len(cache) + 1
      BY <2>2, PutCache DEF JournalInv, TypeOK, CacheInv, Cached
  <2>4. CacheInv'
      BY <2>2, <2>3, SizeAssumption DEF JournalInv, TypeOK, CacheInv, ToolRuns
  <2> QED
      BY <1>3, <1>5, <2>2, <2>4 DEF StepInv, LogInv, FlushInv
<1> QED
    BY <1>6, <1>7, <1>8

(* A new journal satisfies the invariant.                                   *)
LEMMA SafeInit == Init => JournalInv
<1> SUFFICES ASSUME Init
             PROVE  JournalInv
    OBVIOUS
<1>1. \A s \in Slots : ~IsMark(s)
    BY ZeroAssumption, DataIsNoMark DEF Init, IsMark
<1>2. MarksInv
    BY <1>1 DEF MarksInv, NoStaleMark, LiveMarkIsFound, MarkInv, IsLive
<1>3. StepInv
    BY SizeAssumption DEF Init, StepInv, CacheInv, LogInv, FlushInv, ReplayInv, Replaying
<1> QED
    BY <1>2, <1>3, TypeInit, InvParts

(* Every step keeps the invariant.                                          *)
LEMMA SafeStep ==
    ASSUME RecoverFirst, JournalInv, [Next]_vars
    PROVE  JournalInv'
<1>1. TypeInv'
    BY TypeStep, InvParts
<1>2. CASE Next
  <2>1. CASE CommitStep
      BY <1>1, <2>1, CommitStepInv DEF JournalInv, TypeInv, MarksInv, StepInv
  <2>2. CASE \E r \in Checker : Checklog(r) \/ ChecklogDies(r) \/ ChecklogStep(r)
      BY <1>1, <2>2, ChecklogStepInv DEF JournalInv, TypeInv, MarksInv, StepInv
  <2>3. CASE \/ Mount \/ Exit \/ Crash \/ BeginCommit
             \/ \E b \in Block, d \in Content : Write(b, d)
      BY <1>1, <2>3, ToolStepInv DEF JournalInv, TypeInv, MarksInv, StepInv
  <2> QED BY <1>2, <2>1, <2>2, <2>3 DEF Next
<1>3. CASE UNCHANGED vars
    BY <1>1, <1>3
    DEF vars, JournalInv, TypeInv, NoStaleMark, LiveMarkIsFound, CacheInv, MarkInv,
        LogInv, FlushInv, Flushed, ReplayInv, Replaying, HomeBefore, ToolRuns,
        IsLive, IsMark, Found
<1> QED
    BY <1>2, <1>3

(* The invariant behind the properties of every transaction: the parts of   *)
(* JournalInv hold together, at every step of a commit and of a recovery.   *)
THEOREM Inductive == ASSUME RecoverFirst PROVE Spec => []JournalInv
<1>1. Init => JournalInv
    BY SafeInit
<1>2. JournalInv /\ [Next]_vars => JournalInv'
    BY SafeStep
<1> QED
    BY <1>1, <1>2, PTL DEF Spec

(* A commit block that still calls for a replay is the first of the log,    *)
(* the one checklog acts on, whatever shorter or longer transactions have   *)
(* left behind and whether or not they fitted in the log.                   *)
THEOREM NoHiddenMark == ASSUME RecoverFirst PROVE Spec => []LiveMarkIsFound
<1>1. JournalInv => LiveMarkIsFound
    BY DEF JournalInv
<1> QED
    BY <1>1, Inductive, PTL

(* And there is none when a transaction begins or a tool ends: it is gone   *)
(* before the next commit overwrites what it lists.                         *)
THEOREM NoMarkIsLeft == ASSUME RecoverFirst PROVE Spec => []NoStaleMark
<1>1. JournalInv => NoStaleMark
    BY DEF JournalInv
<1> QED
    BY <1>1, Inductive, PTL

-----------------------------------------------------------------------------
(* Write-ahead.                                                             *)

(* Every transaction leaves a block of the log for the commit block.        *)
Disciplined == MaxTxn < LogLen /\ RecoverFirst

(* With transactions that fit in the log, no commit skips its commit block. *)
LEMMA DisciplinedFits ==
    ASSUME Disciplined, JournalInv
    PROVE  /\ pc = "flush" => blocks_done < LogLen
           /\ ~SkipCommitBlock
BY SizeAssumption
DEF Disciplined, JournalInv, TypeOK, LogInv, CacheInv, FlushInv, SkipCommitBlock

(* While blocks are written home, the live commit block lists those that    *)
(* are left in the cache, and the others are home.                          *)
LEMMA FlushListed ==
    ASSUME JournalInv, pc = "flush", blocks_done < LogLen
    PROVE  /\ blocks_done \in Slots
           /\ IsLive(blocks_done)
           /\ Found(blocks_done)
           /\ log[blocks_done].blocknums = cb
           /\ \A k \in DOMAIN cache :
                /\ Flushed + k - 1 \in 0 .. blocks_done - 1
                /\ cb[Flushed + k - 1] = cache[k].blocknum
                /\ log[Flushed + k - 1] = cache[k].blockdata
           /\ \A j \in 0 .. blocks_done - 1 :
                \/ disk[cb[j]] = log[j]
                \/ \E k \in DOMAIN cache : cb[j] = cache[k].blocknum
<1> USE SizeAssumption
<1>1. blocks_done \in Slots /\ log[blocks_done] = Marked(cb)
    BY DEF JournalInv, FlushInv, TypeOK, Slots
<1>2. IsLive(blocks_done) /\ log[blocks_done].blocknums = cb
    BY <1>1, MarkTypes DEF JournalInv, TypeOK, IsLive, IsMark
<1>3. Found(blocks_done)
    BY <1>1, <1>2 DEF JournalInv, LiveMarkIsFound
<1>4. /\ Flushed \in Nat /\ Flushed <= blocks_done
      /\ Len(cache) \in Nat /\ Flushed + Len(cache) = blocks_done
      /\ DOMAIN cache = 1 .. Len(cache)
    BY <1>1 DEF JournalInv, TypeOK, FlushInv, Flushed, Slots
<1>5. \A j \in 0 .. blocks_done - 1 :
         IF j < Flushed
         THEN disk[cb[j]] = log[j]
         ELSE /\ cb[j] = cache[j - Flushed + 1].blocknum
              /\ log[j] = cache[j - Flushed + 1].blockdata
    BY DEF JournalInv, FlushInv
<1>6. ASSUME NEW k \in DOMAIN cache
      PROVE  /\ Flushed + k - 1 \in 0 .. blocks_done - 1
             /\ cb[Flushed + k - 1] = cache[k].blocknum
             /\ log[Flushed + k - 1] = cache[k].blockdata
  <2>1. /\ Flushed + k - 1 \in 0 .. blocks_done - 1
        /\ ~(Flushed + k - 1 < Flushed)
        /\ (Flushed + k - 1) - Flushed + 1 = k
      BY <1>4, <1>6
  <2> QED BY <1>5, <2>1
<1>7. ASSUME NEW j \in 0 .. blocks_done - 1, ~(j < Flushed)
      PROVE  j - Flushed + 1 \in DOMAIN cache
    BY <1>1, <1>4, <1>7 DEF Slots
<1> QED
    BY <1>1, <1>2, <1>3, <1>5, <1>6, <1>7

(* Every step writes home what the log has.                                 *)
LEMMA WriteAheadStep ==
    ASSUME JournalInv, [Next]_vars, Disciplined
    PROVE  HomeIsLogged
<1>1. CASE FlushBlock
  <2>1. /\ pc = "flush" /\ 1 \in DOMAIN cache
        /\ cache[1] \in CachedBlock
        /\ disk' = [disk EXCEPT ![cache[1].blocknum] = cache[1].blockdata]
    <3>1. cache # <<>> => Head(cache) = cache[1] /\ 1 \in DOMAIN cache
        BY DEF JournalInv, TypeOK
    <3> QED BY <1>1, <3>1 DEF FlushBlock, JournalInv, TypeOK
  <2>2. \A b \in Block : disk'[b] # disk[b] =>
           b = cache[1].blocknum /\ disk'[b] = cache[1].blockdata
      BY <2>1 DEF JournalInv, TypeOK, CachedBlock
  <2> QED
      BY <2>1, <2>2, FlushListed, DisciplinedFits DEF HomeIsLogged, Lists
<1>2. ASSUME NEW r \in Checker, ReplayBlock(r) PROVE HomeIsLogged
  <2>1. CASE disk' = disk
      BY <2>1 DEF HomeIsLogged
  <2>2. CASE disk' # disk
    <3>1. /\ slot[r] \in Slots /\ Found(slot[r]) /\ IsLive(slot[r])
          /\ copied[r] \in 0 .. slot[r] - 1
          /\ Lists(slot[r], copied[r], blocks[r][copied[r]])
        BY <1>2, <2>2, ReplayData DEF Lists
    <3>2. \A b \in Block : disk'[b] # disk[b] =>
             b = blocks[r][copied[r]] /\ disk'[b] = log[copied[r]]
        BY <1>2, ReplayData DEF ReplayBlock, JournalInv, TypeOK
    <3> QED BY <3>1, <3>2 DEF HomeIsLogged
  <2> QED BY <2>1, <2>2
<1>3. CASE ~FlushBlock /\ \A r \in Checker : ~ReplayBlock(r)
  <2>1. UNCHANGED disk
      BY <1>3
      DEF Next, CommitStep, CommitPoint, ChecklogStep, vars, image, Mount, Exit, Crash, Write,
          BeginCommit, LogBlock, WriteCommitBlock, SkipCommitBlock, EndCommit,
          Checklog, ChecklogDies, ScanData, ScanMark, ScanOverrun, ReplayDone, CancelMark
  <2> QED BY <2>1 DEF HomeIsLogged
<1> QED
    BY <1>1, <1>2, <1>3

(* No block goes home, from the cache or from the log, before a commit      *)
(* block that recovery would find lists it with that content.               *)
THEOREM WritesAreLogged == ASSUME Disciplined PROVE Spec => WriteAhead
<1>1. JournalInv /\ [Next]_vars => HomeIsLogged
    BY WriteAheadStep
<1>2. RecoverFirst
    BY DEF Disciplined
<1> QED
    BY <1>1, <1>2, Inductive, PTL DEF Spec, WriteAhead

-----------------------------------------------------------------------------
(* Atomicity: Journal implements AtomicDisk.                                *)

(* Without a live commit block, recovery changes nothing.                   *)
LEMMA RecoveredDead == JournalInv /\ NoLiveMark => Recovered = disk
<1> SUFFICES ASSUME JournalInv, NoLiveMark
             PROVE  Recovered = disk
    OBVIOUS
<1>1. \A s \in Slots : Found(s) => \A j \in Slots : log[s].blocknums[j] = NoBlock
    BY DEF JournalInv, TypeOK, MarkInv, Found, NoLiveMark, IsLive, IsMark, CommitBlock
<1>2. \A b \in Block : ~ \E s \in Slots : Found(s) /\ \E j \in Slots : Lists(s, j, b)
    BY <1>1, BlockAssumption DEF Lists
<1>3. disk = [b \in Block |-> disk[b]]
    BY DEF JournalInv, TypeOK
<1> QED
    BY <1>2, <1>3 DEF Recovered

(* With one, recovery overlays the log on the disk.                         *)
LEMMA RecoveredLive ==
    ASSUME JournalInv, NEW s \in Slots, IsLive(s)
    PROVE  /\ \A j \in 0 .. s - 1 : /\ log[s].blocknums[j] \in Block
                                    /\ Recovered[log[s].blocknums[j]] = log[j]
           /\ \A b \in Block :
                (\A j \in 0 .. s - 1 : log[s].blocknums[j] # b) => Recovered[b] = disk[b]
<1> USE SizeAssumption
<1>1. Found(s) /\ \A t \in Slots : Found(t) => t = s
    BY FoundOnce DEF JournalInv, LiveMarkIsFound
<1>2. /\ IsMark(s)
      /\ log[s] \in CommitBlock
      /\ \A j \in 0 .. s - 1 : log[s].blocknums[j] # NoBlock
      /\ \A i, j \in 0 .. s - 1 :
           log[s].blocknums[i] = log[s].blocknums[j] => i = j
    BY DEF JournalInv, MarkInv, IsLive, IsMark
<1>3. \A j \in Slots : log[s].blocknums[j] # NoBlock => j \in 0 .. s - 1
    BY <1>2 DEF JournalInv, LogShape, Slots
<1>4. \A j \in 0 .. s - 1 : log[s].blocknums[j] \in Block /\ j \in Slots
  <2>1. \A j \in 0 .. s - 1 : j \in Slots
      BY DEF Slots
  <2> QED BY <1>2, <2>1 DEF CommitBlock
<1>5. ASSUME NEW j \in 0 .. s - 1
      PROVE  Recovered[log[s].blocknums[j]] = log[j]
  <2> DEFINE b == log[s].blocknums[j]
             P(i) == \E t \in Slots : Found(t) /\ Lists(t, i, b)
  <2>1. b \in Block /\ j \in Slots
      BY <1>4
  <2>2. P(j)
      BY <1>1 DEF Lists
  <2>3. \A i \in Slots : P(i) => i = j
    <3> TAKE i \in Slots
    <3> HAVE P(i)
    <3>1. log[s].blocknums[i] = b
        BY <1>1 DEF Lists
    <3>2. i \in 0 .. s - 1
        BY <1>3, <2>1, <3>1, BlockAssumption
    <3> QED BY <1>2, <3>1, <3>2
  <2>4. (CHOOSE i \in Slots : P(i)) = j
      BY <2>1, <2>2, <2>3
  <2>5. Recovered[b] =
          IF \E t \in Slots : Found(t) /\ (\E i \in Slots : Lists(t, i, b))
          THEN log[CHOOSE i \in Slots : P(i)] ELSE disk[b]
      BY <2>1 DEF Recovered
  <2>6. \E t \in Slots : Found(t) /\ (\E i \in Slots : Lists(t, i, b))
      BY <2>1, <2>2
  <2> QED BY <2>4, <2>5, <2>6
<1>6. ASSUME NEW b \in Block, \A j \in 0 .. s - 1 : log[s].blocknums[j] # b
      PROVE  Recovered[b] = disk[b]
  <2>1. ~ \E t \in Slots : Found(t) /\ (\E i \in Slots : Lists(t, i, b))
      BY <1>1, <1>3, <1>6, BlockAssumption DEF Lists
  <2> QED BY <2>1 DEF Recovered
<1> QED
    BY <1>4, <1>5, <1>6

(* What a tool reads is what it wrote, or what is home.                     *)
LEMMA ReadCached ==
    ASSUME JournalInv, NEW b \in Block
    PROVE  /\ \A k \in DOMAIN cache :
                cache[k].blocknum = b => ReadBlock(b) = cache[k].blockdata
           /\ ~Cached(b) => ReadBlock(b) = disk[b]
<1>1. ASSUME NEW k \in DOMAIN cache, cache[k].blocknum = b
      PROVE  ReadBlock(b) = cache[k].blockdata
  <2>1. \A l \in DOMAIN cache : cache[l].blocknum = b => l = k
      BY <1>1 DEF JournalInv, CacheInv
  <2>2. (CHOOSE l \in DOMAIN cache : cache[l].blocknum = b) = k
      BY <1>1, <2>1
  <2> QED BY <1>1, <2>2 DEF ReadBlock, Cached
<1> QED
    BY <1>1 DEF ReadBlock

(* An empty cache shows the disk.                                           *)
LEMMA EmptyCache == JournalInv /\ ToolRuns /\ cache = <<>> => View = disk
<1> SUFFICES ASSUME JournalInv, ToolRuns, cache = <<>>
             PROVE  View = disk
    OBVIOUS
<1>1. \A b \in Block : ReadBlock(b) = disk[b]
    BY DEF ReadBlock, Cached
<1>2. disk = [b \in Block |-> disk[b]]
    BY DEF JournalInv, TypeOK
<1> QED
    BY <1>1, <1>2 DEF View

(* Once the commit block is written, what recovery would restore is what    *)
(* the tool reads.                                                          *)
LEMMA FlushView == JournalInv /\ pc = "flush" /\ blocks_done < LogLen => View = Recovered
<1> SUFFICES ASSUME JournalInv, pc = "flush", blocks_done < LogLen
             PROVE  View = Recovered
    OBVIOUS
<1>1. ASSUME NEW b \in Block
      PROVE  ReadBlock(b) = Recovered[b]
  <2> DEFINE n == blocks_done
  <2>1. /\ n \in Slots /\ IsLive(n) /\ log[n].blocknums = cb
        /\ \A k \in DOMAIN cache :
             /\ Flushed + k - 1 \in 0 .. n - 1
             /\ cb[Flushed + k - 1] = cache[k].blocknum
             /\ log[Flushed + k - 1] = cache[k].blockdata
        /\ \A j \in 0 .. n - 1 :
             \/ disk[cb[j]] = log[j]
             \/ \E k \in DOMAIN cache : cb[j] = cache[k].blocknum
      BY FlushListed
  <2>2. /\ \A j \in 0 .. n - 1 : Recovered[cb[j]] = log[j]
        /\ (\A j \in 0 .. n - 1 : cb[j] # b) => Recovered[b] = disk[b]
      BY <2>1, RecoveredLive
  <2>3. CASE Cached(b)
    <3>1. PICK k \in DOMAIN cache : cache[k].blocknum = b
        BY <2>3 DEF Cached
    <3> QED BY <2>1, <2>2, <3>1, ReadCached
  <2>4. CASE ~Cached(b)
    <3>1. ReadBlock(b) = disk[b]
        BY <2>4, ReadCached
    <3>2. CASE \E j \in 0 .. n - 1 : cb[j] = b
        BY <2>1, <2>2, <2>4, <3>1, <3>2 DEF Cached
    <3>3. CASE \A j \in 0 .. n - 1 : cb[j] # b
        BY <2>2, <3>1, <3>3
    <3> QED BY <3>2, <3>3
  <2> QED BY <2>3, <2>4
<1> QED
    BY <1>1 DEF View, ToolRuns, Recovered

(* The same lemmas of the state after a step.                               *)
LEMMA AfterStep ==
    /\ JournalInv' /\ NoLiveMark' => Recovered' = disk'
    /\ JournalInv' /\ ToolRuns' /\ cache' = <<>> => View' = disk'
    /\ JournalInv' /\ pc' = "flush" /\ blocks_done' < LogLen => View' = Recovered'
<1>1. (JournalInv /\ NoLiveMark => Recovered = disk)'
    BY RecoveredDead, PTL
<1>2. (JournalInv /\ ToolRuns /\ cache = <<>> => View = disk)'
    BY EmptyCache, PTL
<1>3. (JournalInv /\ pc = "flush" /\ blocks_done < LogLen => View = Recovered)'
    BY FlushView, PTL
<1> QED
    BY <1>1, <1>2, <1>3

(* A step that changes neither the image nor what is read is a stutter, and *)
(* one that ends a process throws away what was not committed.              *)
LEMMA KeepImage == UNCHANGED image => Recovered' = Recovered
BY DEF image, Recovered, Found, IsMark, Lists

(* Without a tool, what readers see is what recovery leaves.                *)
LEMMA LeaveView ==
    ASSUME JournalInv', pc' \in {"free", "down"}
    PROVE  View' = Recovered'
BY DEF View, ToolRuns

(* A step of a tool outside its commit is one of AtomicDisk or none.        *)
LEMMA ToolRefines ==
    ASSUME JournalInv, JournalInv', RecoverFirst,
           \/ Mount \/ Exit \/ Crash \/ BeginCommit
           \/ \E b \in Block, d \in Content : Write(b, d)
    PROVE  [Abs!Next]_(Abs!vars) /\ Recovered' = Recovered
<1>1. UNCHANGED image /\ Recovered' = Recovered
    BY KeepImage DEF Mount, Exit, Crash, BeginCommit, Write
<1>2. CASE Mount
  <2>1. pc = "free" /\ pc' = "open" /\ cache' = <<>>
      BY <1>2 DEF Mount, ForgetMemory
  <2>2. Recovered = disk /\ View = Recovered
      BY <2>1, RecoveredDead DEF View, ToolRuns, JournalInv, NoStaleMark, NoLiveMark
  <2>3. View' = disk'
    <3>1. ToolRuns' BY <2>1 DEF ToolRuns
    <3> QED BY <2>1, <3>1, AfterStep
  <2> QED BY <1>1, <2>2, <2>3 DEF Abs!vars, image
<1>3. CASE Exit \/ Crash
  <2>1. View' = Recovered'
      BY <1>3, LeaveView DEF Exit, Crash
  <2> QED BY <1>1, <2>1 DEF Abs!Next, Abs!Discard
<1>4. CASE BeginCommit
  <2>1. View' = View
      BY <1>4 DEF BeginCommit, image, View, ToolRuns, ReadBlock, Cached
  <2> QED BY <1>1, <2>1 DEF Abs!vars
<1>5. CASE \E b \in Block, d \in Content : Write(b, d)
  <2>1. PICK b \in Block, d \in Content : Write(b, d)
      BY <1>5
  <2>2. /\ pc = "open" /\ pc' = "open"
        /\ cache' = Put(cache, b, d)
        /\ disk' = disk
      BY <2>1 DEF Write, image
  <2>3. /\ \A k \in DOMAIN cache' : cache'[k].blocknum = b => cache'[k].blockdata = d
        /\ \E k \in DOMAIN cache' : cache'[k].blocknum = b
        /\ \A k \in DOMAIN cache :
             cache[k].blocknum # b => k \in DOMAIN cache' /\ cache'[k] = cache[k]
        /\ \A k \in DOMAIN cache' :
             cache'[k].blocknum # b => k \in DOMAIN cache /\ cache'[k] = cache[k]
    <3>1. /\ cache \in Seq(CachedBlock)
          /\ \A k, l \in DOMAIN cache : cache[k].blocknum = cache[l].blocknum => k = l
        BY DEF JournalInv, TypeOK, CacheInv
    <3> HIDE DEF CachedBlock
    <3> QED BY <2>2, <3>1, PutCache
  <2>4. ASSUME NEW a \in Block
        PROVE  /\ \A k \in DOMAIN cache' :
                    cache'[k].blocknum = a => ReadBlock(a)' = cache'[k].blockdata
               /\ ~Cached(a)' => ReadBlock(a)' = disk'[a]
    <3>1. ASSUME NEW k \in DOMAIN cache', cache'[k].blocknum = a
          PROVE  ReadBlock(a)' = cache'[k].blockdata
      <4>1. \A l \in DOMAIN cache' : cache'[l].blocknum = a => l = k
          BY <3>1 DEF JournalInv, CacheInv
      <4>2. (CHOOSE l \in DOMAIN cache' : cache'[l].blocknum = a) = k
          BY <3>1, <4>1
      <4> QED BY <3>1, <4>2 DEF ReadBlock, Cached
    <3> QED BY <3>1 DEF ReadBlock
  <2>5. ReadBlock(b)' = d
      BY <2>3, <2>4
  <2>6. ASSUME NEW a \in Block, a # b
        PROVE  ReadBlock(a)' = ReadBlock(a)
    <3>1. CASE Cached(a)
      <4>1. PICK k \in DOMAIN cache : cache[k].blocknum = a
          BY <3>1 DEF Cached
      <4>2. k \in DOMAIN cache' /\ cache'[k] = cache[k]
          BY <2>3, <2>6, <4>1
      <4> QED BY <2>4, <4>1, <4>2, ReadCached
    <3>2. CASE ~Cached(a)
      <4>1. ~Cached(a)'
          BY <2>3, <2>6, <3>2 DEF Cached
      <4> QED BY <2>2, <2>4, <3>2, <4>1, ReadCached
    <3> QED BY <3>1, <3>2
  <2>7. View' = [View EXCEPT ![b] = d]
      BY <2>2, <2>5, <2>6 DEF View, ToolRuns
  <2> QED BY <1>1, <2>7 DEF Abs!Next, Abs!Write
<1> QED
    BY <1>2, <1>3, <1>4, <1>5

(* So is a step of a commit: the one that writes the commit block is the    *)
(* commit.                                                                  *)
LEMMA CommitRefines ==
    ASSUME JournalInv, JournalInv', CommitStep,
           ~SkipCommitBlock, pc = "flush" => blocks_done < LogLen
    PROVE  /\ [Abs!Next]_(Abs!vars)
           /\ Recovered' = IF pc = "log" /\ pc' = "flush" THEN View ELSE Recovered
<1>1. CASE LogBlock
  <2>1. pc = "log" /\ NoLiveMark
      BY <1>1 DEF LogBlock, JournalInv, NoStaleMark, NoLiveMark
  <2>2. NoLiveMark' /\ disk' = disk
    <3>1. /\ blocks_done \in Slots
          /\ log' = [log EXCEPT ![blocks_done] = cache[blocks_done + 1].blockdata]
          /\ disk' = disk
          /\ cache[blocks_done + 1] \in CachedBlock
        BY <1>1, SizeAssumption DEF LogBlock, JournalInv, TypeOK, Slots
    <3>2. cache[blocks_done + 1].blockdata \notin CommitBlock
        BY <3>1, DataIsNoMark DEF CachedBlock
    <3> QED
        BY <2>1, <3>1, <3>2 DEF JournalInv, TypeOK, NoLiveMark, IsLive, IsMark
  <2>3. Recovered' = Recovered
      BY <2>1, <2>2, RecoveredDead, AfterStep
  <2>4. CASE pc' = "down" /\ ForgetMemory
      BY <2>3, <2>4, LeaveView DEF Abs!Next, Abs!Discard
  <2>5. CASE ~(pc' = "down" /\ ForgetMemory)
    <3>1. UNCHANGED <<disk, pc, cache>>
        BY <1>1, <2>5 DEF LogBlock
    <3>2. View' = View
        BY <2>1, <3>1 DEF View, ToolRuns, ReadBlock, Cached
    <3> QED BY <2>1, <2>3, <3>1, <3>2 DEF Abs!vars
  <2> QED BY <2>4, <2>5
<1>2. CASE WriteCommitBlock
  <2>1. /\ pc = "log" /\ pc' = "flush" /\ UNCHANGED <<disk, cache>>
        /\ blocks_done' < LogLen
      BY <1>2 DEF WriteCommitBlock, commitVars
  <2>2. View' = View
      BY <2>1 DEF View, ToolRuns, ReadBlock, Cached
  <2>3. Recovered' = View
      BY <2>1, <2>2, AfterStep
  <2> QED BY <2>1, <2>2, <2>3 DEF Abs!Next, Abs!Commit
<1>4. CASE FlushBlock
  <2>1. /\ pc = "flush" /\ blocks_done < LogLen /\ 1 \in DOMAIN cache /\ UNCHANGED log
        /\ cache[1] \in CachedBlock
        /\ disk' = [disk EXCEPT ![cache[1].blocknum] = cache[1].blockdata]
    <3>1. cache # <<>> => Head(cache) = cache[1] /\ 1 \in DOMAIN cache
        BY DEF JournalInv, TypeOK
    <3> QED BY <1>4, <3>1 DEF FlushBlock, JournalInv, TypeOK
  <2>2. Recovered' = Recovered
    <3>1. Lists(blocks_done, Flushed, cache[1].blocknum) /\ Found(blocks_done)
          /\ blocks_done \in Slots /\ Flushed \in Slots
      <4>1. /\ blocks_done \in Slots /\ Found(blocks_done)
            /\ log[blocks_done].blocknums = cb
            /\ Flushed + 1 - 1 \in 0 .. blocks_done - 1
            /\ cb[Flushed + 1 - 1] = cache[1].blocknum
          BY <2>1, FlushListed
      <4>2. Flushed + 1 - 1 = Flushed
          BY <2>1 DEF JournalInv, TypeOK, Flushed
      <4> QED BY <4>1, <4>2, SizeAssumption DEF Lists, Slots
    <3>2. ASSUME NEW b \in Block,
                 ~ \E s \in Slots : Found(s) /\ (\E j \in Slots : Lists(s, j, b))
          PROVE  disk'[b] = disk[b]
        BY <2>1, <3>1, <3>2 DEF JournalInv, TypeOK
    <3>3. \A s \in Slots : Found(s)' <=> Found(s)
        BY <2>1 DEF Found, IsMark
    <3>4. \A s \in Slots, j \in Slots, b \in Block : Lists(s, j, b)' <=> Lists(s, j, b)
        BY <2>1 DEF Lists
    <3>5. ASSUME NEW b \in Block PROVE Recovered'[b] = Recovered[b]
        BY <2>1, <3>2, <3>3, <3>4 DEF Recovered, Found, IsMark, Lists
    <3> QED BY <3>5 DEF Recovered
  <2>3. View = Recovered
      BY <2>1, FlushView
  <2>4. View' = Recovered'
    <3>1. pc' = "down" \/ (pc' = "flush" /\ blocks_done' < LogLen)
        BY <1>4, <2>1 DEF FlushBlock
    <3> QED BY <3>1, AfterStep, LeaveView
  <2> QED BY <2>1, <2>2, <2>3, <2>4 DEF Abs!vars
<1>5. CASE EndCommit
  <2>1. pc = "flush" /\ blocks_done < LogLen /\ pc' = "open" /\ cache = <<>> /\ cache' = <<>> /\ disk' = disk
      BY <1>5 DEF EndCommit
  <2>2. View = disk /\ Recovered = disk
      BY <2>1, EmptyCache, FlushView DEF ToolRuns
  <2>3. View' = disk'
      BY <2>1, AfterStep DEF ToolRuns
  <2>4. NoLiveMark'
      BY <2>1 DEF JournalInv, NoStaleMark, NoLiveMark
  <2>5. Recovered' = disk'
      BY <2>4, AfterStep
  <2> QED BY <2>1, <2>2, <2>3, <2>5 DEF Abs!vars
<1> QED
    BY <1>1, <1>2, <1>4, <1>5 DEF CommitStep, CommitPoint

(* A step of a recovery is none.                                            *)
LEMMA ChecklogRefines ==
    ASSUME JournalInv, JournalInv',
           NEW r \in Checker, Checklog(r) \/ ChecklogDies(r) \/ ChecklogStep(r)
    PROVE  [Abs!Next]_(Abs!vars) /\ Recovered' = Recovered
<1>1. Located(r) /\ Replaying(r)
    BY DEF JournalInv, LogShape, ReplayInv
<1>2. pc \in {"free", "down"} /\ pc' \in {"free", "down"}
  <2>1. pc \in {"free", "down"}
      BY <1>1 DEF Checklog, ChecklogDies, ChecklogStep, ScanData, ScanMark, ScanOverrun,
                  ReplayBlock, ReplayDone, CancelMark, Located
  <2> QED
      BY <2>1 DEF Checklog, ChecklogDies, ChecklogStep, ScanData, ScanMark, ScanOverrun,
                  ReplayBlock, ReplayDone, CancelMark
<1>3. View = Recovered /\ View' = Recovered'
    BY <1>2, LeaveView DEF View, ToolRuns
<1>4. CASE UNCHANGED image
    BY <1>3, <1>4, KeepImage DEF Abs!vars
<1>5. CASE ReplayBlock(r) /\ disk' # disk
  <2>1. /\ slot[r] \in Slots /\ Found(slot[r]) /\ copied[r] \in Slots
        /\ Lists(slot[r], copied[r], blocks[r][copied[r]])
        /\ UNCHANGED log
        /\ disk' = [disk EXCEPT ![blocks[r][copied[r]]] = log[copied[r]]]
    <3>1. /\ slot[r] \in Slots /\ Found(slot[r]) /\ copied[r] \in 0 .. slot[r] - 1
          /\ blocks[r] = log[slot[r]].blocknums
        BY <1>5, ReplayData
    <3>2. copied[r] \in Slots
        BY <3>1, SizeAssumption DEF Slots
    <3> QED BY <1>5, <3>1, <3>2 DEF ReplayBlock, Lists
  <2>2. ASSUME NEW b \in Block,
               ~ \E s \in Slots : Found(s) /\ (\E j \in Slots : Lists(s, j, b))
        PROVE  disk'[b] = disk[b]
      BY <2>1, <2>2 DEF JournalInv, TypeOK
  <2>3. ASSUME NEW b \in Block PROVE Recovered'[b] = Recovered[b]
      BY <2>1, <2>2 DEF Recovered, Found, IsMark, Lists
  <2>4. Recovered' = Recovered
      BY <2>3 DEF Recovered
  <2> QED BY <1>3, <2>4 DEF Abs!vars
<1>6. CASE CancelMark(r)
  <2>1. rpc[r] = "cancel" /\ pc' = "free" /\ disk' = disk
        /\ slot[r] \in Slots /\ Found(slot[r])
      BY <1>1, <1>6 DEF CancelMark, JournalInv, TypeOK, Located, Slots
  <2>2. Recovered = disk
    <3>1. CASE IsLive(slot[r])
      <4>1. /\ blocks[r] = log[slot[r]].blocknums
            /\ HomeBefore(r, slot[r])
          BY <1>1, <2>1, <3>1 DEF Replaying
      <4>2. \A j \in 0 .. slot[r] - 1 : disk[log[slot[r]].blocknums[j]] = log[j]
          BY <2>1, <3>1, <4>1, LiveLists, BlockAssumption DEF HomeBefore
      <4>3. ASSUME NEW b \in Block PROVE Recovered[b] = disk[b]
          BY <2>1, <3>1, <4>2, RecoveredLive
      <4>4. disk = [b \in Block |-> disk[b]]
          BY DEF JournalInv, TypeOK
      <4> QED BY <4>3, <4>4 DEF Recovered
    <3>2. CASE ~IsLive(slot[r])
      <4>1. NoLiveMark
          BY <2>1, <3>2, FoundOnce DEF NoLiveMark, JournalInv, LiveMarkIsFound
      <4> QED BY <4>1, RecoveredDead
    <3> QED BY <3>1, <3>2
  <2>3. NoLiveMark'
      BY <2>1 DEF JournalInv, NoStaleMark, NoLiveMark
  <2>4. Recovered' = disk'
      BY <2>3, AfterStep
  <2> QED BY <1>3, <2>1, <2>2, <2>4 DEF Abs!vars
<1>7. CASE ReplayBlock(r) /\ disk' = disk
    BY <1>4, <1>7 DEF ReplayBlock, image
<1>8. CASE \/ Checklog(r) \/ ChecklogDies(r) \/ ScanData(r) \/ ScanMark(r)
           \/ ScanOverrun(r) \/ ReplayDone(r)
    BY <1>4, <1>8 DEF Checklog, ChecklogDies, ScanData, ScanMark, ScanOverrun, ReplayDone
<1> QED
    BY <1>5, <1>6, <1>7, <1>8 DEF ChecklogStep

(* The journal begins where AtomicDisk does.                                *)
LEMMA InitRefines == Init => Abs!Init
<1> SUFFICES ASSUME Init
             PROVE  Abs!Init
    OBVIOUS
<1>1. JournalInv /\ NoLiveMark
    BY SafeInit DEF Init, JournalInv, NoStaleMark, NoLiveMark
<1>2. Recovered = disk /\ View = Recovered
    BY <1>1, RecoveredDead DEF Init, View, ToolRuns
<1> QED
    BY <1>2 DEF Abs!Init, Init

(* Every step of the journal is one of AtomicDisk or none.                  *)
LEMMA StepRefines ==
    ASSUME RecoverFirst, JournalInv, JournalInv', [Next]_vars,
           ~SkipCommitBlock, pc = "flush" => blocks_done < LogLen
    PROVE  /\ [Abs!Next]_(Abs!vars)
           /\ Recovered' = IF pc = "log" /\ pc' = "flush" THEN View ELSE Recovered
<1>1. CASE UNCHANGED vars
    BY <1>1
    DEF vars, Abs!vars, Recovered, View, ToolRuns, ReadBlock, Cached, Found, IsMark, Lists
<1>2. CASE \/ Mount \/ Exit \/ Crash \/ BeginCommit
           \/ \E b \in Block, d \in Content : Write(b, d)
  <2>1. ~(pc = "log" /\ pc' = "flush")
      BY <1>2 DEF Mount, Exit, Crash, BeginCommit, Write
  <2> QED BY <1>2, <2>1, ToolRefines
<1>3. CASE CommitStep
    BY <1>3, CommitRefines
<1>4. CASE \E r \in Checker : Checklog(r) \/ ChecklogDies(r) \/ ChecklogStep(r)
  <2>1. pc \in {"free", "down"}
      BY <1>4 DEF JournalInv, LogShape, Located, Checklog, ChecklogDies, ChecklogStep,
                  ScanData, ScanMark, ScanOverrun, ReplayBlock, ReplayDone, CancelMark
  <2> QED BY <1>4, <2>1, ChecklogRefines
<1> QED
    BY <1>1, <1>2, <1>3, <1>4 DEF Next

(* A transaction is all or nothing: whatever the volume, the length of the  *)
(* log and the transactions, wherever processes die, also in recovery, and  *)
(* however many recoveries run at the same time in whatever interleaving,   *)
(* the journal implements a disk whose durable contents change by whole     *)
(* transactions, provided each leaves a block of the log for the commit     *)
(* block and a crash is followed by checklog.                               *)
THEOREM JournalIsAtomic == ASSUME Disciplined PROVE Spec => Atomicity
<1>1. Init => Abs!Init
    BY InitRefines
<1>2. RecoverFirst
    BY DEF Disciplined
<1>3. JournalInv /\ JournalInv' /\ [Next]_vars => [Abs!Next]_(Abs!vars)
    BY <1>2, StepRefines, DisciplinedFits
<1> QED
    BY <1>1, <1>2, <1>3, Inductive, PTL DEF Spec, Atomicity, Abs!Spec
=============================================================================

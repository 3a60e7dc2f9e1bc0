------------------------------ MODULE Journal ------------------------------
(***************************************************************************)
(* The write-ahead journal of the filesystem: the write cache of a running *)
(* tool (jfs_write_block, jfs_read_block), the commit of a transaction     *)
(* (jfs_commit), the recovery tool (jfs_checklog) and the death of a       *)
(* process at any point between two block writes.                          *)
(*                                                                         *)
(* The image is a file that one tool, or any number of jfs_checklog        *)
(* processes, have mapped at a time: nothing in the code keeps two of them *)
(* from running at once.  A block write is one memcpy of 512 bytes into a  *)
(* MAP_SHARED mapping (write_block): it is one step here, and it survives  *)
(* the death of the process.                                               *)
(***************************************************************************)
EXTENDS Integers, Sequences

CONSTANTS
    Block,         \* numbers of the home blocks (every block outside .log)
    Content,       \* what one block can hold, commit blocks excepted
    Zero,          \* the content jfs_format gives the blocks of .log
    LogLen,        \* blocks of .log: LOGFILE_BLOCKS = INODE_BLOCK_PTRS
    MaxTxn,        \* bound: blocks one tool buffers before it commits
    CrashAfter,    \* what CRASH_AFTER may be in the environment, 0 for not set
    Checker,       \* the jfs_checklog processes that may run at the same time
    RecoverFirst   \* do users run jfs_checklog after a crash before any
                   \* other tool?  No tool checks the log when it mounts.

NoBlock == -1

Slots == 0 .. LogLen - 1

(* struct commit_block.  The magic number is what sets it apart from data;  *)
(* sum is left out: it is written and never read.                           *)
CommitBlock == [uncommitted : {0, 1}, blocknums : [Slots -> Block \cup {NoBlock}]]

NoBlocks == [s \in Slots |-> NoBlock]

Marked(nums) == [uncommitted |-> 1, blocknums |-> nums]

\* Mutant: the list of block numbers is cleared, but not the flag.
CancelledInList == Marked(NoBlocks)

Cancelled == [uncommitted |-> 0, blocknums |-> NoBlocks]

ASSUME BlockAssumption == NoBlock \notin Block
ASSUME ZeroAssumption == Zero \in Content
ASSUME SizeAssumption == LogLen \in Nat \ {0} /\ MaxTxn \in Nat
ASSUME CrashAssumption == CrashAfter \subseteq Nat
ASSUME DisciplineAssumption == RecoverFirst \in BOOLEAN

(* "just something very unlikely to occur in real data": no data block      *)
(* begins with the magic number.                                            *)
ASSUME MagicAssumption == Content \cap CommitBlock = {}

VARIABLES
    \* the image file
    disk,          \* [Block -> Content]: the home blocks
    log,           \* [Slots -> Content \cup CommitBlock]: the blocks of .log
    \* the tool
    pc,            \* where it is; "free" and "down": there is none
    cache,         \* the list cache_head ... cache_tail of written blocks
    blocks_done,   \* jfs_commit: log blocks written so far
    cb,            \* jfs_commit: cb->blocknums, in memory
    crash_after,   \* the countdown of the same name, 0 for any value below 1
    \* the jfs_checklog processes
    rpc,           \* where each is
    slot,          \* checklog: i, the block of .log it looks at
    copied,        \* write_Data_To_Disk: i, the log blocks copied home
    blocks         \* write_Data_To_Disk: blocks, from its copy of the block

image == <<disk, log>>
commitVars == <<blocks_done, cb, crash_after>>
toolVars == <<cache, commitVars>>
checklogVars == <<rpc, slot, copied, blocks>>
vars == <<disk, log, pc, cache, blocks_done, cb, crash_after,
          rpc, slot, copied, blocks>>

CachedBlock == [blocknum : Block, blockdata : Content]

TypeOK ==
    /\ disk \in [Block -> Content]
    /\ log \in [Slots -> Content \cup CommitBlock]
    /\ pc \in {"free", "down", "open", "log", "flush"}
    /\ cache \in Seq(CachedBlock)
    /\ blocks_done \in 0 .. LogLen
    /\ cb \in [Slots -> Block \cup {NoBlock}]
    /\ crash_after \in Nat
    /\ rpc \in [Checker -> {"idle", "scan", "replay", "cancel"}]
    /\ slot \in [Checker -> 0 .. LogLen]
    /\ copied \in [Checker -> 0 .. LogLen]
    /\ blocks \in [Checker -> [Slots -> Block \cup {NoBlock}]]

IsMark(s) == log[s] \in CommitBlock
IsLive(s) == IsMark(s) /\ log[s].uncommitted = 1

-----------------------------------------------------------------------------
(* The write cache.                                                         *)

Cached(b) == \E k \in DOMAIN cache : cache[k].blocknum = b

(* jfs_read_block: the cached copy if there is one, the disk otherwise.     *)
ReadBlock(b) ==
    IF Cached(b)
    THEN cache[CHOOSE k \in DOMAIN cache : cache[k].blocknum = b].blockdata
    ELSE disk[b]

\* Mutant: every write appends, also one to a block that is cached.
PutTwice(c, b, d) == Append(c, [blocknum |-> b, blockdata |-> d])

(* The list after jfs_write_block: overwrite the cached copy or append.     *)
Put(c, b, d) ==
    IF \E k \in DOMAIN c : c[k].blocknum = b
    THEN [k \in DOMAIN c |->
            IF c[k].blocknum = b THEN [c[k] EXCEPT !.blockdata = d] ELSE c[k]]
    ELSE Append(c, [blocknum |-> b, blockdata |-> d])

-----------------------------------------------------------------------------
(* A process starts, ends or dies.                                          *)

Init ==
    /\ disk \in [Block -> Content]
    /\ log = [s \in Slots |-> Zero]
    /\ pc = "free"
    /\ cache = <<>>
    /\ blocks_done = 0
    /\ cb = NoBlocks
    /\ crash_after = 0
    /\ rpc = [r \in Checker |-> "idle"]
    /\ slot = [r \in Checker |-> 0]
    /\ copied = [r \in Checker |-> 0]
    /\ blocks = [r \in Checker |-> NoBlocks]

ForgetMemory ==
    /\ cache' = <<>>
    /\ blocks_done' = 0
    /\ cb' = NoBlocks
    /\ crash_after' = 0

(* mount_disk_image and init_jfs of any tool but jfs_checklog.  Nothing in  *)
(* them looks at the log; users wait for jfs_checklog to end.               *)
Mount ==
    /\ pc = "free" \/ (pc = "down" /\ ~RecoverFirst)
    /\ \A r \in Checker : rpc[r] = "idle"
    /\ pc' = "open"
    /\ ForgetMemory
    /\ UNCHANGED <<image, checklogVars>>

(* The tool returns, or gives up with exit(1): what it has not committed    *)
(* was only in memory.                                                      *)
Exit ==
    /\ pc = "open"
    /\ pc' = "free"
    /\ ForgetMemory
    /\ UNCHANGED <<image, checklogVars>>

Crash ==
    /\ pc \notin {"free", "down"}
    /\ pc' = "down"
    /\ ForgetMemory
    /\ UNCHANGED <<image, checklogVars>>

(* crash_after--; if (crash_after == 0) exit: the process stops on demand   *)
(* or goes on to do Continue.                                               *)
CrashNow == crash_after = 1

CountWrite == crash_after' = IF crash_after > 1 THEN crash_after - 1 ELSE 0

-----------------------------------------------------------------------------
(* A transaction.                                                           *)

Write(b, d) ==
    /\ pc = "open"
    /\ Cached(b) \/ Len(cache) < MaxTxn
    /\ cache' = Put(cache, b, d)
    /\ UNCHANGED <<image, pc, commitVars, checklogVars>>

\* Mutant: the memset alone, without the loop that sets the unused block
\* numbers to -1.
BeginCommitZeroed ==
    /\ pc = "open"
    /\ cache # <<>>
    /\ pc' = "log"
    /\ blocks_done' = 0
    /\ cb' = [s \in Slots |-> 0]
    /\ crash_after' \in CrashAfter
    /\ UNCHANGED <<image, cache, checklogVars>>

(* Every caller of jfs_commit has written a block before.  Every commit     *)
(* sets the countdown anew.                                                 *)
BeginCommit ==
    /\ pc = "open"
    /\ cache # <<>>
    /\ pc' = "log"
    /\ blocks_done' = 0
    /\ cb' = NoBlocks
    /\ crash_after' \in CrashAfter
    /\ UNCHANGED <<image, cache, checklogVars>>

\* Mutant: the block is read from the disk instead of from the cache.
LogOldBlock ==
    /\ pc = "log"
    /\ blocks_done < LogLen
    /\ blocks_done < Len(cache)
    /\ log' = [log EXCEPT ![blocks_done] = disk[cache[blocks_done + 1].blocknum]]
    /\ CountWrite
    /\ cb' = [cb EXCEPT ![blocks_done] = cache[blocks_done + 1].blocknum]
    /\ blocks_done' = blocks_done + 1
    /\ UNCHANGED <<disk, pc, cache, checklogVars>>

LogBlock ==
    /\ pc = "log"
    /\ blocks_done < LogLen
    /\ blocks_done < Len(cache)
    /\ log' = [log EXCEPT ![blocks_done] = cache[blocks_done + 1].blockdata]
    /\ UNCHANGED <<disk, checklogVars>>
    /\ \/ CrashNow /\ pc' = "down" /\ ForgetMemory
       \/ /\ ~CrashNow
          /\ CountWrite
          /\ cb' = [cb EXCEPT ![blocks_done] = cache[blocks_done + 1].blocknum]
          /\ blocks_done' = blocks_done + 1
          /\ UNCHANGED <<pc, cache>>

(* The log has a block left for the commit block.                           *)
WriteCommitBlock ==
    /\ pc = "log"
    /\ blocks_done = Len(cache)
    /\ blocks_done < LogLen
    /\ log' = [log EXCEPT ![blocks_done] = Marked(cb)]
    /\ pc' = "flush"
    /\ UNCHANGED <<disk, cache, commitVars, checklogVars>>

\* Mutant: the last block of the log is not used for the commit block.
SkipLastSlot ==
    /\ pc = "log"
    /\ blocks_done >= LogLen - 1
    /\ pc' = "flush"
    /\ UNCHANGED <<image, cache, commitVars, checklogVars>>

(* "not enough space in log": the data goes home without a commit block.    *)
SkipCommitBlock ==
    /\ pc = "log"
    /\ blocks_done = LogLen
    /\ pc' = "flush"
    /\ UNCHANGED <<image, cache, commitVars, checklogVars>>

\* Mutant: the space test is off by one.
CommitPointEarly ==
    IF blocks_done < LogLen - 1 THEN WriteCommitBlock ELSE SkipLastSlot

(* "if (blocks_done < INODE_BLOCK_PTRS)": after the last block is logged.   *)
CommitPoint == IF blocks_done < LogLen THEN WriteCommitBlock ELSE SkipCommitBlock

\* Mutant: cache_head does not move on.
FlushForEver ==
    /\ pc = "flush"
    /\ cache # <<>>
    /\ disk' = [disk EXCEPT ![Head(cache).blocknum] = Head(cache).blockdata]
    /\ CountWrite
    /\ UNCHANGED <<log, pc, cache, blocks_done, cb, checklogVars>>

FlushBlock ==
    /\ pc = "flush"
    /\ cache # <<>>
    /\ disk' = [disk EXCEPT ![Head(cache).blocknum] = Head(cache).blockdata]
    /\ UNCHANGED <<log, checklogVars>>
    /\ \/ CrashNow /\ pc' = "down" /\ ForgetMemory
       \/ /\ ~CrashNow
          /\ CountWrite
          /\ cache' = Tail(cache)
          /\ UNCHANGED <<pc, blocks_done, cb>>

\* Mutant: the commit block is not cancelled.
EndCommitUncancelled ==
    /\ pc = "flush"
    /\ cache = <<>>
    /\ pc' = "open"
    /\ blocks_done' = 0
    /\ cb' = NoBlocks
    /\ UNCHANGED <<image, cache, crash_after, checklogVars>>

(* All data is home: cancel the commit block and return to the tool.        *)
EndCommit ==
    /\ pc = "flush"
    /\ cache = <<>>
    /\ log' = IF blocks_done < LogLen
              THEN [log EXCEPT ![blocks_done] = Cancelled]
              ELSE log
    /\ pc' = "open"
    /\ blocks_done' = 0
    /\ cb' = NoBlocks
    /\ UNCHANGED <<disk, cache, crash_after, checklogVars>>

-----------------------------------------------------------------------------
(* jfs_checklog, process r.  Each has its own copy of the commit block.     *)

Goto(r, place) == rpc' = [rpc EXCEPT ![r] = place]

(* The process is gone, and its memory with it.                             *)
Forget(r) ==
    /\ Goto(r, "idle")
    /\ slot' = [slot EXCEPT ![r] = 0]
    /\ copied' = [copied EXCEPT ![r] = 0]
    /\ blocks' = [blocks EXCEPT ![r] = NoBlocks]

Checklog(r) ==
    /\ pc \in {"free", "down"}
    /\ rpc[r] = "idle"
    /\ Goto(r, "scan")
    /\ UNCHANGED <<image, pc, toolVars, slot, copied, blocks>>

ChecklogDies(r) ==
    /\ rpc[r] # "idle"
    /\ Forget(r)
    /\ UNCHANGED <<image, pc, toolVars>>

ScanData(r) ==
    /\ rpc[r] = "scan"
    /\ slot[r] < LogLen
    /\ ~IsMark(slot[r])
    /\ slot' = [slot EXCEPT ![r] = @ + 1]
    /\ UNCHANGED <<image, pc, toolVars, rpc, copied, blocks>>

\* Mutant: "if (!commitblock->uncommitted)".
ScanMarkInverted(r) ==
    /\ rpc[r] = "scan"
    /\ slot[r] < LogLen
    /\ IsMark(slot[r])
    /\ Goto(r, IF IsLive(slot[r]) THEN "cancel" ELSE "replay")
    /\ blocks' = [blocks EXCEPT ![r] = log[slot[r]].blocknums]
    /\ UNCHANGED <<image, pc, toolVars, slot, copied>>

(* The commit block is read once: what another process makes of it later    *)
(* goes unnoticed.                                                          *)
ScanMark(r) ==
    /\ rpc[r] = "scan"
    /\ slot[r] < LogLen
    /\ IsMark(slot[r])
    /\ Goto(r, IF IsLive(slot[r]) THEN "replay" ELSE "cancel")
    /\ blocks' = [blocks EXCEPT ![r] = log[slot[r]].blocknums]
    /\ UNCHANGED <<image, pc, toolVars, slot, copied>>

(* No block of the log is a commit block.  The loop has no bound and reads  *)
(* past the inode's block pointers: it meets a zero word and stops, or a    *)
(* number whose block is not mapped and the process dies.                   *)
ScanOverrun(r) ==
    /\ rpc[r] = "scan"
    /\ slot[r] = LogLen
    /\ pc' \in {pc, "free"}
    /\ Forget(r)
    /\ UNCHANGED <<image, toolVars>>

\* Mutant: the last block of the log is not copied.
MoreButTheLast(r) ==
    /\ copied[r] < LogLen - 1
    /\ blocks[r][copied[r]] # NoBlock
    /\ blocks[r][copied[r] + 1] # NoBlock

MoreToCopy(r) == copied[r] < LogLen /\ blocks[r][copied[r]] # NoBlock

ReplayBlock(r) ==
    /\ rpc[r] = "replay"
    /\ MoreToCopy(r)
    /\ disk' = [disk EXCEPT ![blocks[r][copied[r]]] = log[copied[r]]]
    /\ copied' = [copied EXCEPT ![r] = @ + 1]
    /\ UNCHANGED <<log, pc, toolVars, rpc, slot, blocks>>

ReplayDone(r) ==
    /\ rpc[r] = "replay"
    /\ ~MoreToCopy(r)
    /\ Goto(r, "cancel")
    /\ UNCHANGED <<image, pc, toolVars, slot, copied, blocks>>

\* Mutant: the commit block is left as it is, as jfs_checklog_2.c does.
KeepMark(r) ==
    /\ rpc[r] = "cancel"
    /\ pc' = "free"
    /\ Forget(r)
    /\ UNCHANGED <<image, toolVars>>

(* The process has ended well: users take the volume for recovered.         *)
CancelMark(r) ==
    /\ rpc[r] = "cancel"
    /\ log' = [log EXCEPT ![slot[r]] = Cancelled]
    /\ pc' = "free"
    /\ Forget(r)
    /\ UNCHANGED <<disk, toolVars>>

-----------------------------------------------------------------------------
CommitStep == LogBlock \/ CommitPoint \/ FlushBlock \/ EndCommit

ChecklogStep(r) ==
    \/ ScanData(r)
    \/ ScanMark(r)
    \/ ScanOverrun(r)
    \/ ReplayBlock(r)
    \/ ReplayDone(r)
    \/ CancelMark(r)

Next ==
    \/ Mount
    \/ Exit
    \/ Crash
    \/ \E b \in Block, d \in Content : Write(b, d)
    \/ BeginCommit
    \/ CommitStep
    \/ \E r \in Checker : Checklog(r) \/ ChecklogDies(r) \/ ChecklogStep(r)

Spec == Init /\ [][Next]_vars

(* A process that has begun a commit or a recovery is a sequential program  *)
(* that never waits: it goes on unless it dies.  Nothing obliges a user to  *)
(* start a tool, and nothing obliges a process to die.                      *)
FairSpec ==
    /\ Spec
    /\ WF_vars(CommitStep)
    /\ \A r \in Checker : WF_vars(ChecklogStep(r))
=============================================================================

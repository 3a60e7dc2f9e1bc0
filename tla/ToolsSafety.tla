----------------------------- MODULE ToolsSafety -----------------------------
(***************************************************************************)
(* What the image shows of the volume while the tools write and die, as    *)
(* properties of Tools.                                                    *)
(***************************************************************************)
EXTENDS Tools, VolumeSafety

(* What jfs_format makes and what the tools write, block by block and       *)
(* through crashes and recoveries, is the volume of Volume: the image, once *)
(* recovered, holds the last committed volume, whole.  Only a transaction   *)
(* that fills the log is exposed, while its blocks go home, and tears the   *)
(* image if the tool dies then.                                             *)
ImageHoldsVolume == ~torn /\ ~Unprotected => Decode(J!Recovered) = vol

(* The tools that only read, jfs_ls, jfs_copyout and jfs_fsck, look at no   *)
(* log: whenever no tool runs and none has died without a recovery since,   *)
(* they find that volume, also after transactions without a commit block.   *)
ReadersFindVolume == pc = "free" /\ ~torn => Decode(disk) = vol

(* "Missing logfile!" is never said: however much of a transaction has      *)
(* reached its home, jfs_checklog and the tool that commits find .log, and  *)
(* its blocks.                                                              *)
LogIsFound ==
    /\ FindLog(Decode(disk)) = LogPtrs
    /\ J!ToolRuns => FindLog(Decode(J!View)) = LogPtrs

(* A transaction has at most the blocks the tool takes, a header for each   *)
(* group, two blocks of inodes and the block of a directory, however often  *)
(* the tool writes to them: files short enough for that leave a block of    *)
(* the log for the commit block.                                            *)
Takes ==
    CASE job.tool = "mkdir" -> 1
      [] job.tool = "copyin" -> Len(Truncated(job.file))
      [] OTHER -> 0

TransactionsAreShort == pc = "log" => Len(cache) <= Takes + Groups + 3
-----------------------------------------------------------------------------
(* The inductive invariant behind the first two, with that of Journal.      *)

(* The image when writes have been made to it, one after the other.         *)
LastOf(writes, b) ==
    CHOOSE k \in DOMAIN writes :
        /\ writes[k].blocknum = b
        /\ \A l \in DOMAIN writes : writes[l].blocknum = b => l <= k

After(image, writes) ==
    [b \in DOMAIN image |->
        IF \E k \in DOMAIN writes : writes[k].blocknum = b
        THEN writes[LastOf(writes, b)].blockdata
        ELSE image[b]]

(* The image of a volume, as far as it lies in some blocks.                 *)
BlockOf(v, b) ==
    IF b % BlocksPerGroup = 0
    THEN [block_bitmap |-> v.block_bitmap[b \div BlocksPerGroup],
          inode_bitmap |-> v.inode_bitmap[b \div BlocksPerGroup]]
    ELSE IF IsHeader(b) THEN InodeBlock([i \in InodesIn(b) |-> v.inode[i]])
    ELSE DataBlock(v.data[b])

ImageOf(home, v) == [b \in home |-> BlockOf(v, b)]

(* What the running tool has promised to make durable, and when it may: it  *)
(* goes by the volume as it was when it started, and still is.              *)
Written(v) == After(J!View, todo) = ImageOf(Home, v)

Promised ==
    CASE job.tool = "mkdir" ->
            /\ Idle /\ job.path \in Path
            /\ mkdirResult(vol, job.path) = "ok"
            /\ Written(Made(vol, job.path))
      [] job.tool = "copyin" ->
            /\ Idle /\ job.path \in Path /\ job.file \in File
            /\ FreshNames => ~Taken(vol, job.path)
            /\ copyinResult(vol, job.path, job.file) = "ok"
            /\ Written(CopiedIn(vol, job.path, job.file))
      [] job.tool = "rm" ->
            /\ Idle /\ job.path \in Path
            /\ rmResult(vol, job.path) = "rm" /\ ~UsesEveryPtr(vol, job.path)
            /\ job.resize = ToResize(vol, job.path)
            /\ Written(Removed(vol, job.path))
      [] job.tool = "resize" -> ~Idle /\ Written(Resized(vol, rm))
      [] OTHER -> Idle /\ job = NoJob /\ todo = <<>> /\ cache = <<>> /\ pc = "open"

(* Where a tool is: before the commit point it keeps its promise in its     *)
(* cache, in what has gone home without a commit block and in the writes it *)
(* is still to make; after it only jfs_rm has something left to do.         *)
JobInv ==
    /\ crash_after = 0
    /\ torn => pc \in {"free", "down"}
    /\ pc # "open" => todo = <<>>
    /\ pc \in {"free", "down"} => Idle
    /\ pc \in {"open", "log"} \/ Unprotected => Promised
    /\ pc = "flush" /\ ~Unprotected =>
          /\ job.tool \in {"mkdir", "copyin", "rm", "resize"}
          /\ IF job.tool = "rm" THEN rm = job.resize /\ ~Idle ELSE Idle

(* The log file of jfs_format keeps its blocks, which nothing else uses; no *)
(* tool writes to them or to the header blocks but as BlockOf says.         *)
LogInode == get_free_inode(create_fs_root(NewGroups))

LogKept(v) ==
    /\ v.inode[LogInode] = [size |-> Ptrs, blockptrs |-> LogPtrs]
    /\ \A b \in Block : b \notin Home => v.data[b] = Zero
    /\ \A b \in Block : IsHeader(b) => v.data[b] = NoEntries

ToolsInv ==
    /\ ~torn /\ ~Unprotected => J!Recovered = ImageOf(Home, vol)
    /\ LogKept(vol)
    /\ JobInv
=============================================================================

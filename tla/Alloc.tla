------------------------------- MODULE Alloc -------------------------------
(***************************************************************************)
(* The free-block and free-inode bitmaps.  Every block group starts with a *)
(* header block that holds both bitmaps of the group; a bitmap is the set  *)
(* of the numbers in use, counted within the group.  The operators change  *)
(* a volume, a record with the fields block_bitmap and inode_bitmap; the   *)
(* caller commits it.                                                      *)
(***************************************************************************)
EXTENDS Integers, FiniteSets, FiniteSetsExt

CONSTANTS
    Groups,           \* block groups of the volume
    BlocksPerGroup,
    InodesPerGroup,
    InodesPerBlock,
    ByteSize          \* bits in a byte of a bitmap: 8

ASSUME GroupAssumption ==
    /\ {Groups, BlocksPerGroup, InodesPerGroup, InodesPerBlock, ByteSize}
         \subseteq Nat \ {0}
    /\ InodesPerGroup % InodesPerBlock = 0
    /\ 1 + InodesPerGroup \div InodesPerBlock < BlocksPerGroup

Group == 0 .. Groups - 1
Block == 0 .. Groups * BlocksPerGroup - 1
Inode == 0 .. Groups * InodesPerGroup - 1

\* what the allocators and searches of the code return when they fail
None == -1

(* The fields of a volume; inode and data are those of Volume.              *)
IsVolume(v) ==
    /\ v = [block_bitmap |-> v.block_bitmap, inode_bitmap |-> v.inode_bitmap,
            inode |-> v.inode, data |-> v.data]
    /\ v.block_bitmap \in [Group -> SUBSET (0 .. BlocksPerGroup - 1)]
    /\ v.inode_bitmap \in [Group -> SUBSET (0 .. InodesPerGroup - 1)]

(* A group begins with its header and the blocks of its inodes.             *)
DataBlockOffset == 1 + InodesPerGroup \div InodesPerBlock

IsHeader(b) == b % BlocksPerGroup < DataBlockOffset

(* The block that inode i is in.                                            *)
inode_to_block(i) ==
    (i \div InodesPerGroup) * BlocksPerGroup + 1 + (i % InodesPerGroup) \div InodesPerBlock

Lowest(numbers) == IF numbers = {} THEN None ELSE Min(numbers)

(* The loop over the bits of byte i runs while i < 8, where j < 8 is meant: *)
(* it searches the first 8 bytes of a bitmap and skips the others.          *)
Searched(n) == n \div ByteSize < ByteSize

find_free_block(bitmap) ==
    Lowest({n \in 0 .. BlocksPerGroup - 1 : Searched(n) /\ n \notin bitmap})

find_free_inode(bitmap) ==
    Lowest({n \in 0 .. InodesPerGroup - 1 : Searched(n) /\ n \notin bitmap})

\* Mutant: the number of the block within its group.
get_free_block_of_group(v) ==
    Lowest({find_free_block(v.block_bitmap[g]) :
              g \in {h \in Group : find_free_block(v.block_bitmap[h]) # None}})

(* The number of a free block, of the first group that shows one.           *)
get_free_block(v) ==
    Lowest({g * BlocksPerGroup + find_free_block(v.block_bitmap[g]) :
              g \in {h \in Group : find_free_block(v.block_bitmap[h]) # None}})

get_free_inode(v) ==
    Lowest({g * InodesPerGroup + find_free_inode(v.inode_bitmap[g]) :
              g \in {h \in Group : find_free_inode(v.inode_bitmap[h]) # None}})

set_block_used(v, b) ==
    [v EXCEPT !.block_bitmap[b \div BlocksPerGroup] = @ \cup {b % BlocksPerGroup}]

set_inode_used(v, i) ==
    [v EXCEPT !.inode_bitmap[i \div InodesPerGroup] = @ \cup {i % InodesPerGroup}]

return_block_to_freelist(v, b) ==
    [v EXCEPT !.block_bitmap[b \div BlocksPerGroup] = @ \ {b % BlocksPerGroup}]

return_inode_to_freelist(v, i) ==
    [v EXCEPT !.inode_bitmap[i \div InodesPerGroup] = @ \ {i % InodesPerGroup}]

BlockUsed(v, b) == b % BlocksPerGroup \in v.block_bitmap[b \div BlocksPerGroup]
InodeUsed(v, i) == i % InodesPerGroup \in v.inode_bitmap[i \div InodesPerGroup]
=============================================================================

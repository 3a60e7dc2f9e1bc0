----------------------------- MODULE ToolsProofs -----------------------------
(***************************************************************************)
(* Proofs about Tools: what the tools write block by block, through the    *)
(* journal and through crashes and recoveries, is the volume of Volume.    *)
(***************************************************************************)
EXTENDS ToolsSafety, VolumeProofs, FiniteSetTheorems

-----------------------------------------------------------------------------
(* The types of blocks.                                                     *)

Inodes ==
    [size : Nat \cup {None}, blockptrs : [0 .. Ptrs - 1 -> Block \cup {None}]]

Directory == UNION {[offsets -> Entries] : offsets \in SUBSET (0 .. BlockSize - DirentSize)}

HeaderContent ==
    [block_bitmap : SUBSET (0 .. BlocksPerGroup - 1),
     inode_bitmap : SUBSET (0 .. InodesPerGroup - 1)]

InodeContent == {InodeBlock(f) : f \in UNION {[InodesIn(b) -> Inodes] : b \in Block}}

DataContent == {DataBlock(x) : x \in Text \cup Directory}

Contents == HeaderContent \cup InodeContent \cup DataContent

(* Journal, with the types it gives its blocks, and what is proved of it.   *)
JP == INSTANCE JournalProofs WITH
        Block <- Home, Content <- Contents, Zero <- DataBlock(Zero), LogLen <- Ptrs,
        MaxTxn <- Groups * BlocksPerGroup, CrashAfter <- {0}, RecoverFirst <- TRUE

(* No block of data is taken for a commit block.                            *)
LEMMA NoMagic == Contents \cap JP!CommitBlock = {}
<1>1. \A x \in JP!CommitBlock : "uncommitted" \in DOMAIN x
  BY DEF JP!CommitBlock
<1>2. \A x \in HeaderContent : "uncommitted" \notin DOMAIN x
  BY DEF HeaderContent
<1>3. \A x \in InodeContent : "uncommitted" \notin DOMAIN x
  BY DEF InodeContent, InodeBlock
<1>4. \A x \in DataContent : "uncommitted" \notin DOMAIN x
  BY DEF DataContent, DataBlock
<1>5. QED  BY <1>1, <1>2, <1>3, <1>4 DEF Contents

(* What Journal assumes.                                                    *)
LEMMA JournalAssumptions ==
    /\ JP!BlockAssumption /\ JP!ZeroAssumption /\ JP!SizeAssumption
    /\ JP!CrashAssumption /\ JP!DisciplineAssumption /\ JP!MagicAssumption
<1>1. JP!BlockAssumption
  BY DEF JP!BlockAssumption, JP!NoBlock, Home, Block
<1>2. JP!ZeroAssumption
  BY VolumeAssumption DEF JP!ZeroAssumption, Contents, DataContent
<1>3. Ptrs \in Nat \ {0} /\ Groups * BlocksPerGroup \in Nat
  BY VolumeSizes, Sizes
<1>4. JP!SizeAssumption
  BY <1>3 DEF JP!SizeAssumption
<1>5. JP!CrashAssumption /\ JP!DisciplineAssumption
  BY DEF JP!CrashAssumption, JP!DisciplineAssumption
<1>6. JP!MagicAssumption
  BY NoMagic DEF JP!MagicAssumption
<1>7. QED  BY <1>1, <1>2, <1>4, <1>5, <1>6

-----------------------------------------------------------------------------
(* Where the blocks are.                                                    *)

LEMMA HeaderSizes ==
    /\ DataBlockOffset \in Nat \ {0} /\ DataBlockOffset < BlocksPerGroup
    /\ \A r \in 0 .. InodesPerGroup - 1 : 1 + r \div InodesPerBlock \in 1 .. DataBlockOffset - 1
<1>1. PICK k \in Nat : k = InodesPerGroup \div InodesPerBlock /\ InodesPerGroup = k * InodesPerBlock
  <2>1. InodesPerGroup % InodesPerBlock = 0
    BY GroupAssumption
  <2>2. QED  BY <2>1, Sizes, DivMod
<1>2. DataBlockOffset = 1 + k /\ DataBlockOffset < BlocksPerGroup
  BY <1>1, GroupAssumption DEF DataBlockOffset
<1>3. ASSUME NEW r \in 0 .. InodesPerGroup - 1
      PROVE  r \div InodesPerBlock \in 0 .. k - 1
  <2>1. k \in Nat \ {0}
    BY <1>1, Sizes
  <2>2. r \in 0 .. k * InodesPerBlock - 1
    BY <1>1
  <2>3. QED  BY <2>1, <2>2, Sizes, QuotientInRange
<1>4. QED  BY <1>2, <1>3, Sizes

LEMMA HeaderPlace ==
    ASSUME NEW g \in Group
    PROVE  LET b == g * BlocksPerGroup
           IN  /\ b \in Block /\ b % BlocksPerGroup = 0 /\ b \div BlocksPerGroup = g
               /\ IsHeader(b)
<1>1. g \in Nat /\ 0 \in 0 .. BlocksPerGroup - 1 /\ g \in 0 .. Groups - 1
  BY Sizes DEF Group
<1>2. /\ (g * BlocksPerGroup + 0) \div BlocksPerGroup = g
      /\ (g * BlocksPerGroup + 0) % BlocksPerGroup = 0
  BY <1>1, Sizes, DivModOf
<1>3. g * BlocksPerGroup + 0 \in 0 .. Groups * BlocksPerGroup - 1
  BY <1>1, Sizes, ProductInRange
<1>4. g * BlocksPerGroup + 0 = g * BlocksPerGroup
  BY <1>1, Sizes
<1>5. QED  BY <1>2, <1>3, <1>4, HeaderSizes DEF Block, IsHeader

LEMMA InodePlace ==
    ASSUME NEW i \in Inode
    PROVE  LET b == inode_to_block(i)
           IN  b \in Block /\ b % BlocksPerGroup # 0 /\ IsHeader(b)
<1> DEFINE g == i \div InodesPerGroup
           r == 1 + (i % InodesPerGroup) \div InodesPerBlock
<1>1. g \in 0 .. Groups - 1 /\ i % InodesPerGroup \in 0 .. InodesPerGroup - 1
  BY Sizes, QuotientInRange DEF Inode
<1>2. r \in 1 .. DataBlockOffset - 1
  BY <1>1, HeaderSizes
<1>3. g \in Nat /\ r \in 0 .. BlocksPerGroup - 1
  BY <1>1, <1>2, HeaderSizes, Sizes
<1>4. inode_to_block(i) = g * BlocksPerGroup + r
  <2>1. g \in Nat /\ g * BlocksPerGroup \in Nat
    BY <1>1, Sizes
  <2>2. (i % InodesPerGroup) \div InodesPerBlock \in Nat
    <3>1. \A n \in Nat : n \div InodesPerBlock \in Nat
      BY Sizes, DivMod
    <3>2. QED  BY <1>1, <3>1, Sizes
  <2>3. QED  BY <2>1, <2>2 DEF inode_to_block
<1> HIDE DEF g, r
<1>5. (g * BlocksPerGroup + r) % BlocksPerGroup = r
  BY <1>3, Sizes, DivModOf
<1>6. g * BlocksPerGroup + r \in 0 .. Groups * BlocksPerGroup - 1
  BY <1>1, <1>3, Sizes, ProductInRange
<1>7. QED  BY <1>2, <1>4, <1>5, <1>6, HeaderSizes DEF Block, IsHeader

LEMMA LogPlace ==
    ASSUME NEW n \in 0 .. Ptrs - 1
    PROVE  /\ LogPtrs[n] = DataBlockOffset + 1 + n /\ LogPtrs[n] \in Block
           /\ ~IsHeader(LogPtrs[n]) /\ LogPtrs[n] \notin Home
           /\ LogPtrs[n] \div BlocksPerGroup = 0 /\ LogPtrs[n] % BlocksPerGroup = LogPtrs[n]
<1> DEFINE r == DataBlockOffset + 1 + n
<1>1. r \in Nat /\ r \in 0 .. BlocksPerGroup - 1 /\ r > DataBlockOffset
  BY LogAssumption, HeaderSizes, VolumeSizes, Sizes
<1>2. LogPtrs[n] = r
  BY DEF LogPtrs
<1> HIDE DEF r
<1>3. 0 \in 0 .. Groups - 1 /\ 0 * BlocksPerGroup + r = r
  BY <1>1, Sizes
<1>4. r \in 0 .. Groups * BlocksPerGroup - 1
  BY <1>1, <1>3, Sizes, ProductInRange
<1>5. r \div BlocksPerGroup = 0 /\ r % BlocksPerGroup = r
  BY <1>1, <1>3, Sizes, DivModOf
<1>6. QED  BY <1>1, <1>2, <1>4, <1>5, HeaderSizes DEF r, Block, IsHeader, Home

(* Blocks to which a tool may write, among them those of the inodes.        *)
Covers(home) == home \subseteq Block /\ \A b \in Block : IsHeader(b) => b \in home

LEMMA HomeCovers == Covers(Home) /\ Covers(Block)
<1>1. \A n \in 0 .. Ptrs - 1 : ~IsHeader(LogPtrs[n])
  BY LogPlace
<1>2. QED  BY <1>1 DEF Covers, Home

-----------------------------------------------------------------------------
(* Volumes and their images.                                                *)

(* A volume that an image with these blocks can hold.                       *)
Holdable(home, v) ==
    /\ IsVolume(v)
    /\ v.inode \in [Inode -> Inodes]
    /\ v.data \in [Block -> Text \cup Directory]
    /\ \A b \in Block : b \notin home => v.data[b] = Zero
    /\ \A b \in Block : IsHeader(b) => v.data[b] = NoEntries

LEMMA HoldableIs ==
    ASSUME NEW home, NEW v, Holdable(home, v)
    PROVE  /\ v = [block_bitmap |-> v.block_bitmap, inode_bitmap |-> v.inode_bitmap,
                   inode |-> v.inode, data |-> v.data]
           /\ v.block_bitmap \in Bits(BlocksPerGroup) /\ v.inode_bitmap \in Bits(InodesPerGroup)
           /\ v.inode \in [Inode -> Inodes] /\ v.data \in [Block -> Text \cup Directory]
BY VolumeFields DEF Holdable

(* Its blocks.                                                              *)
LEMMA BlockIs ==
    ASSUME NEW home, NEW v, Holdable(home, v), NEW b \in Block
    PROVE  /\ b % BlocksPerGroup = 0 => BlockOf(v, b) \in HeaderContent
           /\ b % BlocksPerGroup # 0 /\ IsHeader(b) => BlockOf(v, b) \in InodeContent
           /\ ~IsHeader(b) => BlockOf(v, b) \in DataContent
           /\ BlockOf(v, b) \in Contents
<1>1. b \div BlocksPerGroup \in Group /\ (b % BlocksPerGroup = 0 => IsHeader(b))
  <2>1. b \div BlocksPerGroup \in Group
    BY Sizes, QuotientInRange DEF Block, Group
  <2>2. QED  BY <2>1, HeaderSizes DEF IsHeader
<1>2. CASE b % BlocksPerGroup = 0
  <2>1. v.block_bitmap[b \div BlocksPerGroup] \in SUBSET (0 .. BlocksPerGroup - 1)
    BY <1>1, HoldableIs DEF Bits
  <2>2. v.inode_bitmap[b \div BlocksPerGroup] \in SUBSET (0 .. InodesPerGroup - 1)
    BY <1>1, HoldableIs DEF Bits
  <2>3. BlockOf(v, b) \in HeaderContent
    BY <1>2, <2>1, <2>2 DEF BlockOf, HeaderContent
  <2>4. QED  BY <1>1, <1>2, <2>3 DEF Contents
<1>3. CASE b % BlocksPerGroup # 0 /\ IsHeader(b)
  <2> DEFINE f == [i \in InodesIn(b) |-> v.inode[i]]
  <2>1. f \in [InodesIn(b) -> Inodes]
    BY HoldableIs DEF InodesIn
  <2>2. BlockOf(v, b) = InodeBlock(f)
    BY <1>3 DEF BlockOf
  <2> HIDE DEF f
  <2>3. BlockOf(v, b) \in InodeContent
    BY <2>1, <2>2 DEF InodeContent
  <2>4. QED  BY <1>3, <2>3 DEF Contents
<1>4. CASE ~IsHeader(b)
  <2>1. BlockOf(v, b) = DataBlock(v.data[b])
    BY <1>1, <1>4 DEF BlockOf
  <2>2. v.data[b] \in Text \cup Directory
    BY HoldableIs
  <2>3. BlockOf(v, b) \in DataContent
    BY <2>1, <2>2 DEF DataContent
  <2>4. QED  BY <1>1, <1>4, <2>3 DEF Contents
<1>5. QED  BY <1>2, <1>3, <1>4

(* What the tools decode is the volume.                                     *)
LEMMA DecodeIs ==
    ASSUME NEW home, Covers(home), NEW v, Holdable(home, v)
    PROVE  Decode(ImageOf(home, v)) = v
<1> DEFINE image == ImageOf(home, v)
           bb == [g \in Group |-> image[g * BlocksPerGroup].block_bitmap]
           ib == [g \in Group |-> image[g * BlocksPerGroup].inode_bitmap]
           ino == [i \in Inode |-> image[inode_to_block(i)].inodes[i]]
           dat == [b \in Block |-> IF IsHeader(b) THEN NoEntries
                                   ELSE IF b \in DOMAIN image THEN image[b].data
                                   ELSE Zero]
<1>1. Decode(image) = [block_bitmap |-> bb, inode_bitmap |-> ib, inode |-> ino, data |-> dat]
  BY DEF Decode
<1>2. DOMAIN image = home /\ \A b \in home : image[b] = BlockOf(v, b)
  BY DEF ImageOf
<1> HIDE DEF image
<1>3. ASSUME NEW g \in Group
      PROVE  /\ image[g * BlocksPerGroup].block_bitmap = v.block_bitmap[g]
             /\ image[g * BlocksPerGroup].inode_bitmap = v.inode_bitmap[g]
  <2>1. g * BlocksPerGroup \in home
    BY HeaderPlace DEF Covers
  <2>2. BlockOf(v, g * BlocksPerGroup)
          = [block_bitmap |-> v.block_bitmap[g], inode_bitmap |-> v.inode_bitmap[g]]
    BY HeaderPlace DEF BlockOf
  <2>3. QED  BY <1>2, <2>1, <2>2
<1>4. bb = v.block_bitmap /\ ib = v.inode_bitmap
  BY <1>3, HoldableIs DEF Bits
<1>5. ASSUME NEW i \in Inode
      PROVE  image[inode_to_block(i)].inodes[i] = v.inode[i]
  <2>1. inode_to_block(i) \in home /\ i \in InodesIn(inode_to_block(i))
    BY InodePlace DEF Covers, InodesIn
  <2>2. BlockOf(v, inode_to_block(i))
          = InodeBlock([j \in InodesIn(inode_to_block(i)) |-> v.inode[j]])
    BY InodePlace DEF BlockOf
  <2>3. image[inode_to_block(i)].inodes = [j \in InodesIn(inode_to_block(i)) |-> v.inode[j]]
    BY <1>2, <2>1, <2>2 DEF InodeBlock
  <2>4. QED  BY <2>1, <2>3
<1>6. ino = v.inode
  BY <1>5, HoldableIs
<1>7. ASSUME NEW b \in Block
      PROVE  dat[b] = v.data[b]
  <2>1. CASE IsHeader(b)
    BY <2>1 DEF Holdable
  <2>2. CASE ~IsHeader(b) /\ b \in home
    <3>1. BlockOf(v, b) = DataBlock(v.data[b])
      BY <2>2, HeaderSizes DEF BlockOf, IsHeader
    <3>2. image[b].data = v.data[b]
      BY <1>2, <2>2, <3>1 DEF DataBlock
    <3>3. QED  BY <1>2, <2>2, <3>2
  <2>3. CASE ~IsHeader(b) /\ b \notin home
    BY <1>2, <2>3 DEF Holdable
  <2>4. QED  BY <2>1, <2>2, <2>3
<1>8. dat = v.data
  <2>1. DOMAIN dat = Block /\ dat = [b \in Block |-> dat[b]]
    OBVIOUS
  <2> HIDE DEF dat
  <2>2. v.data = [b \in Block |-> v.data[b]]
    BY HoldableIs
  <2>3. QED  BY <1>7, <2>1, <2>2
<1> HIDE DEF bb, ib, ino, dat
<1>9. QED  BY <1>1, <1>4, <1>6, <1>8, HoldableIs DEF image

-----------------------------------------------------------------------------
(* Writes.                                                                  *)

Writes(home) == Seq([blocknum : home, blockdata : Contents])

(* The last of some writes to a block.                                      *)
IsLastOf(writes, b, k) ==
    /\ k \in DOMAIN writes /\ writes[k].blocknum = b
    /\ \A l \in DOMAIN writes : writes[l].blocknum = b => l <= k

LEMMA LastOfIs ==
    ASSUME NEW home, NEW writes \in Writes(home), NEW b
    PROVE  /\ \A k : IsLastOf(writes, b, k) => LastOf(writes, b) = k
           /\ (\E k \in DOMAIN writes : writes[k].blocknum = b) =>
                 IsLastOf(writes, b, LastOf(writes, b))
<1> DEFINE N == Len(writes)
           S == {m \in 0 .. N : \E k \in DOMAIN writes : k = N - m /\ writes[k].blocknum = b}
<1>1. N \in Nat /\ DOMAIN writes = 1 .. N
  BY DEF Writes
<1>2. \A k, l : IsLastOf(writes, b, k) /\ IsLastOf(writes, b, l) => k = l
  BY <1>1 DEF IsLastOf
<1>3. \A k : IsLastOf(writes, b, k) => IsLastOf(writes, b, LastOf(writes, b))
  BY DEF LastOf, IsLastOf
<1>4. ASSUME \E k \in DOMAIN writes : writes[k].blocknum = b
      PROVE  \E k : IsLastOf(writes, b, k)
  <2>1. PICK k \in 1 .. N : writes[k].blocknum = b
    BY <1>1, <1>4
  <2>2. N - k \in S
    BY <1>1, <2>1
  <2>3. S \in SUBSET Nat /\ S # {}
    <3>1. S \in SUBSET Nat
      OBVIOUS
    <3>2. QED  BY <2>2, <3>1
  <2>4. PICK m \in S : \A n \in S : m <= n
    BY <2>3, LeastExists
  <2>5. m \in 0 .. N /\ N - m \in DOMAIN writes /\ writes[N - m].blocknum = b
    BY <2>4
  <2>6. ASSUME NEW l \in DOMAIN writes, writes[l].blocknum = b
        PROVE  l <= N - m
    <3>1. N - l \in 0 .. N /\ l = N - (N - l)
      BY <1>1
    <3>2. N - l \in S
      BY <3>1, <2>6
    <3>3. m <= N - l
      BY <2>4, <3>2
    <3>4. QED  BY <1>1, <2>5, <3>3
  <2>7. QED  BY <2>5, <2>6 DEF IsLastOf
<1>5. QED  BY <1>2, <1>3, <1>4

(* What an image holds after some writes.                                   *)
LEMMA AfterIs ==
    ASSUME NEW home, NEW image, DOMAIN image = home, NEW writes \in Writes(home),
           NEW b \in home
    PROVE  /\ \A k : IsLastOf(writes, b, k) => After(image, writes)[b] = writes[k].blockdata
           /\ (\A k \in DOMAIN writes : writes[k].blocknum # b) =>
                 After(image, writes)[b] = image[b]
<1>1. \A k : IsLastOf(writes, b, k) => LastOf(writes, b) = k
  BY LastOfIs
<1>2. QED  BY <1>1 DEF After, IsLastOf

LEMMA AfterNone ==
    ASSUME NEW image, image = [b \in DOMAIN image |-> image[b]]
    PROVE  After(image, <<>>) = image
BY DEF After

(* One write more.                                                          *)
LEMMA AfterAppend ==
    ASSUME NEW home, NEW image, DOMAIN image = home, NEW writes \in Writes(home),
           NEW b \in home, NEW x \in Contents
    PROVE  LET more == Append(writes, [blocknum |-> b, blockdata |-> x])
           IN  /\ more \in Writes(home)
               /\ After(image, more) = [After(image, writes) EXCEPT ![b] = x]
<1> DEFINE e == [blocknum |-> b, blockdata |-> x]
           more == Append(writes, e)
           N == Len(writes)
<1>1. e \in [blocknum : home, blockdata : Contents] /\ e.blocknum = b /\ e.blockdata = x
  OBVIOUS
<1> HIDE DEF e
<1>2. /\ N \in Nat /\ DOMAIN writes = 1 .. N
      /\ more \in Writes(home) /\ DOMAIN more = 1 .. N + 1
      /\ more[N + 1] = e /\ \A k \in 1 .. N : more[k] = writes[k]
  BY <1>1 DEF Writes
<1> HIDE DEF more
<1>3. ASSUME NEW c \in home
      PROVE  After(image, more)[c] = IF c = b THEN x ELSE After(image, writes)[c]
  <2>1. CASE c = b
    <3>1. IsLastOf(more, c, N + 1)
      BY <1>1, <1>2, <2>1 DEF IsLastOf
    <3>2. QED  BY <1>1, <1>2, <2>1, <3>1, AfterIs
  <2>2. CASE c # b /\ \E k \in DOMAIN writes : writes[k].blocknum = c
    <3> DEFINE k == LastOf(writes, c)
    <3>1. IsLastOf(writes, c, k)
      BY <2>2, LastOfIs
    <3> HIDE DEF k
    <3>2. IsLastOf(more, c, k)
      BY <1>1, <1>2, <2>2, <3>1 DEF IsLastOf
    <3>3. more[k] = writes[k]
      BY <1>2, <3>1 DEF IsLastOf
    <3>4. /\ After(image, more)[c] = more[k].blockdata
          /\ After(image, writes)[c] = writes[k].blockdata
      BY <1>2, <3>1, <3>2, AfterIs
    <3>5. QED  BY <2>2, <3>3, <3>4
  <2>3. CASE c # b /\ \A k \in DOMAIN writes : writes[k].blocknum # c
    <3>1. \A k \in DOMAIN more : more[k].blocknum # c
      BY <1>1, <1>2, <2>3
    <3>2. After(image, more)[c] = image[c] /\ After(image, writes)[c] = image[c]
      BY <1>2, <2>3, <3>1, AfterIs
    <3>3. QED  BY <2>3, <3>2
  <2>4. QED  BY <2>1, <2>2, <2>3
<1>4. /\ After(image, more) = [c \in home |-> After(image, more)[c]]
      /\ After(image, writes) = [c \in home |-> After(image, writes)[c]]
  BY DEF After
<1>5. After(image, more) = [After(image, writes) EXCEPT ![b] = x]
  BY <1>3, <1>4
<1>6. QED  BY <1>2, <1>5 DEF more, e

(* The first write is made.                                                 *)
Overwritten(image, w, new) ==
    /\ DOMAIN new = DOMAIN image
    /\ \A c \in DOMAIN image : new[c] = IF c = w.blocknum THEN w.blockdata ELSE image[c]

LEMMA AfterHead ==
    ASSUME NEW home, NEW image, DOMAIN image = home, NEW writes \in Writes(home),
           writes # <<>>, NEW new, Overwritten(image, Head(writes), new)
    PROVE  /\ Head(writes).blocknum \in home /\ Head(writes).blockdata \in Contents
           /\ Tail(writes) \in Writes(home)
           /\ After(new, Tail(writes)) = After(image, writes)
<1> DEFINE h == Head(writes)
           rest == Tail(writes)
           N == Len(rest)
<1>1. /\ N \in Nat /\ DOMAIN writes = 1 .. N + 1 /\ DOMAIN rest = 1 .. N
      /\ h = writes[1] /\ \A k \in 1 .. N : rest[k] = writes[k + 1]
      /\ rest \in Writes(home) /\ h \in [blocknum : home, blockdata : Contents]
  <2> DEFINE T == [blocknum : home, blockdata : Contents]
  <2>1. writes \in Seq(T)
    BY DEF Writes
  <2> HIDE DEF T
  <2>2. /\ rest \in Seq(T) /\ h \in T /\ h = writes[1]
        /\ Len(rest) = Len(writes) - 1 /\ Len(writes) \in Nat \ {0}
    BY <2>1
  <2>3. DOMAIN writes = 1 .. Len(writes) /\ DOMAIN rest = 1 .. Len(rest)
    BY <2>1, <2>2
  <2>4. \A k \in 1 .. Len(rest) : rest[k] = writes[k + 1]
    BY <2>1, <2>2
  <2>5. N \in Nat /\ N + 1 = Len(writes)
    BY <2>2
  <2>6. QED  BY <2>2, <2>3, <2>4, <2>5 DEF Writes, T
<1>2. h.blocknum \in home /\ h.blockdata \in Contents
  BY <1>1
<1>3. DOMAIN new = home
  BY DEF Overwritten
<1>4. \A c \in home : new[c] = IF c = h.blocknum THEN h.blockdata ELSE image[c]
  BY DEF Overwritten
<1> HIDE DEF h, rest
<1>5. ASSUME NEW c \in home
      PROVE  After(new, rest)[c] = After(image, writes)[c]
  <2>1. CASE \E k \in DOMAIN rest : rest[k].blocknum = c
    <3> DEFINE k == LastOf(rest, c)
    <3>1. IsLastOf(rest, c, k)
      BY <1>1, <2>1, LastOfIs
    <3> HIDE DEF k
    <3>2. k \in 1 .. N /\ rest[k] = writes[k + 1] /\ writes[k + 1].blocknum = c
      BY <1>1, <3>1 DEF IsLastOf
    <3>3. ASSUME NEW l \in 1 .. N + 1, writes[l].blocknum = c
          PROVE  l <= k + 1
      <4>1. CASE l = 1
        BY <3>2, <4>1
      <4>2. CASE l # 1
        <5>1. l - 1 \in 1 .. N /\ (l - 1) + 1 = l
          BY <1>1, <4>2
        <5>2. rest[l - 1].blocknum = c
          BY <1>1, <3>3, <5>1
        <5>3. l - 1 <= k
          BY <1>1, <3>1, <5>1, <5>2 DEF IsLastOf
        <5>4. QED  BY <3>2, <5>1, <5>3
      <4>3. QED  BY <4>1, <4>2
    <3>4. IsLastOf(writes, c, k + 1)
      BY <1>1, <3>2, <3>3 DEF IsLastOf
    <3>5. /\ After(new, rest)[c] = rest[k].blockdata
          /\ After(image, writes)[c] = writes[k + 1].blockdata
      BY <1>1, <1>3, <3>1, <3>4, AfterIs
    <3>6. QED  BY <3>2, <3>5
  <2>2. CASE (\A k \in DOMAIN rest : rest[k].blocknum # c) /\ c = h.blocknum
    <3>1. ASSUME NEW l \in 1 .. N + 1, writes[l].blocknum = c
          PROVE  l <= 1
      <4>1. CASE l # 1
        <5>1. l - 1 \in 1 .. N /\ (l - 1) + 1 = l
          BY <1>1, <4>1
        <5>2. QED  BY <1>1, <2>2, <3>1, <5>1
      <4>2. QED  BY <4>1
    <3>2. IsLastOf(writes, c, 1)
      BY <1>1, <2>2, <3>1 DEF IsLastOf
    <3>3. After(new, rest)[c] = new[c] /\ After(image, writes)[c] = writes[1].blockdata
      BY <1>1, <1>3, <2>2, <3>2, AfterIs
    <3>4. QED  BY <1>1, <1>4, <2>2, <3>3
  <2>3. CASE (\A k \in DOMAIN rest : rest[k].blocknum # c) /\ c # h.blocknum
    <3>1. ASSUME NEW l \in 1 .. N + 1
          PROVE  writes[l].blocknum # c
      <4>1. CASE l # 1
        <5>1. l - 1 \in 1 .. N /\ (l - 1) + 1 = l
          BY <1>1, <4>1
        <5>2. QED  BY <1>1, <2>3, <5>1
      <4>2. QED  BY <1>1, <2>3, <4>1
    <3>2. After(new, rest)[c] = new[c] /\ After(image, writes)[c] = image[c]
      BY <1>1, <1>3, <2>3, <3>1, AfterIs
    <3>3. QED  BY <1>4, <2>3, <3>2
  <2>4. QED  BY <2>1, <2>2, <2>3
<1>6. /\ After(new, rest) = [c \in home |-> After(new, rest)[c]]
      /\ After(image, writes) = [c \in home |-> After(image, writes)[c]]
  BY <1>3 DEF After
<1>7. After(new, rest) = After(image, writes)
  BY <1>5, <1>6
<1>8. QED  BY <1>1, <1>2, <1>7 DEF h, rest

-----------------------------------------------------------------------------
(* A tool at work.                                                          *)

(* s is the image of v, and what the tool has written to the image it found. *)
Works(home, found, s, v) ==
    /\ Holdable(home, v)
    /\ s = [image |-> s.image, writes |-> s.writes]
    /\ s.image = ImageOf(home, v)
    /\ s.writes \in Writes(home)
    /\ s.image = After(found, s.writes)

(* What it reads is the volume it works on.                                 *)
LEMMA WorksOn ==
    ASSUME NEW home, Covers(home), NEW found, NEW s, NEW v, Works(home, found, s, v)
    PROVE  /\ Decode(s.image) = v
           /\ \A i \in Inode :
                 /\ InodeAt(s, i) = v.inode[i]
                 /\ s.image[inode_to_block(i)] = BlockOf(v, inode_to_block(i))
           /\ \A b \in home : ~IsHeader(b) => s.image[b].data = v.data[b]
<1>1. Holdable(home, v) /\ s.image = ImageOf(home, v)
  BY DEF Works
<1>2. ASSUME NEW i \in Inode
      PROVE  /\ InodeAt(s, i) = v.inode[i]
             /\ s.image[inode_to_block(i)] = BlockOf(v, inode_to_block(i))
  <2>1. inode_to_block(i) \in home
    BY InodePlace DEF Covers
  <2>2. s.image[inode_to_block(i)] = BlockOf(v, inode_to_block(i))
    BY <1>1, <2>1 DEF ImageOf
  <2>3. BlockOf(v, inode_to_block(i)) = InodeBlock([j \in InodesIn(inode_to_block(i)) |-> v.inode[j]])
    BY InodePlace DEF BlockOf
  <2>4. s.image[inode_to_block(i)].inodes = [j \in InodesIn(inode_to_block(i)) |-> v.inode[j]]
    BY <2>2, <2>3 DEF InodeBlock
  <2>5. QED  BY <2>2, <2>4 DEF InodeAt, InodesIn
<1>3. ASSUME NEW b \in home, ~IsHeader(b)
      PROVE  s.image[b].data = v.data[b]
  <2>1. BlockOf(v, b) = DataBlock(v.data[b])
    BY <1>3, HeaderSizes DEF BlockOf, IsHeader
  <2>2. s.image[b] = DataBlock(v.data[b])
    BY <1>1, <2>1 DEF ImageOf
  <2>3. QED  BY <2>2 DEF DataBlock
<1>4. QED  BY <1>1, <1>2, <1>3, DecodeIs

(* It writes a block.                                                       *)
LEMMA WriteWorks ==
    ASSUME NEW home, Covers(home), NEW found, DOMAIN found = home,
           NEW s, NEW v, Works(home, found, s, v),
           NEW w, Holdable(home, w), NEW b \in home,
           \A c \in home : c # b => BlockOf(w, c) = BlockOf(v, c)
    PROVE  Works(home, found, WriteBlock(s, b, BlockOf(w, b)), w)
<1> DEFINE x == BlockOf(w, b)
           more == Append(s.writes, [blocknum |-> b, blockdata |-> x])
           new == [s.image EXCEPT ![b] = x]
<1>1. b \in Block /\ x \in Contents
  BY BlockIs DEF Covers
<1>2. s.image = ImageOf(home, v) /\ s.writes \in Writes(home) /\ s.image = After(found, s.writes)
  BY DEF Works
<1>3. more \in Writes(home) /\ After(found, more) = [After(found, s.writes) EXCEPT ![b] = x]
  BY <1>1, <1>2, AfterAppend
<1>4. new = ImageOf(home, w)
  BY <1>2 DEF ImageOf
<1>5. WriteBlock(s, b, x) = [image |-> new, writes |-> more]
  BY DEF WriteBlock
<1> HIDE DEF x, more, new
<1>6. Works(home, found, [image |-> new, writes |-> more], w)
  BY <1>2, <1>3, <1>4 DEF Works, new
<1>7. QED  BY <1>5, <1>6 DEF x

(* It writes a header.                                                      *)
LEMMA HeaderWorks ==
    ASSUME NEW home, Covers(home), NEW found, DOMAIN found = home,
           NEW s, NEW v, Works(home, found, s, v), NEW g \in Group,
           NEW w, IsVolume(w), w.inode = v.inode, w.data = v.data,
           \A h \in Group : h # g => /\ w.block_bitmap[h] = v.block_bitmap[h]
                                    /\ w.inode_bitmap[h] = v.inode_bitmap[h]
    PROVE  Works(home, found, WriteHeader(s, g, w), w)
<1> DEFINE b == g * BlocksPerGroup
<1>1. Holdable(home, w)
  BY DEF Works, Holdable
<1>2. b \in Block /\ b \in home /\ b % BlocksPerGroup = 0 /\ b \div BlocksPerGroup = g
  BY HeaderPlace DEF Covers
<1>3. ASSUME NEW c \in home, c # b
      PROVE  BlockOf(w, c) = BlockOf(v, c)
  <2>1. CASE c % BlocksPerGroup = 0
    <3>1. c \in Block
      BY DEF Covers
    <3>2. c \div BlocksPerGroup \in Group
      BY <3>1, Sizes, QuotientInRange DEF Block, Group
    <3>3. c \in Nat /\ b \in Nat
      BY <1>2, <3>1, InodeNumbers
    <3>4. c \div BlocksPerGroup # g
      BY <1>2, <1>3, <2>1, <3>3, Sizes, BitsApart
    <3>5. QED  BY <2>1, <3>2, <3>4 DEF BlockOf
  <2>2. CASE c % BlocksPerGroup # 0
    BY <2>2 DEF BlockOf
  <2>3. QED  BY <2>1, <2>2
<1>4. BlockOf(w, b) = [block_bitmap |-> w.block_bitmap[g], inode_bitmap |-> w.inode_bitmap[g]]
  BY <1>2 DEF BlockOf
<1>5. Works(home, found, WriteBlock(s, b, BlockOf(w, b)), w)
  BY <1>1, <1>2, <1>3, WriteWorks
<1>6. QED  BY <1>4, <1>5 DEF WriteHeader

(* It takes or returns an inode or a block.                                 *)
LEMMA InodeBitWorks ==
    ASSUME NEW home, Covers(home), NEW found, DOMAIN found = home,
           NEW s, NEW v, Works(home, found, s, v), NEW i \in Inode
    PROVE  /\ Works(home, found, TakeInode(s, i), set_inode_used(v, i))
           /\ Works(home, found, ReturnInode(s, i), return_inode_to_freelist(v, i))
<1>1. Decode(s.image) = v
  BY WorksOn
<1>2. i \div InodesPerGroup \in Group
  BY Sizes, QuotientInRange DEF Inode, Group
<1>3. IsVolume(v)
  BY DEF Works, Holdable
<1>4. v.inode_bitmap \in Bits(InodesPerGroup)
  BY <1>3, VolumeFields
<1>5. ASSUME NEW w, IsVolume(w), w.inode = v.inode, w.data = v.data,
             w.block_bitmap = v.block_bitmap,
             NEW x, w.inode_bitmap = [v.inode_bitmap EXCEPT ![i \div InodesPerGroup] = x]
      PROVE  Works(home, found, WriteHeader(s, i \div InodesPerGroup, w), w)
  <2>1. \A h \in Group : h # i \div InodesPerGroup => w.inode_bitmap[h] = v.inode_bitmap[h]
    BY <1>4, <1>5 DEF Bits
  <2>2. QED  BY <1>2, <1>5, <2>1, HeaderWorks
<1>6. Works(home, found, TakeInode(s, i), set_inode_used(v, i))
  <2> DEFINE w == set_inode_used(v, i)
  <2>1. /\ IsVolume(w) /\ w.inode = v.inode /\ w.data = v.data
        /\ w.block_bitmap = v.block_bitmap
    BY <1>3, SetInodeUsed
  <2>2. \E x : w.inode_bitmap = [v.inode_bitmap EXCEPT ![i \div InodesPerGroup] = x]
    BY <1>3, VolumeFields DEF set_inode_used
  <2> HIDE DEF w
  <2>3. Works(home, found, WriteHeader(s, i \div InodesPerGroup, w), w)
    BY <1>5, <2>1, <2>2
  <2>4. QED  BY <1>1, <2>3 DEF TakeInode, w
<1>7. Works(home, found, ReturnInode(s, i), return_inode_to_freelist(v, i))
  <2> DEFINE w == return_inode_to_freelist(v, i)
  <2>1. /\ IsVolume(w) /\ w.inode = v.inode /\ w.data = v.data
        /\ w.block_bitmap = v.block_bitmap
    BY <1>3, ReturnInodeToFreelist
  <2>2. \E x : w.inode_bitmap = [v.inode_bitmap EXCEPT ![i \div InodesPerGroup] = x]
    BY <1>3, VolumeFields DEF return_inode_to_freelist
  <2> HIDE DEF w
  <2>3. Works(home, found, WriteHeader(s, i \div InodesPerGroup, w), w)
    BY <1>5, <2>1, <2>2
  <2>4. QED  BY <1>1, <2>3 DEF ReturnInode, w
<1>8. QED  BY <1>6, <1>7

LEMMA BlockBitWorks ==
    ASSUME NEW home, Covers(home), NEW found, DOMAIN found = home,
           NEW s, NEW v, Works(home, found, s, v), NEW b \in Block
    PROVE  /\ Works(home, found, TakeBlock(s, b), set_block_used(v, b))
           /\ Works(home, found, ReturnBlock(s, b), return_block_to_freelist(v, b))
<1>1. Decode(s.image) = v
  BY WorksOn
<1>2. b \div BlocksPerGroup \in Group
  BY Sizes, QuotientInRange DEF Block, Group
<1>3. IsVolume(v)
  BY DEF Works, Holdable
<1>4. v.block_bitmap \in Bits(BlocksPerGroup)
  BY <1>3, VolumeFields
<1>5. ASSUME NEW w, IsVolume(w), w.inode = v.inode, w.data = v.data,
             w.inode_bitmap = v.inode_bitmap,
             NEW x, w.block_bitmap = [v.block_bitmap EXCEPT ![b \div BlocksPerGroup] = x]
      PROVE  Works(home, found, WriteHeader(s, b \div BlocksPerGroup, w), w)
  <2>1. \A h \in Group : h # b \div BlocksPerGroup => w.block_bitmap[h] = v.block_bitmap[h]
    BY <1>4, <1>5 DEF Bits
  <2>2. QED  BY <1>2, <1>5, <2>1, HeaderWorks
<1>6. Works(home, found, TakeBlock(s, b), set_block_used(v, b))
  <2> DEFINE w == set_block_used(v, b)
  <2>1. /\ IsVolume(w) /\ w.inode = v.inode /\ w.data = v.data
        /\ w.inode_bitmap = v.inode_bitmap
    BY <1>3, SetBlockUsed
  <2>2. \E x : w.block_bitmap = [v.block_bitmap EXCEPT ![b \div BlocksPerGroup] = x]
    BY <1>3, VolumeFields DEF set_block_used
  <2> HIDE DEF w
  <2>3. Works(home, found, WriteHeader(s, b \div BlocksPerGroup, w), w)
    BY <1>5, <2>1, <2>2
  <2>4. QED  BY <1>1, <2>3 DEF TakeBlock, w
<1>7. Works(home, found, ReturnBlock(s, b), return_block_to_freelist(v, b))
  <2> DEFINE w == return_block_to_freelist(v, b)
  <2>1. /\ IsVolume(w) /\ w.inode = v.inode /\ w.data = v.data
        /\ w.inode_bitmap = v.inode_bitmap
    BY <1>3, ReturnBlockToFreelist
  <2>2. \E x : w.block_bitmap = [v.block_bitmap EXCEPT ![b \div BlocksPerGroup] = x]
    BY <1>3, VolumeFields DEF return_block_to_freelist
  <2> HIDE DEF w
  <2>3. Works(home, found, WriteHeader(s, b \div BlocksPerGroup, w), w)
    BY <1>5, <2>1, <2>2
  <2>4. QED  BY <1>1, <2>3 DEF ReturnBlock, w
<1>8. QED  BY <1>6, <1>7

(* It writes an inode, in the block of inodes that it has read.             *)
LEMMA InodeWorks ==
    ASSUME NEW home, Covers(home), NEW found, DOMAIN found = home,
           NEW s, NEW v, Works(home, found, s, v), NEW i \in Inode, NEW x \in Inodes,
           NEW read, read = BlockOf(v, inode_to_block(i))
    PROVE  Works(home, found, WriteInode(s, read, i, x), [v EXCEPT !.inode[i] = x])
<1> DEFINE b == inode_to_block(i)
           ino == [v.inode EXCEPT ![i] = x]
           w == [block_bitmap |-> v.block_bitmap, inode_bitmap |-> v.inode_bitmap,
                 inode |-> ino, data |-> v.data]
<1>1. Holdable(home, v)
  BY DEF Works
<1>2. /\ v = [block_bitmap |-> v.block_bitmap, inode_bitmap |-> v.inode_bitmap,
              inode |-> v.inode, data |-> v.data]
      /\ v.block_bitmap \in Bits(BlocksPerGroup) /\ v.inode_bitmap \in Bits(InodesPerGroup)
      /\ v.inode \in [Inode -> Inodes]
  BY <1>1, HoldableIs
<1>3. [v EXCEPT !.inode[i] = x] = w
  BY <1>2
<1>4. ino \in [Inode -> Inodes] /\ \A j \in Inode : ino[j] = IF j = i THEN x ELSE v.inode[j]
  BY <1>2
<1> HIDE DEF ino
<1>5. /\ w.block_bitmap = v.block_bitmap /\ w.inode_bitmap = v.inode_bitmap
      /\ w.inode = ino /\ w.data = v.data
  OBVIOUS
<1>6. IsVolume(w)
  BY <1>2, RecordOf
<1> HIDE DEF w
<1>7. Holdable(home, w)
  BY <1>1, <1>4, <1>5, <1>6 DEF Holdable
<1>8. b \in home /\ b % BlocksPerGroup # 0 /\ IsHeader(b)
  BY InodePlace DEF Covers
<1>9. ASSUME NEW c \in home, c # b
      PROVE  BlockOf(w, c) = BlockOf(v, c)
  <2>1. \A j \in InodesIn(c) : j \in Inode /\ j # i
    BY <1>9 DEF InodesIn
  <2>2. [j \in InodesIn(c) |-> w.inode[j]] = [j \in InodesIn(c) |-> v.inode[j]]
    BY <1>4, <1>5, <2>1
  <2>3. QED  BY <1>5, <2>2 DEF BlockOf
<1>10. [read EXCEPT !.inodes[i] = x] = BlockOf(w, b)
  <2> DEFINE f == [j \in InodesIn(b) |-> v.inode[j]]
             h == [j \in InodesIn(b) |-> w.inode[j]]
  <2>1. BlockOf(v, b) = [inodes |-> f] /\ BlockOf(w, b) = [inodes |-> h]
    BY <1>8 DEF BlockOf, InodeBlock
  <2>2. h = [f EXCEPT ![i] = x]
    <3>1. \A j \in InodesIn(b) : w.inode[j] = IF j = i THEN x ELSE v.inode[j]
      BY <1>4, <1>5 DEF InodesIn
    <3>2. QED  BY <3>1
  <2> HIDE DEF f, h
  <2>3. QED  BY <2>1, <2>2
<1>11. Works(home, found, WriteBlock(s, b, BlockOf(w, b)), w)
  BY <1>7, <1>8, <1>9, WriteWorks
<1>12. QED  BY <1>3, <1>10, <1>11 DEF WriteInode

(* It writes a block of data.                                               *)
LEMMA DataWorks ==
    ASSUME NEW home, Covers(home), NEW found, DOMAIN found = home,
           NEW s, NEW v, Works(home, found, s, v),
           NEW b \in home, ~IsHeader(b), NEW x \in Text \cup Directory
    PROVE  Works(home, found, WriteBlock(s, b, DataBlock(x)), [v EXCEPT !.data[b] = x])
<1> DEFINE dat == [v.data EXCEPT ![b] = x]
           w == [block_bitmap |-> v.block_bitmap, inode_bitmap |-> v.inode_bitmap,
                 inode |-> v.inode, data |-> dat]
<1>1. Holdable(home, v) /\ b \in Block
  BY DEF Works, Covers
<1>2. /\ v = [block_bitmap |-> v.block_bitmap, inode_bitmap |-> v.inode_bitmap,
              inode |-> v.inode, data |-> v.data]
      /\ v.block_bitmap \in Bits(BlocksPerGroup) /\ v.inode_bitmap \in Bits(InodesPerGroup)
      /\ v.data \in [Block -> Text \cup Directory]
  BY <1>1, HoldableIs
<1>3. [v EXCEPT !.data[b] = x] = w
  BY <1>2
<1>4. /\ dat \in [Block -> Text \cup Directory]
      /\ \A c \in Block : dat[c] = IF c = b THEN x ELSE v.data[c]
  BY <1>1, <1>2
<1> HIDE DEF dat
<1>5. /\ w.block_bitmap = v.block_bitmap /\ w.inode_bitmap = v.inode_bitmap
      /\ w.inode = v.inode /\ w.data = dat
  OBVIOUS
<1>6. IsVolume(w)
  BY <1>2, RecordOf
<1> HIDE DEF w
<1>7. Holdable(home, w)
  BY <1>1, <1>4, <1>5, <1>6 DEF Holdable
<1>8. \A c \in home : c # b => BlockOf(w, c) = BlockOf(v, c)
  BY <1>4, <1>5 DEF BlockOf, Covers
<1>9. BlockOf(w, b) = DataBlock(x)
  BY <1>1, <1>4, <1>5, HeaderSizes DEF BlockOf, IsHeader
<1>10. Works(home, found, WriteBlock(s, b, BlockOf(w, b)), w)
  BY <1>7, <1>8, WriteWorks
<1>11. QED  BY <1>3, <1>9, <1>10

(* It adds an entry to the block of a directory.                            *)
LEMMA DirentWorks ==
    ASSUME NEW home, Covers(home), NEW found, DOMAIN found = home,
           NEW s, NEW v, Works(home, found, s, v),
           NEW b \in home, ~IsHeader(b), NEW offset \in Nat, NEW e \in Entries
    PROVE  Works(home, found, WriteDirent(s, b, offset, e), create_dirent(v, b, offset, e))
<1>1. s.image[b].data = v.data[b]
  BY WorksOn
<1>2. CASE Fits(offset, e)
  <2> DEFINE dir == AsDir(v.data[b])
             x == WithEntry(dir, offset, e)
  <2>1. b \in Block /\ v.data[b] \in Text \cup Directory
    BY HoldableIs DEF Works, Covers
  <2>2. dir \in Directory
    <3>1. NoEntries \in [{} -> Entries] /\ {} \in SUBSET (0 .. BlockSize - DirentSize)
      BY DEF NoEntries
    <3>2. NoEntries \in Directory
      BY <3>1 DEF Directory
    <3>3. QED  BY <2>1, <3>2 DEF AsDir
  <2> HIDE DEF dir
  <2>3. PICK o \in SUBSET (0 .. BlockSize - DirentSize) : dir \in [o -> Entries]
    BY <2>2 DEF Directory
  <2>4. offset \in 0 .. BlockSize - DirentSize
    BY <1>2, NameLengthIsNat, VolumeSizes DEF Fits, DirentSize
  <2>5. x \in [o \cup {offset} -> Entries]
    BY <2>3 DEF WithEntry
  <2>6. x \in Directory
    BY <2>3, <2>4, <2>5 DEF Directory
  <2> HIDE DEF x
  <2>7. Works(home, found, WriteBlock(s, b, DataBlock(x)), [v EXCEPT !.data[b] = x])
    BY <2>6, DataWorks
  <2>8. WriteDirent(s, b, offset, e) = WriteBlock(s, b, DataBlock(x))
    BY <1>1, <1>2 DEF WriteDirent, x, dir
  <2>9. create_dirent(v, b, offset, e) = [v EXCEPT !.data[b] = x]
    <3>1. create_dirent(v, b, offset, e) = [v EXCEPT !.data[b] = WithEntry(AsDir(@), offset, e)]
      BY <1>2 DEF create_dirent
    <3>2. [v EXCEPT !.data[b] = WithEntry(AsDir(@), offset, e)]
            = [v EXCEPT !.data[b] = WithEntry(AsDir(v.data[b]), offset, e)]
      OBVIOUS
    <3>3. QED  BY <3>1, <3>2 DEF x, dir
  <2>10. QED  BY <2>7, <2>8, <2>9
<1>3. CASE ~Fits(offset, e)
  BY <1>3 DEF WriteDirent, create_dirent
<1>4. QED  BY <1>2, <1>3

-----------------------------------------------------------------------------
(* Entries.                                                                 *)

(* The data of a volume with an entry more.                                 *)
DataWith(v, d, e) ==
    IF Fits(Size(v, d), e)
    THEN [v.data EXCEPT ![Ptr(v, d, 0)] = WithEntry(AsDir(@), Size(v, d), e)]
    ELSE v.data

Grew(inode, d, e) == [inode EXCEPT ![d].size = @ + e.entry_len]

LEMMA AddEntryFields ==
    ASSUME NEW v,
           v = [block_bitmap |-> v.block_bitmap, inode_bitmap |-> v.inode_bitmap,
                inode |-> v.inode, data |-> v.data],
           NEW d, NEW e
    PROVE  /\ create_dirent(v, Ptr(v, d, 0), Size(v, d), e)
                = [block_bitmap |-> v.block_bitmap, inode_bitmap |-> v.inode_bitmap,
                   inode |-> v.inode, data |-> DataWith(v, d, e)]
           /\ AddEntry(v, d, e)
                = [block_bitmap |-> v.block_bitmap, inode_bitmap |-> v.inode_bitmap,
                   inode |-> Grew(v.inode, d, e), data |-> DataWith(v, d, e)]
<1> DEFINE b == Ptr(v, d, 0)
           k == Size(v, d)
           x == create_dirent(v, b, k, e)
           dat == DataWith(v, d, e)
<1>1. dat = IF Fits(k, e) THEN [v.data EXCEPT ![b] = WithEntry(AsDir(@), k, e)] ELSE v.data
  BY DEF DataWith
<1>2. AddEntry(v, d, e) = [x EXCEPT !.inode[d].size = @ + e.entry_len]
  BY DEF AddEntry, Ptr, Size
<1> HIDE DEF b, k, dat
<1>3. x = [block_bitmap |-> v.block_bitmap, inode_bitmap |-> v.inode_bitmap,
           inode |-> v.inode, data |-> dat]
  <2>1. CASE Fits(k, e)
    BY <1>1, <2>1 DEF create_dirent
  <2>2. CASE ~Fits(k, e)
    BY <1>1, <2>2 DEF create_dirent
  <2>3. QED  BY <2>1, <2>2
<1> HIDE DEF x
<1>4. AddEntry(v, d, e) = [block_bitmap |-> v.block_bitmap, inode_bitmap |-> v.inode_bitmap,
                           inode |-> Grew(v.inode, d, e), data |-> dat]
  BY <1>2, <1>3 DEF Grew
<1>5. QED  BY <1>3, <1>4 DEF x, b, k, dat

(* A directory that a tool can add an entry to.                             *)
Open(home, v, d) ==
    d \in Inode /\ Ptr(v, d, 0) \in home /\ ~IsHeader(Ptr(v, d, 0)) /\ Size(v, d) \in Nat

LEMMA GrewIs ==
    ASSUME NEW inode \in [Inode -> Inodes], NEW d \in Inode, inode[d].size \in Nat,
           NEW e \in Entries
    PROVE  LET x == [inode[d] EXCEPT !.size = @ + e.entry_len]
           IN  /\ x \in Inodes /\ x.size \in Nat /\ x.blockptrs = inode[d].blockptrs
               /\ Grew(inode, d, e) = [inode EXCEPT ![d] = x]
<1>1. inode[d].size + e.entry_len \in Nat
  BY DEF Entries
<1>2. inode[d] \in Inodes
  OBVIOUS
<1>3. QED  BY <1>1, <1>2 DEF Inodes, Grew

LEMMA GrewKeeps ==
    ASSUME NEW inode \in [Inode -> Inodes], NEW d \in Inode, inode[d].size \in Nat,
           NEW e \in Entries
    PROVE  /\ \A j \in Inode : j # d => Grew(inode, d, e)[j] = inode[j]
           /\ Grew(inode, d, e)[d].blockptrs = inode[d].blockptrs
           /\ Grew(inode, d, e)[d].size \in Nat
           /\ Grew(inode, d, e) \in [Inode -> Inodes]
<1> DEFINE x == [inode[d] EXCEPT !.size = @ + e.entry_len]
<1>1. x \in Inodes /\ x.size \in Nat /\ x.blockptrs = inode[d].blockptrs
  BY GrewIs
<1>2. Grew(inode, d, e) = [inode EXCEPT ![d] = x]
  BY DEF Grew
<1> HIDE DEF x
<1>3. QED  BY <1>1, <1>2

(* An open directory takes an entry, whichever of its two writes comes      *)
(* first, and stays open.                                                   *)
LEMMA AddEntryWorks ==
    ASSUME NEW home, Covers(home), NEW found, DOMAIN found = home,
           NEW s, NEW v, Works(home, found, s, v),
           NEW d, Open(home, v, d), NEW e \in Entries
    PROVE  LET old == InodeAt(s, d)
               new == [old EXCEPT !.size = @ + e.entry_len]
               read == s.image[inode_to_block(d)]
               grown == WriteInode(s, read, d, new)
               named == WriteDirent(s, old.blockptrs[0], old.size, e)
               w == AddEntry(v, d, e)
           IN  /\ Works(home, found, WriteDirent(grown, old.blockptrs[0], old.size, e), w)
               /\ Works(home, found, WriteInode(named, read, d, new), w)
               /\ Open(home, w, d) /\ Ptr(w, d, 0) = Ptr(v, d, 0)
<1> DEFINE old == v.inode[d]
           new == [old EXCEPT !.size = @ + e.entry_len]
           read == BlockOf(v, inode_to_block(d))
           b == Ptr(v, d, 0)
           k == Size(v, d)
           grown == WriteInode(s, read, d, new)
           named == WriteDirent(s, b, k, e)
           x == [v EXCEPT !.inode[d] = new]
           y == create_dirent(v, b, k, e)
           w == AddEntry(v, d, e)
<1>1. /\ d \in Inode /\ b \in home /\ ~IsHeader(b) /\ k \in Nat
      /\ InodeAt(s, d) = old /\ s.image[inode_to_block(d)] = read
      /\ old.blockptrs[0] = b /\ old.size = k
  BY WorksOn DEF Open, Ptr, Size
<1>2. /\ v = [block_bitmap |-> v.block_bitmap, inode_bitmap |-> v.inode_bitmap,
              inode |-> v.inode, data |-> v.data]
      /\ v.inode \in [Inode -> Inodes]
  BY HoldableIs DEF Works
<1>3. /\ new \in Inodes
      /\ Grew(v.inode, d, e) = [v.inode EXCEPT ![d] = new]
      /\ Grew(v.inode, d, e)[d].blockptrs = old.blockptrs
      /\ Grew(v.inode, d, e)[d].size \in Nat
  <2>1. v.inode[d].size \in Nat
    BY <1>1 DEF Size
  <2>2. QED  BY <1>1, <1>2, <2>1, GrewIs, GrewKeeps
<1> HIDE DEF new
<1>4. Works(home, found, grown, x)
  BY <1>1, <1>3, InodeWorks
<1>5. Works(home, found, named, y)
  BY <1>1, DirentWorks
<1>6. w = [block_bitmap |-> v.block_bitmap, inode_bitmap |-> v.inode_bitmap,
           inode |-> Grew(v.inode, d, e), data |-> DataWith(v, d, e)]
  BY <1>2, AddEntryFields
<1>7. x = [block_bitmap |-> v.block_bitmap, inode_bitmap |-> v.inode_bitmap,
           inode |-> Grew(v.inode, d, e), data |-> v.data]
  BY <1>2, <1>3
<1>8. y = [block_bitmap |-> v.block_bitmap, inode_bitmap |-> v.inode_bitmap,
           inode |-> v.inode, data |-> DataWith(v, d, e)]
  BY <1>2, AddEntryFields
<1>9. Works(home, found, WriteDirent(grown, b, k, e), w)
  <2>1. Works(home, found, WriteDirent(grown, b, k, e), create_dirent(x, b, k, e))
    BY <1>1, <1>4, DirentWorks
  <2>2. create_dirent(x, b, k, e) = w
    <3> DEFINE dat == DataWith(v, d, e)
               ino == Grew(v.inode, d, e)
    <3>1. dat = IF Fits(k, e) THEN [v.data EXCEPT ![b] = WithEntry(AsDir(@), k, e)] ELSE v.data
      BY DEF DataWith
    <3> HIDE DEF dat, ino, b, k, w, x
    <3>2. CASE Fits(k, e)
      BY <1>6, <1>7, <3>1, <3>2 DEF create_dirent, dat, ino
    <3>3. CASE ~Fits(k, e)
      BY <1>6, <1>7, <3>1, <3>3 DEF create_dirent, dat, ino
    <3>4. QED  BY <3>2, <3>3
  <2>3. QED  BY <2>1, <2>2
<1>10. Works(home, found, WriteInode(named, read, d, new), w)
  <2>1. read = BlockOf(y, inode_to_block(d))
    BY <1>1, <1>8, InodePlace DEF BlockOf
  <2>2. Works(home, found, WriteInode(named, read, d, new), [y EXCEPT !.inode[d] = new])
    BY <1>1, <1>3, <1>5, <2>1, InodeWorks
  <2>3. [y EXCEPT !.inode[d] = new] = w
    BY <1>3, <1>6, <1>8
  <2>4. QED  BY <2>2, <2>3
<1>11. Open(home, w, d) /\ Ptr(w, d, 0) = b
  BY <1>1, <1>3, <1>6 DEF Open, Ptr, Size
<1>12. QED  BY <1>1, <1>9, <1>10, <1>11 DEF new

LEMMA DirentIs ==
    ASSUME NEW name \in Name \cup {".", "..", ".log"}, NEW type \in {"dir", "file"},
           NEW i \in Inode, NEW n \in Nat
    PROVE  Dirent(name, type, i, EntryLen(n)) \in Entries
BY EntryLenIsNat DEF Dirent, Entries

(* jfs_mkdir adds the entry of a directory.                                 *)
LEMMA NameDirWorks ==
    ASSUME NEW home, Covers(home), NEW found, DOMAIN found = home,
           NEW s, NEW v, Works(home, found, s, v),
           NEW d, Open(home, v, d), NEW name \in Name \cup {".", ".."}, NEW i \in Inode
    PROVE  /\ Works(home, found, NameDir(s, d, name, i), AddDir(v, d, name, i))
           /\ Open(home, AddDir(v, d, name, i), d)
           /\ Ptr(AddDir(v, d, name, i), d, 0) = Ptr(v, d, 0)
<1> DEFINE e == Dirent(name, "dir", i, EntryLen(NameLength(name)))
<1>1. e \in Entries
  BY NameLengthIsNat, DirentIs
<1>2. AddDir(v, d, name, i) = AddEntry(v, d, e)
  BY DEF AddDir
<1>3. NameDir(s, d, name, i)
        = LET old == InodeAt(s, d)
              grown == WriteInode(s, s.image[inode_to_block(d)], d,
                                  [old EXCEPT !.size = @ + e.entry_len])
          IN  WriteDirent(grown, old.blockptrs[0], old.size, e)
  BY DEF NameDir
<1> HIDE DEF e
<1>4. QED  BY <1>1, <1>2, <1>3, AddEntryWorks

-----------------------------------------------------------------------------
(* Which blocks a tool writes to.                                           *)

(* It has written to no block but those of S.                               *)
Touches(s, S) == \E X : s.writes \in Seq([blocknum : S, blockdata : X])

Headers == {g * BlocksPerGroup : g \in Group}

LEMMA WriteTouches ==
    ASSUME NEW s, NEW S, Touches(s, S), NEW b \in S, NEW d
    PROVE  Touches(WriteBlock(s, b, d), S)
<1>1. PICK X : s.writes \in Seq([blocknum : S, blockdata : X])
  BY DEF Touches
<1> DEFINE e == [blocknum |-> b, blockdata |-> d]
           T == [blocknum : S, blockdata : X]
           U == [blocknum : S, blockdata : X \cup {d}]
<1>2. e \in U /\ T \subseteq U
  OBVIOUS
<1>3. WriteBlock(s, b, d).writes = Append(s.writes, e)
  BY DEF WriteBlock
<1>4. s.writes \in Seq(T)
  BY <1>1
<1> HIDE DEF e, T, U
<1>5. Append(s.writes, e) \in Seq(U)
  BY <1>2, <1>4
<1>6. QED  BY <1>3, <1>5 DEF Touches, U

LEMMA TouchesMore ==
    ASSUME NEW s, NEW S, Touches(s, S), NEW W, S \subseteq W
    PROVE  Touches(s, W)
<1>1. PICK X : s.writes \in Seq([blocknum : S, blockdata : X])
  BY DEF Touches
<1> DEFINE T == [blocknum : S, blockdata : X]
           U == [blocknum : W, blockdata : X]
<1>2. T \subseteq U /\ s.writes \in Seq(T)
  BY <1>1
<1> HIDE DEF T, U
<1>3. s.writes \in Seq(U)
  BY <1>2
<1>4. QED  BY <1>3 DEF Touches, U

(* The numbers of the blocks it has written to.                             *)
LEMMA TouchedIs ==
    ASSUME NEW s, NEW S, Touches(s, S)
    PROVE  \A k \in DOMAIN s.writes : s.writes[k].blocknum \in S
<1>1. PICK X : s.writes \in Seq([blocknum : S, blockdata : X])
  BY DEF Touches
<1> DEFINE T == [blocknum : S, blockdata : X]
<1>2. \A x \in T : x.blocknum \in S
  OBVIOUS
<1>3. s.writes \in Seq(T)
  BY <1>1
<1> HIDE DEF T
<1>4. \A k \in DOMAIN s.writes : s.writes[k] \in T
  BY <1>3
<1>5. QED  BY <1>2, <1>4

(* To take or return an inode or a block, it writes to a header.            *)
LEMMA BitTouches ==
    ASSUME NEW s, NEW S, Touches(s, S), Headers \subseteq S
    PROVE  /\ \A i \in Inode : Touches(TakeInode(s, i), S) /\ Touches(ReturnInode(s, i), S)
           /\ \A b \in Block : Touches(TakeBlock(s, b), S) /\ Touches(ReturnBlock(s, b), S)
<1>1. \A g \in Group : \A w : Touches(WriteHeader(s, g, w), S)
  <2>1. \A g \in Group : g * BlocksPerGroup \in S
    BY DEF Headers
  <2>2. QED  BY <2>1, WriteTouches DEF WriteHeader
<1>2. \A i \in Inode : i \div InodesPerGroup \in Group
  BY Sizes, QuotientInRange DEF Inode, Group
<1>3. \A b \in Block : b \div BlocksPerGroup \in Group
  BY Sizes, QuotientInRange DEF Block, Group
<1>4. QED  BY <1>1, <1>2, <1>3 DEF TakeInode, ReturnInode, TakeBlock, ReturnBlock

(* To write an inode or an entry, to one block each.                        *)
LEMMA InodeTouches ==
    ASSUME NEW s, NEW S, Touches(s, S), NEW i, inode_to_block(i) \in S, NEW read, NEW x
    PROVE  Touches(WriteInode(s, read, i, x), S)
BY WriteTouches DEF WriteInode

LEMMA DirentTouches ==
    ASSUME NEW s, NEW S, Touches(s, S), NEW b \in S, NEW k, NEW e
    PROVE  Touches(WriteDirent(s, b, k, e), S)
BY WriteTouches DEF WriteDirent

LEMMA NameDirTouches ==
    ASSUME NEW s, NEW S, Touches(s, S), NEW d, inode_to_block(d) \in S,
           InodeAt(s, d).blockptrs[0] \in S, NEW name, NEW i
    PROVE  Touches(NameDir(s, d, name, i), S)
<1> DEFINE e == Dirent(name, "dir", i, EntryLen(NameLength(name)))
           old == InodeAt(s, d)
           grown == WriteInode(s, s.image[inode_to_block(d)], d, [old EXCEPT !.size = @ + e.entry_len])
<1>1. Touches(grown, S)
  BY InodeTouches
<1>2. NameDir(s, d, name, i) = WriteDirent(grown, old.blockptrs[0], old.size, e)
  BY DEF NameDir
<1> HIDE DEF e, grown
<1>3. QED  BY <1>1, <1>2, DirentTouches

-----------------------------------------------------------------------------
(* The tools.                                                               *)

(* A tool can open the directories, and write to the blocks that are free.  *)
Room(home, v, dirs) ==
    /\ \A d \in dirs : Open(home, v, d)
    /\ \A b \in Block : ~BlockUsed(v, b) => b \in home

LEMMA FreeBlockGoesBy ==
    ASSUME NEW v, NEW w, w.block_bitmap = v.block_bitmap
    PROVE  get_free_block(w) = get_free_block(v)
BY DEF get_free_block

LEMMA MarkedBlock ==
    ASSUME NEW v,
           v = [block_bitmap |-> v.block_bitmap, inode_bitmap |-> v.inode_bitmap,
                inode |-> v.inode, data |-> v.data],
           NEW b
    PROVE  LET w == set_block_used(v, b)
           IN  /\ w = [block_bitmap |-> w.block_bitmap, inode_bitmap |-> w.inode_bitmap,
                       inode |-> w.inode, data |-> w.data]
               /\ w.block_bitmap
                    = [v.block_bitmap EXCEPT ![b \div BlocksPerGroup] = @ \cup {b % BlocksPerGroup}]
               /\ w.inode_bitmap = v.inode_bitmap /\ w.inode = v.inode /\ w.data = v.data
<1> DEFINE bits == [v.block_bitmap EXCEPT ![b \div BlocksPerGroup] = @ \cup {b % BlocksPerGroup}]
           w == set_block_used(v, b)
<1>1. w = [v EXCEPT !.block_bitmap = bits]
  BY DEF set_block_used
<1> HIDE DEF w, bits
<1>2. w = [block_bitmap |-> bits, inode_bitmap |-> v.inode_bitmap,
           inode |-> v.inode, data |-> v.data]
  BY <1>1
<1>3. QED  BY <1>2 DEF w, bits

(* One inode grows, another is set.                                         *)
LEMMA GrewApart ==
    ASSUME NEW inode \in [Inode -> Inodes], NEW d \in Inode, inode[d].size \in Nat,
           NEW e \in Entries, NEW i \in Inode, i # d, NEW x \in Inodes
    PROVE  Grew([inode EXCEPT ![i] = x], d, e) = [Grew(inode, d, e) EXCEPT ![i] = x]
<1> DEFINE f == [inode EXCEPT ![i] = x]
           y == [inode[d] EXCEPT !.size = @ + e.entry_len]
<1>1. /\ f \in [Inode -> Inodes] /\ f[d] = inode[d]
      /\ \A j \in Inode : f[j] = IF j = i THEN x ELSE inode[j]
  OBVIOUS
<1> HIDE DEF f, y
<1>2. Grew(f, d, e) = [f EXCEPT ![d] = y] /\ Grew(inode, d, e) = [inode EXCEPT ![d] = y]
  BY <1>1 DEF Grew, y
<1>3. \A j \in Inode : [f EXCEPT ![d] = y][j] = [[inode EXCEPT ![d] = y] EXCEPT ![i] = x][j]
  BY <1>1
<1>4. [f EXCEPT ![d] = y] = [[inode EXCEPT ![d] = y] EXCEPT ![i] = x]
  BY <1>1, <1>3
<1>5. QED  BY <1>2, <1>4 DEF f

(* jfs_mkdir writes what mk_new_directory makes, to the headers and four    *)
(* blocks.                                                                  *)
LEMMA MkdirWorks ==
    ASSUME NEW home, Covers(home), NEW found, DOMAIN found = home,
           NEW s, NEW v, Works(home, found, s, v),
           NEW dirs, NEW files, Sound(v, dirs, files), Room(home, v, dirs),
           NEW d \in dirs, NEW name \in Name,
           get_free_inode(v) # None, get_free_block(v) # None
    PROVE  LET i == get_free_inode(v)
               b == get_free_block(v)
           IN  /\ Works(home, found, MkdirWrites(s, d, name), mk_new_directory(v, d, name, i, b))
               /\ \A S : Touches(s, S) /\ Headers \subseteq S
                          /\ {inode_to_block(i), inode_to_block(d), b, Ptr(v, d, 0)} \subseteq S
                        => Touches(MkdirWrites(s, d, name), S)
<1> DEFINE i == get_free_inode(v)
           b == get_free_block(v)
           v1 == set_inode_used(v, i)
           v2 == AddDir(v1, d, name, i)
           v3 == set_block_used(v2, b)
           new == [v3.inode[i] EXCEPT !.blockptrs[0] = b, !.size = 0]
           v4 == [v3 EXCEPT !.inode[i] = new]
           made == EmptyDir(v, i, b)
           s1 == TakeInode(s, i)
           s2 == NameDir(s1, d, name, i)
           s3 == TakeBlock(s2, b)
           s4 == WriteInode(s3, s3.image[inode_to_block(i)], i,
                            [InodeAt(s3, i) EXCEPT !.blockptrs[0] = b, !.size = 0])
<1>1. /\ IsVolume(v) /\ Holdable(home, v)
      /\ i \in Inode /\ ~InodeUsed(v, i) /\ b \in Block /\ ~BlockUsed(v, b)
  BY FreeInode, FreeBlock DEF Works, Holdable
<1>2. b \in home /\ ~IsHeader(b) /\ i # d /\ Open(home, v, d)
  BY <1>1 DEF Room, Sound, BlocksInv, InodesInv
<1> HIDE DEF i, b
<1>3. Works(home, found, s1, v1) /\ v1.inode = v.inode /\ v1.data = v.data
      /\ v1.block_bitmap = v.block_bitmap
  BY <1>1, InodeBitWorks, SetInodeUsed
<1>4. Open(home, v1, d)
  BY <1>2, <1>3 DEF Open, Ptr, Size
<1> HIDE DEF s1, v1
<1>5. Works(home, found, s2, v2) /\ Open(home, v2, d)
  BY <1>1, <1>3, <1>4, NameDirWorks
<1>6. /\ v1 = [block_bitmap |-> v1.block_bitmap, inode_bitmap |-> v1.inode_bitmap,
               inode |-> v1.inode, data |-> v1.data]
      /\ v1.inode \in [Inode -> Inodes]
  BY <1>3, HoldableIs DEF Works
<1> DEFINE e == Dirent(name, "dir", i, EntryLen(NameLength(name)))
<1>7. e \in Entries
  BY <1>1, NameLengthIsNat, DirentIs
<1>8. AddDir(v1, d, name, i) = AddEntry(v1, d, e) /\ AddDir(made, d, name, i) = AddEntry(made, d, e)
  BY DEF AddDir
<1> HIDE DEF e
<1>9. v2 = [block_bitmap |-> v1.block_bitmap, inode_bitmap |-> v1.inode_bitmap,
            inode |-> Grew(v1.inode, d, e), data |-> DataWith(v1, d, e)]
  BY <1>6, <1>8, AddEntryFields
<1>10. get_free_block(v2) = b
  BY <1>3, <1>9, FreeBlockGoesBy DEF b
<1> HIDE DEF s2, v2
<1>11. Works(home, found, s3, v3) /\ Decode(s2.image) = v2
  BY <1>1, <1>5, BlockBitWorks, WorksOn
<1>12. InodeAt(s3, i) = v3.inode[i]
       /\ s3.image[inode_to_block(i)] = BlockOf(v3, inode_to_block(i))
  BY <1>1, <1>11, WorksOn
<1>13. v3 = [block_bitmap |-> v3.block_bitmap, inode_bitmap |-> v3.inode_bitmap,
             inode |-> v3.inode, data |-> v3.data]
       /\ v3.inode \in [Inode -> Inodes]
       /\ v3.inode = v2.inode /\ v3.data = v2.data /\ v3.inode_bitmap = v2.inode_bitmap
       /\ v3.block_bitmap = set_block_used(v2, b).block_bitmap
  BY <1>1, <1>5, <1>11, SetBlockUsed, HoldableIs DEF Works, Holdable
<1> HIDE DEF s3, v3
<1>14. new \in Inodes
  BY <1>1, <1>13 DEF Inodes
<1>15. Works(home, found, s4, v4)
  BY <1>1, <1>11, <1>12, <1>14, InodeWorks
<1> DEFINE bb == [v.block_bitmap EXCEPT ![b \div BlocksPerGroup] = @ \cup {b % BlocksPerGroup}]
           ino == [v.inode EXCEPT ![i].blockptrs[0] = b, ![i].size = 0]
<1>16. made = [block_bitmap |-> bb, inode_bitmap |-> v1.inode_bitmap,
               inode |-> ino, data |-> v.data]
  <2>1. /\ set_block_used(v1, b).block_bitmap = bb
        /\ set_block_used(v1, b).inode_bitmap = v1.inode_bitmap
    BY <1>3, <1>6, MarkedBlock
  <2>2. QED  BY <1>1, <2>1, EmptyDirIs DEF v1
<1>17. v3 = [block_bitmap |-> bb, inode_bitmap |-> v1.inode_bitmap,
             inode |-> Grew(v.inode, d, e), data |-> DataWith(v1, d, e)]
  <2>1. /\ v2.block_bitmap = v.block_bitmap /\ v2.inode_bitmap = v1.inode_bitmap
        /\ v2.inode = Grew(v.inode, d, e) /\ v2.data = DataWith(v1, d, e)
        /\ v2 = [block_bitmap |-> v2.block_bitmap, inode_bitmap |-> v2.inode_bitmap,
                 inode |-> v2.inode, data |-> v2.data]
    BY <1>3, <1>9
  <2>2. set_block_used(v2, b).block_bitmap = bb
    BY <2>1, MarkedBlock
  <2> HIDE DEF bb
  <2>3. QED  BY <1>13, <2>1, <2>2
<1> HIDE DEF bb
<1>18. /\ v.inode \in [Inode -> Inodes] /\ d \in Inode /\ v.inode[d].size \in Nat
       /\ \A c : DataWith(v1, c, e) = DataWith(v, c, e)
  <2>1. v.inode \in [Inode -> Inodes]
    BY <1>1, HoldableIs
  <2>2. QED  BY <1>2, <1>3, <2>1 DEF Open, Size, DataWith, Ptr
<1>19. /\ Grew(v.inode, d, e)[i] = v.inode[i]
       /\ Grew(v.inode, d, e)[d].blockptrs = v.inode[d].blockptrs
       /\ Grew(v.inode, d, e)[d].size \in Nat
       /\ Grew(v.inode, d, e) \in [Inode -> Inodes]
  <2>1. v.inode \in [Inode -> Inodes] /\ d \in Inode /\ v.inode[d].size \in Nat
    BY <1>18
  <2>2. QED  BY <1>1, <1>2, <1>7, <2>1, GrewKeeps
<1>20. Grew(ino, d, e) = [Grew(v.inode, d, e) EXCEPT ![i] = new] /\ ino[d] = v.inode[d]
  <2>1. new = [v.inode[i] EXCEPT !.blockptrs[0] = b, !.size = 0]
    BY <1>17, <1>19
  <2>2. ino = [v.inode EXCEPT ![i] = new] /\ ino[d] = v.inode[d]
    BY <1>1, <1>2, <1>18, <2>1
  <2> HIDE DEF ino, new
  <2>3. QED  BY <1>1, <1>2, <1>7, <1>14, <1>18, <2>2, GrewApart
<1>21. DataWith(made, d, e) = DataWith(v, d, e)
  <2>1. Size(made, d) = Size(v, d) /\ Ptr(made, d, 0) = Ptr(v, d, 0) /\ made.data = v.data
    <3> HIDE DEF made, ino
    <3>1. QED  BY <1>16, <1>20 DEF Size, Ptr
  <2> HIDE DEF made
  <2>2. QED  BY <2>1 DEF DataWith
<1>22. v4 = AddDir(made, d, name, i)
  <2>1. AddEntry(made, d, e) = [block_bitmap |-> bb, inode_bitmap |-> v1.inode_bitmap,
                                inode |-> Grew(ino, d, e), data |-> DataWith(v, d, e)]
    <3> HIDE DEF ino, made
    <3>1. /\ made = [block_bitmap |-> made.block_bitmap, inode_bitmap |-> made.inode_bitmap,
                     inode |-> made.inode, data |-> made.data]
          /\ made.block_bitmap = bb /\ made.inode_bitmap = v1.inode_bitmap /\ made.inode = ino
      BY <1>16
    <3>2. AddEntry(made, d, e)
            = [block_bitmap |-> made.block_bitmap, inode_bitmap |-> made.inode_bitmap,
               inode |-> Grew(made.inode, d, e), data |-> DataWith(made, d, e)]
      BY <3>1, AddEntryFields
    <3>3. QED  BY <1>21, <3>1, <3>2
  <2> HIDE DEF ino, new, made
  <2>2. QED  BY <1>8, <1>17, <1>18, <1>20, <2>1
<1>23. Open(home, v4, i) /\ Open(home, v4, d) /\ Ptr(v4, i, 0) = b
  <2>1. v4.inode = Grew(ino, d, e)
    <3> HIDE DEF ino, new
    <3>1. QED  BY <1>17, <1>20
  <2>2. Ptr(v4, i, 0) = b /\ Size(v4, i) = 0
    <3>1. new.blockptrs[0] = b /\ new.size = 0
      BY <1>1, <1>13, VolumeSizes DEF Inodes
    <3>2. v4.inode[i] = new
      <4> HIDE DEF new
      <4>1. QED  BY <1>1, <1>13
    <3>3. QED  BY <3>1, <3>2 DEF Ptr, Size
  <2>3. Ptr(v4, d, 0) = Ptr(v, d, 0) /\ Size(v4, d) \in Nat
    <3>1. v4.inode[d] = Grew(v.inode, d, e)[d]
      <4> HIDE DEF new
      <4>1. QED  BY <1>1, <1>2, <1>17, <1>18
    <3>2. QED  BY <1>19, <3>1 DEF Ptr, Size
  <2> HIDE DEF v4
  <2>4. QED  BY <1>1, <1>2, <1>18, <2>2, <2>3 DEF Open
<1> HIDE DEF v4, s4, made
<1> DEFINE s5 == NameDir(s4, i, ".", i)
           v5 == AddDir(v4, i, ".", i)
<1>24. Works(home, found, s5, v5) /\ Open(home, v5, i) /\ Ptr(v5, i, 0) = Ptr(v4, i, 0)
  BY <1>1, <1>15, <1>23, NameDirWorks
<1> HIDE DEF v5
<1>29. ASSUME NEW S, Touches(s, S), Headers \subseteq S,
              {inode_to_block(i), inode_to_block(d), b, Ptr(v, d, 0)} \subseteq S
       PROVE  Touches(NameDir(s5, i, "..", d), S)
  <2>1. InodeAt(s1, d).blockptrs[0] \in S
    BY <1>2, <1>3, <1>29, WorksOn DEF Open, Ptr
  <2>2. Touches(s1, S)
    BY <1>1, <1>29, BitTouches DEF s1
  <2>3. Touches(s2, S)
    BY <1>29, <2>1, <2>2, NameDirTouches DEF s2
  <2>4. Touches(s3, S)
    BY <1>1, <1>29, <2>3, BitTouches DEF s3
  <2>5. Touches(s4, S)
    BY <1>29, <2>4, InodeTouches DEF s4
  <2>6. InodeAt(s4, i).blockptrs[0] \in S
    BY <1>1, <1>15, <1>23, <1>29, WorksOn DEF Ptr
  <2>7. Touches(s5, S)
    BY <1>29, <2>5, <2>6, NameDirTouches DEF s5
  <2>8. InodeAt(s5, i).blockptrs[0] \in S
    BY <1>1, <1>23, <1>24, <1>29, WorksOn DEF Ptr
  <2>9. QED  BY <1>29, <2>7, <2>8, NameDirTouches
<1> HIDE DEF s5
<1>25. d \in Inode
  BY <1>18
<1>26. Works(home, found, NameDir(s5, i, "..", d), AddDir(v5, i, "..", d))
  BY <1>24, <1>25, NameDirWorks
<1>27. AddDir(v5, i, "..", d) = mk_new_directory(v, d, name, i, b)
  BY <1>22 DEF v5, made, EmptyDir, mk_new_directory
<1>28. MkdirWrites(s, d, name) = NameDir(s5, i, "..", d)
  <2>1. get_free_inode(Decode(s.image)) = i
    BY WorksOn DEF i
  <2>2. get_free_block(Decode(s2.image)) = b
    BY <1>10, <1>11
  <2>3. QED  BY <2>1, <2>2 DEF MkdirWrites, s1, s2, s3, s4, s5
<1>30. QED  BY <1>26, <1>27, <1>28, <1>29 DEF i, b

(* What is free a tool can write to.                                        *)
FreeIn(home, v) == \A b \in Block : ~BlockUsed(v, b) => b \in home /\ ~IsHeader(b)

LEMMA RoomIsFree ==
    ASSUME NEW home, NEW v, NEW dirs, NEW files, Sound(v, dirs, files), Room(home, v, dirs)
    PROVE  FreeIn(home, v)
BY DEF Sound, BlocksInv, Room, FreeIn

(* What jfs_copyin has written, t, when it has stored x.                    *)
StoreMatch(home, found, t, x) ==
    /\ t = [s |-> t.s, blocks |-> t.blocks]
    /\ Works(home, found, t.s, x.vol)
    /\ t.blocks = x.blocks

LEMMA StoreBlockWorks ==
    ASSUME NEW home, Covers(home), NEW found, DOMAIN found = home,
           NEW v, NEW x \in StoreStates(v), NEW t, StoreMatch(home, found, t, x),
           FreeIn(home, x.vol), NEW text \in Text, get_free_block(x.vol) # None
    PROVE  /\ StoreMatch(home, found, StoreWrites(t, text), StoreBlock(x, text))
           /\ \A S : Touches(t.s, S) /\ Headers \subseteq S
                    => \E b : Touches(StoreWrites(t, text).s, S \cup {b})
<1> DEFINE b == get_free_block(x.vol)
           y == set_block_used(x.vol, b)
           s1 == TakeBlock(t.s, b)
           s2 == WriteBlock(s1, b, DataBlock(text))
<1>1. Works(home, found, t.s, x.vol) /\ Decode(t.s.image) = x.vol
  BY WorksOn DEF StoreMatch
<1>2. b \in Block /\ b \in home /\ ~IsHeader(b)
  BY <1>1, FreeBlock DEF Works, Holdable, FreeIn
<1> HIDE DEF b
<1>3. Works(home, found, s1, y)
  BY <1>1, <1>2, BlockBitWorks
<1>8. ASSUME NEW S, Touches(t.s, S), Headers \subseteq S
      PROVE  Touches(s2, S \cup {b})
  <2>1. Touches(t.s, S \cup {b}) /\ Headers \subseteq S \cup {b} /\ b \in S \cup {b}
    BY <1>8, TouchesMore
  <2>2. Touches(s1, S \cup {b})
    BY <1>2, <2>1, BitTouches
  <2>3. QED  BY <2>1, <2>2, WriteTouches
<1> HIDE DEF s1, y
<1>4. Works(home, found, s2, [y EXCEPT !.data[b] = text])
  BY <1>2, <1>3, DataWorks
<1>5. StoreWrites(t, text) = [s |-> s2, blocks |-> Append(t.blocks, b)]
  BY <1>1 DEF StoreWrites, b, s1
<1>6. StoreBlock(x, text) = [vol |-> [y EXCEPT !.data[b] = text],
                             blocks |-> Append(x.blocks, b), full |-> x.full]
  BY DEF StoreBlock, b, y
<1> HIDE DEF s2
<1>7. StoreMatch(home, found, StoreWrites(t, text), StoreBlock(x, text))
  BY <1>4, <1>5, <1>6 DEF StoreMatch
<1>9. StoreWrites(t, text).s = s2
  BY <1>5
<1>10. QED  BY <1>7, <1>8, <1>9

(* As long as jfs_copyin finds blocks, it stores the file block by block.     *)
LEMMA StoreTurns ==
    ASSUME NEW v, IsVolume(v), v.data = [b \in Block |-> v.data[b]],
           NEW file \in Seq(Text), ~Store(v, file).full
    PROVE  \E f : /\ f[0] = [vol |-> v, blocks |-> <<>>, full |-> FALSE]
                  /\ Store(v, file) = f[Len(file)]
                  /\ \A n \in 1 .. Len(file) : f[n] = StoreBlock(f[n - 1], file[n])
                  /\ \A n \in 0 .. Len(file) :
                        f[n] \in StoreStates(v) /\ ~f[n].full /\ Stored(v, file, n, f[n])
<1> DEFINE N == Len(file)
<1>1. N \in Nat /\ \A n \in 1 .. N : file[n] \in Text
  OBVIOUS
<1>2. PICK f : /\ f[0] = [vol |-> v, blocks |-> <<>>, full |-> FALSE]
               /\ Store(v, file) = f[N]
               /\ \A n \in 1 .. N : f[n] = StoreBlock(f[n - 1], file[n])
               /\ \A n \in 0 .. N :
                     f[n] \in StoreStates(v) /\ (~f[n].full => Stored(v, file, n, f[n]))
  BY StoreIs
<1> HIDE DEF N
<1>3. \A n \in 1 .. N : n \in 0 .. N /\ n - 1 \in 0 .. N /\ n # 0
  BY <1>1
<1>4. ~f[N].full
  BY <1>2
<1>5. \A n \in 0 .. N : ~f[n].full
  <2> DEFINE S == {m \in 0 .. N : ~f[N - m].full}
  <2>1. 0 \in S
    BY <1>1, <1>4
  <2>2. ASSUME NEW m \in 1 .. N, m - 1 \in S
        PROVE  m \in S
    <3> DEFINE n == N - (m - 1)
    <3>1. n \in 1 .. N /\ N - m = n - 1 /\ m \in 0 .. N /\ ~f[n].full
      BY <1>1, <2>2
    <3> HIDE DEF n
    <3>2. f[n] = StoreBlock(f[n - 1], file[n]) /\ f[n - 1] \in StoreStates(v) /\ file[n] \in Text
      BY <1>1, <1>2, <1>3, <3>1
    <3>3. ~f[n - 1].full
      BY <3>1, <3>2, StoreBlockStates
    <3>4. QED  BY <3>1, <3>3
  <2>3. \A m \in 0 .. N : m \in S
    <3> HIDE DEF S
    <3>1. QED  BY <1>1, <2>1, <2>2, InductionUpTo
  <2>4. \A n \in 0 .. N : N - n \in 0 .. N /\ N - (N - n) = n
    BY <1>1
  <2>5. \A n \in 0 .. N : N - n \in S
    <3> HIDE DEF S
    <3>1. QED  BY <2>3, <2>4
  <2>6. QED  BY <2>4, <2>5
<1>6. QED  BY <1>2, <1>5 DEF N

(* jfs_copyin writes what it stores, to the headers and to a block for each *)
(* of the file's.                                                           *)
TouchesFew(s, S, n) ==
    \E B : IsFiniteSet(B) /\ Cardinality(B) <= n /\ Touches(s, S \cup B)

LEMMA OneMore ==
    ASSUME NEW S, IsFiniteSet(S), NEW n \in Nat, Cardinality(S) <= n, NEW x
    PROVE  /\ IsFiniteSet(S \cup {x}) /\ Cardinality(S \cup {x}) \in Nat
           /\ Cardinality(S \cup {x}) <= n + 1
<1>1. /\ IsFiniteSet(S \cup {x}) /\ Cardinality(S) \in Nat
      /\ Cardinality(S \cup {x}) = Cardinality(S) \/ Cardinality(S \cup {x}) = Cardinality(S) + 1
  BY FS_AddElement, FS_CardinalityType
<1>2. QED  BY <1>1

LEMMA FewAndOne ==
    ASSUME NEW s, NEW S, NEW n \in Nat, NEW B, IsFiniteSet(B), Cardinality(B) <= n,
           NEW b, Touches(s, (S \cup B) \cup {b})
    PROVE  TouchesFew(s, S, n + 1)
<1>1. IsFiniteSet(B \cup {b}) /\ Cardinality(B \cup {b}) <= n + 1
  BY OneMore
<1>2. (S \cup B) \cup {b} = S \cup (B \cup {b})
  OBVIOUS
<1>3. QED  BY <1>1, <1>2 DEF TouchesFew

LEMMA StoreWorks ==
    ASSUME NEW home, Covers(home), NEW found, DOMAIN found = home,
           NEW s, NEW v, Works(home, found, s, v), FreeIn(home, v),
           NEW file \in Seq(Text), ~Store(v, file).full
    PROVE  /\ StoreMatch(home, found, StoredWrites(s, file), Store(v, file))
           /\ \A S : Touches(s, S) /\ Headers \subseteq S
                    => TouchesFew(StoredWrites(s, file).s, S, Len(file))
<1> DEFINE N == Len(file)
           base == [s |-> s, blocks |-> <<>>]
           X == [s : [image : [home -> Contents], writes : Writes(home)], blocks : Seq(Block)]
           body(h, n) == IF n = 0 THEN base ELSE StoreWrites(h[n - 1], file[n])
           stored[n \in 0 .. Len(file)] ==
               IF n = 0 THEN [s |-> s, blocks |-> <<>>] ELSE StoreWrites(stored[n - 1], file[n])
           turn(t, n) == IF StoreWrites(t, file[n]) \in X THEN StoreWrites(t, file[n]) ELSE t
           step == [n \in 1 .. N |-> [t \in X |-> turn(t, n)]]
<1>1. N \in Nat /\ \A n \in 1 .. N : file[n] \in Text
  OBVIOUS
<1>2. IsVolume(v) /\ Holdable(home, v) /\ v.data = [b \in Block |-> v.data[b]]
  <2>1. Holdable(home, v)
    BY DEF Works
  <2>2. QED  BY <2>1, HoldableIs DEF Holdable
<1>3. PICK f : /\ f[0] = [vol |-> v, blocks |-> <<>>, full |-> FALSE]
               /\ Store(v, file) = f[N]
               /\ \A n \in 1 .. N : f[n] = StoreBlock(f[n - 1], file[n])
               /\ \A n \in 0 .. N :
                     f[n] \in StoreStates(v) /\ ~f[n].full /\ Stored(v, file, n, f[n])
  BY <1>2, StoreTurns
<1> HIDE DEF N, base, X, turn
<1>4. \A n \in 1 .. N : n \in 0 .. N /\ n - 1 \in 0 .. N /\ n # 0
  BY <1>1
<1>5. \A n \in 0 .. N : ~f[n].full
  BY <1>3
<1> DEFINE Match(n, t) == StoreMatch(home, found, t, f[n])
<1>6. ASSUME NEW n \in 1 .. N, NEW t, Match(n - 1, t)
      PROVE  /\ Match(n, StoreWrites(t, file[n]))
             /\ \A S : Touches(t.s, S) /\ Headers \subseteq S
                      => \E b : Touches(StoreWrites(t, file[n]).s, S \cup {b})
  <2> DEFINE x == f[n - 1]
  <2>1. /\ x \in StoreStates(v) /\ file[n] \in Text
        /\ f[n] = StoreBlock(x, file[n]) /\ ~f[n].full /\ Stored(v, file, n - 1, x)
    BY <1>1, <1>3, <1>4, <1>5
  <2> HIDE DEF x
  <2>2. \A c \in Block : BlockUsed(v, c) => BlockUsed(x.vol, c)
    BY <2>1 DEF Stored
  <2>3. FreeIn(home, x.vol)
    BY <2>2 DEF FreeIn
  <2>4. get_free_block(x.vol) # None
    <3>1. get_free_block(x.vol) \in Block
      BY <1>2, <2>1, StoreBlockStates
    <3>2. QED  BY <3>1, InodeNumbers DEF None
  <2>5. QED  BY <1>6, <2>1, <2>3, <2>4, StoreBlockWorks DEF x
<1>7. Match(0, base)
  BY <1>3 DEF StoreMatch, base
<1>8. ASSUME NEW n \in 0 .. N, NEW t, Match(n, t)
      PROVE  t \in X
  <2>1. t = [s |-> t.s, blocks |-> t.blocks] /\ Works(home, found, t.s, f[n].vol)
        /\ t.blocks = f[n].blocks
    BY <1>8 DEF StoreMatch
  <2>2. t.blocks \in Seq(Block)
    BY <1>3, <2>1 DEF StoreStates
  <2>3. t.s = [image |-> t.s.image, writes |-> t.s.writes] /\ t.s.writes \in Writes(home)
        /\ t.s.image = ImageOf(home, f[n].vol) /\ Holdable(home, f[n].vol)
    BY <2>1 DEF Works
  <2>4. t.s.image \in [home -> Contents]
    BY <2>3, BlockIs DEF Covers, ImageOf
  <2>5. t.s \in [image : [home -> Contents], writes : Writes(home)]
    BY <2>3, <2>4
  <2>6. QED  BY <2>1, <2>2, <2>5 DEF X
<1>9. ASSUME NEW h, h[0] = base,
             \A n \in 1 .. N : Match(n - 1, h[n - 1]) => h[n] = StoreWrites(h[n - 1], file[n])
      PROVE  \A n \in 0 .. N : Match(n, h[n])
  <2> DEFINE S == {n \in 0 .. N : Match(n, h[n])}
  <2> HIDE DEF Match
  <2>1. 0 \in S
    BY <1>1, <1>7, <1>9
  <2>2. \A n \in 1 .. N : n - 1 \in S => n \in S
    BY <1>4, <1>6, <1>9
  <2> HIDE DEF S
  <2>3. \A n \in 0 .. N : n \in S
    BY <1>1, <2>1, <2>2, InductionUpTo
  <2>4. QED  BY <2>3 DEF S
<1> HIDE DEF Match
<1>10. 0 \in 0 .. N /\ N \in 0 .. N
  BY <1>1
<1>11. PICK g : g \in Runs(N, X, base, step)
  <2>1. step \in Loop(N, X)
    BY DEF Loop, turn
  <2>2. base \in X
    BY <1>7, <1>8, <1>10
  <2> HIDE DEF step
  <2>3. QED  BY <1>1, <2>1, <2>2, PrimitiveRecursion
<1>12. /\ g \in [0 .. N -> X] /\ g[0] = base
       /\ \A n \in 1 .. N : g[n] = turn(g[n - 1], n)
  <2>1. \A n \in 1 .. N : g[n] = step[n][g[n - 1]] /\ g[n - 1] \in X
    BY <1>4, <1>11 DEF Runs
  <2>2. QED  BY <1>11, <2>1 DEF Runs
<1> HIDE DEF step
<1>13. \A n \in 1 .. N : Match(n - 1, g[n - 1]) => g[n] = StoreWrites(g[n - 1], file[n])
  BY <1>4, <1>6, <1>8, <1>12 DEF turn
<1>14. \A n \in 0 .. N : Match(n, g[n])
  BY <1>9, <1>12, <1>13
<1>15. g = [n \in 0 .. N |-> body(g, n)]
  <2>1. \A n \in 0 .. N : g[n] = body(g, n)
    <3> TAKE n \in 0 .. N
    <3>1. CASE n = 0
      BY <1>12, <3>1
    <3>2. CASE n # 0
      <4>1. n \in 1 .. N /\ n - 1 \in 0 .. N
        BY <1>1, <3>2
      <4>2. QED  BY <1>13, <1>14, <3>2, <4>1
    <3>3. QED  BY <3>1, <3>2
  <2> HIDE DEF body
  <2>2. QED  BY <1>12, <2>1
<1>16. stored = [n \in 0 .. N |-> body(stored, n)]
  BY <1>15 DEF base, N
<1>17. StoredWrites(s, file) = stored[N]
  BY DEF StoredWrites, N
<1> HIDE DEF stored
<1>18. stored[0] = base /\ \A n \in 1 .. N : stored[n] = StoreWrites(stored[n - 1], file[n])
  BY <1>4, <1>10, <1>16
<1> HIDE DEF body
<1>19. \A n \in 0 .. N : Match(n, stored[n])
  BY <1>9, <1>18
<1>20. ASSUME NEW S, Touches(s, S), Headers \subseteq S
       PROVE  TouchesFew(stored[N].s, S, N)
  <2> DEFINE few == {n \in 0 .. N : TouchesFew(stored[n].s, S, n)}
  <2>1. 0 \in few
    <3>1. IsFiniteSet({}) /\ Cardinality({}) = 0
      BY FS_EmptySet
    <3>2. S \cup {} = S /\ stored[0].s = s
      BY <1>18 DEF base
    <3>3. Cardinality({}) <= 0
      BY <3>1
    <3>4. QED  BY <1>10, <1>20, <3>1, <3>2, <3>3 DEF TouchesFew
  <2>2. ASSUME NEW n \in 1 .. N, n - 1 \in few
        PROVE  n \in few
    <3>1. PICK B : /\ IsFiniteSet(B) /\ Cardinality(B) <= n - 1
                   /\ Touches(stored[n - 1].s, S \cup B)
      BY <2>2 DEF TouchesFew
    <3>2. Match(n - 1, stored[n - 1]) /\ stored[n] = StoreWrites(stored[n - 1], file[n])
      BY <1>4, <1>18, <1>19
    <3>3. Headers \subseteq S \cup B
      BY <1>20
    <3>4. PICK b : Touches(stored[n].s, (S \cup B) \cup {b})
      BY <1>6, <3>1, <3>2, <3>3
    <3>5. n - 1 \in Nat /\ (n - 1) + 1 = n
      BY <1>1
    <3>6. TouchesFew(stored[n].s, S, (n - 1) + 1)
      BY <3>1, <3>4, <3>5, FewAndOne
    <3>7. QED  BY <1>4, <3>5, <3>6
  <2> HIDE DEF few
  <2>3. \A n \in 0 .. N : n \in few
    BY <1>1, <2>1, <2>2, InductionUpTo
  <2>4. QED  BY <1>10, <2>3 DEF few
<1>21. QED  BY <1>3, <1>10, <1>17, <1>19, <1>20 DEF Match, N

(* jfs_copyin writes what PutFile makes, to three blocks more.              *)
LEMMA CopyinWorks ==
    ASSUME NEW home, Covers(home), NEW found, DOMAIN found = home,
           NEW s, NEW v, Works(home, found, s, v),
           NEW dirs, NEW files, Sound(v, dirs, files), Room(home, v, dirs),
           NEW d \in dirs, NEW path, Len(path) \in Nat \ {0}, Last(path) \in Name \cup {".log"},
           NEW file \in Seq(Text), Len(file) <= Ptrs,
           get_free_inode(v) # None, ~Store(set_inode_used(v, get_free_inode(v)), file).full
    PROVE  LET i == get_free_inode(v)
           IN  /\ Works(home, found, CopyinWrites(s, d, path, file), PutFile(v, d, path, i, file))
               /\ \A S : Touches(s, S) /\ Headers \subseteq S
                          /\ {inode_to_block(i), inode_to_block(d), Ptr(v, d, 0)} \subseteq S
                        => TouchesFew(CopyinWrites(s, d, path, file), S, Len(file))
<1> DEFINE i == get_free_inode(v)
           v1 == set_inode_used(v, i)
           s1 == TakeInode(s, i)
           x == Store(v1, file)
           t == StoredWrites(s1, file)
           inode == FileInode(x.blocks)
           s2 == WriteInode(t.s, s1.image[inode_to_block(i)], i, FileInode(t.blocks))
           w == [x.vol EXCEPT !.inode[i] = inode]
           e == Dirent(Last(path), "file", i, EntryLen(PathLength(path)))
<1>1. /\ IsVolume(v) /\ Holdable(home, v) /\ i \in Inode /\ ~InodeUsed(v, i)
      /\ i # d /\ Open(home, v, d)
  <2>1. IsVolume(v) /\ Holdable(home, v)
    BY DEF Works, Holdable
  <2>2. i \in Inode /\ ~InodeUsed(v, i)
    BY <2>1, FreeInode
  <2>3. QED  BY <2>1, <2>2 DEF Room, Sound, InodesInv
<1> HIDE DEF i
<1>2. /\ Works(home, found, s1, v1) /\ IsVolume(v1) /\ v1.inode = v.inode /\ v1.data = v.data
      /\ v1.block_bitmap = v.block_bitmap
  BY <1>1, InodeBitWorks, SetInodeUsed
<1>3. FreeIn(home, v1)
  BY <1>2, RoomIsFree DEF FreeIn, BlockUsed
<1>4. ~x.full
  BY DEF i
<1>18. ASSUME NEW S, Touches(s, S), Headers \subseteq S
       PROVE  Touches(s1, S)
  BY <1>1, <1>18, BitTouches
<1> HIDE DEF s1, v1
<1>5. StoreMatch(home, found, t, x)
  BY <1>2, <1>3, <1>4, StoreWorks
<1>19. ASSUME NEW S, Touches(s, S), Headers \subseteq S
       PROVE  TouchesFew(t.s, S, Len(file))
  BY <1>2, <1>3, <1>4, <1>18, <1>19, StoreWorks
<1>6. x \in StoreStates(v1) /\ Len(x.blocks) = Len(file)
  <2>1. v1.data = [b \in Block |-> v1.data[b]]
    BY <1>2, HoldableIs DEF Works
  <2>2. QED  BY <1>2, <1>4, <2>1, StoreSound DEF Stored
<1>7. x.vol.inode = v.inode /\ x.blocks \in Seq(Block)
  BY <1>2, <1>6 DEF StoreStates
<1> HIDE DEF x, t
<1>8. Works(home, found, t.s, x.vol) /\ t.blocks = x.blocks
  BY <1>5 DEF StoreMatch
<1>9. s1.image[inode_to_block(i)] = BlockOf(x.vol, inode_to_block(i))
  <2>1. s1.image[inode_to_block(i)] = BlockOf(v1, inode_to_block(i))
    BY <1>1, <1>2, WorksOn
  <2>2. BlockOf(v1, inode_to_block(i)) = BlockOf(x.vol, inode_to_block(i))
    BY <1>1, <1>2, <1>7, InodePlace DEF BlockOf
  <2>3. QED  BY <2>1, <2>2
<1>10. inode \in Inodes
  <2>1. Len(x.blocks) \in 0 .. Ptrs
    BY <1>6, VolumeSizes
  <2>2. QED  BY <1>7, <2>1, FileInodeIs DEF Inodes
<1> HIDE DEF inode
<1>11. Works(home, found, s2, w)
  BY <1>1, <1>8, <1>9, <1>10, InodeWorks DEF inode
<1>12. Open(home, w, d) /\ Ptr(w, d, 0) = Ptr(v, d, 0)
  <2>1. x.vol.inode \in [Inode -> Inodes]
    BY <1>8, HoldableIs DEF Works
  <2>2. w.inode[d] = v.inode[d]
    <3>1. x.vol = [block_bitmap |-> x.vol.block_bitmap, inode_bitmap |-> x.vol.inode_bitmap,
                   inode |-> x.vol.inode, data |-> x.vol.data]
      BY <1>8, HoldableIs DEF Works
    <3>2. d \in Inode
      BY <1>1 DEF Open
    <3>3. QED  BY <1>1, <1>7, <2>1, <3>1, <3>2
  <2> HIDE DEF w
  <2>3. QED  BY <1>1, <2>2 DEF Open, Ptr, Size
<1>13. e \in Entries
  BY <1>1, PathLengthIsNat, DirentIs
<1>20. ASSUME NEW S, Touches(t.s, S), inode_to_block(i) \in S
       PROVE  Touches(s2, S)
  BY <1>20, InodeTouches
<1> HIDE DEF e, s2, w
<1> DEFINE old == InodeAt(s2, d)
           named == WriteDirent(s2, old.blockptrs[0], old.size, e)
           last == WriteInode(named, s2.image[inode_to_block(d)], d,
                              [old EXCEPT !.size = @ + e.entry_len])
<1>14. Works(home, found, last, AddEntry(w, d, e))
  BY <1>11, <1>12, <1>13, AddEntryWorks
<1>15. CopyinWrites(s, d, path, file) = last
  <2>1. get_free_inode(Decode(s.image)) = i
    BY WorksOn DEF i
  <2>2. QED  BY <2>1 DEF CopyinWrites, s1, t, s2, e
<1>16. PutFile(v, d, path, i, file) = AddEntry(w, d, e)
  BY DEF PutFile, v1, x, inode, w, e
<1>21. ASSUME NEW S, Touches(s, S), Headers \subseteq S,
              {inode_to_block(i), inode_to_block(d), Ptr(v, d, 0)} \subseteq S
       PROVE  TouchesFew(last, S, Len(file))
  <2>1. PICK B : /\ IsFiniteSet(B) /\ Cardinality(B) <= Len(file)
                 /\ Touches(t.s, S \cup B)
    BY <1>19, <1>21 DEF TouchesFew
  <2>2. {inode_to_block(i), inode_to_block(d), Ptr(v, d, 0)} \subseteq S \cup B
    BY <1>21
  <2>3. Touches(s2, S \cup B)
    BY <1>20, <2>1, <2>2
  <2>4. old.blockptrs[0] \in S \cup B
    BY <1>1, <1>11, <1>12, <2>2, WorksOn DEF Open, Ptr
  <2>5. Touches(named, S \cup B)
    BY <2>3, <2>4, DirentTouches
  <2>6. Touches(last, S \cup B)
    BY <2>2, <2>5, InodeTouches
  <2>7. QED  BY <2>1, <2>6 DEF TouchesFew
<1>17. QED  BY <1>14, <1>15, <1>16, <1>21 DEF i

(* jfs_rm returns the inode and the blocks of a file.                       *)
LEMMA FreedWorks ==
    ASSUME NEW home, Covers(home), NEW found, DOMAIN found = home,
           NEW s, NEW v, Works(home, found, s, v), NEW i \in Inode,
           Len(BlocksOf(v, i)) \in Nat,
           \A n \in 1 .. Len(BlocksOf(v, i)) : BlocksOf(v, i)[n] \in Block
    PROVE  /\ Works(home, found, FreedWrites(s, i), Freed(v, i))
           /\ \A S : Touches(s, S) /\ Headers \subseteq S => Touches(FreedWrites(s, i), S)
<1> DEFINE ptrs == BlocksOf(v, i)
           N == Len(ptrs)
           base == ReturnInode(s, i)
           X == [image : [home -> Contents], writes : Writes(home)]
           body(h, n) == IF n = 0 THEN base ELSE ReturnBlock(h[n - 1], ptrs[n])
           freed[n \in 0 .. Len(ptrs)] ==
               IF n = 0 THEN ReturnInode(s, i) ELSE ReturnBlock(freed[n - 1], ptrs[n])
           turn(t, n) == IF ReturnBlock(t, ptrs[n]) \in X THEN ReturnBlock(t, ptrs[n]) ELSE t
           step == [n \in 1 .. N |-> [t \in X |-> turn(t, n)]]
<1>1. N \in Nat /\ \A n \in 1 .. N : ptrs[n] \in Block
  OBVIOUS
<1>2. IsVolume(v) /\ Holdable(home, v)
  BY DEF Works, Holdable
<1>3. PICK f : /\ f[0] = return_inode_to_freelist(v, i)
               /\ Freed(v, i) = f[N]
               /\ \A n \in 1 .. N : f[n] = return_block_to_freelist(f[n - 1], ptrs[n])
  BY <1>2, FreedIs
<1> HIDE DEF ptrs, N, base, X, turn
<1>4. \A n \in 1 .. N : n \in 0 .. N /\ n - 1 \in 0 .. N /\ n # 0
  BY <1>1
<1> DEFINE Match(n, t) == Works(home, found, t, f[n])
<1>5. ASSUME NEW n \in 1 .. N, NEW t, Match(n - 1, t)
      PROVE  Match(n, ReturnBlock(t, ptrs[n]))
  <2>1. f[n] = return_block_to_freelist(f[n - 1], ptrs[n]) /\ ptrs[n] \in Block
    BY <1>1, <1>3
  <2>2. Works(home, found, ReturnBlock(t, ptrs[n]), return_block_to_freelist(f[n - 1], ptrs[n]))
    BY <1>5, <2>1, BlockBitWorks
  <2>3. QED  BY <2>1, <2>2
<1>6. Match(0, base)
  BY <1>3, InodeBitWorks DEF base
<1>7. ASSUME NEW n \in 0 .. N, NEW t, Match(n, t)
      PROVE  t \in X
  <2>1. t = [image |-> t.image, writes |-> t.writes] /\ t.writes \in Writes(home)
        /\ t.image = ImageOf(home, f[n]) /\ Holdable(home, f[n])
    BY <1>7 DEF Works
  <2>2. t.image \in [home -> Contents]
    BY <2>1, BlockIs DEF Covers, ImageOf
  <2>3. QED  BY <2>1, <2>2 DEF X
<1>8. ASSUME NEW h, h[0] = base,
             \A n \in 1 .. N : Match(n - 1, h[n - 1]) => h[n] = ReturnBlock(h[n - 1], ptrs[n])
      PROVE  \A n \in 0 .. N : Match(n, h[n])
  <2> DEFINE S == {n \in 0 .. N : Match(n, h[n])}
  <2> HIDE DEF Match
  <2>1. 0 \in S
    BY <1>1, <1>6, <1>8
  <2>2. \A n \in 1 .. N : n - 1 \in S => n \in S
    BY <1>4, <1>5, <1>8
  <2> HIDE DEF S
  <2>3. \A n \in 0 .. N : n \in S
    BY <1>1, <2>1, <2>2, InductionUpTo
  <2>4. QED  BY <2>3 DEF S
<1> HIDE DEF Match
<1>9. 0 \in 0 .. N /\ N \in 0 .. N
  BY <1>1
<1>10. PICK g : g \in Runs(N, X, base, step)
  <2>1. step \in Loop(N, X)
    BY DEF Loop, turn
  <2>2. base \in X
    BY <1>6, <1>7, <1>9
  <2> HIDE DEF step
  <2>3. QED  BY <1>1, <2>1, <2>2, PrimitiveRecursion
<1>11. /\ g \in [0 .. N -> X] /\ g[0] = base
       /\ \A n \in 1 .. N : g[n] = turn(g[n - 1], n)
  <2>1. \A n \in 1 .. N : g[n] = step[n][g[n - 1]] /\ g[n - 1] \in X
    BY <1>4, <1>10 DEF Runs
  <2>2. QED  BY <1>10, <2>1 DEF Runs
<1> HIDE DEF step
<1>12. \A n \in 1 .. N : Match(n - 1, g[n - 1]) => g[n] = ReturnBlock(g[n - 1], ptrs[n])
  BY <1>4, <1>5, <1>7, <1>11 DEF turn
<1>13. \A n \in 0 .. N : Match(n, g[n])
  BY <1>8, <1>11, <1>12
<1>14. g = [n \in 0 .. N |-> body(g, n)]
  <2>1. \A n \in 0 .. N : g[n] = body(g, n)
    <3> TAKE n \in 0 .. N
    <3>1. CASE n = 0
      BY <1>11, <3>1
    <3>2. CASE n # 0
      <4>1. n \in 1 .. N /\ n - 1 \in 0 .. N
        BY <1>1, <3>2
      <4>2. QED  BY <1>12, <1>13, <3>2, <4>1
    <3>3. QED  BY <3>1, <3>2
  <2> HIDE DEF body
  <2>2. QED  BY <1>11, <2>1
<1>15. freed = [n \in 0 .. N |-> body(freed, n)]
  BY <1>14 DEF base, N
<1>16. FreedWrites(s, i) = freed[N]
  <2>1. Decode(s.image) = v
    BY WorksOn
  <2>2. QED  BY <2>1 DEF FreedWrites, N, ptrs
<1> HIDE DEF freed
<1>17. freed[0] = base /\ \A n \in 1 .. N : freed[n] = ReturnBlock(freed[n - 1], ptrs[n])
  BY <1>4, <1>9, <1>15
<1> HIDE DEF body
<1>18. Match(N, freed[N])
  BY <1>8, <1>9, <1>17
<1>19. ASSUME NEW S, Touches(s, S), Headers \subseteq S
       PROVE  Touches(freed[N], S)
  <2> DEFINE in == {n \in 0 .. N : Touches(freed[n], S)}
  <2>1. 0 \in in
    BY <1>9, <1>17, <1>19, BitTouches DEF base
  <2>2. \A n \in 1 .. N : n - 1 \in in => n \in in
    BY <1>1, <1>4, <1>17, <1>19, BitTouches
  <2> HIDE DEF in
  <2>3. \A n \in 0 .. N : n \in in
    BY <1>1, <2>1, <2>2, InductionUpTo
  <2>4. QED  BY <1>9, <2>3 DEF in
<1>20. QED  BY <1>3, <1>16, <1>18, <1>19 DEF Match

(* The first transaction of jfs_rm writes what RemoveFile makes.            *)
LEMMA RmWorks ==
    ASSUME NEW home, Covers(home), NEW found, DOMAIN found = home,
           NEW s, NEW v, Works(home, found, s, v),
           NEW dirs, NEW files, Sound(v, dirs, files), Room(home, v, dirs),
           NEW path \in Path, rmResult(v, path) = "rm"
    PROVE  /\ Works(home, found, RmWrites(s, path), Removed(v, path))
           /\ \A S : /\ Touches(s, S) /\ Headers \subseteq S
                     /\ Ptr(v, DirOf(v, path, {"dir"}), 0) \in S
                   => Touches(RmWrites(s, path), S)
<1> DEFINE d == DirOf(v, path, {"dir"})
           k == FoundAt(v, path)
           i == FoundEntry(v, path).inode
           b == Ptr(v, d, 0)
           w == Freed(v, i)
           t == FreedWrites(s, i)
           dir == Dirents(v, b)
           x == CutEntry(dir, k)
<1>1. /\ d \in dirs /\ k \in DOMAIN dir /\ i \in files
      /\ RemovedFrom(v, Removed(v, path), b, k, i)
  BY RemoveIs
<1>2. Removed(v, path) = RemoveFile(v, d, k, i)
  BY DEF Removed
<1>3. RmWrites(s, path) = WriteBlock(t, b, DataBlock(CutEntry(s.image[b].data, k)))
  <2>1. Decode(s.image) = v
    BY WorksOn
  <2>2. QED  BY <2>1 DEF RmWrites, Ptr
<1>11. ASSUME NEW S, Touches(t, S), b \in S, NEW c
       PROVE  Touches(WriteBlock(t, b, c), S)
  BY <1>11, WriteTouches
<1> HIDE DEF d, k, i
<1>4. Open(home, v, d) /\ b \in home /\ ~IsHeader(b) /\ b \in Block /\ i \in Inode
  BY <1>1 DEF Room, Open, Covers, Sound, InodesInv
<1> HIDE DEF b
<1>5. /\ Works(home, found, t, w) /\ w.data = v.data /\ IsVolume(w)
      /\ \A S : Touches(s, S) /\ Headers \subseteq S => Touches(t, S)
  <2>1. /\ Len(BlocksOf(v, i)) = Size(v, i)
        /\ \A n \in 1 .. Size(v, i) : BlocksOf(v, i)[n] \in Block
    BY <1>1, BlocksOfFile
  <2>2. Size(v, i) \in Nat
    BY <1>1 DEF Sound, FileInv
  <2>3. IsVolume(v)
    BY DEF Works, Holdable
  <2>4. QED  BY <1>4, <2>1, <2>2, <2>3, FreedWorks, FreedSound
<1>6. s.image[b].data = dir /\ v.data[b] = dir
  <2>1. s.image[b].data = v.data[b]
    BY <1>4, WorksOn
  <2>2. dir = v.data[b]
    BY <1>1 DEF Dirents, AsDir, NoEntries
  <2>3. QED  BY <2>1, <2>2
<1> HIDE DEF t, w, dir
<1>7. Removed(v, path) = [w EXCEPT !.data[b] = x]
  <2>1. RemoveFile(v, d, k, i) = [w EXCEPT !.data[b] = CutEntry(AsDir(@), k)]
    BY DEF RemoveFile, Ptr, w, b
  <2>2. AsDir(w.data[b]) = dir
    BY <1>5 DEF dir, Dirents
  <2>3. [w EXCEPT !.data[b] = CutEntry(AsDir(@), k)] = [w EXCEPT !.data[b] = CutEntry(AsDir(w.data[b]), k)]
    OBVIOUS
  <2>4. QED  BY <1>2, <2>1, <2>2, <2>3
<1>8. x \in Text \cup Directory
  <2>1. w.data = [c \in Block |-> w.data[c]]
        /\ w = [block_bitmap |-> w.block_bitmap, inode_bitmap |-> w.inode_bitmap,
                inode |-> w.inode, data |-> w.data]
    BY <1>5, HoldableIs DEF Works
  <2>2. [w EXCEPT !.data[b] = x].data[b] = x
    BY <1>4, <2>1
  <2>3. Removed(v, path).data[b] = x
    BY <1>7, <2>2
  <2>4. x = [o \in DOMAIN x |-> x[o]]
    BY DEF CutEntry
  <2> HIDE DEF x
  <2>5. CASE x \notin Text
    <3>1. Dirents(Removed(v, path), b) = x
      BY <2>3, <2>5 DEF Dirents, AsDir
    <3>2. \A o \in DOMAIN x : o \in 0 .. BlockSize - DirentSize /\ x[o] \in Entries
      BY <1>1, <1>4, <3>1 DEF RemovedFrom, VolumeOK
    <3>3. DOMAIN x \in SUBSET (0 .. BlockSize - DirentSize) /\ x \in [DOMAIN x -> Entries]
      BY <2>4, <3>2
    <3>4. QED  BY <3>3 DEF Directory
  <2>6. QED  BY <2>5
<1> HIDE DEF x
<1>9. Works(home, found, WriteBlock(t, b, DataBlock(x)), [w EXCEPT !.data[b] = x])
  BY <1>4, <1>5, <1>8, DataWorks
<1>12. ASSUME NEW S, Touches(s, S), Headers \subseteq S, b \in S
       PROVE  Touches(RmWrites(s, path), S)
  BY <1>3, <1>5, <1>11, <1>12
<1>10. QED  BY <1>3, <1>6, <1>7, <1>9, <1>12 DEF x, b, d

(* Its second one writes the size of the directory.                         *)
LEMMA ResizeWorks ==
    ASSUME NEW home, Covers(home), NEW found, DOMAIN found = home,
           NEW s, NEW v, Works(home, found, s, v),
           NEW r, r.dir \in Inode, r.size \in Nat
    PROVE  /\ Works(home, found, ResizeWrites(s, r), Resized(v, r))
           /\ \A S : Touches(s, S) /\ inode_to_block(r.dir) \in S => Touches(ResizeWrites(s, r), S)
<1> DEFINE d == r.dir
           x == [v.inode[d] EXCEPT !.size = r.size]
<1>1. InodeAt(s, d) = v.inode[d] /\ s.image[inode_to_block(d)] = BlockOf(v, inode_to_block(d))
  BY WorksOn
<1>2. v.inode \in [Inode -> Inodes]
      /\ v = [block_bitmap |-> v.block_bitmap, inode_bitmap |-> v.inode_bitmap,
              inode |-> v.inode, data |-> v.data]
  BY HoldableIs DEF Works
<1>3. x \in Inodes
  BY <1>2 DEF Inodes
<1>4. Resized(v, r) = [v EXCEPT !.inode[d] = x]
  BY <1>2 DEF Resized
<1> HIDE DEF x
<1>5. Works(home, found, WriteInode(s, s.image[inode_to_block(d)], d, x), [v EXCEPT !.inode[d] = x])
  BY <1>1, <1>3, InodeWorks
<1>6. ResizeWrites(s, r) = WriteInode(s, s.image[inode_to_block(d)], d, x)
  BY <1>1 DEF ResizeWrites, x
<1>7. QED  BY <1>4, <1>5, <1>6, InodeTouches

-----------------------------------------------------------------------------
(* jfs_format.                                                              *)

(* A block of inodes has inodes, and no other block has.                    *)
LEMMA InodesInIs ==
    ASSUME NEW b \in Block
    PROVE  InodesIn(b) # {} <=> IsHeader(b) /\ b % BlocksPerGroup # 0
<1>1. ASSUME InodesIn(b) # {}
      PROVE  IsHeader(b) /\ b % BlocksPerGroup # 0
  <2>1. PICK i \in Inode : inode_to_block(i) = b
    BY <1>1 DEF InodesIn
  <2>2. QED  BY <2>1, InodePlace
<1>2. ASSUME IsHeader(b), b % BlocksPerGroup # 0
      PROVE  InodesIn(b) # {}
  <2> DEFINE P == BlocksPerGroup
             Q == InodesPerGroup \div InodesPerBlock
             g == b \div P
             m == (b % P) - 1
             r == m * InodesPerBlock
             i == g * InodesPerGroup + r
  <2>1. g \in 0 .. Groups - 1 /\ b % P \in 0 .. P - 1 /\ b \in Nat /\ b = g * P + (b % P)
    <3>1. b \in 0 .. Groups * P - 1
      BY DEF Block
    <3>2. b \in Nat
      BY <3>1, Sizes
    <3>3. QED  BY <3>1, <3>2, Sizes, QuotientInRange, DivMod
  <2>2. Q \in Nat /\ Q * InodesPerBlock <= InodesPerGroup
    <3>1. /\ InodesPerGroup % InodesPerBlock \in Nat /\ Q \in Nat
          /\ InodesPerGroup = Q * InodesPerBlock + (InodesPerGroup % InodesPerBlock)
      BY Sizes, DivMod
    <3> HIDE DEF Q
    <3>2. Q * InodesPerBlock \in Nat
      BY <3>1, Sizes
    <3>3. QED  BY <3>1, <3>2, Sizes
  <2>3. b % P < 1 + Q
    BY <1>2 DEF IsHeader, DataBlockOffset
  <2> HIDE DEF Q
  <2>4. m \in 0 .. Q - 1 /\ Q \in Nat \ {0} /\ 1 + m = b % P
    BY <1>2, <2>1, <2>2, <2>3
  <2> HIDE DEF m
  <2>5. r \in 0 .. InodesPerGroup - 1 /\ r \div InodesPerBlock = m
    <3>1. m * InodesPerBlock + 0 \in 0 .. Q * InodesPerBlock - 1
      BY <2>4, Sizes, ProductInRange
    <3>2. (m * InodesPerBlock + 0) \div InodesPerBlock = m
      BY <2>4, Sizes, DivModOf
    <3>3. m * InodesPerBlock \in Nat /\ Q * InodesPerBlock \in Nat
      BY <2>2, <2>4, Sizes
    <3>4. r = m * InodesPerBlock + 0
      BY <3>3
    <3>5. r \div InodesPerBlock = m
      BY <3>2, <3>4
    <3>6. r \in 0 .. InodesPerGroup - 1
      BY <2>2, <3>1, <3>3, <3>4, Sizes
    <3>7. QED  BY <3>5, <3>6
  <2> HIDE DEF r, g
  <2>6. i \in Inode /\ i \div InodesPerGroup = g /\ i % InodesPerGroup = r
    <3>1. i \in 0 .. Groups * InodesPerGroup - 1
      BY <2>1, <2>5, Sizes, ProductInRange
    <3>2. g \in Nat
      BY <2>1, Sizes
    <3>3. QED  BY <2>5, <3>1, <3>2, Sizes, DivModOf DEF Inode
  <2> HIDE DEF i
  <2>7. inode_to_block(i) = g * P + 1 + m
    BY <2>5, <2>6 DEF inode_to_block
  <2>8. g * P + 1 + m = b
    <3>1. g * P \in Nat
      BY <2>1, Sizes
    <3>2. QED  BY <2>1, <2>4, <3>1
  <2>9. QED  BY <2>6, <2>7, <2>8 DEF InodesIn
<1>3. QED  BY <1>1, <1>2

(* The image file as jfs_format finds it.                                   *)
Blanks == [b \in Block |-> Blank(b)]

LEMMA NewGroupsHoldable == Holdable(Block, NewGroups)
<1>1. InodeOf(None, None) \in Inodes
  BY InodeOfIs DEF Inodes
<1>2. NoEntries \in Directory
  <2>1. NoEntries \in [{} -> Entries]
    BY DEF NoEntries
  <2>2. QED  BY <2>1 DEF Directory
<1>3. QED  BY <1>1, <1>2, NewGroupsIs DEF Holdable

(* Of a new group only the header is not blank.                             *)
LEMMA BlankIs ==
    ASSUME NEW b \in Block
    PROVE  /\ Blank(b) \in Contents
           /\ b % BlocksPerGroup # 0 => Blank(b) = BlockOf(NewGroups, b)
<1>1. NewGroups.inode = [i \in Inode |-> InodeOf(None, None)]
      /\ NewGroups.data = [c \in Block |-> NoEntries]
  BY NewGroupsIs
<1>2. \A i \in InodesIn(b) : NewGroups.inode[i] = InodeOf(None, None)
  BY <1>1 DEF InodesIn
<1>3. b % BlocksPerGroup # 0 => Blank(b) = BlockOf(NewGroups, b)
  BY <1>1, <1>2, InodesInIs DEF Blank, BlockOf
<1>4. Blank(b) \in Contents
  <2>1. CASE b % BlocksPerGroup # 0
    BY <1>3, <2>1, NewGroupsHoldable, BlockIs
  <2>2. CASE b % BlocksPerGroup = 0
    <3>1. Blank(b) = DataBlock(NoEntries)
      BY <2>2, InodesInIs DEF Blank
    <3>2. NoEntries \in Text \cup Directory
      BY <1>1, NewGroupsHoldable DEF Holdable
    <3>3. QED  BY <3>1, <3>2 DEF Contents, DataContent
  <2>3. QED  BY <2>1, <2>2
<1>5. QED  BY <1>3, <1>4

(* The image with the headers of the first groups.                          *)
HeadersOf(n) ==
    [b \in Block |-> IF b % BlocksPerGroup = 0 /\ b \div BlocksPerGroup < n
                     THEN BlockOf(NewGroups, b) ELSE Blank(b)]

LEMMA OneHeader ==
    ASSUME NEW n \in 1 .. Groups
    PROVE  LET b == (n - 1) * BlocksPerGroup
           IN  /\ b \in Block
               /\ HeadersOf(n) = [HeadersOf(n - 1) EXCEPT ![b] = BlockOf(NewGroups, b)]
<1> DEFINE b == (n - 1) * BlocksPerGroup
<1>1. n - 1 \in Group /\ n - 1 \in Nat
  BY Sizes DEF Group
<1>2. b \in Block /\ b % BlocksPerGroup = 0 /\ b \div BlocksPerGroup = n - 1
  BY <1>1, HeaderPlace
<1> HIDE DEF b
<1>3. ASSUME NEW c \in Block
      PROVE  HeadersOf(n)[c] = IF c = b THEN BlockOf(NewGroups, b) ELSE HeadersOf(n - 1)[c]
  <2>1. c \div BlocksPerGroup \in 0 .. Groups - 1 /\ c \in Nat /\ b \in Nat
    <3>1. c \in 0 .. Groups * BlocksPerGroup - 1 /\ b \in 0 .. Groups * BlocksPerGroup - 1
      BY <1>2 DEF Block
    <3>2. c \div BlocksPerGroup \in 0 .. Groups - 1
      BY <3>1, Sizes, QuotientInRange
    <3>3. QED  BY <3>1, <3>2, Sizes
  <2>2. c % BlocksPerGroup = 0 /\ c \div BlocksPerGroup = n - 1 <=> c = b
    BY <1>2, <2>1, Sizes, BitsApart
  <2>3. c \div BlocksPerGroup < n <=> c \div BlocksPerGroup < n - 1 \/ c \div BlocksPerGroup = n - 1
    BY <1>1, <2>1
  <2>4. ~(n - 1 < n - 1)
    BY <1>1
  <2>5. QED  BY <2>2, <2>3, <2>4 DEF HeadersOf
<1>4. HeadersOf(n) = [HeadersOf(n - 1) EXCEPT ![b] = BlockOf(NewGroups, b)]
  BY <1>3 DEF HeadersOf
<1>5. QED  BY <1>2, <1>4 DEF b

(* jfs_format writes the headers of the groups.                             *)
LEMMA GroupsWork == Works(Block, Blanks, GroupWrites, NewGroups)
<1> DEFINE base == [image |-> [b \in Block |-> Blank(b)], writes |-> <<>>]
           X == [image : [Block -> Contents], writes : Writes(Block)]
           body(h, n) == IF n = 0 THEN base ELSE WriteHeader(h[n - 1], n - 1, NewGroups)
           groups[g \in 0 .. Groups] ==
               IF g = 0 THEN [image |-> [b \in Block |-> Blank(b)], writes |-> <<>>]
                        ELSE WriteHeader(groups[g - 1], g - 1, NewGroups)
           step == [n \in 1 .. Groups |-> [t \in X |-> WriteHeader(t, n - 1, NewGroups)]]
           Match(n, t) == /\ t \in X
                          /\ t.image = HeadersOf(n)
                          /\ t.image = After(Blanks, t.writes)
<1>1. Groups \in Nat
  BY Sizes
<1>2. \A n \in 1 .. Groups : n \in 0 .. Groups /\ n - 1 \in 0 .. Groups /\ n # 0
  BY <1>1
<1>3. ASSUME NEW n \in 1 .. Groups, NEW t \in X
      PROVE  LET b == (n - 1) * BlocksPerGroup
                 x == BlockOf(NewGroups, b)
                 w == WriteHeader(t, n - 1, NewGroups)
             IN  /\ b \in Block /\ x \in Contents
                 /\ w.image = [t.image EXCEPT ![b] = x]
                 /\ w.writes = Append(t.writes, [blocknum |-> b, blockdata |-> x])
                 /\ w \in X
  <2> DEFINE b == (n - 1) * BlocksPerGroup
             x == BlockOf(NewGroups, b)
             w == WriteHeader(t, n - 1, NewGroups)
  <2>1. b \in Block
    BY OneHeader
  <2>2. b % BlocksPerGroup = 0 /\ b \div BlocksPerGroup = n - 1
    <3>1. n - 1 \in Group
      BY Sizes DEF Group
    <3>2. QED  BY <3>1, HeaderPlace
  <2>3. x \in Contents
    BY <2>1, NewGroupsHoldable, BlockIs
  <2>4. w = WriteBlock(t, b, x)
    BY <2>2 DEF WriteHeader, BlockOf
  <2> HIDE DEF b, x, w
  <2>5. w = [image |-> [t.image EXCEPT ![b] = x],
             writes |-> Append(t.writes, [blocknum |-> b, blockdata |-> x])]
    BY <2>4 DEF WriteBlock
  <2>6. [t.image EXCEPT ![b] = x] \in [Block -> Contents]
    BY <2>1, <2>3
  <2>7. Append(t.writes, [blocknum |-> b, blockdata |-> x]) \in Writes(Block)
    BY <2>1, <2>3 DEF Writes
  <2>8. /\ w.image = [t.image EXCEPT ![b] = x]
        /\ w.writes = Append(t.writes, [blocknum |-> b, blockdata |-> x])
        /\ w \in X
    BY <2>5, <2>6, <2>7
  <2>9. QED  BY <2>1, <2>3, <2>8 DEF b, x, w
<1> HIDE DEF X
<1>4. Match(0, base)
  <2>1. base \in X
    BY BlankIs DEF X, Writes
  <2>2. base.image = Blanks /\ base.writes = <<>>
    BY DEF Blanks
  <2>3. HeadersOf(0) = Blanks
    <3>1. \A b \in Block : ~(b \div BlocksPerGroup < 0)
      BY Sizes, QuotientInRange DEF Block
    <3>2. QED  BY <3>1 DEF HeadersOf, Blanks
  <2>4. After(Blanks, <<>>) = Blanks
    BY AfterNone DEF Blanks
  <2> HIDE DEF base
  <2>5. QED  BY <2>1, <2>2, <2>3, <2>4
<1>5. ASSUME NEW n \in 1 .. Groups, NEW t, Match(n - 1, t)
      PROVE  Match(n, WriteHeader(t, n - 1, NewGroups))
  <2> DEFINE b == (n - 1) * BlocksPerGroup
             x == BlockOf(NewGroups, b)
             w == WriteHeader(t, n - 1, NewGroups)
  <2>1. /\ b \in Block /\ x \in Contents /\ w \in X
        /\ w.image = [t.image EXCEPT ![b] = x]
        /\ w.writes = Append(t.writes, [blocknum |-> b, blockdata |-> x])
    BY <1>3, <1>5
  <2>2. HeadersOf(n) = [HeadersOf(n - 1) EXCEPT ![b] = x]
    BY OneHeader
  <2> HIDE DEF b, x, w
  <2>3. w.image = HeadersOf(n)
    BY <1>5, <2>1, <2>2
  <2>4. t.writes \in Writes(Block)
    BY <1>5 DEF X
  <2>5. DOMAIN Blanks = Block
    BY DEF Blanks
  <2>6. After(Blanks, w.writes) = [After(Blanks, t.writes) EXCEPT ![b] = x]
    BY <2>1, <2>4, <2>5, AfterAppend
  <2>7. w.image = After(Blanks, w.writes)
    BY <1>5, <2>1, <2>6
  <2>8. QED  BY <2>1, <2>3, <2>7 DEF w
<1>6. ASSUME NEW h, h[0] = base,
             \A n \in 1 .. Groups : Match(n - 1, h[n - 1]) => h[n] = WriteHeader(h[n - 1], n - 1, NewGroups)
      PROVE  \A n \in 0 .. Groups : Match(n, h[n])
  <2> DEFINE S == {n \in 0 .. Groups : Match(n, h[n])}
  <2> HIDE DEF Match
  <2>1. 0 \in S
    BY <1>1, <1>4, <1>6
  <2>2. \A n \in 1 .. Groups : n - 1 \in S => n \in S
    BY <1>2, <1>5, <1>6
  <2> HIDE DEF S
  <2>3. \A n \in 0 .. Groups : n \in S
    BY <1>1, <2>1, <2>2, InductionUpTo
  <2>4. QED  BY <2>3 DEF S
<1>7. 0 \in 0 .. Groups /\ Groups \in 0 .. Groups
  BY <1>1
<1> HIDE DEF base
<1>8. PICK g : g \in Runs(Groups, X, base, step)
  <2>1. step \in Loop(Groups, X)
    BY <1>3 DEF Loop
  <2>2. base \in X
    BY <1>4
  <2> HIDE DEF step
  <2>3. QED  BY <1>1, <2>1, <2>2, PrimitiveRecursion
<1>9. /\ g \in [0 .. Groups -> X] /\ g[0] = base
      /\ \A n \in 1 .. Groups : g[n] = WriteHeader(g[n - 1], n - 1, NewGroups)
  <2>1. \A n \in 1 .. Groups : g[n] = step[n][g[n - 1]] /\ g[n - 1] \in X
    BY <1>2, <1>8 DEF Runs
  <2>2. QED  BY <1>8, <2>1 DEF Runs
<1> HIDE DEF step
<1>10. g = [n \in 0 .. Groups |-> body(g, n)]
  <2>1. \A n \in 0 .. Groups : g[n] = body(g, n)
    <3> TAKE n \in 0 .. Groups
    <3>1. CASE n = 0
      BY <1>9, <3>1
    <3>2. CASE n # 0
      <4>1. n \in 1 .. Groups
        BY <1>1, <3>2
      <4>2. QED  BY <1>9, <3>2, <4>1
    <3>3. QED  BY <3>1, <3>2
  <2> HIDE DEF body
  <2>2. QED  BY <1>9, <2>1
<1>11. groups = [n \in 0 .. Groups |-> body(groups, n)]
  BY <1>10 DEF base
<1>12. GroupWrites = groups[Groups]
  BY DEF GroupWrites
<1> HIDE DEF groups
<1>13. groups[0] = base
       /\ \A n \in 1 .. Groups : groups[n] = WriteHeader(groups[n - 1], n - 1, NewGroups)
  BY <1>2, <1>7, <1>11
<1> HIDE DEF body, Match
<1>14. Match(Groups, groups[Groups])
  BY <1>6, <1>7, <1>13
<1> DEFINE s == groups[Groups]
<1> HIDE DEF s
<1>15. s \in X /\ s.image = HeadersOf(Groups) /\ s.image = After(Blanks, s.writes)
  BY <1>14 DEF Match, s
<1>16. HeadersOf(Groups) = ImageOf(Block, NewGroups)
  <2>1. \A b \in Block : b \div BlocksPerGroup < Groups
    BY Sizes, QuotientInRange DEF Block
  <2>2. QED  BY <2>1, BlankIs DEF HeadersOf, ImageOf
<1>17. QED  BY <1>12, <1>15, <1>16, NewGroupsHoldable DEF Works, X, s

(* It writes the inode of the root, and new inodes beside it.               *)
LEMMA RootWorks ==
    ASSUME NEW b \in Block, ~IsHeader(b),
           NEW s, Works(Block, Blanks, s, set_block_used(set_inode_used(NewGroups, Root), b))
    PROVE  LET c == inode_to_block(Root)
           IN  /\ Works(Block, Blanks,
                        WriteBlock(s, c, InodeBlock(RootInodes(s.image[c].inodes, Root, b))),
                        RootVolume(b))
               /\ Open(Block, RootVolume(b), Root)
<1> DEFINE c == inode_to_block(Root)
           x == set_inode_used(NewGroups, Root)
           y == set_block_used(x, b)
           w == RootVolume(b)
           root == [InodeOf(0, None) EXCEPT !.blockptrs[0] = b]
<1>1. Root \in Inode /\ c \in Block /\ c % BlocksPerGroup # 0 /\ IsHeader(c)
  BY InodeNumbers, InodePlace
<1> HIDE DEF c
<1>2. ~BlockUsed(NewGroups, b)
  BY NewGroupsIs
<1>3. Ptr(w, Root, 0) = b /\ Size(w, Root) = 0 /\ VolumeOK(w)
  BY <1>2, RootSound DEF Sound
<1>4. Holdable(Block, y)
      /\ y = [block_bitmap |-> y.block_bitmap, inode_bitmap |-> y.inode_bitmap,
              inode |-> y.inode, data |-> y.data]
      /\ y.inode \in [Inode -> Inodes]
  BY HoldableIs DEF Works
<1> HIDE DEF y
<1>5. w = [block_bitmap |-> y.block_bitmap, inode_bitmap |-> y.inode_bitmap,
           inode |-> RootInodes(y.inode, Root, b), data |-> y.data]
  BY <1>4 DEF RootVolume, y, x
<1>6. /\ w.block_bitmap = y.block_bitmap /\ w.inode_bitmap = y.inode_bitmap
      /\ w.inode = RootInodes(y.inode, Root, b) /\ w.data = y.data
  BY <1>5
<1> HIDE DEF w
<1>7. Holdable(Block, w)
  <2>1. w.inode \in [Inode -> Inodes] /\ IsVolume(w)
    BY <1>3 DEF VolumeOK, Inodes
  <2>2. QED  BY <1>4, <1>6, <2>1 DEF Holdable
<1>8. \A i \in Inode : w.inode[i] = IF i = Root THEN root
                                    ELSE IF inode_to_block(i) = c THEN InodeOf(0, 0)
                                    ELSE y.inode[i]
  BY <1>4, <1>6 DEF RootInodes, c
<1>9. ASSUME NEW a \in Block, a # c
      PROVE  BlockOf(w, a) = BlockOf(y, a)
  <2>1. \A i \in InodesIn(a) : w.inode[i] = y.inode[i]
    BY <1>8, <1>9 DEF InodesIn, c
  <2>2. [i \in InodesIn(a) |-> w.inode[i]] = [i \in InodesIn(a) |-> y.inode[i]]
    BY <2>1
  <2>3. QED  BY <1>6, <2>2 DEF BlockOf
<1>10. BlockOf(w, c) = InodeBlock(RootInodes(s.image[c].inodes, Root, b))
  <2>1. s.image[c] = BlockOf(y, c)
    BY <1>1 DEF Works, ImageOf, y, x
  <2>2. /\ BlockOf(y, c) = InodeBlock([i \in InodesIn(c) |-> y.inode[i]])
        /\ BlockOf(w, c) = InodeBlock([i \in InodesIn(c) |-> w.inode[i]])
    BY <1>1 DEF BlockOf
  <2> DEFINE f == [i \in InodesIn(c) |-> y.inode[i]]
  <2>3. s.image[c].inodes = f
    BY <2>1, <2>2 DEF InodeBlock
  <2>4. RootInodes(f, Root, b) = [i \in InodesIn(c) |->
                                    IF i = Root THEN root
                                    ELSE IF inode_to_block(i) = c THEN InodeOf(0, 0)
                                    ELSE y.inode[i]]
    BY DEF RootInodes, c
  <2>5. \A i \in InodesIn(c) : w.inode[i] = IF i = Root THEN root
                                            ELSE IF inode_to_block(i) = c THEN InodeOf(0, 0)
                                            ELSE y.inode[i]
    BY <1>8 DEF InodesIn
  <2> HIDE DEF f
  <2>6. RootInodes(f, Root, b) = [i \in InodesIn(c) |-> w.inode[i]]
    BY <2>4, <2>5
  <2>7. QED  BY <2>2, <2>3, <2>6
<1>11. DOMAIN Blanks = Block /\ Works(Block, Blanks, s, y) /\ Covers(Block)
  BY HomeCovers DEF Blanks, y, x
<1>12. Works(Block, Blanks, WriteBlock(s, c, BlockOf(w, c)), w)
  BY <1>1, <1>7, <1>9, <1>11, WriteWorks
<1>13. Open(Block, w, Root)
  BY <1>1, <1>3 DEF Open, w
<1>14. QED  BY <1>10, <1>12, <1>13 DEF c, w

(* jfs_format writes the volume that Volume starts with.                    *)
LEMMA FormatWorks ==
    Works(Block, Blanks, FormatWrites, create_log_file(create_fs_root(NewGroups)))
<1> DEFINE b == get_free_block(NewGroups)
           x == RootVolume(b)
           y == AddDir(x, Root, ".", Root)
           i == get_free_inode(NewRoot)
           path == <<".log">>
           c == inode_to_block(Root)
           taken == TakeBlock(TakeInode(GroupWrites, Root), b)
           root == WriteBlock(taken, c, InodeBlock(RootInodes(taken.image[c].inodes, Root, b)))
           dot == NameDir(root, Root, ".", Root)
           named == NameDir(dot, Root, "..", Root)
<1>1. /\ b \in Block /\ ~BlockUsed(NewGroups, b)
      /\ i # None /\ ~Store(set_inode_used(NewRoot, i), LogFile).full
      /\ LogFile \in Seq(Text) /\ Len(LogFile) <= Ptrs
      /\ Len(path) \in Nat \ {0} /\ Last(path) \in Name \cup {".log"}
      /\ create_log_file(create_fs_root(NewGroups)) = PutFile(NewRoot, Root, path, i, LogFile)
  BY FormatIs
<1>2. Root \in Inode /\ ~IsHeader(b)
  BY <1>1, InodeNumbers, NewGroupsIs
<1>3. DOMAIN Blanks = Block /\ Covers(Block)
  BY HomeCovers DEF Blanks
<1>4. FormatWrites = CopyinWrites(named, Root, path, LogFile)
  <2>1. Decode(GroupWrites.image) = NewGroups
    BY <1>3, GroupsWork, WorksOn
  <2>2. QED  BY <2>1, RootIsFirst DEF FormatWrites
<1>5. NewRoot = AddDir(y, Root, "..", Root)
  BY DEF NewRoot
<1> HIDE DEF b
<1>6. Works(Block, Blanks, taken, set_block_used(set_inode_used(NewGroups, Root), b))
  BY <1>1, <1>2, <1>3, GroupsWork, InodeBitWorks, BlockBitWorks
<1> HIDE DEF taken
<1>7. Works(Block, Blanks, root, x) /\ Open(Block, x, Root)
  BY <1>1, <1>2, <1>6, RootWorks
<1>8. Sound(x, {Root}, {})
  BY <1>1, RootSound
<1> HIDE DEF root, x
<1>9. Works(Block, Blanks, dot, y) /\ Open(Block, y, Root)
  BY <1>2, <1>3, <1>7, NameDirWorks
<1>10. Sound(y, {Root}, {})
  BY <1>8, AddDirSound DEF DirEntryOK
<1> HIDE DEF dot, y
<1>11. Works(Block, Blanks, named, NewRoot) /\ Open(Block, NewRoot, Root)
  BY <1>2, <1>3, <1>5, <1>9, NameDirWorks
<1>12. Sound(NewRoot, {Root}, {})
  BY <1>5, <1>10, AddDirSound DEF DirEntryOK
<1> HIDE DEF named, path, i
<1>13. Room(Block, NewRoot, {Root})
  BY <1>11 DEF Room
<1> DEFINE dirs == {Root}
           files == {}
<1>14. Sound(NewRoot, dirs, files) /\ Room(Block, NewRoot, dirs) /\ Root \in dirs
  BY <1>12, <1>13
<1> HIDE DEF dirs, files
<1>15. Works(Block, Blanks, CopyinWrites(named, Root, path, LogFile),
             PutFile(NewRoot, Root, path, i, LogFile))
  BY <1>1, <1>3, <1>11, <1>14, CopyinWorks DEF i
<1>16. QED  BY <1>1, <1>4, <1>15

-----------------------------------------------------------------------------
(* The blocks of .log.                                                      *)

(* The numbers of the first group.                                          *)
LEMMA FirstGroup ==
    ASSUME NEW n \in 0 .. BlocksPerGroup - 1
    PROVE  n \in Block /\ n \div BlocksPerGroup = 0 /\ n % BlocksPerGroup = n
<1>1. n \in Nat /\ 0 \in Nat /\ 0 \in 0 .. Groups - 1
  BY Sizes
<1>2. 0 * BlocksPerGroup + n = n
  BY <1>1, Sizes
<1>3. 0 * BlocksPerGroup + n \in 0 .. Groups * BlocksPerGroup - 1
  BY <1>1, Sizes, ProductInRange
<1>4. (0 * BlocksPerGroup + n) \div BlocksPerGroup = 0
      /\ (0 * BlocksPerGroup + n) % BlocksPerGroup = n
  BY <1>1, Sizes, DivModOf
<1>5. QED  BY <1>2, <1>3, <1>4 DEF Block

(* The search finds the blocks of .log.                                     *)
LEMMA SearchedToLog ==
    ASSUME NEW n \in Nat, n <= DataBlockOffset + Ptrs
    PROVE  Searched(n) /\ n \in 0 .. BlocksPerGroup - 1
<1> DEFINE m == DataBlockOffset + Ptrs
           p == n \div ByteSize
           q == m \div ByteSize
<1>1. m \in Nat
  BY HeaderSizes, VolumeSizes
<1>2. m < BlocksPerGroup /\ q < ByteSize
  BY LogAssumption DEF Searched
<1>3. /\ p \in Nat /\ n % ByteSize \in 0 .. ByteSize - 1 /\ n = p * ByteSize + (n % ByteSize)
      /\ q \in Nat /\ m % ByteSize \in 0 .. ByteSize - 1 /\ m = q * ByteSize + (m % ByteSize)
  <2> HIDE DEF m
  <2>1. QED  BY <1>1, Sizes, DivMod
<1> DEFINE r == m % ByteSize
           s == n % ByteSize
<1> HIDE DEF p, q, r, s
<1>4. p <= q
  <2> SUFFICES ASSUME p >= q + 1 PROVE FALSE
    BY <1>3
  <2>1. p * ByteSize >= (q + 1) * ByteSize
    BY <1>3, Sizes
  <2>2. (q + 1) * ByteSize = q * ByteSize + ByteSize
    BY <1>3, Sizes
  <2>3. p * ByteSize \in Nat /\ q * ByteSize \in Nat
    BY <1>3, Sizes
  <2>4. n <= m /\ n = p * ByteSize + s /\ m = q * ByteSize + r
        /\ s \in 0 .. ByteSize - 1 /\ r \in 0 .. ByteSize - 1
    BY <1>3 DEF r, s
  <2> HIDE DEF m
  <2>5. QED  BY <1>1, <2>1, <2>2, <2>3, <2>4, Sizes
<1>5. Searched(n)
  <2>1. p < ByteSize
    BY <1>2, <1>3, <1>4, Sizes
  <2>2. QED  BY <2>1 DEF Searched, p
<1> HIDE DEF m
<1>6. n \in 0 .. BlocksPerGroup - 1
  BY <1>1, <1>2, Sizes DEF m
<1>7. QED  BY <1>5, <1>6

(* get_free_block takes the first block that is free.                       *)
LEMMA FirstFree ==
    ASSUME NEW v, IsVolume(v), NEW n \in 0 .. BlocksPerGroup - 1, Searched(n),
           ~BlockUsed(v, n), \A m \in 0 .. n - 1 : BlockUsed(v, m)
    PROVE  get_free_block(v) = n
<1> DEFINE at == [g \in Group |-> find_free_block(v.block_bitmap[g])]
           S == {g * BlocksPerGroup + at[g] : g \in {h \in Group : at[h] # None}}
<1>1. \A m \in 0 .. n : BlockUsed(v, m) <=> m \in v.block_bitmap[0]
  <2>1. \A m \in 0 .. n : m \in 0 .. BlocksPerGroup - 1
    BY Sizes
  <2>2. QED  BY <2>1, FirstGroup DEF BlockUsed
<1>2. 0 \in Group
  BY Sizes DEF Group
<1>3. ASSUME NEW g \in Group, at[g] # None
      PROVE  at[g] \in 0 .. BlocksPerGroup - 1 /\ at[g] \notin v.block_bitmap[g]
  <2> DEFINE free == {k \in 0 .. BlocksPerGroup - 1 : Searched(k) /\ k \notin v.block_bitmap[g]}
  <2>1. at[g] = Lowest(free) /\ free \in SUBSET Nat
    BY Sizes DEF find_free_block
  <2>2. at[g] \in free
    <3> HIDE DEF free, at
    <3> QED  BY <1>3, <2>1, LowestIs
  <2>3. QED  BY <2>2
<1>4. at[0] = n
  <2> DEFINE free == {k \in 0 .. BlocksPerGroup - 1 : Searched(k) /\ k \notin v.block_bitmap[0]}
  <2>1. at[0] = Lowest(free) /\ free \in SUBSET Nat
    BY <1>2, Sizes DEF find_free_block
  <2>2. n \in free
    BY <1>1
  <2>3. \A k \in free : k \in Nat /\ n <= k
    BY <1>1
  <2> HIDE DEF free, at
  <2>4. Lowest(free) \in free /\ Lowest(free) <= n
    BY <2>1, <2>2, LowestIs
  <2>5. Lowest(free) \in Nat /\ n <= Lowest(free)
    BY <2>3, <2>4
  <2>6. QED  BY <2>1, <2>4, <2>5
<1> HIDE DEF at
<1>5. n # None
  BY DEF None
<1>6. ASSUME NEW g \in Group, at[g] # None
      PROVE  g * BlocksPerGroup + at[g] \in Nat /\ n <= g * BlocksPerGroup + at[g]
  <2>1. g \in Nat /\ at[g] \in 0 .. BlocksPerGroup - 1
    BY <1>3, <1>6 DEF Group
  <2>2. CASE g = 0
    BY <1>4, <2>2, Sizes
  <2>3. CASE g # 0
    <3>1. g * BlocksPerGroup >= 1 * BlocksPerGroup
      BY <2>1, <2>3, Sizes
    <3>2. g * BlocksPerGroup \in Nat
      BY <2>1, Sizes
    <3>3. QED  BY <2>1, <3>1, <3>2, Sizes
  <2>4. QED  BY <2>2, <2>3
<1>7. n \in S
  <2>1. 0 * BlocksPerGroup + at[0] = n
    BY <1>4, Sizes
  <2>2. QED  BY <1>2, <1>4, <1>5, <2>1
<1>8. S \in SUBSET Nat /\ \A k \in S : n <= k
  BY <1>6
<1>9. get_free_block(v) = Lowest(S)
  BY DEF get_free_block, at
<1> HIDE DEF S
<1>10. Lowest(S) \in S /\ Lowest(S) <= n
  BY <1>7, <1>8, LowestIs
<1>11. Lowest(S) \in Nat /\ n <= Lowest(S)
  BY <1>8, <1>10
<1>12. QED  BY <1>9, <1>10, <1>11

(* Only the headers and the block behind them are in use.                   *)
OneInUse(v) == \A c \in Block : BlockUsed(v, c) <=> IsHeader(c) \/ c = DataBlockOffset

(* The first blocks of the volume, up to those of .log.                     *)
LEMMA FirstBlocks ==
    ASSUME NEW n \in Nat, n <= DataBlockOffset + Ptrs
    PROVE  n \in Block /\ (IsHeader(n) <=> n < DataBlockOffset)
<1>1. n \in 0 .. BlocksPerGroup - 1
  BY SearchedToLog
<1>2. QED  BY <1>1, FirstGroup DEF IsHeader

(* The root takes that block.                                               *)
LEMMA RootTakes ==
    /\ get_free_block(NewGroups) = DataBlockOffset
    /\ Sound(NewRoot, {Root}, {})
    /\ OneInUse(NewRoot) /\ Ptr(NewRoot, Root, 0) = DataBlockOffset
<1> DEFINE b == get_free_block(NewGroups)
           x == RootVolume(b)
           y == AddDir(x, Root, ".", Root)
<1>1. b = DataBlockOffset
  <2> DEFINE n == DataBlockOffset
  <2>1. n \in Nat /\ n <= DataBlockOffset + Ptrs
    BY HeaderSizes, VolumeSizes
  <2>2. Searched(n) /\ n \in 0 .. BlocksPerGroup - 1 /\ n \in Block /\ ~IsHeader(n)
    BY <2>1, SearchedToLog, FirstBlocks
  <2>3. \A m \in 0 .. n - 1 : m \in Block /\ IsHeader(m)
    <3>1. \A m \in 0 .. n - 1 : m \in Nat /\ m <= DataBlockOffset + Ptrs /\ m < n
      BY <2>1, VolumeSizes
    <3>2. QED  BY <3>1, FirstBlocks
  <2> HIDE DEF n
  <2>4. b = n
    BY <2>2, <2>3, NewGroupsIs, FirstFree
  <2>5. QED  BY <2>4 DEF n
<1>2. b \in Block /\ ~BlockUsed(NewGroups, b)
  BY FormatIs
<1> HIDE DEF b
<1>3. /\ Sound(x, {Root}, {}) /\ Ptr(x, Root, 0) = b
      /\ \A c \in Block : BlockUsed(x, c) <=> IsHeader(c) \/ c = b
  BY <1>2, RootSound
<1>4. NewRoot = AddDir(y, Root, "..", Root)
  BY DEF NewRoot, b
<1> HIDE DEF x
<1>5. Root \in Inode /\ 0 \in 0 .. Ptrs - 1
  BY InodeNumbers, VolumeSizes
<1>6. Sound(y, {Root}, {}) /\ SameBits(x, y) /\ Ptr(y, Root, 0) = b
  <2>1. DirEntryOK(x, {Root}, Root, ".", Root)
    BY DEF DirEntryOK
  <2>2. Sound(y, {Root}, {}) /\ \E e : Added(x, y, Root, e)
    BY <1>3, <2>1, AddDirSound, AddDirIs
  <2>3. QED  BY <1>3, <1>5, <2>2 DEF Added
<1> HIDE DEF y
<1>7. Sound(NewRoot, {Root}, {}) /\ SameBits(y, NewRoot) /\ Ptr(NewRoot, Root, 0) = b
  <2>1. DirEntryOK(y, {Root}, Root, "..", Root)
    BY DEF DirEntryOK
  <2>2. Sound(NewRoot, {Root}, {}) /\ \E e : Added(y, NewRoot, Root, e)
    BY <1>4, <1>6, <2>1, AddDirSound, AddDirIs
  <2>3. QED  BY <1>5, <1>6, <2>2 DEF Added
<1>8. OneInUse(NewRoot)
  BY <1>1, <1>3, <1>6, <1>7, SameBitsAre DEF OneInUse
<1>9. QED  BY <1>1, <1>7, <1>8 DEF b

(* And .log takes those behind it, one by one.                              *)
LEMMA LogTakes ==
    ASSUME NEW v, IsVolume(v), v.data = [b \in Block |-> v.data[b]], OneInUse(v),
           ~Store(v, LogFile).full
    PROVE  LET s == Store(v, LogFile)
           IN  /\ s \in StoreStates(v) /\ Stored(v, LogFile, Ptrs, s)
               /\ \A n \in 1 .. Ptrs : s.blocks[n] = DataBlockOffset + n
<1>1. LogFile \in Seq(Text) /\ Len(LogFile) = Ptrs /\ \A n \in 1 .. Ptrs : LogFile[n] = Zero
  BY VolumeAssumption, VolumeSizes DEF LogFile
<1>2. Ptrs \in Nat /\ DataBlockOffset \in Nat
  BY VolumeSizes, HeaderSizes
<1>3. PICK f : /\ f[0] = [vol |-> v, blocks |-> <<>>, full |-> FALSE]
               /\ Store(v, LogFile) = f[Ptrs]
               /\ \A n \in 1 .. Ptrs : f[n] = StoreBlock(f[n - 1], LogFile[n])
               /\ \A n \in 0 .. Ptrs :
                     f[n] \in StoreStates(v) /\ ~f[n].full /\ Stored(v, LogFile, n, f[n])
  BY <1>1, StoreTurns
<1> DEFINE First(n) == \A m \in 1 .. n : f[n].blocks[m] = DataBlockOffset + m
           S == {n \in 0 .. Ptrs : First(n)}
<1>4. 0 \in S
  BY <1>2
<1>5. ASSUME NEW n \in 1 .. Ptrs, n - 1 \in S
      PROVE  n \in S
  <2> DEFINE x == f[n - 1]
             b == DataBlockOffset + n
  <2>1. n \in 0 .. Ptrs /\ n - 1 \in 0 .. Ptrs
    BY <1>2
  <2>2. /\ x \in StoreStates(v) /\ Stored(v, LogFile, n - 1, x)
        /\ f[n] = StoreBlock(x, LogFile[n]) /\ ~f[n].full
        /\ LogFile[n] \in Text
    BY <1>1, <1>3, <2>1, VolumeAssumption
  <2>3. \A m \in 1 .. n - 1 : x.blocks[m] = DataBlockOffset + m
    BY <1>5
  <2> HIDE DEF x
  <2>4. IsVolume(x.vol) /\ x.blocks \in Seq(Block) /\ Len(x.blocks) = n - 1
    BY <2>2, VolumeFields DEF StoreStates, Stored
  <2>5. b \in Nat /\ b <= DataBlockOffset + Ptrs
    BY <1>2
  <2>6. b \in 0 .. BlocksPerGroup - 1 /\ Searched(b) /\ b \in Block
    BY <2>5, SearchedToLog, FirstBlocks
  <2>7. ~BlockUsed(x.vol, b)
    <3>1. b # DataBlockOffset /\ ~(b < DataBlockOffset) /\ \A m \in 1 .. n - 1 : x.blocks[m] # b
      BY <1>2, <2>3
    <3>2. ~BlockUsed(v, b)
      BY <2>5, <2>6, <3>1, FirstBlocks DEF OneInUse
    <3> HIDE DEF b
    <3>3. QED  BY <2>2, <2>6, <3>1, <3>2 DEF Stored
  <2>8. ASSUME NEW m \in 0 .. b - 1
        PROVE  BlockUsed(x.vol, m)
    <3>1. m \in Nat /\ m <= DataBlockOffset + Ptrs
      BY <1>2, <2>8
    <3>2. m \in Block /\ (IsHeader(m) <=> m < DataBlockOffset)
      BY <3>1, FirstBlocks
    <3>3. CASE m <= DataBlockOffset
      <4>1. BlockUsed(v, m)
        BY <1>2, <3>1, <3>2, <3>3 DEF OneInUse
      <4>2. \A k \in 1 .. n - 1 : x.blocks[k] # m
        BY <1>2, <2>3, <3>1, <3>3
      <4>3. QED  BY <2>2, <3>2, <4>1, <4>2 DEF Stored
    <3>4. CASE m > DataBlockOffset
      <4> DEFINE k == m - DataBlockOffset
      <4>1. k \in 1 .. n - 1 /\ DataBlockOffset + k = m
        BY <1>2, <3>1, <3>4, <2>8
      <4> HIDE DEF k
      <4>2. x.blocks[k] = m /\ BlockUsed(x.vol, x.blocks[k])
        BY <2>2, <2>3, <4>1 DEF Stored
      <4>3. QED  BY <4>2
    <3>5. QED  BY <1>2, <3>1, <3>3, <3>4
  <2> HIDE DEF b
  <2>9. get_free_block(x.vol) = b
    BY <2>4, <2>6, <2>7, <2>8, FirstFree
  <2>10. f[n].blocks = Append(x.blocks, b)
    BY <2>2, <2>9, StoreBlockStates
  <2>11. \A m \in 1 .. n : f[n].blocks[m] = IF m = n THEN b ELSE x.blocks[m]
    BY <2>4, <2>10
  <2>12. \A m \in 1 .. n : m # n => m \in 1 .. n - 1
    OBVIOUS
  <2>13. First(n)
    BY <2>3, <2>11, <2>12 DEF b
  <2>14. QED  BY <2>1, <2>13
<1> HIDE DEF S
<1>6. \A n \in 0 .. Ptrs : n \in S
  BY <1>2, <1>4, <1>5, InductionUpTo
<1>7. Ptrs \in 0 .. Ptrs
  BY <1>2
<1>8. QED  BY <1>3, <1>6, <1>7 DEF S

(* jfs_format leaves .log where the tools keep off.                         *)
LEMMA LogIsMade ==
    LET v == create_log_file(create_fs_root(NewGroups))
    IN  /\ LogKept(v) /\ LogInode \in Inode /\ LogInode # Root
        /\ Sound(v, {Root}, {LogInode})
<1> DEFINE i == get_free_inode(NewRoot)
           path == <<".log">>
           v1 == set_inode_used(NewRoot, i)
           s == Store(v1, LogFile)
           inode == FileInode(s.blocks)
           x == [s.vol EXCEPT !.inode[i] = inode]
           e == Dirent(Last(path), "file", i, EntryLen(PathLength(path)))
           v == create_log_file(create_fs_root(NewGroups))
<1>1. /\ i # None /\ ~s.full
      /\ LogFile \in Seq(Text) /\ Len(LogFile) <= Ptrs
      /\ Len(path) \in Nat \ {0} /\ Last(path) \in Name \cup {".log"}
      /\ v = PutFile(NewRoot, Root, path, i, LogFile)
  BY FormatIs
<1>2. create_fs_root(NewGroups) = NewRoot
  BY RootIsFirst DEF create_fs_root, NewRoot, RootVolume
<1>3. LogInode = i
  BY <1>2 DEF LogInode
<1>4. /\ Sound(NewRoot, {Root}, {}) /\ OneInUse(NewRoot)
      /\ Ptr(NewRoot, Root, 0) = DataBlockOffset
  BY RootTakes
<1>5. i \in Inode /\ ~InodeUsed(NewRoot, i) /\ i # Root /\ Root \in Inode
      /\ IsVolume(NewRoot) /\ NewRoot.data = [b \in Block |-> NewRoot.data[b]]
  <2>1. IsVolume(NewRoot) /\ NewRoot.data = [b \in Block |-> NewRoot.data[b]]
    BY <1>4 DEF Sound, VolumeOK
  <2>2. i \in Inode /\ ~InodeUsed(NewRoot, i)
    BY <1>1, <2>1, FreeInode
  <2>3. InodeUsed(NewRoot, Root) /\ Root \in Inode
    BY <1>4 DEF Sound, InodesInv
  <2>4. QED  BY <2>1, <2>2, <2>3
<1> DEFINE dirs == {Root}
           files == {}
<1>6. Sound(NewRoot, dirs, files) /\ Root \in dirs
  BY <1>4
<1> HIDE DEF dirs, files, i, path
<1>7. Sound(v, dirs, files \cup {i})
  BY <1>1, <1>5, <1>6, PutFileSound
<1>8. Sound(v, {Root}, {LogInode})
  BY <1>3, <1>7 DEF dirs, files
<1>9. /\ IsVolume(v1) /\ v1.block_bitmap = NewRoot.block_bitmap
      /\ v1.inode = NewRoot.inode /\ v1.data = NewRoot.data
  BY <1>5, SetInodeUsed
<1>10. /\ IsVolume(v1) /\ v1.data = [b \in Block |-> v1.data[b]] /\ OneInUse(v1)
  BY <1>4, <1>5, <1>9 DEF OneInUse, BlockUsed
<1> HIDE DEF v1
<1>11. /\ s \in StoreStates(v1) /\ Stored(v1, LogFile, Ptrs, s)
       /\ \A n \in 1 .. Ptrs : s.blocks[n] = DataBlockOffset + n
  BY <1>1, <1>10, LogTakes
<1> HIDE DEF s
<1>12. inode = [size |-> Ptrs, blockptrs |-> LogPtrs]
  <2>1. Len(s.blocks) = Ptrs
    BY <1>11 DEF Stored
  <2>2. \A n \in 0 .. Ptrs - 1 : n < Ptrs /\ n + 1 \in 1 .. Ptrs
                                 /\ DataBlockOffset + (n + 1) = DataBlockOffset + 1 + n
    BY VolumeSizes, HeaderSizes
  <2>3. [n \in 0 .. Ptrs - 1 |-> IF n < Ptrs THEN s.blocks[n + 1] ELSE 0] = LogPtrs
    BY <1>11, <2>2 DEF LogPtrs
  <2>4. QED  BY <2>1, <2>3 DEF FileInode
<1> HIDE DEF inode
<1>13. /\ s.vol.inode = NewRoot.inode
       /\ s.vol = [block_bitmap |-> s.vol.block_bitmap, inode_bitmap |-> s.vol.inode_bitmap,
                   inode |-> s.vol.inode, data |-> s.vol.data]
       /\ s.vol.data = [b \in Block |-> s.vol.data[b]]
  BY <1>9, <1>11 DEF StoreStates
<1>14. NewRoot.inode \in [Inode -> Inodes]
  BY <1>4 DEF Sound, VolumeOK, Inodes
<1>15. /\ x = [block_bitmap |-> x.block_bitmap, inode_bitmap |-> x.inode_bitmap,
               inode |-> x.inode, data |-> x.data]
       /\ x.inode = [NewRoot.inode EXCEPT ![i] = inode]
       /\ x.data = s.vol.data
  BY <1>13
<1> HIDE DEF x
<1>16. /\ x.inode[i] = inode /\ x.inode[Root] = NewRoot.inode[Root]
       /\ DOMAIN x.inode = Inode
  BY <1>5, <1>14, <1>15
<1>17. v = AddEntry(x, Root, e)
  BY <1>1 DEF PutFile, x, s, v1, inode
<1> HIDE DEF e, v
<1>18. v.inode = Grew(x.inode, Root, e) /\ v.data = DataWith(x, Root, e)
  <2>1. v = [block_bitmap |-> x.block_bitmap, inode_bitmap |-> x.inode_bitmap,
             inode |-> Grew(x.inode, Root, e), data |-> DataWith(x, Root, e)]
    BY <1>15, <1>17, AddEntryFields
  <2>2. QED  BY <2>1
<1>19. v.inode[i] = inode
  <2>1. Grew(x.inode, Root, e)[i] = x.inode[i]
    BY <1>5, <1>16 DEF Grew
  <2>2. QED  BY <1>16, <1>18, <2>1
<1>20. ASSUME NEW b \in Block, b \notin Home
       PROVE  v.data[b] = Zero
  <2>1. PICK n \in 0 .. Ptrs - 1 : b = LogPtrs[n]
    BY <1>20 DEF Home
  <2> DEFINE m == n + 1
  <2>2. m \in 1 .. Ptrs /\ b = DataBlockOffset + m /\ b # DataBlockOffset
    BY <2>1, VolumeSizes, HeaderSizes DEF LogPtrs
  <2> HIDE DEF m
  <2>3. s.blocks[m] = b /\ s.vol.data[s.blocks[m]] = LogFile[m]
    BY <1>11, <2>2 DEF Stored
  <2>4. LogFile[m] = Zero
    BY <2>2 DEF LogFile
  <2>5. Ptr(x, Root, 0) = DataBlockOffset
    BY <1>4, <1>16 DEF Ptr
  <2>6. v.data[b] = x.data[b]
    BY <1>18, <2>2, <2>5 DEF DataWith
  <2>7. QED  BY <1>15, <2>3, <2>4, <2>6
<1>21. \A b \in Block : IsHeader(b) => v.data[b] = NoEntries
  BY FormatWorks DEF Works, Holdable, v
<1>22. LogKept(v)
  BY <1>3, <1>12, <1>19, <1>20, <1>21 DEF LogKept
<1>23. QED  BY <1>3, <1>5, <1>8, <1>22 DEF v

-----------------------------------------------------------------------------
(* The volume between the transactions.                                     *)

(* It is sound, it has .log, and r is what is left of a jfs_rm.             *)
Kept(v, r, dirs, files) ==
    /\ Sound(v, dirs, files)
    /\ Holdable(Home, v)
    /\ LogInode \in files
    /\ LogKept(v)
    /\ r = NoRm \/ /\ r.dir \in dirs /\ r.size \in Nat
                   /\ EndBefore(v, Ptr(v, r.dir, 0), r.size)

(* Directories and free blocks are not in .log.                             *)
LEMMA KeptHasRoom ==
    ASSUME NEW v, NEW r, NEW dirs, NEW files, Kept(v, r, dirs, files)
    PROVE  Room(Home, v, dirs)
<1>1. /\ Sound(v, dirs, files) /\ LogInode \in files
      /\ Size(v, LogInode) = Ptrs /\ \A n \in 0 .. Ptrs - 1 : Ptr(v, LogInode, n) = LogPtrs[n]
  BY DEF Kept, LogKept, Size, Ptr
<1>2. \A n \in 0 .. Ptrs - 1 : Owns(v, dirs, files, LogInode, n)
  BY <1>1, VolumeSizes DEF Owns
<1>3. ASSUME NEW b \in Block, b \notin Home
      PROVE  \E n \in 0 .. Ptrs - 1 :
                Ptr(v, LogInode, n) = b /\ Owns(v, dirs, files, LogInode, n) /\ BlockUsed(v, b)
  <2>1. PICK n \in 0 .. Ptrs - 1 : b = LogPtrs[n]
    BY <1>3 DEF Home
  <2>2. QED  BY <1>1, <1>2, <2>1 DEF Sound, BlocksInv
<1>4. ASSUME NEW d \in dirs
      PROVE  Open(Home, v, d)
  <2>1. /\ d \in Inode /\ d # LogInode /\ Size(v, d) \in Nat
        /\ 0 \in 0 .. Ptrs - 1 /\ Owns(v, dirs, files, d, 0)
    BY <1>1, VolumeSizes DEF Sound, InodesInv, DirInv, Owns
  <2>2. Ptr(v, d, 0) \in Block /\ ~IsHeader(Ptr(v, d, 0))
    BY <1>1, <2>1 DEF Sound, BlocksInv
  <2>3. Ptr(v, d, 0) \in Home
    BY <1>1, <1>3, <2>1, <2>2 DEF Sound, BlocksInv
  <2>4. QED  BY <2>1, <2>2, <2>3 DEF Open
<1>5. QED  BY <1>3, <1>4 DEF Room

(* The inode of .log does not change.                                       *)
SameInode(v, w, i) ==
    Size(w, i) = Size(v, i) /\ \A n \in 0 .. Ptrs - 1 : Ptr(w, i, n) = Ptr(v, i, n)

LEMMA LogStays ==
    ASSUME NEW v, NEW w, LogKept(v), Holdable(Home, w), LogInode \in Inode,
           SameInode(v, w, LogInode)
    PROVE  LogKept(w)
<1> DEFINE x == w.inode[LogInode]
<1>1. x \in Inodes
  BY HoldableIs
<1>2. x.size = Ptrs /\ \A n \in 0 .. Ptrs - 1 : x.blockptrs[n] = LogPtrs[n]
  BY DEF LogKept, SameInode, Size, Ptr
<1> HIDE DEF x
<1>3. x.blockptrs = LogPtrs
  BY <1>1, <1>2 DEF Inodes, LogPtrs
<1>4. x = [size |-> Ptrs, blockptrs |-> LogPtrs]
  BY <1>1, <1>2, <1>3 DEF Inodes
<1>5. QED  BY <1>4 DEF LogKept, Holdable, x

(* mk_new_directory changes the inodes of two directories.                  *)
LEMMA MkdirInodes ==
    ASSUME NEW v, NEW dirs, NEW files, Sound(v, dirs, files),
           NEW d \in dirs, NEW name \in Name,
           NEW i \in Inode, ~InodeUsed(v, i), NEW b \in Block, ~BlockUsed(v, b)
    PROVE  \A j \in files : SameInode(v, mk_new_directory(v, d, name, i, b), j)
<1> DEFINE x == EmptyDir(v, i, b)
           y == AddDir(x, d, name, i)
           z == AddDir(y, i, ".", i)
           w == AddDir(z, i, "..", d)
           dirs2 == dirs \cup {i}
<1>1. /\ Grown(v, x, i) /\ Size(x, i) = 0 /\ Ptr(x, i, 0) = b
      /\ \A c \in Block : NewBlock(v, x, c) <=> c = b
  BY NewDirGrows
<1>2. mk_new_directory(v, d, name, i, b) = w
  BY DEF mk_new_directory, EmptyDir
<1> HIDE DEF x
<1>3. i \notin dirs \cup files /\ Root \in dirs
  BY DEF Sound, InodesInv
<1>4. Sound(x, dirs2, files)
  BY <1>1, EmptyDirSound
<1>5. \A c \in Block : \A p \in DOMAIN Dirents(x, c) : Dirents(x, c)[p].inode # i
  BY <1>1, GrownKeeps
<1>6. d \in dirs2 /\ i \in dirs2 /\ i # Root /\ dirs2 \cap files = {} /\ files \subseteq Inode
  BY <1>3 DEF Sound, InodesInv
<1> HIDE DEF dirs2
<1>7. DirEntryOK(x, dirs2, d, name, i)
  BY <1>5, <1>6 DEF DirEntryOK
<1>8. Sound(y, dirs2, files) /\ \A j \in files : SameInode(x, y, j)
  BY <1>4, <1>6, <1>7, AddDirSound, AddDirIs DEF Added, SameInode
<1> HIDE DEF y
<1>9. DirEntryOK(y, dirs2, i, ".", i)
  BY <1>6 DEF DirEntryOK
<1>10. Sound(z, dirs2, files) /\ \A j \in files : SameInode(y, z, j)
  BY <1>6, <1>8, <1>9, AddDirSound, AddDirIs DEF Added, SameInode
<1> HIDE DEF z
<1>11. DirEntryOK(z, dirs2, i, "..", d)
  BY <1>6 DEF DirEntryOK
<1>12. \A j \in files : SameInode(z, w, j)
  BY <1>6, <1>10, <1>11, AddDirIs DEF Added, SameInode
<1> HIDE DEF w
<1>13. \A j \in files : SameInode(v, x, j)
  BY <1>1, <1>3, <1>6 DEF Grown, SameInode
<1>14. QED  BY <1>2, <1>8, <1>10, <1>12, <1>13 DEF SameInode

(* jfs_mkdir writes what it makes, and keeps .log.                          *)
LEMMA MkdirDone ==
    ASSUME NEW found, DOMAIN found = Home, NEW s, NEW v, Works(Home, found, s, v),
           NEW dirs, NEW files, Kept(v, NoRm, dirs, files),
           NEW path \in Path, mkdirResult(v, path) = "ok"
    PROVE  /\ Works(Home, found, MkdirWrites(s, DirOf(v, path, {"dir", "file"}), Last(path)),
                    Made(v, path))
           /\ Kept(Made(v, path), NoRm, dirs \cup {get_free_inode(v)}, files)
<1> DEFINE d == DirOf(v, path, {"dir", "file"})
           i == get_free_inode(v)
           b == get_free_block(v)
           w == Made(v, path)
<1>1. /\ Sound(v, dirs, files) /\ Room(Home, v, dirs) /\ LogInode \in files /\ LogInode \in Inode
      /\ LogKept(v)
  BY KeptHasRoom DEF Kept, Sound, InodesInv
<1>2. /\ d \in dirs /\ Last(path) \in Name
      /\ i \in Inode /\ ~InodeUsed(v, i) /\ b \in Block /\ ~BlockUsed(v, b)
      /\ w = mk_new_directory(v, d, Last(path), i, b)
  BY <1>1, MkdirIs
<1>3. Sound(w, dirs \cup {i}, files)
  BY <1>1, MkdirSound
<1>4. i # None /\ b # None
  BY <1>2, InodeNumbers DEF None
<1> HIDE DEF d, w
<1>5. Works(Home, found, MkdirWrites(s, d, Last(path)), w)
  BY <1>1, <1>2, <1>4, HomeCovers, MkdirWorks
<1>6. SameInode(v, w, LogInode)
  BY <1>1, <1>2, MkdirInodes
<1>7. LogKept(w) /\ Holdable(Home, w)
  BY <1>1, <1>5, <1>6, LogStays DEF Works
<1>8. QED  BY <1>1, <1>3, <1>5, <1>7 DEF Kept, d, w

(* So does jfs_copyin,                                                      *)
LEMMA CopyinDone ==
    ASSUME NEW found, DOMAIN found = Home, NEW s, NEW v, Works(Home, found, s, v),
           NEW dirs, NEW files, Kept(v, NoRm, dirs, files),
           NEW path \in Path, NEW file \in Seq(Text), copyinResult(v, path, file) = "ok"
    PROVE  /\ Works(Home, found, CopyinWrites(s, DirOf(v, path, {"dir"}), path, Truncated(file)),
                    CopiedIn(v, path, file))
           /\ Kept(CopiedIn(v, path, file), NoRm, dirs, files \cup {get_free_inode(v)})
<1> DEFINE d == DirOf(v, path, {"dir"})
           i == get_free_inode(v)
           cut == Truncated(file)
           w == CopiedIn(v, path, file)
<1>1. /\ Sound(v, dirs, files) /\ Room(Home, v, dirs) /\ LogInode \in files /\ LogInode \in Inode
      /\ LogKept(v)
  BY KeptHasRoom DEF Kept, Sound, InodesInv
<1>2. /\ d \in dirs /\ Last(path) \in Name
      /\ i \in Inode /\ ~InodeUsed(v, i)
      /\ cut \in Seq(Text) /\ Len(cut) <= Ptrs /\ ~Store(set_inode_used(v, i), cut).full
      /\ w = PutFile(v, d, path, i, cut)
  BY <1>1, CopyinIs
<1>3. Sound(w, dirs, files \cup {i})
  BY <1>1, CopyinSound
<1>4. i # None /\ Len(path) \in Nat \ {0} /\ Last(path) \in Name \cup {".log"}
  BY <1>2, InodeNumbers, PathIs DEF None
<1> HIDE DEF d, w, cut
<1>5. Works(Home, found, CopyinWrites(s, d, path, cut), w)
  BY <1>1, <1>2, <1>4, HomeCovers, CopyinWorks
<1>6. SameInode(v, w, LogInode)
  <2>1. PICK x, e : FilePut(v, w, dirs, files \cup {i}, d, path, i, x, e)
    BY <1>1, <1>2, <1>4, PutFileIs
  <2>2. LogInode # i /\ LogInode # d
    BY <1>1, <1>2 DEF Sound, InodesInv
  <2>3. Grown(v, x, i) /\ Added(x, w, d, e)
    BY <2>1 DEF FilePut
  <2>4. QED  BY <1>1, <2>2, <2>3 DEF Grown, Added, SameInode
<1>7. LogKept(w) /\ Holdable(Home, w)
  BY <1>1, <1>5, <1>6, LogStays DEF Works
<1>8. QED  BY <1>1, <1>3, <1>5, <1>7 DEF Kept, d, w, cut

(* and jfs_rm with its two transactions: .log uses every block pointer.      *)
LEMMA RmDone ==
    ASSUME NEW found, DOMAIN found = Home, NEW s, NEW v, Works(Home, found, s, v),
           NEW dirs, NEW files, Kept(v, NoRm, dirs, files),
           NEW path \in Path, rmResult(v, path) = "rm", ~UsesEveryPtr(v, path)
    PROVE  /\ Works(Home, found, RmWrites(s, path), Removed(v, path))
           /\ Kept(Removed(v, path), ToResize(v, path), dirs, files \ {FoundEntry(v, path).inode})
           /\ ToResize(v, path).dir \in dirs /\ ToResize(v, path).size \in Nat
<1> DEFINE d == DirOf(v, path, {"dir"})
           k == FoundAt(v, path)
           e == FoundEntry(v, path)
           w == Removed(v, path)
           r == ToResize(v, path)
<1>1. /\ Sound(v, dirs, files) /\ Room(Home, v, dirs) /\ LogInode \in files /\ LogInode \in Inode
      /\ LogKept(v)
  BY KeptHasRoom DEF Kept, Sound, InodesInv
<1>2. Works(Home, found, RmWrites(s, path), w)
  BY <1>1, HomeCovers, RmWorks
<1>3. /\ d \in dirs /\ e.inode \in files
      /\ RemovedFrom(v, w, Ptr(v, d, 0), k, e.inode)
      /\ e.inode = findfile_recursive(v, path, "file")
  BY <1>1, RemoveIs
<1>4. /\ Sound(w, dirs, files \ {e.inode})
      /\ r.dir \in dirs /\ r.size \in Nat /\ EndBefore(w, Ptr(w, r.dir, 0), r.size)
  BY <1>1, RemoveSound
<1>5. e.inode # LogInode
  <2>1. Len(BlocksOf(v, e.inode)) # Ptrs
    <3>1. e.inode \in Inode
      BY <1>1, <1>3 DEF Sound, InodesInv
    <3>2. \A i \in Inode : i >= 0
      BY InodeNumbers
    <3>3. QED  BY <1>3, <3>1, <3>2 DEF UsesEveryPtr
  <2>2. Len(BlocksOf(v, LogInode)) = Ptrs
    BY <1>1, BlocksOfFile DEF LogKept, Size
  <2>3. QED  BY <2>1, <2>2
<1> HIDE DEF d, k, e, w, r
<1>6. SameInode(v, w, LogInode)
  BY <1>3 DEF RemovedFrom, SameInode, Size, Ptr
<1>7. LogKept(w) /\ Holdable(Home, w)
  BY <1>1, <1>2, <1>6, LogStays DEF Works
<1>8. QED  BY <1>1, <1>2, <1>4, <1>5, <1>7 DEF Kept, w, e, r

LEMMA ResizeDone ==
    ASSUME NEW found, DOMAIN found = Home, NEW s, NEW v, Works(Home, found, s, v),
           NEW dirs, NEW files, NEW r, r # NoRm, Kept(v, r, dirs, files)
    PROVE  /\ Works(Home, found, ResizeWrites(s, r), Resized(v, r))
           /\ Kept(Resized(v, r), NoRm, dirs, files)
<1> DEFINE w == Resized(v, r)
<1>1. /\ Sound(v, dirs, files) /\ LogInode \in files /\ LogInode \in Inode /\ LogKept(v)
      /\ r.dir \in dirs /\ r.dir \in Inode /\ r.size \in Nat
      /\ EndBefore(v, Ptr(v, r.dir, 0), r.size) /\ r.dir # LogInode
  BY DEF Kept, Sound, InodesInv
<1>2. Works(Home, found, ResizeWrites(s, r), w)
  BY <1>1, HomeCovers, ResizeWorks
<1>3. Sound(w, dirs, files)
  BY <1>1, ResizedSound
<1>4. SameInode(v, w, LogInode)
  <2>1. v = [block_bitmap |-> v.block_bitmap, inode_bitmap |-> v.inode_bitmap,
             inode |-> v.inode, data |-> v.data]
        /\ v.inode \in [Inode -> Inodes]
    BY HoldableIs DEF Works
  <2>2. w.inode[LogInode] = v.inode[LogInode]
    BY <1>1, <2>1 DEF Resized
  <2>3. QED  BY <2>2 DEF SameInode, Size, Ptr
<1> HIDE DEF w
<1>5. LogKept(w) /\ Holdable(Home, w)
  BY <1>1, <1>2, <1>4, LogStays DEF Works
<1>6. QED  BY <1>1, <1>2, <1>3, <1>5 DEF Kept, w

-----------------------------------------------------------------------------
(* The journal below the tools.                                             *)

(* With types for its blocks or without, it is the same.                    *)
LEMMA SameJournal ==
    /\ J!Recovered = JP!Recovered /\ J!View = JP!View
    /\ (J!ToolRuns <=> JP!ToolRuns)
    /\ \A b : J!ReadBlock(b) = JP!ReadBlock(b)
<1>1. J!Recovered = JP!Recovered
  BY DEF J!Recovered, JP!Recovered, J!Found, JP!Found, J!IsMark, JP!IsMark, J!Lists, JP!Lists,
         J!CommitBlock, JP!CommitBlock, J!Slots, JP!Slots, J!NoBlock, JP!NoBlock
<1>2. J!ToolRuns <=> JP!ToolRuns
  BY DEF J!ToolRuns, JP!ToolRuns
<1>3. \A b : J!ReadBlock(b) = JP!ReadBlock(b)
  BY DEF J!ReadBlock, JP!ReadBlock, J!Cached, JP!Cached
<1>4. J!View = JP!View
  BY <1>1, <1>2, <1>3 DEF J!View, JP!View
<1>5. QED  BY <1>1, <1>2, <1>3, <1>4

(* A step of the tools is one of the journal.                               *)
LEMMA JournalStep ==
    ASSUME todo \in Writes(Home), ToolsNext
    PROVE  JP!Next
<1> USE DEF J!image, JP!image, J!commitVars, JP!commitVars, J!checklogVars, JP!checklogVars,
            J!toolVars, JP!toolVars, J!ForgetMemory, JP!ForgetMemory, J!NoBlocks, JP!NoBlocks,
            J!Slots, JP!Slots, J!NoBlock, JP!NoBlock
<1>1. CASE \E tool, writes : Start(tool, writes)
  <2>1. JP!Mount
    BY <1>1 DEF Start, J!Mount, JP!Mount
  <2>2. QED  BY <2>1 DEF JP!Next
<1>2. CASE ToolWrites
  <2> DEFINE b == Head(todo).blocknum
             d == Head(todo).blockdata
  <2>1. b \in Home /\ d \in Contents
    <3> DEFINE T == [blocknum : Home, blockdata : Contents]
    <3>1. todo \in Seq(T) /\ todo # <<>>
      BY <1>2 DEF ToolWrites, Writes
    <3> HIDE DEF T
    <3>2. Head(todo) \in T
      BY <3>1
    <3>3. QED  BY <3>2 DEF T
  <2>2. J!Write(b, d)
    BY <1>2 DEF ToolWrites
  <2> HIDE DEF b, d
  <2>3. JP!Write(b, d)
    BY <2>2 DEF J!Write, JP!Write, J!Cached, JP!Cached, J!Put, JP!Put
  <2>4. QED  BY <2>1, <2>3 DEF JP!Next
<1>3. CASE ToolCommits
  <2>1. JP!BeginCommit
    BY <1>3 DEF ToolCommits, J!BeginCommit, JP!BeginCommit
  <2>2. QED  BY <2>1 DEF JP!Next
<1>4. CASE Logs
  <2>1. JP!LogBlock
    BY <1>4 DEF Logs, J!LogBlock, JP!LogBlock, J!CrashNow, JP!CrashNow, J!CountWrite, JP!CountWrite
  <2>2. QED  BY <2>1 DEF JP!Next, JP!CommitStep
<1>5. CASE CommitPoint
  <2>1. JP!WriteCommitBlock
    BY <1>5 DEF CommitPoint, J!WriteCommitBlock, JP!WriteCommitBlock, J!Marked, JP!Marked
  <2>2. QED
    BY <2>1 DEF JP!Next, JP!CommitStep, JP!CommitPoint, JP!WriteCommitBlock
<1>6. CASE SkipsCommitBlock
  <2>1. JP!SkipCommitBlock
    BY <1>6 DEF SkipsCommitBlock, J!SkipCommitBlock, JP!SkipCommitBlock
  <2>2. Ptrs \in Nat
    BY VolumeAssumption
  <2>3. QED
    BY <2>1, <2>2 DEF JP!Next, JP!CommitStep, JP!CommitPoint, JP!SkipCommitBlock
<1>7. CASE Flushes
  <2>1. JP!FlushBlock
    BY <1>7 DEF Flushes, J!FlushBlock, JP!FlushBlock, J!CrashNow, JP!CrashNow, J!CountWrite,
                JP!CountWrite
  <2>2. QED  BY <2>1 DEF JP!Next, JP!CommitStep
<1>8. CASE CommitReturns
  <2>1. JP!EndCommit
    BY <1>8 DEF CommitReturns, J!EndCommit, JP!EndCommit, J!Cancelled, JP!Cancelled
  <2>2. QED  BY <2>1 DEF JP!Next, JP!CommitStep
<1>9. CASE ToolExits
  <2>1. JP!Exit
    BY <1>9 DEF ToolExits, J!Exit, JP!Exit
  <2>2. QED  BY <2>1 DEF JP!Next
<1>10. CASE ToolDies
  <2>1. JP!Crash
    BY <1>10 DEF ToolDies, J!Crash, JP!Crash
  <2>2. QED  BY <2>1 DEF JP!Next
<1>11. CASE \E r \in Checker : Recovers(r)
  <2>1. PICK r \in Checker : J!Checklog(r) \/ J!ChecklogDies(r) \/ J!ChecklogStep(r)
    BY <1>11 DEF Recovers
  <2>2. CASE J!Checklog(r)
    <3>1. JP!Checklog(r)
      BY <2>2 DEF J!Checklog, JP!Checklog, J!Goto, JP!Goto
    <3>2. QED  BY <3>1 DEF JP!Next
  <2>3. CASE J!ChecklogDies(r)
    <3>1. JP!ChecklogDies(r)
      BY <2>3 DEF J!ChecklogDies, JP!ChecklogDies, J!Forget, JP!Forget, J!Goto, JP!Goto
    <3>2. QED  BY <3>1 DEF JP!Next
  <2>4. CASE J!ChecklogStep(r)
    <3>1. JP!ChecklogStep(r)
      BY <2>4 DEF J!ChecklogStep, JP!ChecklogStep, J!ScanData, JP!ScanData, J!ScanMark, JP!ScanMark,
                  J!ScanOverrun, JP!ScanOverrun, J!ReplayBlock, JP!ReplayBlock, J!ReplayDone,
                  JP!ReplayDone, J!CancelMark, JP!CancelMark, J!Forget, JP!Forget, J!Goto, JP!Goto,
                  J!IsMark, JP!IsMark, J!IsLive, JP!IsLive, J!CommitBlock, JP!CommitBlock,
                  J!MoreToCopy, JP!MoreToCopy, J!Cancelled, JP!Cancelled
    <3>2. QED  BY <3>1 DEF JP!Next
  <2>5. QED  BY <2>1, <2>2, <2>3, <2>4
<1>12. QED
  BY <1>1, <1>2, <1>3, <1>4, <1>5, <1>6, <1>7, <1>8, <1>9, <1>10, <1>11
  DEF ToolsNext, StartMkdir, StartCopyin, StartRm

(* What the journal shows of the disk.                                      *)
DiskShown ==
    JP!JournalInv =>
        /\ DOMAIN disk = Home /\ disk = [b \in Home |-> disk[b]]
        /\ pc \in {"free", "open", "log"} => J!Recovered = disk
        /\ pc = "open" /\ cache = <<>> => J!View = disk

LEMMA Shows == DiskShown
<1> SUFFICES ASSUME JP!JournalInv
             PROVE  /\ DOMAIN disk = Home /\ disk = [b \in Home |-> disk[b]]
                    /\ pc \in {"free", "open", "log"} => J!Recovered = disk
                    /\ pc = "open" /\ cache = <<>> => J!View = disk
  BY DEF DiskShown
<1>1. disk \in [Home -> Contents]
  BY DEF JP!JournalInv, JP!TypeOK
<1>2. pc \in {"free", "open", "log"} => JP!Recovered = disk
  BY JournalAssumptions, JP!RecoveredDead DEF JP!JournalInv, JP!NoStaleMark, JP!NoLiveMark
<1>3. pc = "open" /\ cache = <<>> => JP!View = disk
  BY JournalAssumptions, JP!EmptyCache DEF JP!ToolRuns
<1>4. QED  BY <1>1, <1>2, <1>3, SameJournal

LEMMA ShowsNext == DiskShown'
BY Shows, PTL

(* Every step keeps the invariant of the journal and, where no cache goes   *)
(* home without a commit block, but for the commit points what recovery     *)
(* restores.                                                                *)
LEMMA JournalKeeps ==
    ASSUME JP!JournalInv, todo \in Writes(Home), ToolsNext
    PROVE  /\ JP!JournalInv'
           /\ ~Unprotected /\ ~Unprotected' =>
                 J!Recovered' = IF pc = "log" /\ pc' = "flush" THEN J!View ELSE J!Recovered
<1>1. JP!Next /\ [JP!Next]_(JP!vars)
  BY JournalStep
<1>2. JP!JournalInv'
  BY <1>1, JournalAssumptions, JP!SafeStep
<1>3. J!Recovered' = JP!Recovered'
  <2>1. (J!Recovered = JP!Recovered)'
    BY SameJournal, PTL
  <2>2. QED  BY <2>1
<1>4. ASSUME ~Unprotected, ~Unprotected'
      PROVE  JP!Recovered' = IF pc = "log" /\ pc' = "flush" THEN JP!View ELSE JP!Recovered
  <2>1. ~JP!SkipCommitBlock
    BY <1>4 DEF Unprotected, JP!SkipCommitBlock, JP!commitVars
  <2>2. pc = "flush" => blocks_done < Ptrs
    BY <1>4, VolumeSizes DEF Unprotected, JP!JournalInv, JP!TypeOK
  <2>3. QED  BY <1>1, <1>2, <2>1, <2>2, JournalAssumptions, JP!StepRefines
<1>5. QED  BY <1>2, <1>3, <1>4, SameJournal

(* What a tool reads is what it has written, or what is home.               *)
ReadsAre ==
    JP!JournalInv => \A c \in Home :
        /\ \A k \in DOMAIN cache : cache[k].blocknum = c => JP!ReadBlock(c) = cache[k].blockdata
        /\ ~JP!Cached(c) => JP!ReadBlock(c) = disk[c]

LEMMA ReadsShow == ReadsAre
BY JournalAssumptions, JP!ReadCached DEF ReadsAre

(* A write shows.                                                           *)
LEMMA WriteShows ==
    ASSUME JP!JournalInv, JP!JournalInv', NEW b \in Home, NEW d \in Contents, JP!Write(b, d)
    PROVE  J!View' = [J!View EXCEPT ![b] = d]
<1>1. /\ pc = "open" /\ pc' = "open" /\ disk' = disk /\ cache' = JP!Put(cache, b, d)
  BY DEF JP!Write, JP!image
<1>2. J!View = [c \in Home |-> JP!ReadBlock(c)]
  BY <1>1, SameJournal DEF J!View, J!ToolRuns
<1>3. J!View' = [c \in Home |-> JP!ReadBlock(c)']
  <2>1. \A c : J!ReadBlock(c)' = JP!ReadBlock(c)'
    BY DEF J!ReadBlock, JP!ReadBlock, J!Cached, JP!Cached
  <2>2. QED  BY <1>1, <2>1 DEF J!View, J!ToolRuns
<1>4. ASSUME NEW c \in Home
      PROVE  JP!ReadBlock(c)' = IF c = b THEN d ELSE JP!ReadBlock(c)
  <2>1. /\ \A k \in DOMAIN cache : cache[k].blocknum = c => JP!ReadBlock(c) = cache[k].blockdata
        /\ ~JP!Cached(c) => JP!ReadBlock(c) = disk[c]
    BY ReadsShow DEF ReadsAre
  <2>2. /\ \A k \in DOMAIN cache' : cache'[k].blocknum = c => JP!ReadBlock(c)' = cache'[k].blockdata
        /\ ~JP!Cached(c)' => JP!ReadBlock(c)' = disk'[c]
    <3>1. ReadsAre'
      BY ReadsShow, PTL
    <3>2. QED  BY <3>1 DEF ReadsAre
  <2>3. /\ cache \in Seq([blocknum : Home, blockdata : Contents])
        /\ \A k, l \in DOMAIN cache : cache[k].blocknum = cache[l].blocknum => k = l
    BY DEF JP!JournalInv, JP!TypeOK, JP!CachedBlock, JP!CacheInv
  <2>4. Len(cache) \in Nat /\ DOMAIN cache = 1 .. Len(cache)
    BY <2>3
  <2>5. CASE JP!Cached(b)
    <3>1. /\ DOMAIN cache' = DOMAIN cache
          /\ \A k \in DOMAIN cache :
                cache'[k] = IF cache[k].blocknum = b THEN [cache[k] EXCEPT !.blockdata = d]
                                                     ELSE cache[k]
      BY <1>1, <2>5 DEF JP!Put, JP!Cached
    <3>2. \A k \in DOMAIN cache :
             /\ cache'[k].blocknum = cache[k].blocknum
             /\ cache'[k].blockdata = IF cache[k].blocknum = b THEN d ELSE cache[k].blockdata
      <4> DEFINE T == [blocknum : Home, blockdata : Contents]
      <4>1. \A k \in DOMAIN cache : cache[k] \in T
        <5>1. cache \in Seq(T)
          BY <2>3
        <5> HIDE DEF T
        <5>2. QED  BY <2>4, <5>1
      <4>2. QED  BY <3>1, <4>1
    <3>3. JP!Cached(c)' <=> JP!Cached(c)
      BY <3>1, <3>2 DEF JP!Cached
    <3>4. CASE JP!Cached(c)
      <4>1. PICK k \in DOMAIN cache : cache[k].blocknum = c
        BY <3>4 DEF JP!Cached
      <4>2. QED  BY <2>1, <2>2, <3>1, <3>2, <4>1
    <3>5. CASE ~JP!Cached(c)
      BY <1>1, <2>1, <2>2, <2>5, <3>3, <3>5 DEF JP!Cached
    <3>6. QED  BY <3>4, <3>5
  <2>6. CASE ~JP!Cached(b)
    <3> DEFINE e == [blocknum |-> b, blockdata |-> d]
               N == Len(cache)
    <3>1. cache' = Append(cache, e)
      BY <1>1, <2>6 DEF JP!Put, JP!Cached
    <3>2. e.blocknum = b /\ e.blockdata = d
      OBVIOUS
    <3> HIDE DEF e
    <3>3. /\ DOMAIN cache' = 1 .. N + 1 /\ cache'[N + 1] = e
          /\ \A k \in 1 .. N : cache'[k] = cache[k]
      BY <2>3, <3>1
    <3>4. N + 1 \in DOMAIN cache' /\ \A k \in DOMAIN cache : k \in DOMAIN cache' /\ cache'[k] = cache[k]
      BY <2>4, <3>3
    <3>5. \A k \in DOMAIN cache' : k = N + 1 \/ k \in DOMAIN cache
      BY <2>4, <3>3
    <3> HIDE DEF N
    <3>6. CASE c = b
      BY <2>2, <3>2, <3>3, <3>4, <3>6
    <3>7. CASE c # b /\ JP!Cached(c)
      <4>1. PICK k \in DOMAIN cache : cache[k].blocknum = c
        BY <3>7 DEF JP!Cached
      <4>2. QED  BY <2>1, <2>2, <3>4, <3>7, <4>1
    <3>8. CASE c # b /\ ~JP!Cached(c)
      <4>1. ~JP!Cached(c)'
        BY <3>2, <3>3, <3>4, <3>5, <3>8 DEF JP!Cached
      <4>2. QED  BY <1>1, <2>1, <2>2, <3>8, <4>1
    <3>9. QED  BY <3>6, <3>7, <3>8
  <2>7. QED  BY <2>5, <2>6
<1>5. QED  BY <1>2, <1>3, <1>4

-----------------------------------------------------------------------------
(* The tools keep what the image shows.                                     *)

(* The inductive invariant.                                                 *)
VolumeKept == \E dirs, files : Kept(vol, rm, dirs, files)

ImageInv == JP!JournalInv /\ ToolsInv /\ VolumeKept /\ todo \in Writes(Home)

(* A tool begins with the volume as it is in the image.                     *)
Fresh(v) == [image |-> ImageOf(Home, v), writes |-> <<>>]

LEMMA FreshWorks ==
    ASSUME NEW v, Holdable(Home, v)
    PROVE  Works(Home, ImageOf(Home, v), Fresh(v), v)
<1> DEFINE image == ImageOf(Home, v)
<1>1. image = [b \in DOMAIN image |-> image[b]]
  BY DEF ImageOf
<1> HIDE DEF image
<1>2. After(image, <<>>) = image /\ <<>> \in Writes(Home)
  BY <1>1, AfterNone DEF Writes
<1>3. QED  BY <1>2 DEF Works, Fresh, image

LEMMA ImageDomain == \A v : DOMAIN ImageOf(Home, v) = Home
BY DEF ImageOf

LEMMA DiskIs ==
    ASSUME ImageInv, pc = "free", ~torn
    PROVE  disk = ImageOf(Home, vol) /\ Reading = Fresh(vol) /\ Decode(disk) = vol
<1>1. disk = ImageOf(Home, vol)
  BY Shows DEF ImageInv, DiskShown, ToolsInv, Unprotected
<1>2. Holdable(Home, vol)
  BY DEF ImageInv, VolumeKept, Kept
<1>3. Decode(disk) = vol
  BY <1>1, <1>2, DecodeIs, HomeCovers
<1>4. QED  BY <1>1, <1>3 DEF Reading, Fresh

(* A step that leaves the volume as it is keeps the rest.                   *)
LEMMA StepKeeps ==
    ASSUME ImageInv, ToolsNext, vol' = vol, rm' = rm \/ rm' = NoRm,
           ~(pc = "log" /\ pc' = "flush") \/ Unprotected',
           ~torn' /\ ~Unprotected' => ~torn /\ ~Unprotected,
           todo' \in Writes(Home), JobInv'
    PROVE  ImageInv'
<1>1. /\ JP!JournalInv'
      /\ ~torn' /\ ~Unprotected' => J!Recovered' = J!Recovered
  BY JournalKeeps DEF ImageInv
<1>2. VolumeKept'
  <2>1. PICK dirs, files : Kept(vol, rm, dirs, files)
    BY DEF ImageInv, VolumeKept
  <2>2. Kept(vol', rm', dirs, files)
    BY <2>1 DEF Kept
  <2>3. QED  BY <2>2 DEF VolumeKept
<1>3. ~torn' /\ ~Unprotected' => J!Recovered' = ImageOf(Home, vol')
  BY <1>1 DEF ImageInv, ToolsInv
<1>4. LogKept(vol')
  BY DEF ImageInv, ToolsInv
<1>5. ToolsInv'
  BY <1>3, <1>4 DEF ToolsInv
<1>6. QED  BY <1>1, <1>2, <1>5 DEF ImageInv

(* A tool starts with writes that make the volume it promises.              *)
LEMMA Begun ==
    ASSUME ImageInv, ToolsNext, pc = "free", ~torn, NEW tool, NEW s, NEW w,
           Start(tool, s.writes), Works(Home, disk, s, w)
    PROVE  /\ todo' \in Writes(Home)
           /\ After(J!View', todo') = ImageOf(Home, w)
           /\ job' = tool /\ vol' = vol /\ rm' = rm /\ pc' = "open" /\ crash_after' = 0
           /\ cache' = <<>> /\ disk' = disk /\ Idle /\ rm = NoRm
           /\ ~torn' /\ ~Unprotected /\ ~Unprotected'
<1>1. J!Mount /\ job' = tool /\ todo' = s.writes /\ UNCHANGED vars /\ torn' = torn
  BY DEF Start
<1>2. pc' = "open" /\ crash_after' = 0 /\ cache' = <<>> /\ disk' = disk
  BY <1>1 DEF J!Mount, J!ForgetMemory, J!image
<1>3. JP!JournalInv'
  BY JournalKeeps DEF ImageInv
<1>4. J!View' = disk
  BY <1>2, <1>3, ShowsNext DEF DiskShown
<1>5. s.writes \in Writes(Home) /\ After(disk, s.writes) = ImageOf(Home, w)
  BY DEF Works
<1>6. Idle
  BY DEF ImageInv, ToolsInv, JobInv
<1>7. QED  BY <1>1, <1>2, <1>4, <1>5, <1>6 DEF vars, Idle, Unprotected

LEMMA MkdirStarts ==
    ASSUME ImageInv, ToolsNext, NEW path \in Path, StartMkdir(path)
    PROVE  ImageInv'
<1> DEFINE s == MkdirWrites(Reading, DirOf(vol, path, {"dir", "file"}), Last(path))
           tool == [tool |-> "mkdir", path |-> path]
<1>1. pc = "free" /\ ~torn
  BY DEF StartMkdir
<1>2. disk = ImageOf(Home, vol) /\ Reading = Fresh(vol) /\ Decode(disk) = vol
  BY <1>1, DiskIs
<1>3. mkdirResult(vol, path) = "ok" /\ Start(tool, s.writes)
  BY <1>2 DEF StartMkdir
<1>4. Works(Home, disk, s, Made(vol, path))
  <2>1. PICK dirs, files : Kept(vol, rm, dirs, files)
    BY DEF ImageInv, VolumeKept
  <2>2. rm = NoRm
    BY <1>1 DEF ImageInv, ToolsInv, JobInv, Idle
  <2>3. Works(Home, disk, Reading, vol) /\ DOMAIN disk = Home
    BY <1>2, <2>1, FreshWorks, ImageDomain DEF Kept
  <2>4. QED  BY <1>3, <2>1, <2>2, <2>3, MkdirDone
<1>5. tool.tool = "mkdir" /\ tool.path = path
  OBVIOUS
<1> HIDE DEF s, tool
<1>6. /\ todo' \in Writes(Home)
      /\ After(J!View', todo') = ImageOf(Home, Made(vol, path))
      /\ job' = tool /\ vol' = vol /\ rm' = rm /\ pc' = "open" /\ crash_after' = 0
      /\ Idle /\ rm = NoRm
      /\ ~torn' /\ ~Unprotected /\ ~Unprotected'
  BY <1>1, <1>3, <1>4, Begun
<1>7. Promised'
  BY <1>3, <1>5, <1>6 DEF Promised, Written, Idle
<1>8. JobInv'
  BY <1>6, <1>7 DEF JobInv
<1>9. QED  BY <1>1, <1>6, <1>8, StepKeeps

LEMMA CopyinStarts ==
    ASSUME ImageInv, ToolsNext, NEW path \in Path, NEW file \in File, StartCopyin(path, file)
    PROVE  ImageInv'
<1> DEFINE s == CopyinWrites(Reading, DirOf(vol, path, {"dir"}), path, Truncated(file))
           tool == [tool |-> "copyin", path |-> path, file |-> file]
<1>1. pc = "free" /\ ~torn
  BY DEF StartCopyin
<1>2. disk = ImageOf(Home, vol) /\ Reading = Fresh(vol) /\ Decode(disk) = vol
  BY <1>1, DiskIs
<1>3. /\ copyinResult(vol, path, file) = "ok" /\ Start(tool, s.writes)
      /\ FreshNames => ~Taken(vol, path)
  BY <1>2 DEF StartCopyin
<1>4. Works(Home, disk, s, CopiedIn(vol, path, file))
  <2>1. PICK dirs, files : Kept(vol, rm, dirs, files)
    BY DEF ImageInv, VolumeKept
  <2>2. rm = NoRm /\ file \in Seq(Text)
    BY <1>1, VolumeAssumption DEF ImageInv, ToolsInv, JobInv, Idle
  <2>3. Works(Home, disk, Reading, vol) /\ DOMAIN disk = Home
    BY <1>2, <2>1, FreshWorks, ImageDomain DEF Kept
  <2>4. QED  BY <1>3, <2>1, <2>2, <2>3, CopyinDone
<1>5. tool.tool = "copyin" /\ tool.path = path /\ tool.file = file
  OBVIOUS
<1> HIDE DEF s, tool
<1>6. /\ todo' \in Writes(Home)
      /\ After(J!View', todo') = ImageOf(Home, CopiedIn(vol, path, file))
      /\ job' = tool /\ vol' = vol /\ rm' = rm /\ pc' = "open" /\ crash_after' = 0
      /\ Idle /\ rm = NoRm
      /\ ~torn' /\ ~Unprotected /\ ~Unprotected'
  BY <1>1, <1>3, <1>4, Begun
<1>7. Promised'
  BY <1>3, <1>5, <1>6 DEF Promised, Written, Idle
<1>8. JobInv'
  BY <1>6, <1>7 DEF JobInv
<1>9. QED  BY <1>1, <1>6, <1>8, StepKeeps

LEMMA RmStarts ==
    ASSUME ImageInv, ToolsNext, NEW path \in Path, StartRm(path)
    PROVE  ImageInv'
<1> DEFINE s == RmWrites(Reading, path)
           tool == [tool |-> "rm", path |-> path, resize |-> ToResize(vol, path)]
<1>1. pc = "free" /\ ~torn
  BY DEF StartRm
<1>2. disk = ImageOf(Home, vol) /\ Reading = Fresh(vol) /\ Decode(disk) = vol
  BY <1>1, DiskIs
<1>3. rmResult(vol, path) = "rm" /\ ~UsesEveryPtr(vol, path) /\ Start(tool, s.writes)
  BY <1>2 DEF StartRm
<1>4. Works(Home, disk, s, Removed(vol, path))
  <2>1. PICK dirs, files : Kept(vol, rm, dirs, files)
    BY DEF ImageInv, VolumeKept
  <2>2. rm = NoRm
    BY <1>1 DEF ImageInv, ToolsInv, JobInv, Idle
  <2>3. Works(Home, disk, Reading, vol) /\ DOMAIN disk = Home
    BY <1>2, <2>1, FreshWorks, ImageDomain DEF Kept
  <2>4. QED  BY <1>3, <2>1, <2>2, <2>3, RmDone
<1>5. tool.tool = "rm" /\ tool.path = path /\ tool.resize = ToResize(vol, path)
  OBVIOUS
<1> HIDE DEF s, tool
<1>6. /\ todo' \in Writes(Home)
      /\ After(J!View', todo') = ImageOf(Home, Removed(vol, path))
      /\ job' = tool /\ vol' = vol /\ rm' = rm /\ pc' = "open" /\ crash_after' = 0
      /\ Idle /\ rm = NoRm
      /\ ~torn' /\ ~Unprotected /\ ~Unprotected'
  BY <1>1, <1>3, <1>4, Begun
<1>7. Promised'
  BY <1>3, <1>5, <1>6 DEF Promised, Written, Idle
<1>8. JobInv'
  BY <1>6, <1>7 DEF JobInv
<1>9. QED  BY <1>1, <1>6, <1>8, StepKeeps

(* The writes go to the cache one by one, and what is left is promised.     *)
LEMMA WritesKeep ==
    ASSUME ImageInv, ToolsNext, ToolWrites
    PROVE  ImageInv'
<1> DEFINE b == Head(todo).blocknum
           d == Head(todo).blockdata
<1>1. /\ todo # <<>> /\ J!Write(b, d) /\ todo' = Tail(todo)
      /\ vol' = vol /\ rm' = rm /\ job' = job /\ torn' = torn
  BY DEF ToolWrites, vars
<1>2. pc = "open" /\ pc' = "open" /\ crash_after' = crash_after
  BY <1>1 DEF J!Write, J!commitVars
<1>3. JP!Write(b, d)
  BY <1>1 DEF J!Write, JP!Write, J!Cached, JP!Cached, J!Put, JP!Put, J!image, JP!image,
              J!commitVars, JP!commitVars, J!checklogVars, JP!checklogVars
<1>4. JP!JournalInv /\ JP!JournalInv' /\ todo \in Writes(Home)
  BY JournalKeeps DEF ImageInv
<1>5. J!View = [c \in Home |-> J!ReadBlock(c)]
  BY <1>2 DEF J!View, J!ToolRuns
<1>6. DOMAIN J!View = Home
  BY <1>5
<1>7. b \in Home /\ d \in Contents
  <2> DEFINE T == [blocknum : Home, blockdata : Contents]
  <2>1. todo \in Seq(T) /\ todo # <<>>
    BY <1>1, <1>4 DEF Writes
  <2> HIDE DEF T
  <2>2. Head(todo) \in T
    BY <2>1
  <2>3. QED  BY <2>2 DEF T
<1>8. J!View' = [J!View EXCEPT ![b] = d]
  <2> HIDE DEF b, d
  <2>1. QED  BY <1>3, <1>4, <1>7, WriteShows
<1>9. Tail(todo) \in Writes(Home) /\ After(J!View', todo') = After(J!View, todo)
  <2> DEFINE view == J!View
             new == J!View'
  <2>1. DOMAIN view = Home /\ Overwritten(view, Head(todo), new)
    BY <1>6, <1>8 DEF Overwritten
  <2> HIDE DEF view, new
  <2>2. /\ Tail(todo) \in Writes(Home)
        /\ After(new, Tail(todo)) = After(view, todo)
    BY <1>1, <1>4, <2>1, AfterHead
  <2>3. QED  BY <1>1, <2>2 DEF view, new
<1> HIDE DEF b, d
<1>10. Promised /\ crash_after = 0
  BY <1>2 DEF ImageInv, ToolsInv, JobInv
<1>11. Promised'
  BY <1>1, <1>9, <1>10 DEF Promised, Written, Idle
<1>12. ~torn /\ ~Unprotected /\ ~Unprotected'
  BY <1>2 DEF ImageInv, ToolsInv, JobInv, Unprotected
<1>13. JobInv'
  BY <1>1, <1>2, <1>10, <1>11, <1>12 DEF JobInv
<1>14. QED  BY <1>1, <1>2, <1>9, <1>12, <1>13, StepKeeps

(* The blocks go to the log, and the cache stays, also when there is no     *)
(* block left in it for the commit block.                                   *)
LEMMA CommitsKeep ==
    ASSUME ImageInv, ToolsNext, ToolCommits \/ Logs \/ SkipsCommitBlock
    PROVE  ImageInv'
<1>1. crash_after = 0 /\ todo \in Writes(Home)
  BY DEF ImageInv, ToolsInv, JobInv
<1>2. /\ pc \in {"open", "log"} /\ crash_after' = 0
      /\ cache' = cache /\ disk' = disk
      /\ pc' = "log" \/ (pc' = "flush" /\ Unprotected')
  BY <1>1 DEF ToolCommits, Logs, SkipsCommitBlock, J!BeginCommit, J!LogBlock, J!SkipCommitBlock,
              J!CrashNow, J!CountWrite, J!image, J!commitVars, Unprotected
<1>3. todo' = todo /\ vol' = vol /\ rm' = rm /\ job' = job /\ torn' = torn
  BY DEF ToolCommits, Logs, SkipsCommitBlock, vars
<1>4. todo = <<>> /\ Promised /\ ~torn
  <2>1. (pc # "open" => todo = <<>>) /\ Promised /\ ~torn
    BY <1>2 DEF ImageInv, ToolsInv, JobInv
  <2>2. ToolCommits \/ pc = "log"
    BY DEF Logs, SkipsCommitBlock, J!LogBlock, J!SkipCommitBlock
  <2>3. QED  BY <2>1, <2>2 DEF ToolCommits
<1>5. J!View' = J!View
  BY <1>2 DEF J!View, J!ToolRuns, J!ReadBlock, J!Cached
<1>6. Promised'
  <2>1. job.tool \in {"mkdir", "copyin", "rm", "resize"}
    <3>1. ToolCommits => cache # <<>>
      BY DEF ToolCommits, J!BeginCommit
    <3>2. ~ToolCommits => pc = "log"
      BY DEF Logs, SkipsCommitBlock, J!LogBlock, J!SkipCommitBlock
    <3>3. QED  BY <1>4, <3>1, <3>2 DEF Promised
  <2>2. QED  BY <1>2, <1>3, <1>4, <1>5, <2>1 DEF Promised, Written, Idle
<1>7. ~Unprotected
  BY <1>2 DEF Unprotected
<1>8. JobInv'
  BY <1>2, <1>3, <1>4, <1>6 DEF JobInv
<1>9. QED  BY <1>1, <1>2, <1>3, <1>4, <1>7, <1>8, StepKeeps

(* When the transaction is durable the volume is what was promised.         *)
LEMMA DurableKeeps ==
    ASSUME ImageInv, pc \in {"log", "flush"}, Promised, Durable
    PROVE  /\ job.tool \in {"mkdir", "copyin", "rm", "resize"}
           /\ \E dirs, files : Kept(vol', rm', dirs, files)
           /\ J!View = ImageOf(Home, vol')
           /\ IF job.tool = "rm" THEN rm' = job.resize /\ rm' # NoRm ELSE rm' = NoRm
<1> DEFINE Done(dirs, files) ==
              /\ Kept(vol', rm', dirs, files)
              /\ J!View = ImageOf(Home, vol')
              /\ IF job.tool = "rm" THEN rm' = job.resize /\ rm' # NoRm ELSE rm' = NoRm
<1>1. todo = <<>> /\ todo \in Writes(Home)
  BY DEF ImageInv, ToolsInv, JobInv
<1>2. After(J!View, todo) = J!View
  <2>1. J!View = [c \in Home |-> J!ReadBlock(c)]
    BY DEF J!View, J!ToolRuns
  <2>2. J!View = [c \in DOMAIN J!View |-> J!View[c]]
    BY <2>1
  <2>3. QED  BY <1>1, <2>2, AfterNone
<1>3. PICK dirs, files : Kept(vol, rm, dirs, files)
  BY DEF ImageInv, VolumeKept
<1>4. /\ Works(Home, ImageOf(Home, vol), Fresh(vol), vol)
      /\ DOMAIN ImageOf(Home, vol) = Home
  BY <1>3, FreshWorks, ImageDomain DEF Kept
<1>5. CASE job.tool = "mkdir"
  <2>1. /\ Idle /\ job.path \in Path /\ mkdirResult(vol, job.path) = "ok"
        /\ J!View = ImageOf(Home, Made(vol, job.path))
    BY <1>2, <1>5 DEF Promised, Written
  <2>2. mkdir(job.path)
    BY <1>5, <2>1 DEF Durable, change_dir_size
  <2>3. vol' = Made(vol, job.path) /\ rm' = rm /\ rm = NoRm
    BY <2>1, <2>2 DEF mkdir, Idle
  <2>4. Kept(vol', rm', dirs \cup {get_free_inode(vol)}, files)
    BY <1>3, <1>4, <2>1, <2>3, MkdirDone
  <2>5. QED  BY <1>5, <2>1, <2>3, <2>4
<1>6. CASE job.tool = "copyin"
  <2>1. /\ Idle /\ job.path \in Path /\ job.file \in Seq(Text)
        /\ copyinResult(vol, job.path, job.file) = "ok"
        /\ J!View = ImageOf(Home, CopiedIn(vol, job.path, job.file))
    BY <1>2, <1>6, VolumeAssumption DEF Promised, Written
  <2>2. copyin(job.path, job.file)
    BY <1>6, <2>1 DEF Durable, change_dir_size
  <2>3. vol' = CopiedIn(vol, job.path, job.file) /\ rm' = rm /\ rm = NoRm
    BY <2>1, <2>2 DEF copyin, Idle
  <2>4. Kept(vol', rm', dirs, files \cup {get_free_inode(vol)})
    BY <1>3, <1>4, <2>1, <2>3, CopyinDone
  <2>5. QED  BY <1>6, <2>1, <2>3, <2>4
<1>7. CASE job.tool = "rm"
  <2>1. /\ Idle /\ job.path \in Path
        /\ rmResult(vol, job.path) = "rm" /\ ~UsesEveryPtr(vol, job.path)
        /\ job.resize = ToResize(vol, job.path)
        /\ J!View = ImageOf(Home, Removed(vol, job.path))
    BY <1>2, <1>7 DEF Promised, Written
  <2>2. jfs_remove_file(job.path)
    BY <1>7, <2>1 DEF Durable, change_dir_size
  <2>3. vol' = Removed(vol, job.path) /\ rm' = ToResize(vol, job.path) /\ rm = NoRm
    BY <2>1, <2>2 DEF jfs_remove_file, Idle
  <2>4. /\ Kept(vol', rm', dirs, files \ {FoundEntry(vol, job.path).inode})
        /\ rm'.dir \in dirs
    BY <1>3, <1>4, <2>1, <2>3, RmDone
  <2>5. rm' # NoRm
    <3>1. None \notin Inode /\ dirs \subseteq Inode
      BY <1>3, InodeNumbers DEF None, Kept, Sound, InodesInv
    <3>2. QED  BY <2>4, <3>1 DEF NoRm
  <2>6. QED  BY <1>7, <2>1, <2>3, <2>4, <2>5
<1>8. CASE job.tool = "resize"
  <2>1. ~Idle /\ J!View = ImageOf(Home, Resized(vol, rm))
    BY <1>2, <1>8 DEF Promised, Written
  <2>2. change_dir_size
    BY <1>8 DEF Durable
  <2>3. vol' = Resized(vol, rm) /\ rm' = NoRm /\ rm # NoRm
    BY <2>1, <2>2 DEF change_dir_size, Idle
  <2>4. Kept(vol', rm', dirs, files)
    BY <1>3, <1>4, <2>3, ResizeDone
  <2>5. QED  BY <1>8, <2>1, <2>3, <2>4
<1>9. job.tool \in {"mkdir", "copyin", "rm", "resize"}
  BY DEF Promised
<1>10. QED  BY <1>5, <1>6, <1>7, <1>8, <1>9

(* It is with the commit block.                                             *)
LEMMA CommitPointKeeps ==
    ASSUME ImageInv, ToolsNext, CommitPoint
    PROVE  ImageInv'
<1>1. /\ J!WriteCommitBlock /\ Durable /\ job' = job /\ todo' = todo /\ torn' = torn
  BY DEF CommitPoint
<1>2. /\ pc = "log" /\ pc' = "flush" /\ blocks_done' = blocks_done /\ blocks_done < Ptrs
      /\ crash_after' = crash_after
  BY <1>1 DEF J!WriteCommitBlock, J!commitVars
<1>3. ~Unprotected /\ ~Unprotected'
  BY <1>2, VolumeSizes DEF Unprotected, ImageInv, JP!JournalInv, JP!TypeOK
<1>4. /\ Promised /\ ~torn /\ crash_after = 0 /\ todo = <<>> /\ todo \in Writes(Home)
  BY <1>2 DEF ImageInv, ToolsInv, JobInv
<1>5. JP!JournalInv' /\ J!Recovered' = J!View
  BY <1>2, <1>3, JournalKeeps DEF ImageInv
<1>6. /\ job.tool \in {"mkdir", "copyin", "rm", "resize"}
      /\ \E dirs, files : Kept(vol', rm', dirs, files)
      /\ J!View = ImageOf(Home, vol')
      /\ IF job.tool = "rm" THEN rm' = job.resize /\ rm' # NoRm ELSE rm' = NoRm
  BY <1>1, <1>2, <1>4, DurableKeeps
<1>7. JobInv'
  BY <1>1, <1>2, <1>3, <1>4, <1>6 DEF JobInv, Idle
<1>8. LogKept(vol') /\ VolumeKept'
  BY <1>6 DEF Kept, VolumeKept
<1>9. ToolsInv'
  BY <1>5, <1>6, <1>7, <1>8 DEF ToolsInv
<1>10. QED  BY <1>1, <1>4, <1>5, <1>8, <1>9 DEF ImageInv

(* A block that goes home reads as before.                                  *)
LEMMA FlushShows ==
    ASSUME JP!JournalInv, JP!JournalInv', J!FlushBlock, pc' = "flush"
    PROVE  J!View' = J!View
<1>1. /\ pc = "flush" /\ cache # <<>> /\ cache' = Tail(cache)
      /\ disk' = [disk EXCEPT ![Head(cache).blocknum] = Head(cache).blockdata]
  BY DEF J!FlushBlock
<1>2. /\ J!View = [c \in Home |-> JP!ReadBlock(c)]
      /\ J!View' = [c \in Home |-> JP!ReadBlock(c)']
  <2>1. \A c : J!ReadBlock(c)' = JP!ReadBlock(c)'
    BY DEF J!ReadBlock, JP!ReadBlock, J!Cached, JP!Cached
  <2>2. QED  BY <1>1, <2>1, SameJournal DEF J!View, J!ToolRuns
<1>3. /\ Len(cache) \in Nat /\ DOMAIN cache = 1 .. Len(cache) /\ 1 \in DOMAIN cache
      /\ Head(cache) = cache[1]
      /\ DOMAIN cache' = 1 .. Len(cache) - 1
      /\ \A k \in DOMAIN cache' : cache'[k] = cache[k + 1]
      /\ \A k, l \in DOMAIN cache : cache[k].blocknum = cache[l].blocknum => k = l
  <2> DEFINE T == [blocknum : Home, blockdata : Contents]
  <2>1. /\ cache \in Seq(T)
        /\ \A k, l \in DOMAIN cache : cache[k].blocknum = cache[l].blocknum => k = l
    BY DEF JP!JournalInv, JP!TypeOK, JP!CachedBlock, JP!CacheInv
  <2> HIDE DEF T
  <2>2. QED  BY <1>1, <2>1
<1>4. DOMAIN disk = Home
  BY DEF JP!JournalInv, JP!TypeOK
<1>5. ASSUME NEW c \in Home
      PROVE  JP!ReadBlock(c)' = JP!ReadBlock(c)
  <2>1. /\ \A k \in DOMAIN cache : cache[k].blocknum = c => JP!ReadBlock(c) = cache[k].blockdata
        /\ ~JP!Cached(c) => JP!ReadBlock(c) = disk[c]
    BY ReadsShow DEF ReadsAre
  <2>2. /\ \A k \in DOMAIN cache' : cache'[k].blocknum = c => JP!ReadBlock(c)' = cache'[k].blockdata
        /\ ~JP!Cached(c)' => JP!ReadBlock(c)' = disk'[c]
    <3>1. ReadsAre'
      BY ReadsShow, PTL
    <3>2. QED  BY <3>1 DEF ReadsAre
  <2>3. CASE cache[1].blocknum = c
    <3>1. ~JP!Cached(c)'
      <4>1. ASSUME NEW k \in DOMAIN cache', cache'[k].blocknum = c
            PROVE  FALSE
        <5>1. k + 1 \in DOMAIN cache /\ k + 1 # 1 /\ cache[k + 1].blocknum = c
          BY <1>3, <4>1
        <5>2. QED  BY <1>3, <2>3, <5>1
      <4>2. QED  BY <4>1 DEF JP!Cached
    <3>2. disk'[c] = cache[1].blockdata
      BY <1>1, <1>3, <1>4, <2>3
    <3>3. QED  BY <1>3, <2>1, <2>2, <2>3, <3>1, <3>2
  <2>4. CASE cache[1].blocknum # c /\ JP!Cached(c)
    <3>1. PICK k \in DOMAIN cache : cache[k].blocknum = c
      BY <2>4 DEF JP!Cached
    <3>2. k - 1 \in DOMAIN cache' /\ cache'[k - 1] = cache[k]
      BY <1>3, <2>4, <3>1
    <3>3. QED  BY <2>1, <2>2, <3>1, <3>2
  <2>5. CASE cache[1].blocknum # c /\ ~JP!Cached(c)
    <3>1. ~JP!Cached(c)'
      <4>1. \A k \in DOMAIN cache' : k + 1 \in DOMAIN cache /\ cache'[k] = cache[k + 1]
        BY <1>3
      <4>2. QED  BY <2>5, <4>1 DEF JP!Cached
    <3>2. disk'[c] = disk[c]
      BY <1>1, <1>3, <1>4, <2>5
    <3>3. QED  BY <2>1, <2>2, <2>5, <3>1, <3>2
  <2>6. QED  BY <2>3, <2>4, <2>5
<1>6. QED  BY <1>2, <1>5

(* The blocks go home, with or without a commit block.                      *)
LEMMA FlushesKeep ==
    ASSUME ImageInv, ToolsNext, Flushes
    PROVE  ImageInv'
<1>1. crash_after = 0 /\ todo \in Writes(Home)
  BY DEF ImageInv, ToolsInv, JobInv
<1>2. /\ pc = "flush" /\ pc' = "flush" /\ crash_after' = 0 /\ blocks_done' = blocks_done
      /\ J!FlushBlock
  BY <1>1 DEF Flushes, J!FlushBlock, J!CrashNow, J!CountWrite
<1>3. todo' = todo /\ vol' = vol /\ rm' = rm /\ job' = job /\ torn' = torn
  BY DEF Flushes, vars
<1>4. Unprotected' <=> Unprotected
  BY <1>2 DEF Unprotected
<1>5. ~torn /\ todo = <<>>
  BY <1>2 DEF ImageInv, ToolsInv, JobInv
<1>6. CASE Unprotected
  <2>1. Promised
    BY <1>6 DEF ImageInv, ToolsInv, JobInv
  <2>2. JP!JournalInv /\ JP!JournalInv'
    BY JournalKeeps DEF ImageInv
  <2>3. J!View' = J!View
    BY <1>2, <2>2, FlushShows
  <2>4. job.tool \in {"mkdir", "copyin", "rm", "resize"}
    BY <1>2, <2>1 DEF Promised
  <2>5. Promised'
    BY <1>3, <2>1, <2>3, <2>4 DEF Promised, Written, Idle
  <2>6. JobInv'
    BY <1>2, <1>3, <1>4, <1>5, <1>6, <2>5 DEF JobInv
  <2>7. QED  BY <1>1, <1>2, <1>3, <1>4, <1>6, <2>6, StepKeeps
<1>7. CASE ~Unprotected
  <2>1. JobInv'
    BY <1>2, <1>3, <1>4, <1>5, <1>7 DEF ImageInv, ToolsInv, JobInv, Idle
  <2>2. QED  BY <1>1, <1>2, <1>3, <1>4, <2>1, StepKeeps
<1>8. QED  BY <1>6, <1>7

(* When all of them are, the image is the volume.                           *)
LEMMA ReturnIs ==
    ASSUME ImageInv, ToolsNext, CommitReturns
    PROVE  /\ pc' = "open" /\ cache' = <<>> /\ disk' = disk /\ torn' = torn /\ ~torn
           /\ crash_after' = 0 /\ ~Unprotected' /\ todo = <<>> /\ todo \in Writes(Home)
           /\ JP!JournalInv' /\ J!View' = disk /\ J!Recovered' = disk
           /\ disk = ImageOf(Home, vol')
           /\ \E dirs, files : Kept(vol', rm', dirs, files)
           /\ IF job.tool = "rm" THEN rm' = job.resize /\ rm' # NoRm ELSE rm' = NoRm
<1>1. /\ J!EndCommit /\ torn' = torn
      /\ IF Unprotected THEN Durable ELSE UNCHANGED vars
  BY DEF CommitReturns
<1>2. /\ pc = "flush" /\ pc' = "open" /\ cache = <<>> /\ cache' = <<>> /\ disk' = disk
      /\ crash_after' = crash_after
  BY <1>1 DEF J!EndCommit
<1>3. ~torn /\ crash_after = 0 /\ todo = <<>> /\ todo \in Writes(Home) /\ ~Unprotected'
  BY <1>2 DEF ImageInv, ToolsInv, JobInv, Unprotected
<1>4. /\ JP!JournalInv'
      /\ ~Unprotected => J!Recovered' = J!Recovered
  BY <1>2, <1>3, JournalKeeps DEF ImageInv
<1>5. J!View' = disk /\ J!Recovered' = disk
  BY <1>2, <1>4, ShowsNext DEF DiskShown
<1>6. CASE Unprotected
  <2>1. Promised /\ Durable
    BY <1>1, <1>6 DEF ImageInv, ToolsInv, JobInv
  <2>2. /\ \E dirs, files : Kept(vol', rm', dirs, files)
        /\ J!View = ImageOf(Home, vol')
        /\ IF job.tool = "rm" THEN rm' = job.resize /\ rm' # NoRm ELSE rm' = NoRm
    BY <1>2, <2>1, DurableKeeps
  <2>3. J!View = disk
    BY <1>2, JournalAssumptions, JP!EmptyCache, SameJournal DEF ImageInv, JP!ToolRuns
  <2>4. QED  BY <1>1, <1>2, <1>3, <1>4, <1>5, <2>2, <2>3
<1>7. CASE ~Unprotected
  <2>1. vol' = vol /\ rm' = rm
    BY <1>1, <1>7 DEF vars
  <2>2. disk = ImageOf(Home, vol')
    BY <1>3, <1>4, <1>5, <1>7, <2>1 DEF ImageInv, ToolsInv
  <2>3. IF job.tool = "rm" THEN rm' = job.resize /\ rm' # NoRm ELSE rm' = NoRm
    BY <1>2, <1>7, <2>1 DEF ImageInv, ToolsInv, JobInv, Idle
  <2>4. \E dirs, files : Kept(vol', rm', dirs, files)
    BY <2>1 DEF ImageInv, VolumeKept
  <2>5. QED  BY <1>1, <1>2, <1>3, <1>4, <1>5, <2>2, <2>3, <2>4
<1>8. QED  BY <1>6, <1>7

(* jfs_rm goes on with what it finds.                                       *)
LEMMA ReturnsKeep ==
    ASSUME ImageInv, ToolsNext, CommitReturns
    PROVE  ImageInv'
<1>1. /\ pc' = "open" /\ cache' = <<>> /\ disk' = disk /\ ~torn'
      /\ crash_after' = 0 /\ ~Unprotected' /\ todo = <<>> /\ todo \in Writes(Home)
      /\ JP!JournalInv' /\ J!View' = disk /\ J!Recovered' = disk
      /\ disk = ImageOf(Home, vol')
      /\ IF job.tool = "rm" THEN rm' = job.resize /\ rm' # NoRm ELSE rm' = NoRm
  BY ReturnIs
<1>2. PICK dirs, files : Kept(vol', rm', dirs, files)
  BY ReturnIs
<1>3. ASSUME Promised', todo' \in Writes(Home)
      PROVE  ImageInv'
  <2>1. JobInv'
    BY <1>1, <1>3 DEF JobInv
  <2>2. LogKept(vol') /\ VolumeKept'
    BY <1>2 DEF Kept, VolumeKept
  <2>3. ToolsInv'
    BY <1>1, <2>1, <2>2 DEF ToolsInv
  <2>4. QED  BY <1>1, <1>3, <2>2, <2>3 DEF ImageInv
<1>4. CASE job.tool = "rm"
  <2> DEFINE s == ResizeWrites(Reading, rm')
  <2>1. /\ job' = [tool |-> "resize"] /\ todo' = s.writes /\ rm' # NoRm
    BY <1>1, <1>4 DEF CommitReturns
  <2>2. Works(Home, disk, s, Resized(vol', rm'))
    <3>1. Works(Home, disk, Reading, vol') /\ DOMAIN disk = Home
      BY <1>1, <1>2, FreshWorks, ImageDomain DEF Kept, Reading, Fresh
    <3>2. QED  BY <1>2, <2>1, <3>1, ResizeDone
  <2> HIDE DEF s
  <2>3. todo' \in Writes(Home) /\ After(J!View', todo') = ImageOf(Home, Resized(vol', rm'))
    BY <1>1, <2>1, <2>2 DEF Works
  <2>4. job'.tool = "resize"
    BY <2>1
  <2>5. Promised'
    BY <2>1, <2>3, <2>4 DEF Promised, Written, Idle
  <2>6. QED  BY <1>3, <2>3, <2>5
<1>5. CASE job.tool # "rm"
  <2>1. job' = NoJob /\ todo' = todo /\ rm' = NoRm
    BY <1>1, <1>5 DEF CommitReturns
  <2>2. job'.tool = "none"
    BY <2>1 DEF NoJob
  <2>3. Promised'
    BY <1>1, <2>1, <2>2 DEF Promised, Idle
  <2>4. QED  BY <1>1, <1>3, <2>1, <2>3
<1>6. QED  BY <1>4, <1>5

(* A tool ends, or dies and is forgotten.                                   *)
LEMMA EndsKeep ==
    ASSUME ImageInv, ToolsNext, ToolExits \/ ToolDies
    PROVE  ImageInv'
<1>1. pc' \in {"free", "down"} /\ crash_after' = 0 /\ ~Unprotected'
  BY DEF ToolExits, ToolDies, J!Exit, J!Crash, J!ForgetMemory, Unprotected
<1>2. CASE ToolExits
  <2>1. /\ job = NoJob /\ pc = "open" /\ todo' = todo /\ vol' = vol /\ rm' = rm
        /\ torn' = torn /\ ~Unprotected
    BY <1>2 DEF ToolExits, J!Exit, vars, Unprotected
  <2>2. Promised /\ job.tool = "none"
    BY <2>1 DEF ImageInv, ToolsInv, JobInv, NoJob
  <2>3. Idle /\ todo = <<>> /\ todo \in Writes(Home)
    BY <2>2 DEF Promised, ImageInv
  <2>4. JobInv'
    BY <1>1, <2>1, <2>3 DEF JobInv, Idle
  <2>5. QED  BY <1>1, <2>1, <2>3, <2>4, StepKeeps
<1>3. CASE ToolDies
  <2>1. /\ todo' = <<>> /\ vol' = vol /\ (rm' = rm \/ rm' = NoRm) /\ Idle'
        /\ torn' = (torn \/ Unprotected)
    BY <1>3 DEF ToolDies, CrashBetweenCommits, vars, Idle
  <2>2. <<>> \in Writes(Home)
    BY DEF Writes
  <2>3. JobInv'
    BY <1>1, <2>1 DEF JobInv
  <2>4. QED  BY <1>1, <2>1, <2>2, <2>3, StepKeeps
<1>4. QED  BY <1>2, <1>3

(* jfs_checklog runs when no tool does.                                     *)
LEMMA RecoversWhen ==
    ASSUME ImageInv, NEW r \in Checker, Recovers(r)
    PROVE  /\ pc \in {"free", "down"}
           /\ pc' \in {"free", "down"} /\ crash_after' = crash_after
<1>1. pc \in {"free", "down"}
  <2>1. JP!Located(r)
    BY DEF ImageInv, JP!JournalInv, JP!LogShape
  <2>2. J!Checklog(r) \/ rpc[r] # "idle"
    BY DEF Recovers, J!ChecklogDies, J!ChecklogStep, J!ScanData, J!ScanMark, J!ScanOverrun,
           J!ReplayBlock, J!ReplayDone, J!CancelMark
  <2>3. QED  BY <2>1, <2>2 DEF JP!Located, J!Checklog
<1>2. QED
  BY <1>1 DEF Recovers, J!Checklog, J!ChecklogDies, J!ChecklogStep, J!ScanData, J!ScanMark,
              J!ScanOverrun, J!ReplayBlock, J!ReplayDone, J!CancelMark, J!toolVars,
              J!commitVars

(* A recovery changes nothing of what it restores.                          *)
LEMMA RecoversKeep ==
    ASSUME ImageInv, ToolsNext, NEW r \in Checker, Recovers(r)
    PROVE  ImageInv'
<1>1. todo' = todo /\ vol' = vol /\ rm' = rm /\ job' = job /\ torn' = torn
  BY DEF Recovers, vars
<1>2. pc \in {"free", "down"} /\ pc' \in {"free", "down"} /\ crash_after' = crash_after
  BY RecoversWhen
<1>3. JobInv /\ todo \in Writes(Home)
  BY DEF ImageInv, ToolsInv
<1>4. ~Unprotected /\ ~Unprotected'
  BY <1>2 DEF Unprotected
<1>5. JobInv'
  BY <1>1, <1>2, <1>3, <1>4 DEF JobInv, Idle
<1>6. QED  BY <1>1, <1>2, <1>3, <1>4, <1>5, StepKeeps

(* Every step of the tools keeps the invariant.                             *)
LEMMA ImageStep == ImageInv /\ [ToolsNext]_toolsVars => ImageInv'
<1> SUFFICES ASSUME ImageInv, [ToolsNext]_toolsVars PROVE ImageInv'
  OBVIOUS
<1>1. CASE ToolsNext
  BY <1>1, MkdirStarts, CopyinStarts, RmStarts, WritesKeep, CommitsKeep, CommitPointKeeps,
     FlushesKeep, ReturnsKeep, EndsKeep, RecoversKeep
  DEF ToolsNext
<1>2. CASE UNCHANGED toolsVars
  <2>1. /\ UNCHANGED vars /\ UNCHANGED journalVars
        /\ job' = job /\ todo' = todo /\ torn' = torn
    BY <1>2 DEF toolsVars
  <2>2. [JP!Next]_(JP!vars)
    BY <2>1 DEF JP!vars, journalVars
  <2>3. JP!JournalInv'
    BY <2>2, JournalAssumptions, JP!SafeStep DEF ImageInv
  <2>4. J!Recovered' = J!Recovered /\ J!View' = J!View
    BY <2>1 DEF journalVars, J!Recovered, J!View, J!ToolRuns, J!ReadBlock, J!Cached, J!Found,
                J!IsMark, J!Lists
  <2>5. Unprotected' <=> Unprotected
    BY <2>1 DEF journalVars, Unprotected
  <2>6. JobInv'
    <3>1. Promised' <=> Promised
      BY <2>1, <2>4 DEF journalVars, vars, Promised, Written, Idle
    <3>2. QED  BY <2>1, <2>5, <3>1 DEF ImageInv, ToolsInv, JobInv, journalVars, vars, Idle
  <2>7. vol' = vol /\ rm' = rm
    BY <2>1 DEF vars
  <2>8. ToolsInv'
    BY <2>1, <2>4, <2>5, <2>6, <2>7 DEF ImageInv, ToolsInv
  <2>9. QED  BY <2>1, <2>3, <2>7, <2>8 DEF ImageInv, VolumeKept
<1>3. QED  BY <1>1, <1>2

-----------------------------------------------------------------------------
(* What jfs_format leaves.                                                  *)

LEMMA ImageStarts == ToolsInit => ImageInv
<1> SUFFICES ASSUME ToolsInit PROVE ImageInv
  OBVIOUS
<1> DEFINE v == create_log_file(create_fs_root(NewGroups))
           image == FormatWrites.image
<1>1. /\ vol = v /\ rm = NoRm
      /\ disk = [b \in Home |-> image[b]] /\ log = [n \in 0 .. Ptrs - 1 |-> image[LogPtrs[n]]]
      /\ pc = "free" /\ crash_after = 0 /\ todo = <<>> /\ ~torn
  BY DEF ToolsInit, Init
<1>2. image = ImageOf(Block, v) /\ Holdable(Block, v)
  BY FormatWorks DEF Works
<1>3. LogKept(v) /\ Sound(v, {Root}, {LogInode})
  BY LogIsMade
<1> HIDE DEF v, image
<1>4. disk = ImageOf(Home, vol)
  <2>1. \A b \in Home : image[b] = BlockOf(v, b)
    BY <1>2 DEF ImageOf, Home
  <2>2. QED  BY <1>1, <2>1 DEF ImageOf
<1>5. Holdable(Home, v)
  BY <1>2, <1>3 DEF Holdable, LogKept
<1>6. log = [n \in 0 .. Ptrs - 1 |-> DataBlock(Zero)]
  <2>1. ASSUME NEW n \in 0 .. Ptrs - 1
        PROVE  image[LogPtrs[n]] = DataBlock(Zero)
    <3>1. LogPtrs[n] \in Block /\ ~IsHeader(LogPtrs[n]) /\ LogPtrs[n] \notin Home
      BY LogPlace
    <3>2. LogPtrs[n] % BlocksPerGroup # 0
      BY <3>1, HeaderSizes DEF IsHeader
    <3>3. BlockOf(v, LogPtrs[n]) = DataBlock(v.data[LogPtrs[n]])
      BY <3>1, <3>2 DEF BlockOf
    <3>4. v.data[LogPtrs[n]] = Zero
      BY <1>3, <3>1 DEF LogKept
    <3>5. image[LogPtrs[n]] = BlockOf(v, LogPtrs[n])
      BY <1>2, <3>1 DEF ImageOf
    <3>6. QED  BY <3>3, <3>4, <3>5
  <2>2. QED  BY <1>1, <2>1
<1>7. JP!Init
  <2>1. disk \in [Home -> Contents]
    <3>1. \A b \in Home : BlockOf(v, b) \in Contents
      BY <1>2, BlockIs DEF Home
    <3>2. QED  BY <1>1, <1>4, <3>1 DEF ImageOf
  <2>2. QED
    BY <1>6, <2>1 DEF ToolsInit, JP!Init, J!NoBlocks, JP!NoBlocks, J!Slots, JP!Slots, J!NoBlock,
                      JP!NoBlock
<1>8. JP!JournalInv
  BY <1>7, JournalAssumptions, JP!SafeInit
<1>9. J!Recovered = ImageOf(Home, vol)
  BY <1>1, <1>4, <1>8, Shows DEF DiskShown
<1>10. Kept(vol, rm, {Root}, {LogInode})
  BY <1>1, <1>3, <1>5 DEF Kept
<1>11. JobInv
  BY <1>1 DEF JobInv, Idle, Unprotected
<1>12. <<>> \in Writes(Home)
  BY DEF Writes
<1>13. QED
  BY <1>1, <1>3, <1>8, <1>9, <1>10, <1>11, <1>12 DEF ImageInv, ToolsInv, VolumeKept

-----------------------------------------------------------------------------
(* The theorems.                                                            *)

(* What recovery would restore is the image of the volume at every step,    *)
(* and what the running tool has in its cache or is still to write makes it *)
(* the volume that the tool commits: jfs_write_block in the order of each   *)
(* tool's code, jfs_commit and jfs_checklog, with deaths between any two of *)
(* their block writes.  While a transaction that has filled the log goes    *)
(* home, the second half alone is true, and a tool that dies then leaves a  *)
(* torn image, of which nothing is said.                                    *)
THEOREM ToolsKeepImage == ToolsSpec => []ToolsInv
<1>1. ImageInv => ToolsInv
  BY DEF ImageInv
<1>2. QED  BY <1>1, ImageStarts, ImageStep, PTL DEF ToolsSpec

LEMMA ImageAlways == ToolsSpec => []ImageInv
BY ImageStarts, ImageStep, PTL DEF ToolsSpec

(* Decoded, the recovered image is the last committed volume, whole: for    *)
(* every geometry in which the log fits into the first group, every length  *)
(* of names and files and every set of paths, but while a transaction       *)
(* without a commit block goes home and after a tool has died then.         *)
THEOREM ImageIsTheVolume == ToolsSpec => []ImageHoldsVolume
<1>1. ImageInv => ImageHoldsVolume
  <2> SUFFICES ASSUME ImageInv, ~torn, ~Unprotected
               PROVE  Decode(J!Recovered) = vol
    BY DEF ImageHoldsVolume
  <2>1. J!Recovered = ImageOf(Home, vol) /\ Holdable(Home, vol)
    BY DEF ImageInv, ToolsInv, VolumeKept, Kept
  <2>2. QED  BY <2>1, DecodeIs, HomeCovers
<1>2. QED  BY <1>1, ImageAlways, PTL

(* Tools that look at no log, jfs_ls, jfs_copyout and jfs_fsck, find it in  *)
(* the image as it is, whenever no tool runs and none has died without a    *)
(* recovery since: also after transactions without a commit block, as long  *)
(* as no tool has died in one.                                              *)
THEOREM ReadersAreRight == ToolsSpec => []ReadersFindVolume
<1>1. ImageInv => ReadersFindVolume
  BY DiskIs DEF ReadersFindVolume
<1>2. QED  BY <1>1, ImageAlways, PTL

(* The volume that the users believe in changes by the steps of Volume: a   *)
(* tool that dies leaves it as it was, but for jfs_rm between its two       *)
(* commits, and what a tool found when it started holds until it commits.   *)
LEMMA VolumeSteps == ToolsSpec => Spec
<1>1. ToolsInit => Init
  BY DEF ToolsInit
<1>2. ImageInv /\ [ToolsNext]_toolsVars => [Next]_vars
  <2> SUFFICES ASSUME ImageInv, ToolsNext PROVE [Next]_vars
    BY DEF toolsVars
  <2>1. ASSUME Promised, Durable
        PROVE  Next
    <3>1. CASE job.tool = "mkdir" /\ mkdir(job.path)
      BY <2>1, <3>1 DEF Promised, Next
    <3>2. CASE job.tool = "copyin" /\ copyin(job.path, job.file)
      BY <2>1, <3>2 DEF Promised, Next
    <3>3. CASE job.tool = "rm" /\ jfs_remove_file(job.path)
      BY <2>1, <3>3 DEF Promised, Next
    <3>4. CASE change_dir_size
      BY <3>4 DEF Next
    <3>5. QED  BY <2>1, <3>1, <3>2, <3>3, <3>4 DEF Durable
  <2>2. CASE CommitPoint
    <3>1. pc = "log" /\ Durable
      BY <2>2 DEF CommitPoint, J!WriteCommitBlock
    <3>2. QED  BY <2>1, <3>1 DEF ImageInv, ToolsInv, JobInv
  <2>3. CASE CommitReturns
    <3>1. CASE Unprotected
      BY <2>1, <2>3, <3>1 DEF CommitReturns, ImageInv, ToolsInv, JobInv
    <3>2. CASE ~Unprotected
      BY <2>3, <3>2 DEF CommitReturns
    <3>3. QED  BY <3>1, <3>2
  <2>4. CASE ToolDies
    BY <2>4 DEF ToolDies, Next
  <2>5. CASE ~CommitPoint /\ ~CommitReturns /\ ~ToolDies
    BY <2>5 DEF ToolsNext, StartMkdir, StartCopyin, StartRm, Start, ToolWrites, ToolCommits,
                Logs, SkipsCommitBlock, Flushes, ToolExits, Recovers
  <2>6. QED  BY <2>2, <2>3, <2>4, <2>5
<1>3. QED  BY <1>1, <1>2, ImageAlways, PTL DEF ToolsSpec, Spec

-----------------------------------------------------------------------------
(* How long a transaction gets.                                             *)

(* A tool has written to at most n blocks.                                  *)
Short(s, n) == \E S : IsFiniteSet(S) /\ Cardinality(S) <= n /\ Touches(s, S)

LEMMA HeadersAndMore ==
    ASSUME NEW a, NEW b, NEW c
    PROVE  LET S == Headers \cup {a, b, c}
           IN  IsFiniteSet(S) /\ Cardinality(S) \in Nat /\ Cardinality(S) <= Groups + 3
<1>1. IsFiniteSet(Group) /\ Cardinality(Group) = Groups
  <2>1. /\ IsFiniteSet(0 .. Groups - 1)
        /\ Cardinality(0 .. Groups - 1) = IF 0 > Groups - 1 THEN 0 ELSE Groups - 1 - 0 + 1
    BY Sizes, FS_Interval
  <2>2. QED  BY <2>1, Sizes DEF Group
<1>2. IsFiniteSet(Headers) /\ Cardinality(Headers) <= Groups
  <2> DEFINE f == [g \in Group |-> g * BlocksPerGroup]
  <2>1. f \in Surjection(Group, Headers)
    BY DEF Surjection, Headers
  <2> HIDE DEF f
  <2>2. QED  BY <1>1, <2>1, FS_Surjection
<1> DEFINE A == Headers \cup {a}
           B == A \cup {b}
           C == B \cup {c}
<1>3. Groups \in Nat /\ Groups + 1 \in Nat /\ Groups + 2 \in Nat
      /\ (Groups + 1) + 1 = Groups + 2 /\ (Groups + 2) + 1 = Groups + 3
  BY Sizes
<1>4. IsFiniteSet(A) /\ Cardinality(A) <= Groups + 1
  BY <1>2, <1>3, OneMore
<1>5. IsFiniteSet(B) /\ Cardinality(B) <= Groups + 2
  <2> HIDE DEF A
  <2>1. IsFiniteSet(B) /\ Cardinality(B) <= (Groups + 1) + 1
    BY <1>3, <1>4, OneMore
  <2>2. QED  BY <1>3, <2>1
<1>6. IsFiniteSet(C) /\ Cardinality(C) \in Nat /\ Cardinality(C) <= Groups + 3
  <2> HIDE DEF B
  <2>1. IsFiniteSet(C) /\ Cardinality(C) \in Nat /\ Cardinality(C) <= (Groups + 2) + 1
    BY <1>3, <1>5, OneMore
  <2>2. QED  BY <1>3, <2>1
<1>7. C = Headers \cup {a, b, c}
  OBVIOUS
<1>8. QED  BY <1>6, <1>7

LEMMA FreshTouches ==
    ASSUME NEW s, s.writes = <<>>, NEW S
    PROVE  Touches(s, S)
<1>1. <<>> \in Seq([blocknum : S, blockdata : {}])
  OBVIOUS
<1>2. QED  BY <1>1 DEF Touches

(* jfs_mkdir takes a block,                                                 *)
LEMMA MkdirIsShort ==
    ASSUME NEW found, DOMAIN found = Home, NEW s, NEW v, Works(Home, found, s, v), s.writes = <<>>,
           NEW dirs, NEW files, Kept(v, NoRm, dirs, files),
           NEW path \in Path, mkdirResult(v, path) = "ok"
    PROVE  Short(MkdirWrites(s, DirOf(v, path, {"dir", "file"}), Last(path)), 1 + Groups + 3)
<1> DEFINE d == DirOf(v, path, {"dir", "file"})
           i == get_free_inode(v)
           b == get_free_block(v)
           S == Headers \cup {inode_to_block(i), inode_to_block(d), Ptr(v, d, 0)}
           W == S \cup {b}
<1>1. Sound(v, dirs, files) /\ Room(Home, v, dirs)
  BY KeptHasRoom DEF Kept
<1>2. d \in dirs /\ Last(path) \in Name /\ i \in Inode /\ b \in Block
  BY <1>1, MkdirIs
<1>3. i # None /\ b # None
  BY <1>2, InodeNumbers DEF None
<1>4. IsFiniteSet(S) /\ Cardinality(S) \in Nat /\ Cardinality(S) <= Groups + 3
  BY HeadersAndMore
<1>5. Headers \subseteq W /\ {inode_to_block(i), inode_to_block(d), b, Ptr(v, d, 0)} \subseteq W
  OBVIOUS
<1> HIDE DEF S
<1>6. IsFiniteSet(W) /\ Cardinality(W) <= 1 + Groups + 3
  <2>1. Groups + 3 \in Nat /\ (Groups + 3) + 1 = 1 + Groups + 3
    BY Sizes
  <2>2. IsFiniteSet(W) /\ Cardinality(W) <= (Groups + 3) + 1
    BY <1>4, <2>1, OneMore
  <2>3. QED  BY <2>1, <2>2
<1> HIDE DEF d, W
<1>7. Touches(s, W)
  BY FreshTouches
<1>8. Touches(MkdirWrites(s, d, Last(path)), W)
  BY <1>1, <1>2, <1>3, <1>5, <1>7, HomeCovers, MkdirWorks
<1>9. QED  BY <1>6, <1>8 DEF Short, d

(* jfs_copyin a block for each of the file's,                               *)
LEMMA CopyinIsShort ==
    ASSUME NEW found, DOMAIN found = Home, NEW s, NEW v, Works(Home, found, s, v), s.writes = <<>>,
           NEW dirs, NEW files, Kept(v, NoRm, dirs, files),
           NEW path \in Path, NEW file \in Seq(Text), copyinResult(v, path, file) = "ok"
    PROVE  Short(CopyinWrites(s, DirOf(v, path, {"dir"}), path, Truncated(file)),
                 Len(Truncated(file)) + Groups + 3)
<1> DEFINE d == DirOf(v, path, {"dir"})
           i == get_free_inode(v)
           cut == Truncated(file)
           S == Headers \cup {inode_to_block(i), inode_to_block(d), Ptr(v, d, 0)}
<1>1. Sound(v, dirs, files) /\ Room(Home, v, dirs)
  BY KeptHasRoom DEF Kept
<1>2. /\ d \in dirs /\ Last(path) \in Name /\ i \in Inode
      /\ cut \in Seq(Text) /\ Len(cut) <= Ptrs /\ ~Store(set_inode_used(v, i), cut).full
  BY <1>1, CopyinIs
<1>3. i # None /\ Len(path) \in Nat \ {0} /\ Last(path) \in Name \cup {".log"}
  BY <1>2, InodeNumbers, PathIs DEF None
<1>4. IsFiniteSet(S) /\ Cardinality(S) \in Nat /\ Cardinality(S) <= Groups + 3
  BY HeadersAndMore
<1>5. Headers \subseteq S /\ {inode_to_block(i), inode_to_block(d), Ptr(v, d, 0)} \subseteq S
  OBVIOUS
<1> HIDE DEF d, cut, S
<1>6. Touches(s, S)
  BY FreshTouches
<1>7. TouchesFew(CopyinWrites(s, d, path, cut), S, Len(cut))
  BY <1>1, <1>2, <1>3, <1>5, <1>6, HomeCovers, CopyinWorks
<1>8. PICK B : /\ IsFiniteSet(B) /\ Cardinality(B) <= Len(cut)
               /\ Touches(CopyinWrites(s, d, path, cut), S \cup B)
  BY <1>7 DEF TouchesFew
<1>9. /\ IsFiniteSet(S \cup B) /\ Cardinality(B) \in Nat /\ Cardinality(S \cap B) \in Nat
      /\ Cardinality(S \cup B) = Cardinality(S) + Cardinality(B) - Cardinality(S \cap B)
  BY <1>4, <1>8, FS_Union, FS_CardinalityType, FS_Intersection
<1>10. Len(cut) \in Nat
  BY <1>2
<1>11. Cardinality(S \cup B) <= Len(cut) + Groups + 3
  BY <1>4, <1>8, <1>9, <1>10, Sizes
<1>12. QED  BY <1>8, <1>9, <1>11 DEF Short, d, cut

(* and jfs_rm none, in either of its transactions.                          *)
LEMMA RmIsShort ==
    ASSUME NEW found, DOMAIN found = Home, NEW s, NEW v, Works(Home, found, s, v), s.writes = <<>>,
           NEW dirs, NEW files, Kept(v, NoRm, dirs, files),
           NEW path \in Path, rmResult(v, path) = "rm"
    PROVE  Short(RmWrites(s, path), 0 + Groups + 3)
<1> DEFINE b == Ptr(v, DirOf(v, path, {"dir"}), 0)
           S == Headers \cup {b, b, b}
<1>1. Sound(v, dirs, files) /\ Room(Home, v, dirs)
  BY KeptHasRoom DEF Kept
<1>2. IsFiniteSet(S) /\ Cardinality(S) \in Nat /\ Cardinality(S) <= Groups + 3
  BY HeadersAndMore
<1>3. Headers \subseteq S /\ b \in S
  OBVIOUS
<1> HIDE DEF S
<1>4. Touches(s, S)
  BY FreshTouches
<1>5. Touches(RmWrites(s, path), S)
  BY <1>1, <1>3, <1>4, HomeCovers, RmWorks
<1>6. Cardinality(S) <= 0 + Groups + 3
  BY <1>2, Sizes
<1>7. QED  BY <1>2, <1>5, <1>6 DEF Short

LEMMA ResizeIsShort ==
    ASSUME NEW found, DOMAIN found = Home, NEW s, NEW v, Works(Home, found, s, v), s.writes = <<>>,
           NEW r, r.dir \in Inode, r.size \in Nat
    PROVE  Short(ResizeWrites(s, r), 0 + Groups + 3)
<1> DEFINE b == inode_to_block(r.dir)
           S == Headers \cup {b, b, b}
<1>1. IsFiniteSet(S) /\ Cardinality(S) \in Nat /\ Cardinality(S) <= Groups + 3
  BY HeadersAndMore
<1>2. b \in S
  OBVIOUS
<1> HIDE DEF S
<1>3. Touches(s, S)
  BY FreshTouches
<1>4. Touches(ResizeWrites(s, r), S)
  BY <1>2, <1>3, HomeCovers, ResizeWorks
<1>5. Cardinality(S) <= 0 + Groups + 3
  BY <1>1, Sizes
<1>6. QED  BY <1>1, <1>4, <1>5 DEF Short

(* The blocks in the cache and those still to be written are that few.      *)
Within(S) ==
    /\ \A k \in DOMAIN cache : cache[k].blocknum \in S
    /\ \A k \in DOMAIN todo : todo[k].blocknum \in S

ShortInv ==
    pc \in {"open", "log"} =>
        \E S : IsFiniteSet(S) /\ Cardinality(S) <= Takes + Groups + 3 /\ Within(S)

(* jfs_write_block puts no other block in the cache.                        *)
LEMMA PutStays ==
    ASSUME NEW c, c \in Seq([blocknum : Home, blockdata : Contents]),
           NEW S, \A k \in DOMAIN c : c[k].blocknum \in S, NEW b \in S, NEW d
    PROVE  \A k \in DOMAIN JP!Put(c, b, d) : JP!Put(c, b, d)[k].blocknum \in S
<1> DEFINE e == [blocknum |-> b, blockdata |-> d]
           T == [blocknum : Home, blockdata : Contents]
<1>1. e.blocknum = b
  OBVIOUS
<1>2. \A x \in T : [x EXCEPT !.blockdata = d].blocknum = x.blocknum
  OBVIOUS
<1> HIDE DEF T
<1>3. \A k \in DOMAIN c : c[k] \in T
  <2>1. c \in Seq(T)
    BY DEF T
  <2>2. QED  BY <2>1
<1>4. Append(c, e) = [k \in 1 .. Len(c) + 1 |-> IF k <= Len(c) THEN c[k] ELSE e]
      /\ Len(c) \in Nat /\ DOMAIN c = 1 .. Len(c)
  <2>1. c \in Seq(T)
    BY DEF T
  <2>2. QED  BY <2>1
<1> HIDE DEF e
<1>5. CASE \E k \in DOMAIN c : c[k].blocknum = b
  BY <1>2, <1>3, <1>5 DEF JP!Put
<1>6. CASE ~ \E k \in DOMAIN c : c[k].blocknum = b
  <2>1. JP!Put(c, b, d) = Append(c, e)
    BY <1>6 DEF JP!Put, e
  <2>2. \A k \in 1 .. Len(c) + 1 : (IF k <= Len(c) THEN c[k] ELSE e).blocknum \in S
    BY <1>1, <1>4
  <2>3. QED  BY <1>4, <2>1, <2>2
<1>7. QED  BY <1>5, <1>6

(* A tool that starts keeps to what it takes.                               *)
LEMMA ShortStarts ==
    ASSUME NEW s, NEW n, Short(s, n + Groups + 3), cache' = <<>>, todo' = s.writes, Takes' = n
    PROVE  ShortInv'
<1>1. PICK S : IsFiniteSet(S) /\ Cardinality(S) <= n + Groups + 3 /\ Touches(s, S)
  BY DEF Short
<1>2. \A k \in DOMAIN s.writes : s.writes[k].blocknum \in S
  BY <1>1, TouchedIs
<1>3. Within(S)'
  BY <1>2 DEF Within
<1>4. QED  BY <1>1, <1>3 DEF ShortInv

LEMMA ShortStep == ImageInv /\ ShortInv /\ [ToolsNext]_toolsVars => ShortInv'
<1> SUFFICES ASSUME ImageInv, ShortInv, [ToolsNext]_toolsVars PROVE ShortInv'
  OBVIOUS
<1>1. ASSUME pc = "free", disk = ImageOf(Home, vol), Reading = Fresh(vol)
      PROVE  \E dirs, files :
                /\ Kept(vol, NoRm, dirs, files)
                /\ Works(Home, disk, Reading, vol) /\ DOMAIN disk = Home
                /\ Reading.writes = <<>>
  <2>1. PICK dirs, files : Kept(vol, rm, dirs, files)
    BY DEF ImageInv, VolumeKept
  <2>2. rm = NoRm
    BY <1>1 DEF ImageInv, ToolsInv, JobInv, Idle
  <2>3. Works(Home, disk, Reading, vol) /\ DOMAIN disk = Home
    BY <1>1, <2>1, FreshWorks, ImageDomain DEF Kept
  <2>4. QED  BY <2>1, <2>2, <2>3 DEF Reading
<1>2. ASSUME NEW path \in Path, StartMkdir(path)
      PROVE  ShortInv'
  <2> DEFINE s == MkdirWrites(Reading, DirOf(vol, path, {"dir", "file"}), Last(path))
  <2>1. pc = "free" /\ ~torn
    BY <1>2 DEF StartMkdir
  <2>2. disk = ImageOf(Home, vol) /\ Reading = Fresh(vol) /\ Decode(disk) = vol
    BY <2>1, DiskIs
  <2>3. mkdirResult(vol, path) = "ok" /\ Start([tool |-> "mkdir", path |-> path], s.writes)
    BY <1>2, <2>2 DEF StartMkdir
  <2>4. Short(s, 1 + Groups + 3)
    BY <1>1, <2>1, <2>2, <2>3, MkdirIsShort
  <2>5. cache' = <<>> /\ todo' = s.writes /\ job'.tool = "mkdir"
    BY <2>3 DEF Start, J!Mount, J!ForgetMemory
  <2> HIDE DEF s
  <2>6. Takes' = 1
    BY <2>5 DEF Takes
  <2>7. QED  BY <2>4, <2>5, <2>6, ShortStarts
<1>3. ASSUME NEW path \in Path, NEW file \in File, StartCopyin(path, file)
      PROVE  ShortInv'
  <2> DEFINE s == CopyinWrites(Reading, DirOf(vol, path, {"dir"}), path, Truncated(file))
  <2>1. pc = "free" /\ ~torn /\ file \in Seq(Text)
    BY <1>3, VolumeAssumption DEF StartCopyin
  <2>2. disk = ImageOf(Home, vol) /\ Reading = Fresh(vol) /\ Decode(disk) = vol
    BY <2>1, DiskIs
  <2>3. /\ copyinResult(vol, path, file) = "ok"
        /\ Start([tool |-> "copyin", path |-> path, file |-> file], s.writes)
    BY <1>3, <2>2 DEF StartCopyin
  <2>4. Short(s, Len(Truncated(file)) + Groups + 3)
    BY <1>1, <2>1, <2>2, <2>3, CopyinIsShort
  <2>5. cache' = <<>> /\ todo' = s.writes /\ job'.tool = "copyin" /\ job'.file = file
    BY <2>3 DEF Start, J!Mount, J!ForgetMemory
  <2> HIDE DEF s
  <2>6. Takes' = Len(Truncated(file))
    BY <2>5 DEF Takes
  <2>7. QED  BY <2>4, <2>5, <2>6, ShortStarts
<1>4. ASSUME NEW path \in Path, StartRm(path)
      PROVE  ShortInv'
  <2> DEFINE s == RmWrites(Reading, path)
             tool == [tool |-> "rm", path |-> path, resize |-> ToResize(vol, path)]
  <2>1. pc = "free" /\ ~torn
    BY <1>4 DEF StartRm
  <2>2. disk = ImageOf(Home, vol) /\ Reading = Fresh(vol) /\ Decode(disk) = vol
    BY <2>1, DiskIs
  <2>3. rmResult(vol, path) = "rm" /\ Start(tool, s.writes)
    BY <1>4, <2>2 DEF StartRm
  <2>4. Short(s, 0 + Groups + 3)
    BY <1>1, <2>1, <2>2, <2>3, RmIsShort
  <2>5. tool.tool = "rm"
    OBVIOUS
  <2> HIDE DEF s, tool
  <2>6. cache' = <<>> /\ todo' = s.writes /\ job'.tool = "rm"
    BY <2>3, <2>5 DEF Start, J!Mount, J!ForgetMemory
  <2>7. Takes' = 0
    BY <2>6 DEF Takes
  <2>8. QED  BY <2>4, <2>6, <2>7, ShortStarts
<1>5. ASSUME ToolWrites
      PROVE  ShortInv'
  <2> DEFINE b == Head(todo).blocknum
             d == Head(todo).blockdata
             T == [blocknum : Home, blockdata : Contents]
  <2>1. /\ todo # <<>> /\ J!Write(b, d) /\ todo' = Tail(todo) /\ job' = job
    BY <1>5 DEF ToolWrites
  <2>2. pc = "open" /\ pc' = "open" /\ cache' = JP!Put(cache, b, d)
    BY <2>1 DEF J!Write, J!Put, JP!Put
  <2>3. PICK S : IsFiniteSet(S) /\ Cardinality(S) <= Takes + Groups + 3 /\ Within(S)
    BY <2>2 DEF ShortInv
  <2>4. cache \in Seq(T) /\ todo \in Seq(T)
    BY DEF ImageInv, JP!JournalInv, JP!TypeOK, JP!CachedBlock, Writes
  <2> HIDE DEF T
  <2>5. /\ 1 \in DOMAIN todo /\ Head(todo) = todo[1]
        /\ \A k \in DOMAIN Tail(todo) : k + 1 \in DOMAIN todo /\ Tail(todo)[k] = todo[k + 1]
    BY <2>1, <2>4
  <2>6. b \in S /\ \A k \in DOMAIN todo' : todo'[k].blocknum \in S
    BY <2>1, <2>3, <2>5 DEF Within
  <2> HIDE DEF b, d
  <2>7. \A k \in DOMAIN cache' : cache'[k].blocknum \in S
    BY <2>2, <2>3, <2>4, <2>6, PutStays DEF Within, T
  <2>8. Within(S)' /\ Takes' = Takes
    BY <2>1, <2>6, <2>7 DEF Within, Takes
  <2>9. QED  BY <2>3, <2>8 DEF ShortInv
<1>6. ASSUME cache' = cache, todo' = todo, job' = job, pc \in {"open", "log"} \/ pc' = pc
      PROVE  ShortInv'
  <2>1. Takes' = Takes /\ \A S : Within(S)' <=> Within(S)
    BY <1>6 DEF Takes, Within
  <2>2. QED  BY <1>6, <2>1 DEF ShortInv
<1>7. CASE ToolCommits \/ Logs
  <2>1. crash_after = 0
    BY DEF ImageInv, ToolsInv, JobInv
  <2>2. /\ cache' = cache /\ todo' = todo /\ job' = job /\ pc \in {"open", "log"}
    BY <1>7, <2>1 DEF ToolCommits, Logs, J!BeginCommit, J!LogBlock, J!CrashNow
  <2>3. QED  BY <1>6, <2>2
<1>8. CASE CommitPoint \/ SkipsCommitBlock \/ Flushes \/ ToolExits \/ ToolDies
  <2>1. pc' \in {"flush", "down", "free"}
    BY <1>8 DEF CommitPoint, SkipsCommitBlock, Flushes, ToolExits, ToolDies, J!WriteCommitBlock,
                J!SkipCommitBlock, J!FlushBlock, J!Exit, J!Crash
  <2>2. QED  BY <2>1 DEF ShortInv
<1>9. CASE CommitReturns
  <2>1. ToolsNext
    BY <1>9 DEF ToolsNext
  <2>2. /\ pc' = "open" /\ cache' = <<>> /\ disk' = disk /\ todo = <<>> /\ JP!JournalInv'
        /\ disk = ImageOf(Home, vol')
        /\ IF job.tool = "rm" THEN rm' = job.resize /\ rm' # NoRm ELSE rm' = NoRm
    BY <1>9, <2>1, ReturnIs
  <2>3. CASE job.tool = "rm"
    <3> DEFINE s == ResizeWrites(Reading, rm')
    <3>1. job'.tool = "resize" /\ todo' = s.writes /\ rm' # NoRm
      BY <1>9, <2>2, <2>3 DEF CommitReturns
    <3>2. PICK dirs, files : Kept(vol', rm', dirs, files)
      BY <1>9, <2>1, ReturnIs
    <3>3. Works(Home, disk, Reading, vol') /\ DOMAIN disk = Home /\ Reading.writes = <<>>
      BY <2>2, <3>2, FreshWorks, ImageDomain DEF Kept, Reading, Fresh
    <3>4. rm'.dir \in Inode /\ rm'.size \in Nat
      BY <3>1, <3>2 DEF Kept, Sound, InodesInv
    <3>5. Short(s, 0 + Groups + 3)
      BY <3>3, <3>4, ResizeIsShort
    <3> HIDE DEF s
    <3>6. Takes' = 0
      BY <3>1 DEF Takes
    <3>7. QED  BY <2>2, <3>1, <3>5, <3>6, ShortStarts
  <2>4. CASE job.tool # "rm"
    <3>1. job' = NoJob /\ todo' = <<>>
      BY <1>9, <2>2, <2>4 DEF CommitReturns
    <3>2. job'.tool = "none"
      BY <3>1 DEF NoJob
    <3>3. Takes' = 0
      BY <3>2 DEF Takes
    <3>4. /\ Groups \in Nat /\ 0 <= 0 + Groups + 3
      BY Sizes
    <3>5. IsFiniteSet({}) /\ Cardinality({}) <= 0 + Groups + 3
      BY <3>4, FS_EmptySet
    <3>6. Within({})'
      BY <2>2, <3>1 DEF Within
    <3>7. QED  BY <3>3, <3>5, <3>6 DEF ShortInv
  <2>5. QED  BY <2>3, <2>4
<1>10. ASSUME NEW r \in Checker, Recovers(r)
       PROVE  ShortInv'
  <2>1. pc' \in {pc, "free"} /\ cache' = cache /\ todo' = todo /\ job' = job
    BY <1>10 DEF Recovers, J!Checklog, J!ChecklogDies, J!ChecklogStep, J!ScanData, J!ScanMark,
                 J!ScanOverrun, J!ReplayBlock, J!ReplayDone, J!CancelMark, J!toolVars
  <2>2. CASE pc' = pc
    BY <1>6, <2>1, <2>2
  <2>3. CASE pc' = "free"
    BY <2>3 DEF ShortInv
  <2>4. QED  BY <2>1, <2>2, <2>3
<1>11. CASE UNCHANGED toolsVars
  BY <1>6, <1>11 DEF toolsVars, journalVars
<1>12. QED
  BY <1>2, <1>3, <1>4, <1>5, <1>7, <1>8, <1>9, <1>10, <1>11 DEF ToolsNext

(* The cache holds a block once.                                            *)
LEMMA CacheCounts ==
    ASSUME JP!JournalInv, NEW S, IsFiniteSet(S), Within(S)
    PROVE  Len(cache) <= Cardinality(S)
<1> DEFINE T == [blocknum : Home, blockdata : Contents]
           N == Len(cache)
           f == [k \in 1 .. N |-> cache[k].blocknum]
<1>1. /\ cache \in Seq(T)
      /\ \A k, l \in DOMAIN cache : cache[k].blocknum = cache[l].blocknum => k = l
  BY DEF JP!JournalInv, JP!TypeOK, JP!CachedBlock, JP!CacheInv
<1> HIDE DEF T
<1>2. N \in Nat /\ DOMAIN cache = 1 .. N
  BY <1>1
<1> HIDE DEF N
<1>3. f \in Injection(1 .. N, S)
  BY <1>1, <1>2 DEF Injection, IsInjective, Within
<1> HIDE DEF f
<1>4. Cardinality(1 .. N) <= Cardinality(S)
  BY <1>3, FS_Injection
<1>5. Cardinality(1 .. N) = N
  BY <1>2, FS_Interval
<1>6. QED  BY <1>4, <1>5 DEF N

LEMMA ShortAlways == ToolsSpec => []ShortInv
<1>1. ToolsInit => ShortInv
  BY DEF ToolsInit, ShortInv
<1>2. QED  BY <1>1, ImageAlways, ShortStep, PTL DEF ToolsSpec

LEMMA TakesIsNat ==
    ASSUME ImageInv, pc = "log"
    PROVE  /\ Takes \in Nat
           /\ job.tool = "copyin" => job.file \in File /\ Takes <= Len(job.file)
           /\ job.tool # "copyin" => Takes <= 1
<1>1. Promised
  BY DEF ImageInv, ToolsInv, JobInv
<1>2. CASE job.tool = "copyin"
  <2>1. job.file \in File /\ job.file \in Seq(Text)
    BY <1>1, <1>2, VolumeAssumption DEF Promised
  <2>2. Len(Truncated(job.file)) \in Nat /\ Len(Truncated(job.file)) <= Len(job.file)
    <3>1. CASE Len(job.file) > Ptrs
      BY <2>1, <3>1, VolumeSizes DEF Truncated
    <3>2. CASE ~(Len(job.file) > Ptrs)
      BY <2>1, <3>2 DEF Truncated
    <3>3. QED  BY <3>1, <3>2
  <2>3. QED  BY <1>2, <2>1, <2>2 DEF Takes
<1>3. CASE job.tool # "copyin"
  BY <1>3 DEF Takes
<1>4. QED  BY <1>2, <1>3

(* A transaction takes a block of the log for each block that the tool      *)
(* takes, for the header of each group, for two blocks of inodes and for    *)
(* the block of a directory, and no more.                                   *)
THEOREM LengthIsBounded == ToolsSpec => []TransactionsAreShort
<1>1. ImageInv /\ ShortInv => TransactionsAreShort
  <2> SUFFICES ASSUME ImageInv, ShortInv, pc = "log"
               PROVE  Len(cache) <= Takes + Groups + 3
    BY DEF TransactionsAreShort
  <2>1. PICK S : IsFiniteSet(S) /\ Cardinality(S) <= Takes + Groups + 3 /\ Within(S)
    BY DEF ShortInv
  <2>2. Len(cache) <= Cardinality(S) /\ Cardinality(S) \in Nat
    BY <2>1, CacheCounts, FS_CardinalityType DEF ImageInv
  <2>3. Len(cache) \in Nat
    BY DEF ImageInv, JP!JournalInv, JP!TypeOK, JP!CachedBlock
  <2>4. Takes \in Nat
    BY TakesIsNat
  <2>5. QED  BY <2>1, <2>2, <2>3, <2>4, Sizes, VolumeSizes
<1>2. QED  BY <1>1, ImageAlways, ShortAlways, PTL

(* Where the files are short enough for that, jfs_commit always has a block *)
(* left for the commit block: it never says "not enough space in log", so   *)
(* that no transaction goes home without one and no death tears the image.  *)
THEOREM ShortFilesFit ==
    ASSUME Groups + 4 < Ptrs, \A file \in File : Len(file) + Groups + 3 < Ptrs
    PROVE  ToolsSpec => [](~torn /\ ~Unprotected)
<1>1. ToolsInit => ~torn /\ ~Unprotected
  BY DEF ToolsInit, Unprotected
<1>2. ImageInv /\ TransactionsAreShort /\ ~torn /\ ~Unprotected /\ [ToolsNext]_toolsVars
        => ~torn' /\ ~Unprotected'
  <2> SUFFICES ASSUME ImageInv, TransactionsAreShort, ~torn, ~Unprotected,
                      [ToolsNext]_toolsVars
               PROVE  ~torn' /\ ~Unprotected'
    OBVIOUS
  <2>1. ~torn'
    BY DEF ToolsNext, StartMkdir, StartCopyin, StartRm, Start, ToolWrites, ToolCommits, Logs,
           CommitPoint, SkipsCommitBlock, Flushes, CommitReturns, ToolExits, ToolDies, Recovers,
           toolsVars
  <2>2. CASE Flushes
    BY <2>2 DEF Flushes, J!FlushBlock, J!ForgetMemory, Unprotected
  <2>3. CASE CommitPoint
    <3>1. blocks_done' = blocks_done /\ blocks_done < Ptrs
      BY <2>3 DEF CommitPoint, J!WriteCommitBlock, J!commitVars
    <3>2. blocks_done \in Nat /\ Ptrs \in Nat
      BY VolumeSizes DEF ImageInv, JP!JournalInv, JP!TypeOK
    <3>3. QED  BY <2>1, <3>1, <3>2 DEF Unprotected
  <2>4. CASE SkipsCommitBlock
    <3>1. pc = "log" /\ blocks_done = Ptrs
      BY <2>4 DEF SkipsCommitBlock, J!SkipCommitBlock
    <3>2. blocks_done <= Len(cache) /\ Len(cache) <= Takes + Groups + 3
      BY <3>1 DEF ImageInv, JP!JournalInv, JP!LogInv, TransactionsAreShort
    <3>3. Takes \in Nat /\ Takes + Groups + 3 < Ptrs
      <4>1. CASE job.tool = "copyin"
        <5>1. /\ job.file \in File /\ Len(job.file) \in Nat
              /\ Takes \in Nat /\ Takes <= Len(job.file)
          BY <3>1, <4>1, TakesIsNat, VolumeAssumption
        <5>2. QED  BY <5>1, Sizes, VolumeSizes
      <4>2. CASE job.tool # "copyin"
        BY <3>1, <4>2, TakesIsNat, Sizes, VolumeSizes
      <4>3. QED  BY <4>1, <4>2
    <3>4. Len(cache) \in Nat /\ Ptrs \in Nat
      BY VolumeSizes DEF ImageInv, JP!JournalInv, JP!TypeOK, JP!CachedBlock
    <3>5. QED  BY <3>1, <3>2, <3>3, <3>4, Sizes
  <2>5. CASE UNCHANGED toolsVars
    BY <2>5 DEF toolsVars, journalVars, Unprotected
  <2>6. CASE ToolsNext /\ ~Flushes /\ ~CommitPoint /\ ~SkipsCommitBlock
    <3>1. pc' # "flush"
      <4>1. \A r \in Checker : Recovers(r) => pc' # "flush"
        BY RecoversWhen
      <4>2. QED
        BY <2>6, <4>1
        DEF ToolsNext, StartMkdir, StartCopyin, StartRm, Start, J!Mount, ToolWrites, J!Write,
            ToolCommits, J!BeginCommit, Logs, J!LogBlock, CommitReturns, J!EndCommit,
            ToolExits, J!Exit, ToolDies, J!Crash
    <3>2. QED  BY <2>1, <3>1 DEF Unprotected
  <2>7. QED  BY <2>1, <2>2, <2>3, <2>4, <2>5, <2>6
<1>3. QED  BY <1>1, <1>2, ImageAlways, LengthIsBounded, PTL DEF ToolsSpec

(* Where the files are that short, the image, once recovered, always holds  *)
(* the volume, and the volume changes by the steps of Volume alone,         *)
(* whatever dies and whenever: all that is proved of Volume holds of the    *)
(* blocks that the tools write.                                             *)
THEOREM ToolsImplementVolume ==
    ASSUME Groups + 4 < Ptrs, \A file \in File : Len(file) + Groups + 3 < Ptrs
    PROVE  ToolsSpec => Spec /\ [](Decode(J!Recovered) = vol)
<1>1. ImageHoldsVolume /\ ~torn /\ ~Unprotected => Decode(J!Recovered) = vol
  BY DEF ImageHoldsVolume
<1>2. QED  BY <1>1, ImageIsTheVolume, ShortFilesFit, VolumeSteps, PTL
=============================================================================

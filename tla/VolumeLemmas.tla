---------------------------- MODULE VolumeLemmas ----------------------------
(***************************************************************************)
(* Lemmas about the operators of Alloc and Volume.  First induction over   *)
(* the natural numbers with sets for predicates, and functions defined by  *)
(* recursion up to a bound, which all the loops of the code need that are  *)
(* written as recursive functions.  Then the bitmaps: what the searches    *)
(* return is free and in range, and setting or returning a bit changes     *)
(* that bit and no other.  Last the walk through a directory, the search   *)
(* for a path, and the loops over the blocks of a file.                    *)
(***************************************************************************)
EXTENDS VolumeSafety, WellFoundedInduction, TLAPS

-----------------------------------------------------------------------------
(* Induction and recursion.                                                 *)

(* Every set of natural numbers that is not empty has a least element.      *)
LEMMA LeastExists ==
    ASSUME NEW S \in SUBSET Nat, S # {}
    PROVE  \E x \in S : \A y \in S : x <= y
<1>1. \E x \in S : \A y \in S : <<y, x>> \notin OpToRel(<, Nat)
  BY NatLessThanWellFounded, WFMin
<1>2. PICK x \in S : \A y \in S : <<y, x>> \notin OpToRel(<, Nat)
  BY <1>1
<1>3. \A y \in S : ~ (y < x)
  BY <1>2 DEF OpToRel
<1>4. QED  BY <1>3

(* Induction: a set of numbers up to a bound that has 0 and, with a number, *)
(* the next one, has them all.                                              *)
LEMMA InductionUpTo ==
    ASSUME NEW N \in Nat, NEW S, 0 \in S,
           \A n \in 1 .. N : n - 1 \in S => n \in S
    PROVE  \A n \in 0 .. N : n \in S
<1> DEFINE T == {n \in 0 .. N : n \notin S}
<1> SUFFICES ASSUME T # {} PROVE FALSE
  OBVIOUS
<1>1. PICK x \in T : \A y \in T : x <= y
  <2> T \in SUBSET Nat
    OBVIOUS
  <2> HIDE DEF T
  <2> QED  BY LeastExists
<1>2. QED  BY <1>1

(* A loop of N turns over the states X, turn by turn, and what it has come  *)
(* to after each turn.                                                      *)
Loop(N, X) == [1 .. N -> [X -> X]]

Runs(N, X, base, step) ==
    {f \in [0 .. N -> X] : f[0] = base /\ \A n \in 1 .. N : f[n] = step[n][f[n - 1]]}

(* Every loop has a run.                                                    *)
LEMMA PrimitiveRecursion ==
    ASSUME NEW N \in Nat, NEW X, NEW base \in X,
           NEW step \in Loop(N, X)
    PROVE  \E f : f \in Runs(N, X, base, step)
<1> USE DEF Loop
<1> DEFINE Good(f, m) == f[0] = base /\ \A n \in 1 .. m : f[n] = step[n][f[n - 1]]
           S == {m \in 0 .. N : \E f \in [0 .. N -> X] : Good(f, m)}
<1>1. 0 \in S
  <2>1. [n \in 0 .. N |-> base] \in [0 .. N -> X] /\ Good([n \in 0 .. N |-> base], 0)
    OBVIOUS
  <2>2. QED
    <3> HIDE DEF Good
    <3> QED  BY <2>1
<1>2. ASSUME NEW m \in 1 .. N, m - 1 \in S
      PROVE  m \in S
  <2>1. PICK f \in [0 .. N -> X] : Good(f, m - 1)
    <3> HIDE DEF Good
    <3> QED  BY <1>2
  <2> DEFINE g == [f EXCEPT ![m] = step[m][f[m - 1]]]
  <2>2. step[m][f[m - 1]] \in X /\ g \in [0 .. N -> X]
    OBVIOUS
  <2>3. g[m] = step[m][f[m - 1]] /\ \A n \in 0 .. N : n # m => g[n] = f[n]
    OBVIOUS
  <2>4. Good(g, m)
    <3> HIDE DEF g
    <3>1. ASSUME NEW n \in 1 .. m
          PROVE  g[n] = step[n][g[n - 1]]
      BY <2>1, <2>3
    <3>2. QED  BY <2>1, <2>3, <3>1
  <2>5. QED
    <3> HIDE DEF Good, g
    <3> QED  BY <2>2, <2>4
<1>3. N \in S
  <2> HIDE DEF S
  <2>1. \A m \in 1 .. N : m - 1 \in S => m \in S
    BY <1>2
  <2>2. \A m \in 0 .. N : m \in S
    BY <1>1, <2>1, InductionUpTo
  <2>3. QED  BY <2>2
<1>4. PICK f \in [0 .. N -> X] : Good(f, N)
  <2> HIDE DEF Good
  <2> QED  BY <1>3
<1>5. QED  BY <1>4 DEF Runs

-----------------------------------------------------------------------------
(* Division, for a divisor that is a constant of the model.                 *)

(* A number made of a quotient and a remainder has these.                   *)
LEMMA DivModOf ==
    ASSUME NEW P \in Nat \ {0}, NEW q \in Nat, NEW r \in 0 .. P - 1
    PROVE  (q * P + r) \div P = q /\ (q * P + r) % P = r
OBVIOUS

(* A number is made of its quotient and its remainder.                      *)
LEMMA DivMod ==
    ASSUME NEW P \in Nat \ {0}, NEW n \in Nat
    PROVE  n \div P \in Nat /\ n % P \in 0 .. P - 1 /\ n = (n \div P) * P + (n % P)
<1>1. n \div P \in Nat
  OBVIOUS
<1>2. n % P \in 0 .. P - 1
  OBVIOUS
<1>3. n = (n \div P) * P + (n % P)
  OBVIOUS
<1>4. QED  BY <1>1, <1>2, <1>3

(* A number of a volume has its group for a quotient, and its place in the  *)
(* group for a remainder.                                                   *)
LEMMA QuotientInRange ==
    ASSUME NEW G \in Nat \ {0}, NEW P \in Nat \ {0}, NEW n \in 0 .. G * P - 1
    PROVE  n \div P \in 0 .. G - 1 /\ n % P \in 0 .. P - 1
<1>1. n \in Nat
  <2>1. G * P \in Nat
    OBVIOUS
  <2>2. QED  BY <2>1
<1> DEFINE q == n \div P
<1>2. q < G
  <2> SUFFICES ASSUME q >= G PROVE FALSE
    OBVIOUS
  <2>1. q \in Nat /\ n % P \in 0 .. P - 1 /\ n = q * P + (n % P)
    BY <1>1, DivMod
  <2> HIDE DEF q
  <2>2. q * P >= G * P
    BY <2>1
  <2>3. q * P \in Nat /\ G * P \in Nat
    BY <2>1
  <2>4. QED  BY <2>1, <2>2, <2>3
<1>3. q \in Nat /\ n % P \in 0 .. P - 1
  BY <1>1, DivMod
<1>4. QED  BY <1>2, <1>3

(* A group and a place in it make a number of the volume.                   *)
LEMMA ProductInRange ==
    ASSUME NEW G \in Nat \ {0}, NEW P \in Nat \ {0},
           NEW g \in 0 .. G - 1, NEW r \in 0 .. P - 1
    PROVE  g * P + r \in 0 .. G * P - 1
<1>1. g * P <= (G - 1) * P /\ g * P >= 0 /\ (G - 1) * P = G * P - P
  OBVIOUS
<1>2. QED  BY <1>1
-----------------------------------------------------------------------------
(* The searches.                                                            *)

(* Lowest is the least of some numbers, or None if there are none.          *)
LEMMA LowestIs ==
    ASSUME NEW numbers \in SUBSET Nat
    PROVE  \/ numbers = {} /\ Lowest(numbers) = None
           \/ /\ Lowest(numbers) \in numbers
              /\ \A n \in numbers : Lowest(numbers) <= n
<1>1. CASE numbers = {}
  BY <1>1 DEF Lowest
<1>2. CASE numbers # {}
  <2>1. \E n \in numbers : \A m \in numbers : n <= m
    BY <1>2, LeastExists
  <2>2. Lowest(numbers) = CHOOSE n \in numbers : \A m \in numbers : n <= m
    BY <1>2 DEF Lowest, Min
  <2>3. QED  BY <2>1, <2>2
<1>3. QED  BY <1>1, <1>2

(* The sizes of the volume.                                                 *)
LEMMA Sizes ==
    /\ Groups \in Nat \ {0} /\ BlocksPerGroup \in Nat \ {0} /\ InodesPerGroup \in Nat \ {0}
    /\ InodesPerBlock \in Nat \ {0} /\ ByteSize \in Nat \ {0}
BY GroupAssumption

(* What a search over the groups comes to, when at[g] is None or a number   *)
(* of group g that satisfies the search.                                    *)
LEMMA SearchOf ==
    ASSUME NEW P \in Nat \ {0}, NEW bitmap, NEW at,
           \A g \in Group : at[g] # None => at[g] \in (0 .. P - 1) \ bitmap[g]
    PROVE  LET n == Lowest({g * P + at[g] : g \in {h \in Group : at[h] # None}})
           IN  n = None \/ (n \in 0 .. Groups * P - 1 /\ n % P \notin bitmap[n \div P])
<1> DEFINE S == {g * P + at[g] : g \in {h \in Group : at[h] # None}}
<1>1. ASSUME NEW g \in Group, at[g] # None
      PROVE  LET n == g * P + at[g]
             IN  n \in 0 .. Groups * P - 1 /\ n % P \notin bitmap[n \div P]
  <2> DEFINE n == g * P + at[g]
  <2>1. g \in Nat /\ at[g] \in 0 .. P - 1 /\ at[g] \notin bitmap[g]
    BY <1>1, Sizes DEF Group
  <2>2. n \in 0 .. Groups * P - 1
    BY <2>1, Sizes, ProductInRange DEF Group
  <2>3. n \div P = g /\ n % P = at[g]
    BY <2>1, DivModOf
  <2> HIDE DEF n
  <2>4. QED  BY <2>1, <2>2, <2>3
<1>2. S \in SUBSET Nat
  BY <1>1, Sizes
<1>3. Lowest(S) = None \/ Lowest(S) \in S
  <2> HIDE DEF S
  <2> QED  BY <1>2, LowestIs
<1>4. QED  BY <1>1, <1>3

(* get_free_block returns a free block of the volume, or None.              *)
LEMMA FreeBlock ==
    ASSUME NEW v, IsVolume(v), get_free_block(v) # None
    PROVE  get_free_block(v) \in Block /\ ~BlockUsed(v, get_free_block(v))
<1> DEFINE at == [g \in Group |-> find_free_block(v.block_bitmap[g])]
<1>1. ASSUME NEW g \in Group, at[g] # None
      PROVE  at[g] \in (0 .. BlocksPerGroup - 1) \ v.block_bitmap[g]
  <2> DEFINE free == {n \in 0 .. BlocksPerGroup - 1 : Searched(n) /\ n \notin v.block_bitmap[g]}
  <2>1. at[g] = Lowest(free) /\ free \in SUBSET Nat
    BY Sizes DEF find_free_block
  <2>2. at[g] \in free
    <3> HIDE DEF free, at
    <3> QED  BY <1>1, <2>1, LowestIs
  <2>3. QED  BY <2>2
<1>2. get_free_block(v) = Lowest({g * BlocksPerGroup + at[g] : g \in {h \in Group : at[h] # None}})
  BY DEF get_free_block
<1>3. QED
  <2> HIDE DEF at
  <2>1. LET n == Lowest({g * BlocksPerGroup + at[g] : g \in {h \in Group : at[h] # None}})
        IN  n = None \/ (n \in 0 .. Groups * BlocksPerGroup - 1
                           /\ (n % BlocksPerGroup) \notin v.block_bitmap[n \div BlocksPerGroup])
    BY <1>1, Sizes, SearchOf
  <2>2. QED  BY <1>2, <2>1 DEF Block, BlockUsed

(* get_free_inode returns a free inode of the volume, or None.              *)
LEMMA FreeInode ==
    ASSUME NEW v, IsVolume(v), get_free_inode(v) # None
    PROVE  get_free_inode(v) \in Inode /\ ~InodeUsed(v, get_free_inode(v))
<1> DEFINE at == [g \in Group |-> find_free_inode(v.inode_bitmap[g])]
<1>1. ASSUME NEW g \in Group, at[g] # None
      PROVE  at[g] \in (0 .. InodesPerGroup - 1) \ v.inode_bitmap[g]
  <2> DEFINE free == {n \in 0 .. InodesPerGroup - 1 : Searched(n) /\ n \notin v.inode_bitmap[g]}
  <2>1. at[g] = Lowest(free) /\ free \in SUBSET Nat
    BY Sizes DEF find_free_inode
  <2>2. at[g] \in free
    <3> HIDE DEF free, at
    <3> QED  BY <1>1, <2>1, LowestIs
  <2>3. QED  BY <2>2
<1>2. get_free_inode(v) = Lowest({g * InodesPerGroup + at[g] : g \in {h \in Group : at[h] # None}})
  BY DEF get_free_inode
<1>3. QED
  <2> HIDE DEF at
  <2>1. LET n == Lowest({g * InodesPerGroup + at[g] : g \in {h \in Group : at[h] # None}})
        IN  n = None \/ (n \in 0 .. Groups * InodesPerGroup - 1
                           /\ (n % InodesPerGroup) \notin v.inode_bitmap[n \div InodesPerGroup])
    BY <1>1, Sizes, SearchOf
  <2>2. QED  BY <1>2, <2>1 DEF Inode, InodeUsed

-----------------------------------------------------------------------------
(* The bits.                                                                *)

Bits(P) == [Group -> SUBSET (0 .. P - 1)]

Bit(P, bitmap, n) == n % P \in bitmap[n \div P]

(* Numbers with the same bit are equal.                                     *)
LEMMA BitsApart ==
    ASSUME NEW P \in Nat \ {0}, NEW m \in Nat, NEW n \in Nat,
           m \div P = n \div P, m % P = n % P
    PROVE  m = n
BY DivMod

(* To set or clear the bit of n changes the bit of n, and no other.         *)
LEMMA BitChanges ==
    ASSUME NEW P \in Nat \ {0}, NEW bitmap \in Bits(P), NEW n \in 0 .. Groups * P - 1
    PROVE  LET set == [bitmap EXCEPT ![n \div P] = @ \cup {n % P}]
               cleared == [bitmap EXCEPT ![n \div P] = @ \ {n % P}]
           IN  /\ set \in Bits(P) /\ cleared \in Bits(P)
               /\ \A m \in 0 .. Groups * P - 1 :
                     /\ Bit(P, set, m) <=> Bit(P, bitmap, m) \/ m = n
                     /\ Bit(P, cleared, m) <=> Bit(P, bitmap, m) /\ m # n
<1> DEFINE g == n \div P
           r == n % P
<1>1. g \in Group /\ r \in 0 .. P - 1
  BY Sizes, QuotientInRange DEF Group
<1>2. ASSUME NEW m \in 0 .. Groups * P - 1
      PROVE  /\ m \div P \in Group
             /\ m \div P = g /\ m % P = r <=> m = n
  <2>1. m \in Nat /\ n \in Nat
    BY Sizes
  <2>2. m \div P \in Group
    BY Sizes, QuotientInRange DEF Group
  <2>3. QED  BY <2>1, <2>2, BitsApart
<1> HIDE DEF g, r
<1>3. /\ [bitmap EXCEPT ![g] = @ \cup {r}] \in Bits(P)
      /\ [bitmap EXCEPT ![g] = @ \ {r}] \in Bits(P)
  BY <1>1 DEF Bits
<1>4. ASSUME NEW m \in 0 .. Groups * P - 1
      PROVE  /\ Bit(P, [bitmap EXCEPT ![g] = @ \cup {r}], m) <=> Bit(P, bitmap, m) \/ m = n
             /\ Bit(P, [bitmap EXCEPT ![g] = @ \ {r}], m) <=> Bit(P, bitmap, m) /\ m # n
  <2> DEFINE h == m \div P
             s == m % P
  <2>1. h \in Group /\ (h = g /\ s = r <=> m = n)
    BY <1>2
  <2> HIDE DEF h, s
  <2>2. /\ s \in [bitmap EXCEPT ![g] = @ \cup {r}][h] <=> s \in bitmap[h] \/ (h = g /\ s = r)
        /\ s \in [bitmap EXCEPT ![g] = @ \ {r}][h] <=> s \in bitmap[h] /\ ~(h = g /\ s = r)
    BY <2>1, <1>1 DEF Bits
  <2>3. QED  BY <2>1, <2>2 DEF Bit, h, s
<1>5. QED  BY <1>3, <1>4 DEF g, r

(* A volume is what its fields are, with the bitmaps as sets of bits.       *)
LEMMA VolumeFields ==
    ASSUME NEW v
    PROVE  IsVolume(v) <=>
              /\ v = [block_bitmap |-> v.block_bitmap, inode_bitmap |-> v.inode_bitmap,
                      inode |-> v.inode, data |-> v.data]
              /\ v.block_bitmap \in Bits(BlocksPerGroup)
              /\ v.inode_bitmap \in Bits(InodesPerGroup)
BY DEF IsVolume, Bits

(* w is volume v with other bitmaps.                                        *)
LEMMA RecordOf ==
    ASSUME NEW bb \in Bits(BlocksPerGroup), NEW ib \in Bits(InodesPerGroup), NEW ino, NEW dat
    PROVE  LET w == [block_bitmap |-> bb, inode_bitmap |-> ib, inode |-> ino, data |-> dat]
           IN  /\ IsVolume(w)
               /\ w.block_bitmap = bb /\ w.inode_bitmap = ib /\ w.inode = ino /\ w.data = dat
BY VolumeFields

(* set_block_used marks its block, and changes nothing else.                *)
LEMMA SetBlockUsed ==
    ASSUME NEW v, IsVolume(v), NEW b \in Block
    PROVE  LET w == set_block_used(v, b)
           IN  /\ IsVolume(w)
               /\ w.inode_bitmap = v.inode_bitmap /\ w.inode = v.inode /\ w.data = v.data
               /\ \A c \in Block : BlockUsed(w, c) <=> BlockUsed(v, c) \/ c = b
<1> DEFINE w == set_block_used(v, b)
           bits == [v.block_bitmap EXCEPT ![b \div BlocksPerGroup] = @ \cup {b % BlocksPerGroup}]
<1>1. v = [block_bitmap |-> v.block_bitmap, inode_bitmap |-> v.inode_bitmap,
           inode |-> v.inode, data |-> v.data]
  BY VolumeFields
<1>2. w = [block_bitmap |-> bits, inode_bitmap |-> v.inode_bitmap, inode |-> v.inode, data |-> v.data]
  BY <1>1 DEF set_block_used
<1>3. /\ bits \in Bits(BlocksPerGroup)
      /\ \A c \in Block : Bit(BlocksPerGroup, bits, c) <=> Bit(BlocksPerGroup, v.block_bitmap, c) \/ c = b
  BY Sizes, VolumeFields, BitChanges DEF Block
<1> HIDE DEF w, bits
<1>4. QED  BY <1>2, <1>3, VolumeFields, RecordOf DEF w, BlockUsed, Bit

(* set_inode_used marks its inode, and changes nothing else.                *)
LEMMA SetInodeUsed ==
    ASSUME NEW v, IsVolume(v), NEW i \in Inode
    PROVE  LET w == set_inode_used(v, i)
           IN  /\ IsVolume(w)
               /\ w.block_bitmap = v.block_bitmap /\ w.inode = v.inode /\ w.data = v.data
               /\ \A j \in Inode : InodeUsed(w, j) <=> InodeUsed(v, j) \/ j = i
<1> DEFINE w == set_inode_used(v, i)
           bits == [v.inode_bitmap EXCEPT ![i \div InodesPerGroup] = @ \cup {i % InodesPerGroup}]
<1>1. v = [block_bitmap |-> v.block_bitmap, inode_bitmap |-> v.inode_bitmap,
           inode |-> v.inode, data |-> v.data]
  BY VolumeFields
<1>2. w = [block_bitmap |-> v.block_bitmap, inode_bitmap |-> bits, inode |-> v.inode, data |-> v.data]
  BY <1>1 DEF set_inode_used
<1>3. /\ bits \in Bits(InodesPerGroup)
      /\ \A j \in Inode : Bit(InodesPerGroup, bits, j) <=> Bit(InodesPerGroup, v.inode_bitmap, j) \/ j = i
  BY Sizes, VolumeFields, BitChanges DEF Inode
<1> HIDE DEF w, bits
<1>4. QED  BY <1>2, <1>3, VolumeFields, RecordOf DEF w, InodeUsed, Bit

(* return_block_to_freelist clears the mark of its block, and changes       *)
(* nothing else.                                                            *)
LEMMA ReturnBlockToFreelist ==
    ASSUME NEW v, IsVolume(v), NEW b \in Block
    PROVE  LET w == return_block_to_freelist(v, b)
           IN  /\ IsVolume(w)
               /\ w.inode_bitmap = v.inode_bitmap /\ w.inode = v.inode /\ w.data = v.data
               /\ \A c \in Block : BlockUsed(w, c) <=> BlockUsed(v, c) /\ c # b
<1> DEFINE w == return_block_to_freelist(v, b)
           bits == [v.block_bitmap EXCEPT ![b \div BlocksPerGroup] = @ \ {b % BlocksPerGroup}]
<1>1. v = [block_bitmap |-> v.block_bitmap, inode_bitmap |-> v.inode_bitmap,
           inode |-> v.inode, data |-> v.data]
  BY VolumeFields
<1>2. w = [block_bitmap |-> bits, inode_bitmap |-> v.inode_bitmap, inode |-> v.inode, data |-> v.data]
  BY <1>1 DEF return_block_to_freelist
<1>3. /\ bits \in Bits(BlocksPerGroup)
      /\ \A c \in Block : Bit(BlocksPerGroup, bits, c) <=> Bit(BlocksPerGroup, v.block_bitmap, c) /\ c # b
  BY Sizes, VolumeFields, BitChanges DEF Block
<1> HIDE DEF w, bits
<1>4. QED  BY <1>2, <1>3, VolumeFields, RecordOf DEF w, BlockUsed, Bit

(* return_inode_to_freelist clears the mark of its inode, and changes       *)
(* nothing else.                                                            *)
LEMMA ReturnInodeToFreelist ==
    ASSUME NEW v, IsVolume(v), NEW i \in Inode
    PROVE  LET w == return_inode_to_freelist(v, i)
           IN  /\ IsVolume(w)
               /\ w.block_bitmap = v.block_bitmap /\ w.inode = v.inode /\ w.data = v.data
               /\ \A j \in Inode : InodeUsed(w, j) <=> InodeUsed(v, j) /\ j # i
<1> DEFINE w == return_inode_to_freelist(v, i)
           bits == [v.inode_bitmap EXCEPT ![i \div InodesPerGroup] = @ \ {i % InodesPerGroup}]
<1>1. v = [block_bitmap |-> v.block_bitmap, inode_bitmap |-> v.inode_bitmap,
           inode |-> v.inode, data |-> v.data]
  BY VolumeFields
<1>2. w = [block_bitmap |-> v.block_bitmap, inode_bitmap |-> bits, inode |-> v.inode, data |-> v.data]
  BY <1>1 DEF return_inode_to_freelist
<1>3. /\ bits \in Bits(InodesPerGroup)
      /\ \A j \in Inode : Bit(InodesPerGroup, bits, j) <=> Bit(InodesPerGroup, v.inode_bitmap, j) /\ j # i
  BY Sizes, VolumeFields, BitChanges DEF Inode
<1> HIDE DEF w, bits
<1>4. QED  BY <1>2, <1>3, VolumeFields, RecordOf DEF w, InodeUsed, Bit

-----------------------------------------------------------------------------
(* Numbers and lengths.                                                     *)

(* The sizes of what is on the volume.                                      *)
LEMMA VolumeSizes ==
    /\ Ptrs \in Nat \ {0} /\ BlockSize \in Nat \ {0} /\ NameLen \in Nat \ {0}
    /\ MaxDepth \in Nat
BY VolumeAssumption

(* Inodes and blocks have numbers; block 0, which a zero pointer names, is  *)
(* a header.                                                                *)
LEMMA InodeNumbers ==
    /\ Inode \subseteq Nat /\ Block \subseteq Nat
    /\ Root \in Inode /\ 0 \in Block /\ IsHeader(0)
<1>1. Groups * InodesPerGroup \in Nat \ {0} /\ Groups * BlocksPerGroup \in Nat \ {0}
  BY Sizes
<1>2. DataBlockOffset > 0
  <2>1. InodesPerGroup \div InodesPerBlock \in Nat
    BY Sizes, DivMod
  <2>2. QED  BY <2>1 DEF DataBlockOffset
<1>3. 0 % BlocksPerGroup = 0
  <2>1. (0 * BlocksPerGroup + 0) % BlocksPerGroup = 0
    BY Sizes, DivModOf
  <2>2. QED  BY <2>1, Sizes
<1>4. QED  BY <1>1, <1>2, <1>3 DEF Inode, Block, Root, IsHeader

(* A length of a name is positive, and so is the room it is given.          *)
LEMMA NameLengthIsNat == \A name : NameLength(name) \in Nat \ {0}
BY VolumeSizes DEF NameLength

(* No entry gets a length of zero.                                          *)
LEMMA EntryLenIsNat ==
    ASSUME NEW n \in Nat
    PROVE  EntryLen(n) \in Nat \ {0}
<1>1. n \div 4 \in Nat
  BY DivMod
<1>2. QED  BY <1>1 DEF EntryLen

(* The length of a path counts its names and the slashes between them.      *)
LEMMA PathLengthIs ==
    ASSUME NEW path, Len(path) \in Nat \ {0}
    PROVE  \E f : /\ PathLength(path) = f[Len(path)]
                  /\ f[1] = NameLength(path[1])
                  /\ \A n \in 1 .. Len(path) - 1 :
                        f[n + 1] = NameLength(path[n + 1]) + (f[n] + 1)
<1> DEFINE N == Len(path) - 1
           body(f, n) == NameLength(path[n]) + (IF n = 1 THEN 0 ELSE f[n - 1] + 1)
           upto[n \in 1 .. Len(path)] ==
               NameLength(path[n]) + (IF n = 1 THEN 0 ELSE upto[n - 1] + 1)
           step == [n \in 1 .. N |-> [x \in Nat |-> NameLength(path[n + 1]) + (x + 1)]]
<1>1. N \in Nat /\ NameLength(path[1]) \in Nat
  BY NameLengthIsNat
<1>2. step \in Loop(N, Nat)
  BY NameLengthIsNat DEF Loop
<1>3. PICK f : f \in Runs(N, Nat, NameLength(path[1]), step)
  <2> HIDE DEF step, N
  <2> QED  BY <1>1, <1>2, PrimitiveRecursion
<1> DEFINE g == [n \in 1 .. Len(path) |-> f[n - 1]]
<1>4. g = [n \in 1 .. Len(path) |-> body(g, n)]
  <2>1. \A n \in 1 .. Len(path) : g[n] = body(g, n)
    <3> TAKE n \in 1 .. Len(path)
    <3>1. CASE n = 1
      BY <1>1, <1>3, <3>1, NameLengthIsNat DEF Runs
    <3>2. CASE n # 1
      <4>1. n - 1 \in 1 .. N /\ n - 1 \in 1 .. Len(path) /\ (n - 1) - 1 \in 0 .. N
        BY <3>2
      <4>2. f[n - 1] = step[n - 1][f[(n - 1) - 1]]
        BY <1>3, <4>1 DEF Runs
      <4>3. f[(n - 1) - 1] \in Nat
        BY <1>3, <4>1 DEF Runs
      <4>4. step[n - 1][f[(n - 1) - 1]] = NameLength(path[n]) + (f[(n - 1) - 1] + 1)
        BY <4>1, <4>3
      <4>5. g[n - 1] = f[(n - 1) - 1] /\ g[n] = f[n - 1]
        BY <4>1
      <4> HIDE DEF g, step
      <4>6. QED  BY <3>2, <4>2, <4>4, <4>5
    <3>3. QED  BY <3>1, <3>2
  <2> HIDE DEF body
  <2>2. QED  BY <2>1
<1>5. upto = [n \in 1 .. Len(path) |-> body(upto, n)]
  <2> HIDE DEF g
  <2> QED  BY <1>4
<1>6. upto[1] = NameLength(path[1])
  <2>1. upto[1] = body(upto, 1)
    <3> HIDE DEF upto, body
    <3> QED  BY <1>5
  <2> HIDE DEF upto
  <2>2. QED  BY <2>1, NameLengthIsNat
<1>7. ASSUME NEW n \in 1 .. N
      PROVE  upto[n + 1] = NameLength(path[n + 1]) + (upto[n] + 1)
  <2>1. upto[n + 1] = body(upto, n + 1)
    <3> HIDE DEF upto, body
    <3> QED  BY <1>5
  <2>2. n + 1 # 1 /\ (n + 1) - 1 = n
    OBVIOUS
  <2> HIDE DEF upto
  <2>3. QED  BY <2>1, <2>2
<1>8. PathLength(path) = upto[Len(path)]
  BY DEF PathLength
<1> HIDE DEF upto
<1>9. QED  BY <1>6, <1>7, <1>8

(* It is bounded by the number of names, if their lengths are bounded.      *)
LEMMA PathLengthIsNat ==
    ASSUME NEW path, Len(path) \in Nat \ {0}
    PROVE  /\ PathLength(path) \in Nat
           /\ \A L \in Nat : (\A name : NameLength(name) <= L) =>
                 PathLength(path) <= Len(path) * (L + 1) - 1
<1>1. PICK f : /\ PathLength(path) = f[Len(path)]
               /\ f[1] = NameLength(path[1])
               /\ \A n \in 1 .. Len(path) - 1 :
                     f[n + 1] = NameLength(path[n + 1]) + (f[n] + 1)
  BY PathLengthIs
<1> DEFINE N == Len(path) - 1
           Short(L) == \A name : NameLength(name) <= L
           S == {n \in 0 .. N : /\ f[n + 1] \in Nat
                                /\ \A L \in Nat : Short(L) => f[n + 1] <= (n + 1) * (L + 1) - 1}
<1>2. N \in Nat /\ N + 1 = Len(path)
  OBVIOUS
<1> HIDE DEF Short
<1>3. 0 \in S
  <2>1. f[0 + 1] \in Nat
    BY <1>1, NameLengthIsNat
  <2>2. \A L \in Nat : Short(L) => f[0 + 1] <= L /\ L = (0 + 1) * (L + 1) - 1
    BY <1>1 DEF Short
  <2>3. QED  BY <1>2, <2>1, <2>2
<1>4. ASSUME NEW n \in 1 .. N, n - 1 \in S
      PROVE  n \in S
  <2>1. /\ f[n] \in Nat
        /\ \A L \in Nat : Short(L) => f[n] <= n * (L + 1) - 1
    <3>1. (n - 1) + 1 = n
      OBVIOUS
    <3>2. QED  BY <1>4, <3>1
  <2>2. f[n + 1] = NameLength(path[n + 1]) + (f[n] + 1)
    BY <1>1
  <2>3. NameLength(path[n + 1]) \in Nat
    BY NameLengthIsNat
  <2>4. ASSUME NEW L \in Nat, Short(L)
        PROVE  f[n + 1] <= (n + 1) * (L + 1) - 1
    <3>1. NameLength(path[n + 1]) <= L
      BY <2>4 DEF Short
    <3>2. f[n] <= n * (L + 1) - 1
      BY <2>1, <2>4
    <3>3. (n + 1) * (L + 1) = n * (L + 1) + (L + 1) /\ n * (L + 1) \in Int
      OBVIOUS
    <3> DEFINE m == n * (L + 1)
    <3>4. m \in Int /\ f[n] <= m - 1 /\ (n + 1) * (L + 1) = m + (L + 1)
      BY <3>2, <3>3
    <3> HIDE DEF m
    <3>5. QED  BY <2>1, <2>2, <2>3, <3>1, <3>4
  <2>5. QED  BY <2>1, <2>2, <2>3, <2>4
<1>5. N \in S
  <2> HIDE DEF S, N
  <2>1. \A n \in 0 .. N : n \in S
    BY <1>2, <1>3, <1>4, InductionUpTo
  <2>2. QED  BY <1>2, <2>1
<1>6. QED  BY <1>1, <1>2, <1>5 DEF Short


-----------------------------------------------------------------------------
(* The walk through a directory.                                            *)

(* A directory whose entries are in the block, each of some length.         *)
Walkable(dir) ==
    \A k \in DOMAIN dir : k \in 0 .. BlockSize /\ dir[k].entry_len \in Nat \ {0}

(* What the walk from offset k reads, when f says what it reads from the    *)
(* offset after k on.                                                       *)
WalkFrom(dir, size, f, k) ==
    LET next == k + EntryAt(dir, k).entry_len
    IN  IF k \notin DOMAIN dir \/ next >= size THEN {k} ELSE {k} \cup f[next]

(* The walk through a directory ends, and reads at offsets; that through an *)
(* empty one reads once.                                                    *)
LEMMA WalkIsFunction ==
    ASSUME NEW dir, Walkable(dir), NEW size
    PROVE  \E f \in [Nat -> SUBSET Nat] : \A k \in Nat : f[k] = WalkFrom(dir, size, f, k)
<1> DEFINE B == BlockSize + 1
           Good(f, m) == \A k \in Nat : k + m >= B => f[k] = WalkFrom(dir, size, f, k)
           S == {m \in 0 .. B : \E f \in [Nat -> SUBSET Nat] : Good(f, m)}
<1>1. B \in Nat \ {0} /\ \A k \in DOMAIN dir : k \in 0 .. B - 1
  BY VolumeSizes DEF Walkable
<1>2. ASSUME NEW k \in DOMAIN dir
      PROVE  EntryAt(dir, k) = dir[k] /\ k + EntryAt(dir, k).entry_len \in Nat
             /\ k + EntryAt(dir, k).entry_len > k
  BY <1>1 DEF Walkable, EntryAt
<1> HIDE DEF B
<1>3. 0 \in S
  <2>1. Good([k \in Nat |-> {k}], 0)
    BY <1>1 DEF WalkFrom
  <2>2. [k \in Nat |-> {k}] \in [Nat -> SUBSET Nat]
    OBVIOUS
  <2> HIDE DEF Good
  <2>3. QED  BY <1>1, <2>1, <2>2
<1>4. ASSUME NEW m \in 1 .. B, m - 1 \in S
      PROVE  m \in S
  <2>1. PICK f \in [Nat -> SUBSET Nat] : Good(f, m - 1)
    <3> HIDE DEF Good
    <3> QED  BY <1>4
  <2> DEFINE K == B - m
             g == [f EXCEPT ![K] = WalkFrom(dir, size, f, K)]
  <2>2. K \in Nat
    BY <1>1
  <2>3. WalkFrom(dir, size, f, K) \in SUBSET Nat
    BY <1>2, <2>2 DEF WalkFrom
  <2>4. ASSUME NEW k \in Nat, k >= K
        PROVE  WalkFrom(dir, size, g, k) = WalkFrom(dir, size, f, k)
    <3>1. CASE k \in DOMAIN dir
      <4> DEFINE next == k + EntryAt(dir, k).entry_len
      <4>1. next \in Nat /\ next > K
        BY <1>2, <2>2, <2>4, <3>1
      <4> HIDE DEF next
      <4>2. g[next] = f[next]
        BY <2>2, <4>1
      <4> HIDE DEF g
      <4>3. QED  BY <4>2 DEF WalkFrom, next
    <3>2. CASE k \notin DOMAIN dir
      BY <3>2 DEF WalkFrom
    <3>3. QED  BY <3>1, <3>2
  <2>5. g \in [Nat -> SUBSET Nat] /\ g[K] = WalkFrom(dir, size, f, K)
        /\ \A k \in Nat : k # K => g[k] = f[k]
    <3> HIDE DEF K
    <3> QED  BY <2>2, <2>3
  <2>6. Good(g, m)
    <3> SUFFICES ASSUME NEW k \in Nat, k + m >= B
                 PROVE  g[k] = WalkFrom(dir, size, g, k)
      OBVIOUS
    <3>1. k >= K /\ (k # K => k + (m - 1) >= B)
      BY <1>1
    <3>2. k # K => f[k] = WalkFrom(dir, size, f, k)
      BY <2>1, <3>1
    <3> HIDE DEF g, K
    <3>3. QED  BY <2>4, <2>5, <3>1, <3>2
  <2> HIDE DEF Good, g
  <2>7. QED  BY <2>5, <2>6
<1>5. B \in S
  <2> HIDE DEF S
  <2>1. \A m \in 0 .. B : m \in S
    BY <1>1, <1>3, <1>4, InductionUpTo
  <2>2. QED  BY <1>1, <2>1
<1>6. PICK f \in [Nat -> SUBSET Nat] : Good(f, B)
  <2> HIDE DEF Good
  <2> QED  BY <1>5
<1>7. \A k \in Nat : f[k] = WalkFrom(dir, size, f, k)
  BY <1>1, <1>6
<1>8. QED  BY <1>7

(* The offsets that a walk from k reads at: from each it goes on to the end *)
(* of the entry there, unless that is the end of the directory.             *)
WalksOn(dir, size, k, offsets) ==
    /\ offsets \subseteq Nat /\ k \in offsets
    /\ \A j \in offsets :
          LET next == j + EntryAt(dir, j).entry_len
          IN  j \in DOMAIN dir /\ ~(next >= size) => next \in offsets

(* Walked is the least set of offsets of a walk from the first entry on.    *)
LEMMA WalkedIs ==
    ASSUME NEW v, NEW d, Walkable(Dir(v, d))
    PROVE  /\ WalksOn(Dir(v, d), Size(v, d), 0, Walked(v, d))
           /\ \A W : WalksOn(Dir(v, d), Size(v, d), 0, W) => Walked(v, d) \subseteq W
           /\ DOMAIN Dir(v, d) = {} => Walked(v, d) = {0}
<1> DEFINE dir == Dir(v, d)
           size == v.inode[d].size
           walk[k \in Nat] ==
               LET next == k + EntryAt(dir, k).entry_len
               IN  IF k \notin DOMAIN dir \/ next >= v.inode[d].size
                   THEN {k} ELSE {k} \cup walk[next]
           B == BlockSize + 1
<1>1. PICK f \in [Nat -> SUBSET Nat] : \A k \in Nat : f[k] = WalkFrom(dir, size, f, k)
  BY WalkIsFunction
<1>2. f = [k \in Nat |-> LET next == k + EntryAt(dir, k).entry_len
               IN  IF k \notin DOMAIN dir \/ next >= v.inode[d].size
                   THEN {k} ELSE {k} \cup f[next]]
  <2> HIDE DEF dir
  <2> QED  BY <1>1 DEF WalkFrom
<1>3. walk = [k \in Nat |-> LET next == k + EntryAt(dir, k).entry_len
               IN  IF k \notin DOMAIN dir \/ next >= v.inode[d].size
                   THEN {k} ELSE {k} \cup walk[next]]
  <2> HIDE DEF dir
  <2> QED  BY <1>2
<1>4. \A k \in Nat : walk[k] = WalkFrom(dir, size, walk, k)
  <2> HIDE DEF walk, dir
  <2> QED  BY <1>3 DEF WalkFrom
<1>5. Walked(v, d) = walk[0]
  BY DEF Walked
<1> HIDE DEF walk
<1>6. B \in Nat \ {0} /\ \A k \in DOMAIN dir : k \in 0 .. B - 1
  BY VolumeSizes DEF Walkable
<1>7. ASSUME NEW k \in DOMAIN dir
      PROVE  k + EntryAt(dir, k).entry_len \in Nat /\ k + EntryAt(dir, k).entry_len > k
  BY <1>6 DEF Walkable, EntryAt
<1> HIDE DEF B, dir, size
<1> DEFINE S == {m \in 0 .. B : \A k \in Nat : k + m >= B => WalksOn(dir, size, k, walk[k])}
<1>8. 0 \in S
  <2> SUFFICES ASSUME NEW k \in Nat, k + 0 >= B PROVE WalksOn(dir, size, k, walk[k])
    BY <1>6
  <2>1. k \notin DOMAIN dir
    BY <1>6
  <2>2. walk[k] = {k}
    BY <1>4, <2>1 DEF WalkFrom
  <2>3. QED  BY <2>1, <2>2 DEF WalksOn
<1>9. ASSUME NEW m \in 1 .. B, m - 1 \in S
      PROVE  m \in S
  <2> SUFFICES ASSUME NEW k \in Nat, k + m >= B PROVE WalksOn(dir, size, k, walk[k])
    BY <1>6
  <2> DEFINE next == k + EntryAt(dir, k).entry_len
  <2>1. CASE k \in DOMAIN dir
    <3>1. next \in Nat /\ next > k
      BY <1>7, <2>1
    <3>2. next + (m - 1) >= B
      <4> HIDE DEF next
      <4> QED  BY <1>6, <3>1
    <3> HIDE DEF next
    <3>3. WalksOn(dir, size, next, walk[next])
      BY <1>9, <3>1, <3>2
    <3>4. walk[k] = IF next >= size THEN {k} ELSE {k} \cup walk[next]
      BY <1>4, <2>1 DEF WalkFrom, next
    <3>5. CASE next >= size
      BY <3>4, <3>5 DEF WalksOn, next
    <3>6. CASE ~(next >= size)
      <4>1. walk[k] = {k} \cup walk[next]
        BY <3>4, <3>6
      <4>2. ASSUME NEW j \in walk[k], j \in DOMAIN dir,
                   ~(j + EntryAt(dir, j).entry_len >= size)
            PROVE  j + EntryAt(dir, j).entry_len \in walk[k]
        BY <3>3, <4>1, <4>2 DEF WalksOn, next
      <4>3. QED  BY <3>3, <4>1, <4>2 DEF WalksOn
    <3>7. QED  BY <3>5, <3>6
  <2>2. CASE k \notin DOMAIN dir
    <3>1. walk[k] = {k}
      BY <1>4, <2>2 DEF WalkFrom
    <3>2. QED  BY <2>2, <3>1 DEF WalksOn
  <2>3. QED  BY <2>1, <2>2
<1>10. B \in S
  <2> HIDE DEF S
  <2>1. \A m \in 0 .. B : m \in S
    BY <1>6, <1>8, <1>9, InductionUpTo
  <2>2. QED  BY <1>6, <2>1
<1>11. WalksOn(dir, size, 0, walk[0])
  BY <1>6, <1>10
<1>12. DOMAIN dir = {} => walk[0] = {0}
  BY <1>4 DEF WalkFrom
<1> HIDE DEF S
<1> DEFINE Least(k) == \A W : WalksOn(dir, size, k, W) => walk[k] \subseteq W
           L == {m \in 0 .. B : \A k \in Nat : k + m >= B => Least(k)}
<1>13. ASSUME NEW k \in Nat, k \notin DOMAIN dir
       PROVE  Least(k)
  <2>1. walk[k] = {k}
    BY <1>4, <1>13 DEF WalkFrom
  <2>2. QED  BY <2>1 DEF WalksOn
<1>14. ASSUME NEW k \in DOMAIN dir, Least(k + EntryAt(dir, k).entry_len)
       PROVE  Least(k)
  <2> DEFINE next == k + EntryAt(dir, k).entry_len
  <2> SUFFICES ASSUME NEW W, WalksOn(dir, size, k, W) PROVE walk[k] \subseteq W
    OBVIOUS
  <2>1. walk[k] = IF next >= size THEN {k} ELSE {k} \cup walk[next]
    <3>1. k \in Nat /\ k \in DOMAIN dir
      BY <1>6
    <3>2. walk[k] = WalkFrom(dir, size, walk, k)
      BY <1>4, <3>1
    <3>3. QED  BY <3>1, <3>2 DEF WalkFrom
  <2>2. k \in W /\ (~(next >= size) => WalksOn(dir, size, next, W))
    BY DEF WalksOn
  <2>3. ~(next >= size) => walk[next] \subseteq W
    BY <1>14, <2>2
  <2> HIDE DEF next
  <2>4. QED  BY <2>1, <2>2, <2>3
<1> HIDE DEF Least
<1>15. 0 \in L
  BY <1>6, <1>13
<1>16. ASSUME NEW m \in 1 .. B, m - 1 \in L
       PROVE  m \in L
  <2> SUFFICES ASSUME NEW k \in Nat, k + m >= B PROVE Least(k)
    BY <1>6
  <2>1. CASE k \in DOMAIN dir
    <3> DEFINE next == k + EntryAt(dir, k).entry_len
    <3>1. next \in Nat /\ next > k
      BY <1>7, <2>1
    <3> HIDE DEF next
    <3>2. next + (m - 1) >= B
      BY <1>6, <3>1
    <3>3. Least(next)
      BY <1>16, <3>1, <3>2
    <3>4. QED  BY <1>14, <2>1, <3>3 DEF next
  <2>2. CASE k \notin DOMAIN dir
    BY <1>13, <2>2
  <2>3. QED  BY <2>1, <2>2
<1>17. B \in L
  <2> HIDE DEF L
  <2>1. \A m \in 0 .. B : m \in L
    BY <1>6, <1>15, <1>16, InductionUpTo
  <2>2. QED  BY <1>6, <2>1
<1>18. Least(0)
  BY <1>6, <1>17
<1>19. QED  BY <1>5, <1>11, <1>12, <1>18 DEF Least, dir, size, Size

(* A search stops at an offset where no entry begins or one with the name,  *)
(* if it stops.                                                             *)
LEMMA StopsAtIs ==
    ASSUME NEW v, NEW d, Walkable(Dir(v, d)), NEW name
    PROVE  LET k == StopsAt(v, d, name)
           IN  /\ k = None \/ (k \in Nat /\ (k \in DOMAIN Dir(v, d) => Dir(v, d)[k].name = name))
               /\ DOMAIN Dir(v, d) = {} => k = 0
<1> DEFINE stops == {k \in Walked(v, d) : k \notin DOMAIN Dir(v, d) \/ Dir(v, d)[k].name = name}
<1>1. StopsAt(v, d, name) = Lowest(stops)
  BY DEF StopsAt
<1>2. stops \in SUBSET Nat
  BY WalkedIs DEF WalksOn
<1>3. DOMAIN Dir(v, d) = {} => stops = {0}
  BY WalkedIs DEF WalksOn
<1>4. \/ stops = {} /\ Lowest(stops) = None
      \/ Lowest(stops) \in stops
  <2> HIDE DEF stops
  <2> QED  BY <1>2, LowestIs
<1>5. QED  BY <1>1, <1>2, <1>3, <1>4

(* What a search comes to.                                                  *)
LEMMA LookupIs ==
    ASSUME NEW v, NEW d, Walkable(Dir(v, d)), NEW name
    PROVE  LET e == Lookup(v, d, name)
               k == StopsAt(v, d, name)
           IN  /\ \/ e \in {Missing, Junk}
                  \/ /\ k \in DOMAIN Dir(v, d) /\ e = Dir(v, d)[k] /\ e = Entry(v, d, k)
                     /\ e.name = name
               /\ DOMAIN Dir(v, d) = {} => e = Junk
BY StopsAtIs DEF Lookup, Entry, EntryAt, None

-----------------------------------------------------------------------------
(* Searches on a sound volume.                                              *)

(* What holds of each entry of a sound volume.                              *)
LEMMA EntryFacts ==
    ASSUME NEW v, NEW dirs, NEW files, Sound(v, dirs, files),
           NEW b \in Block, NEW o \in DOMAIN Dirents(v, b)
    PROVE  LET e == Dirents(v, b)[o]
           IN  /\ o \in 0 .. BlockSize - DirentSize /\ e \in Entries
               /\ e.name \in Name \cup {".", "..", ".log"} /\ e.type \in {"dir", "file"}
               /\ e.inode \in Inode /\ e.entry_len \in Nat \ {0}
               /\ BlockUsed(v, b) /\ ~IsHeader(b)
               /\ e.type = "dir" => e.inode \in dirs
               /\ e.type = "file" => e.inode \in files /\ ~IsDot(e)
<1>1. o \in 0 .. BlockSize - DirentSize /\ Dirents(v, b)[o] \in Entries
  BY DEF Sound, VolumeOK
<1>2. QED  BY <1>1 DEF Sound, EntriesInv, Entries

(* So every block can be walked.                                            *)
LEMMA EntriesAreWalkable ==
    ASSUME NEW v, NEW dirs, NEW files, Sound(v, dirs, files), NEW b \in Block
    PROVE  Walkable(Dirents(v, b))
BY EntryFacts, VolumeSizes DEF Walkable, DirentSize

(* The blocks of directories, and the blocks that the code takes for those  *)
(* of directories when it goes on into a file.                              *)
LEMMA DirIs ==
    ASSUME NEW v, NEW dirs, NEW files, Sound(v, dirs, files), NEW d \in dirs \cup files
    PROVE  /\ d \in Inode /\ Ptr(v, d, 0) \in Block
           /\ Dir(v, d) = Dirents(v, Ptr(v, d, 0))
           /\ Walkable(Dir(v, d))
           /\ d \in files => DOMAIN Dir(v, d) = {}
<1>1. d \in Inode
  BY DEF Sound, InodesInv
<1>2. Dir(v, d) = Dirents(v, Ptr(v, d, 0))
  BY DEF Dir, Dirents, Ptr
<1>3. 0 \in 0 .. Ptrs - 1
  BY VolumeSizes
<1>4. CASE d \in dirs
  <2>1. Ptr(v, d, 0) \in Block
    BY <1>3, <1>4 DEF Sound, BlocksInv, Owns
  <2>2. d \notin files
    BY <1>4 DEF Sound, InodesInv
  <2>3. QED  BY <1>1, <1>2, <2>1, <2>2, EntriesAreWalkable
<1>5. CASE d \in files
  <2>1. CASE Size(v, d) > 0
    <3>1. Owns(v, dirs, files, d, 0) /\ v.data[Ptr(v, d, 0)] \in Text
      BY <1>3, <1>5, <2>1 DEF Sound, FileInv, Owns
    <3>2. Ptr(v, d, 0) \in Block
      BY <1>3, <3>1 DEF Sound, BlocksInv
    <3>3. DOMAIN Dirents(v, Ptr(v, d, 0)) = {}
      BY <3>1 DEF Dirents, AsDir, NoEntries
    <3>4. QED  BY <1>1, <1>2, <3>2, <3>3, EntriesAreWalkable
  <2>2. CASE ~ (Size(v, d) > 0)
    <3>1. Ptr(v, d, 0) = 0
      BY <1>3, <1>5, <2>2 DEF Sound, FileInv
    <3>2. Ptr(v, d, 0) \in Block /\ IsHeader(Ptr(v, d, 0))
      BY <3>1, InodeNumbers
    <3>3. DOMAIN Dirents(v, Ptr(v, d, 0)) = {}
      BY <3>2 DEF Sound, EntriesInv
    <3>4. QED  BY <1>1, <1>2, <3>2, <3>3, EntriesAreWalkable
  <2>3. QED  BY <2>1, <2>2
<1>6. QED  BY <1>4, <1>5

(* What a search of a directory comes to on a sound volume.                 *)
LEMMA LookupSound ==
    ASSUME NEW v, NEW dirs, NEW files, Sound(v, dirs, files),
           NEW d \in dirs \cup files, NEW name
    PROVE  LET e == Lookup(v, d, name)
               k == StopsAt(v, d, name)
           IN  /\ \/ e \in {Missing, Junk}
                  \/ /\ k \in DOMAIN Dirents(v, Ptr(v, d, 0))
                     /\ e = Dirents(v, Ptr(v, d, 0))[k] /\ e = Entry(v, d, k)
                     /\ e.name = name /\ e.type \in {"dir", "file"}
                     /\ e.type = "dir" => e.inode \in dirs
                     /\ e.type = "file" => e.inode \in files
               /\ d \in files => e = Junk
<1> DEFINE b == Ptr(v, d, 0)
<1>1. b \in Block /\ Dir(v, d) = Dirents(v, b) /\ Walkable(Dir(v, d))
      /\ (d \in files => DOMAIN Dir(v, d) = {})
  BY DirIs
<1>2. LET e == Lookup(v, d, name)
          k == StopsAt(v, d, name)
      IN  /\ \/ e \in {Missing, Junk}
             \/ /\ k \in DOMAIN Dirents(v, b) /\ e = Dirents(v, b)[k] /\ e = Entry(v, d, k)
                /\ e.name = name
          /\ d \in files => e = Junk
  BY <1>1, LookupIs
<1>3. \A k \in DOMAIN Dirents(v, b) :
         LET e == Dirents(v, b)[k]
         IN  /\ e.type \in {"dir", "file"}
             /\ e.type = "dir" => e.inode \in dirs
             /\ e.type = "file" => e.inode \in files
  BY <1>1, EntryFacts
<1> HIDE DEF b
<1>4. QED  BY <1>2, <1>3 DEF b

(* The inodes that a search for the parent of a path goes through.          *)
Reach(dirs, files, types) == dirs \cup (IF "file" \in types THEN files ELSE {})

(* What a search that finds nothing returns is of no type an entry has.     *)
LEMMA NoEntryType ==
    Missing.type = "missing" /\ Missing.inode = None /\ Junk.type = "junk" /\ Junk.inode = None
BY DEF Missing, Junk, Dirent

(* One name of a path leads from a directory to one, or the search fails.   *)
LEMMA DescendSound ==
    ASSUME NEW v, NEW dirs, NEW files, Sound(v, dirs, files),
           NEW types \in SUBSET {"dir", "file"}, NEW name,
           NEW d \in Reach(dirs, files, types) \cup {None, Died}
    PROVE  Descend(v, d, name, types) \in Reach(dirs, files, types) \cup {None, Died}
<1>1. CASE d \in {None, Died}
  BY <1>1 DEF Descend, None, Died
<1>2. CASE d \notin {None, Died}
  <2>1. d \in dirs \cup files
    BY <1>2 DEF Reach
  <2>2. d \in Nat
    BY <2>1, InodeNumbers DEF Sound, InodesInv
  <2> DEFINE e == Lookup(v, d, name)
  <2>3. \/ e \in {Missing, Junk}
        \/ /\ e.type \in {"dir", "file"}
           /\ e.type = "dir" => e.inode \in dirs
           /\ e.type = "file" => e.inode \in files
    BY <2>1, LookupSound
  <2>4. Descend(v, d, name, types) = IF e.type = "junk" THEN Died
                                     ELSE IF e.type \in types THEN e.inode ELSE None
    BY <2>2 DEF Descend
  <2> HIDE DEF e
  <2>5. CASE e \in {Missing, Junk}
    <3>1. e.type \in {"missing", "junk"}
      BY <2>5, NoEntryType
    <3>2. "missing" \notin types
      <4>1. "missing" \notin {"dir", "file"}
        OBVIOUS
      <4>2. QED  BY <4>1
    <3>3. QED  BY <2>4, <3>1, <3>2
  <2>6. CASE e.type = "dir" /\ e.inode \in dirs
    BY <2>4, <2>6 DEF Reach
  <2>7. CASE e.type = "file" /\ e.inode \in files
    BY <2>4, <2>7 DEF Reach
  <2>8. QED  BY <2>3, <2>5, <2>6, <2>7
<1>3. QED  BY <1>1, <1>2

(* The search for the directory part of a path goes name by name.           *)
LEMMA DirOfIs ==
    ASSUME NEW v, NEW dirs, NEW files, Sound(v, dirs, files),
           NEW types \in SUBSET {"dir", "file"},
           NEW path, Len(path) \in Nat \ {0}
    PROVE  \E d : /\ d[0] = Root /\ DirOf(v, path, types) = d[Len(path) - 1]
                  /\ \A n \in 1 .. Len(path) - 1 : d[n] = Descend(v, d[n - 1], path[n], types)
                  /\ \A n \in 0 .. Len(path) - 1 :
                        d[n] \in Reach(dirs, files, types) \cup {None, Died}
<1> DEFINE N == Len(path) - 1
           X == Reach(dirs, files, types) \cup {None, Died}
           body(f, n) == IF n = 0 THEN Root ELSE Descend(v, f[n - 1], path[n], types)
           d[n \in 0 .. Len(path) - 1] ==
               IF n = 0 THEN Root ELSE Descend(v, d[n - 1], path[n], types)
           step == [n \in 1 .. N |-> [x \in X |-> Descend(v, x, path[n], types)]]
<1>1. N \in Nat /\ Root \in X
  BY DEF Sound, InodesInv, Reach
<1>2. \A x \in X : \A name : Descend(v, x, name, types) \in X
  BY DescendSound
<1> HIDE DEF X
<1>3. PICK f : f \in Runs(N, X, Root, step)
  <2>1. step \in Loop(N, X)
    BY <1>2 DEF Loop
  <2> HIDE DEF step, N
  <2>2. QED  BY <1>1, <2>1, PrimitiveRecursion
<1>4. f = [n \in 0 .. N |-> body(f, n)]
  <2>1. \A n \in 0 .. N : f[n] = body(f, n)
    <3> TAKE n \in 0 .. N
    <3>1. CASE n = 0
      BY <1>3, <3>1 DEF Runs
    <3>2. CASE n # 0
      <4>1. n \in 1 .. N /\ n - 1 \in 0 .. N
        BY <1>1, <3>2
      <4>2. f[n] = step[n][f[n - 1]] /\ f[n - 1] \in X
        BY <1>3, <4>1 DEF Runs
      <4>3. QED  BY <3>2, <4>1, <4>2
    <3>3. QED  BY <3>1, <3>2
  <2> HIDE DEF body, step
  <2>2. QED  BY <1>3, <2>1 DEF Runs
<1>5. d = [n \in 0 .. N |-> body(d, n)]
  BY <1>4
<1>6. DirOf(v, path, types) = d[N]
  BY DEF DirOf
<1> HIDE DEF d, step, N
<1> DEFINE S == {n \in 0 .. N : d[n] \in X}
<1>7. \A n \in 1 .. N : d[n] = Descend(v, d[n - 1], path[n], types)
  <2>1. \A n \in 1 .. N : n \in 0 .. N /\ n # 0
    BY <1>1
  <2>2. QED  BY <1>5, <2>1
<1>8. 0 \in S /\ d[0] = Root
  BY <1>1, <1>5
<1>9. ASSUME NEW n \in 1 .. N, n - 1 \in S
      PROVE  n \in S
  <2>1. d[n - 1] \in X /\ n \in 0 .. N
    BY <1>1, <1>9
  <2>2. QED  BY <1>2, <1>7, <2>1
<1>10. \A n \in 0 .. N : d[n] \in X
  <2> HIDE DEF S
  <2>1. \A n \in 0 .. N : n \in S
    BY <1>1, <1>8, <1>9, InductionUpTo
  <2>2. QED  BY <2>1 DEF S
<1>11. QED  BY <1>6, <1>7, <1>8, <1>10 DEF X, N

(* It finds a directory, or nothing.                                        *)
LEMMA DirOfSound ==
    ASSUME NEW v, NEW dirs, NEW files, Sound(v, dirs, files),
           NEW types \in SUBSET {"dir", "file"},
           NEW path, Len(path) \in Nat \ {0}
    PROVE  DirOf(v, path, types) \in Reach(dirs, files, types) \cup {None, Died}
<1>1. Len(path) - 1 \in 0 .. Len(path) - 1
  OBVIOUS
<1>2. QED  BY <1>1, DirOfIs

-----------------------------------------------------------------------------
(* Storing the blocks of a file.                                            *)

(* What the loop of jfs_copyin changes: the block bitmap and the data.      *)
StoreStates(v) ==
    [vol : [block_bitmap : Bits(BlocksPerGroup), inode_bitmap : {v.inode_bitmap},
            inode : {v.inode}, data : [Block -> Text \cup {v.data[b] : b \in Block}]],
     blocks : Seq(Block), full : BOOLEAN]

(* What it has done after n turns, if there always was a free block: taken  *)
(* n free blocks and written n texts, and left the others alone.            *)
Stored(v, file, n, s) ==
    /\ Len(s.blocks) = n
    /\ \A m \in 1 .. n :
          /\ s.blocks[m] \in Block /\ ~BlockUsed(v, s.blocks[m])
          /\ BlockUsed(s.vol, s.blocks[m]) /\ s.vol.data[s.blocks[m]] = file[m]
          /\ \A l \in 1 .. n : s.blocks[l] = s.blocks[m] => l = m
    /\ \A c \in Block : (\A m \in 1 .. n : s.blocks[m] # c) =>
          (BlockUsed(s.vol, c) <=> BlockUsed(v, c)) /\ s.vol.data[c] = v.data[c]

(* One turn of the loop of jfs_copyin marks a free block and writes it.     *)
LEMMA StoreBlockStates ==
    ASSUME NEW v, IsVolume(v), NEW s \in StoreStates(v), NEW text \in Text
    PROVE  LET b == get_free_block(s.vol)
               t == StoreBlock(s, text)
           IN  /\ t \in StoreStates(v)
               /\ ~t.full =>
                     /\ ~s.full /\ b \in Block /\ ~BlockUsed(s.vol, b)
                     /\ t.blocks = Append(s.blocks, b)
                     /\ \A c \in Block : BlockUsed(t.vol, c) <=> BlockUsed(s.vol, c) \/ c = b
                     /\ \A c \in Block : t.vol.data[c] = IF c = b THEN text ELSE s.vol.data[c]
<1> DEFINE b == get_free_block(s.vol)
           t == StoreBlock(s, text)
           w == set_block_used(s.vol, b)
           dat == [s.vol.data EXCEPT ![b] = text]
           D == Text \cup {v.data[c] : c \in Block}
<1>1. /\ s.vol.block_bitmap \in Bits(BlocksPerGroup)
      /\ s.vol.inode_bitmap = v.inode_bitmap /\ s.vol.inode = v.inode
      /\ s.vol.data \in [Block -> D]
      /\ s.blocks \in Seq(Block) /\ s.full \in BOOLEAN
      /\ s = [vol |-> s.vol, blocks |-> s.blocks, full |-> s.full]
      /\ s.vol = [block_bitmap |-> s.vol.block_bitmap, inode_bitmap |-> s.vol.inode_bitmap,
                  inode |-> s.vol.inode, data |-> s.vol.data]
  BY DEF StoreStates
<1>2. CASE b = None
  <2>1. t = [s EXCEPT !.full = TRUE]
    BY <1>2 DEF StoreBlock
  <2>2. t \in StoreStates(v) /\ t.full
    BY <2>1 DEF StoreStates
  <2> HIDE DEF t
  <2>3. QED  BY <2>2 DEF t
<1>3. CASE b # None
  <2>1. IsVolume(s.vol)
    BY <1>1, VolumeFields
  <2>2. b \in Block /\ ~BlockUsed(s.vol, b)
    <3> HIDE DEF StoreStates
    <3> QED  BY <1>3, <2>1, FreeBlock
  <2>3. /\ IsVolume(w)
        /\ w.inode_bitmap = v.inode_bitmap /\ w.inode = v.inode /\ w.data = s.vol.data
        /\ \A c \in Block : BlockUsed(w, c) <=> BlockUsed(s.vol, c) \/ c = b
    <3> HIDE DEF b
    <3> QED  BY <1>1, <2>1, <2>2, SetBlockUsed DEF w
  <2>4. t = [vol |-> [w EXCEPT !.data[b] = text], blocks |-> Append(s.blocks, b), full |-> s.full]
    BY <1>3 DEF StoreBlock
  <2> DEFINE u == [block_bitmap |-> w.block_bitmap, inode_bitmap |-> w.inode_bitmap,
                   inode |-> w.inode, data |-> dat]
  <2>5. [w EXCEPT !.data[b] = text] = u
    <3>1. w = [block_bitmap |-> w.block_bitmap, inode_bitmap |-> w.inode_bitmap,
               inode |-> w.inode, data |-> w.data]
      BY <2>3, VolumeFields
    <3> HIDE DEF w, b
    <3>2. QED  BY <2>3, <3>1
  <2>6. dat \in [Block -> D] /\ \A c \in Block : dat[c] = IF c = b THEN text ELSE s.vol.data[c]
    <3> HIDE DEF b, D
    <3> QED  BY <1>1, <2>2 DEF D
  <2>7. w.block_bitmap \in Bits(BlocksPerGroup)
    BY <2>3, VolumeFields
  <2>8. \A c \in Block : BlockUsed(u, c) <=> BlockUsed(w, c)
    BY DEF BlockUsed
  <2> HIDE DEF w, b, dat, t
  <2>9. t = [vol |-> u, blocks |-> Append(s.blocks, b), full |-> s.full]
    BY <2>4, <2>5
  <2>10. t \in StoreStates(v)
    <3>1. u \in [block_bitmap : Bits(BlocksPerGroup), inode_bitmap : {v.inode_bitmap},
                 inode : {v.inode}, data : [Block -> D]]
      BY <2>3, <2>6, <2>7
    <3>2. Append(s.blocks, b) \in Seq(Block)
      BY <1>1, <2>2
    <3> HIDE DEF u
    <3>3. QED  BY <1>1, <2>9, <3>1, <3>2 DEF StoreStates
  <2>11. t.vol = u /\ t.blocks = Append(s.blocks, b) /\ t.full = s.full /\ u.data = dat
    BY <2>9
  <2> HIDE DEF u
  <2>12. QED  BY <2>2, <2>3, <2>6, <2>8, <2>10, <2>11 DEF b, t
<1>4. QED  BY <1>2, <1>3

(* After one more turn, one more block of the file is stored.               *)
LEMMA StoredStep ==
    ASSUME NEW v, IsVolume(v), NEW file \in Seq(Text), NEW n \in 1 .. Len(file),
           NEW s \in StoreStates(v), ~s.full => Stored(v, file, n - 1, s),
           ~StoreBlock(s, file[n]).full
    PROVE  Stored(v, file, n, StoreBlock(s, file[n]))
<1> DEFINE t == StoreBlock(s, file[n])
           b == get_free_block(s.vol)
<1>1. file[n] \in Text
  OBVIOUS
<1>2. /\ t \in StoreStates(v)
      /\ ~s.full /\ b \in Block /\ ~BlockUsed(s.vol, b)
      /\ t.blocks = Append(s.blocks, b)
      /\ \A c \in Block : BlockUsed(t.vol, c) <=> BlockUsed(s.vol, c) \/ c = b
      /\ \A c \in Block : t.vol.data[c] = IF c = b THEN file[n] ELSE s.vol.data[c]
  BY <1>1, StoreBlockStates
<1> HIDE DEF t, b
<1>3. Stored(v, file, n - 1, s)
  BY <1>2
<1>4. Len(s.blocks) = n - 1 /\ s.blocks \in Seq(Block)
  BY <1>3 DEF Stored, StoreStates
<1>5. /\ Len(t.blocks) = n /\ t.blocks[n] = b
      /\ \A m \in 1 .. n - 1 : t.blocks[m] = s.blocks[m]
  BY <1>2, <1>4
<1>6. \A m \in 1 .. n - 1 :
         /\ s.blocks[m] \in Block /\ ~BlockUsed(v, s.blocks[m])
         /\ BlockUsed(s.vol, s.blocks[m]) /\ s.vol.data[s.blocks[m]] = file[m]
         /\ \A l \in 1 .. n - 1 : s.blocks[l] = s.blocks[m] => l = m
  BY <1>3 DEF Stored
<1>7. \A m \in 1 .. n - 1 : s.blocks[m] # b
  BY <1>2, <1>6
<1>8. ~BlockUsed(v, b)
  BY <1>2, <1>3, <1>7 DEF Stored
<1>9. ASSUME NEW m \in 1 .. n
      PROVE  /\ t.blocks[m] \in Block /\ ~BlockUsed(v, t.blocks[m])
             /\ BlockUsed(t.vol, t.blocks[m]) /\ t.vol.data[t.blocks[m]] = file[m]
             /\ \A l \in 1 .. n : t.blocks[l] = t.blocks[m] => l = m
  <2>1. CASE m = n
    BY <1>2, <1>5, <1>7, <1>8, <2>1
  <2>2. CASE m # n
    <3>1. m \in 1 .. n - 1 /\ t.blocks[m] = s.blocks[m] /\ s.blocks[m] # b
      BY <1>5, <1>7, <2>2
    <3>2. /\ s.blocks[m] \in Block /\ ~BlockUsed(v, s.blocks[m])
          /\ BlockUsed(s.vol, s.blocks[m]) /\ s.vol.data[s.blocks[m]] = file[m]
      BY <1>6, <3>1
    <3>3. BlockUsed(t.vol, s.blocks[m]) /\ t.vol.data[s.blocks[m]] = file[m]
      BY <1>2, <3>1, <3>2
    <3>4. \A l \in 1 .. n : t.blocks[l] = t.blocks[m] => l = m
      BY <1>5, <1>6, <3>1
    <3>5. QED  BY <3>1, <3>2, <3>3, <3>4
  <2>3. QED  BY <2>1, <2>2
<1>10. ASSUME NEW c \in Block, \A m \in 1 .. n : t.blocks[m] # c
       PROVE  (BlockUsed(t.vol, c) <=> BlockUsed(v, c)) /\ t.vol.data[c] = v.data[c]
  <2>1. c # b /\ \A m \in 1 .. n - 1 : s.blocks[m] # c
    BY <1>5, <1>10
  <2>2. (BlockUsed(s.vol, c) <=> BlockUsed(v, c)) /\ s.vol.data[c] = v.data[c]
    BY <1>3, <2>1 DEF Stored
  <2>3. QED  BY <1>2, <2>1, <2>2
<1>11. QED  BY <1>5, <1>9, <1>10 DEF Stored, t

(* The whole loop, turn by turn.                                            *)
LEMMA StoreIs ==
    ASSUME NEW v, IsVolume(v), v.data = [b \in Block |-> v.data[b]],
           NEW file \in Seq(Text)
    PROVE  \E f : /\ f[0] = [vol |-> v, blocks |-> <<>>, full |-> FALSE]
                  /\ Store(v, file) = f[Len(file)]
                  /\ \A n \in 1 .. Len(file) : f[n] = StoreBlock(f[n - 1], file[n])
                  /\ \A n \in 0 .. Len(file) :
                        f[n] \in StoreStates(v) /\ (~f[n].full => Stored(v, file, n, f[n]))
<1> DEFINE N == Len(file)
           X == StoreStates(v)
           base == [vol |-> v, blocks |-> <<>>, full |-> FALSE]
           body(f, n) == IF n = 0 THEN base ELSE StoreBlock(f[n - 1], file[n])
           stored[n \in 0 .. Len(file)] ==
               IF n = 0 THEN [vol |-> v, blocks |-> <<>>, full |-> FALSE]
                        ELSE StoreBlock(stored[n - 1], file[n])
           step == [n \in 1 .. N |-> [x \in X |-> StoreBlock(x, file[n])]]
<1>1. N \in Nat
  OBVIOUS
<1>2. base \in X /\ ~base.full /\ Stored(v, file, 0, base)
  <2>1. v.data \in [Block -> Text \cup {v.data[b] : b \in Block}]
    OBVIOUS
  <2>2. v \in [block_bitmap : Bits(BlocksPerGroup), inode_bitmap : {v.inode_bitmap},
               inode : {v.inode}, data : [Block -> Text \cup {v.data[b] : b \in Block}]]
    BY <2>1, VolumeFields
  <2>3. base \in X
    BY <2>2 DEF StoreStates
  <2>4. QED  BY <2>3 DEF Stored
<1>3. \A x \in X, n \in 1 .. N : StoreBlock(x, file[n]) \in X
  BY StoreBlockStates
<1> HIDE DEF X, base
<1>4. PICK f : f \in Runs(N, X, base, step)
  <2>1. step \in Loop(N, X)
    BY <1>3 DEF Loop
  <2> HIDE DEF step, N
  <2>2. QED  BY <1>1, <1>2, <2>1, PrimitiveRecursion
<1>5. f = [n \in 0 .. N |-> body(f, n)]
  <2>1. \A n \in 0 .. N : f[n] = body(f, n)
    <3> TAKE n \in 0 .. N
    <3>1. CASE n = 0
      BY <1>4, <3>1 DEF Runs
    <3>2. CASE n # 0
      <4>1. n \in 1 .. N /\ n - 1 \in 0 .. N
        BY <1>1, <3>2
      <4>2. f[n] = step[n][f[n - 1]] /\ f[n - 1] \in X
        BY <1>4, <4>1 DEF Runs
      <4>3. QED  BY <3>2, <4>1, <4>2
    <3>3. QED  BY <3>1, <3>2
  <2> HIDE DEF body, step
  <2>2. QED  BY <1>4, <2>1 DEF Runs
<1>6. stored = [n \in 0 .. N |-> body(stored, n)]
  BY <1>5 DEF base
<1>7. Store(v, file) = stored[N]
  BY DEF Store
<1> HIDE DEF stored, step, N
<1> DEFINE S == {n \in 0 .. N : stored[n] \in X
                                 /\ (~stored[n].full => Stored(v, file, n, stored[n]))}
<1>8. 0 \in S
  BY <1>1, <1>2, <1>6
<1>9. ASSUME NEW n \in 1 .. N, n - 1 \in S
      PROVE  n \in S
  <2>1. n \in 0 .. N /\ n # 0 /\ n \in 1 .. Len(file) /\ file[n] \in Text
    BY <1>1, <1>9 DEF N
  <2>2. stored[n] = StoreBlock(stored[n - 1], file[n])
    BY <1>6, <2>1
  <2>3. stored[n - 1] \in X /\ (~stored[n - 1].full => Stored(v, file, n - 1, stored[n - 1]))
    BY <1>9
  <2>4. stored[n] \in X
    BY <1>3, <1>9, <2>2, <2>3
  <2>5. ~stored[n].full => Stored(v, file, n, stored[n])
    BY <2>1, <2>2, <2>3, StoredStep DEF X
  <2>6. QED  BY <2>1, <2>4, <2>5
<1>10. \A n \in 0 .. N : n \in S
  <2> HIDE DEF S
  <2>1. QED  BY <1>1, <1>8, <1>9, InductionUpTo
<1>11. /\ stored[0] = base
       /\ \A n \in 1 .. N : stored[n] = StoreBlock(stored[n - 1], file[n])
  <2>1. \A n \in 1 .. N : n \in 0 .. N /\ n # 0
    BY <1>1
  <2>2. QED  BY <1>1, <1>6, <2>1
<1>12. \A n \in 0 .. N : stored[n] \in X /\ (~stored[n].full => Stored(v, file, n, stored[n]))
  BY <1>10
<1> HIDE DEF S
<1>13. QED  BY <1>7, <1>11, <1>12 DEF X, N, base

(* It is done when it has stored all blocks of the file.                    *)
LEMMA StoreSound ==
    ASSUME NEW v, IsVolume(v), v.data = [b \in Block |-> v.data[b]],
           NEW file \in Seq(Text),
           ~Store(v, file).full
    PROVE  Store(v, file) \in StoreStates(v) /\ Stored(v, file, Len(file), Store(v, file))
<1>1. Len(file) \in 0 .. Len(file)
  OBVIOUS
<1>2. QED  BY <1>1, StoreIs

-----------------------------------------------------------------------------
(* Freeing the blocks of a file.                                            *)

(* The loop over the block pointers of a file ends where the file does.     *)
LEMMA BlocksOfFile ==
    ASSUME NEW v, NEW dirs, NEW files, Sound(v, dirs, files), NEW i \in files
    PROVE  LET blocks == BlocksOf(v, i)
           IN  /\ Len(blocks) = Size(v, i)
               /\ \A n \in 1 .. Size(v, i) :
                     blocks[n] = Ptr(v, i, n - 1) /\ blocks[n] \in Block
<1> DEFINE zeros == {n \in 0 .. Ptrs - 1 : v.inode[i].blockptrs[n] = 0}
           K == IF zeros = {} THEN Ptrs ELSE Min(zeros)
<1>1. Size(v, i) \in 0 .. Ptrs
  BY DEF Sound, FileInv
<1>2. \A n \in 0 .. Ptrs - 1 : n >= Size(v, i) => Ptr(v, i, n) = 0
  BY <1>1 DEF Sound, FileInv
<1>3. \A n \in 0 .. Ptrs - 1 : n < Size(v, i) => Ptr(v, i, n) \in Block /\ ~IsHeader(Ptr(v, i, n))
  BY DEF Sound, BlocksInv, Owns
<1>4. \A n \in 0 .. Ptrs - 1 : n \in zeros <=> n >= Size(v, i)
  <2>1. \A n \in 0 .. Ptrs - 1 : n \in zeros <=> Ptr(v, i, n) = 0
    BY DEF Ptr
  <2> HIDE DEF zeros
  <2>2. QED  BY <1>1, <1>2, <1>3, <2>1, InodeNumbers
<1>5. zeros \in SUBSET (0 .. Ptrs - 1) /\ zeros \in SUBSET Nat
  BY VolumeSizes
<1>6. K = Size(v, i)
  <2> HIDE DEF zeros
  <2>1. CASE zeros = {}
    BY <1>1, <1>4, <2>1, VolumeSizes
  <2>2. CASE zeros # {}
    <3>1. Lowest(zeros) \in zeros /\ \A n \in zeros : Lowest(zeros) <= n
      BY <1>5, <2>2, LowestIs
    <3>2. Lowest(zeros) = Min(zeros)
      BY <2>2 DEF Lowest
    <3>3. Size(v, i) \in zeros
      <4>1. PICK n \in 0 .. Ptrs - 1 : n >= Size(v, i)
        BY <1>4, <1>5, <2>2
      <4>2. Size(v, i) \in 0 .. Ptrs - 1
        BY <1>1, <4>1, VolumeSizes
      <4>3. QED  BY <1>1, <1>4, <4>2
    <3>4. Min(zeros) >= Size(v, i) /\ Min(zeros) <= Size(v, i)
      BY <1>4, <1>5, <3>1, <3>2, <3>3
    <3>5. Min(zeros) \in Nat
      BY <1>5, <3>1, <3>2
    <3>6. QED  BY <1>1, <2>2, <3>4, <3>5
  <2>3. QED  BY <2>1, <2>2
<1>7. BlocksOf(v, i) = [n \in 1 .. K |-> v.inode[i].blockptrs[n - 1]]
  BY DEF BlocksOf
<1> HIDE DEF zeros, K
<1>8. BlocksOf(v, i) = [n \in 1 .. Size(v, i) |-> Ptr(v, i, n - 1)]
  BY <1>6, <1>7 DEF Ptr
<1>9. \A n \in 1 .. Size(v, i) : Ptr(v, i, n - 1) \in Block
  <2> TAKE n \in 1 .. Size(v, i)
  <2>1. n - 1 \in 0 .. Ptrs - 1 /\ n - 1 < Size(v, i)
    BY <1>1, VolumeSizes
  <2>2. QED  BY <1>3, <2>1
<1>10. QED  BY <1>1, <1>8, <1>9

FreeStates(v) ==
    [block_bitmap : Bits(BlocksPerGroup), inode_bitmap : Bits(InodesPerGroup),
     inode : {v.inode}, data : {v.data}]

(* The states of the loop differ in the bitmaps alone.                      *)
LEMMA FreeStatesAre ==
    ASSUME NEW v, NEW w
    PROVE  w \in FreeStates(v) <=> IsVolume(w) /\ w.inode = v.inode /\ w.data = v.data
BY VolumeFields DEF FreeStates

(* What the loop of jfs_rm has returned after n turns.                      *)
Returned(v, i, blocks, n, w) ==
    /\ \A j \in Inode : InodeUsed(w, j) <=> InodeUsed(v, j) /\ j # i
    /\ \A c \in Block : BlockUsed(w, c) <=> BlockUsed(v, c) /\ \A m \in 1 .. n : blocks[m] # c

(* The loop of jfs_rm, turn by turn.                                        *)
LEMMA FreedIs ==
    ASSUME NEW v, IsVolume(v), NEW i \in Inode, Len(BlocksOf(v, i)) \in Nat,
           \A n \in 1 .. Len(BlocksOf(v, i)) : BlocksOf(v, i)[n] \in Block
    PROVE  \E f : /\ f[0] = return_inode_to_freelist(v, i)
                  /\ Freed(v, i) = f[Len(BlocksOf(v, i))]
                  /\ \A n \in 1 .. Len(BlocksOf(v, i)) :
                        f[n] = return_block_to_freelist(f[n - 1], BlocksOf(v, i)[n])
                  /\ \A n \in 0 .. Len(BlocksOf(v, i)) :
                        f[n] \in FreeStates(v) /\ Returned(v, i, BlocksOf(v, i), n, f[n])
<1> DEFINE blocks == BlocksOf(v, i)
           N == Len(blocks)
           X == FreeStates(v)
           base == return_inode_to_freelist(v, i)
           body(f, n) == IF n = 0 THEN base ELSE return_block_to_freelist(f[n - 1], blocks[n])
           freed[n \in 0 .. Len(blocks)] ==
               IF n = 0 THEN return_inode_to_freelist(v, i)
                        ELSE return_block_to_freelist(freed[n - 1], blocks[n])
           step == [n \in 1 .. N |-> [x \in X |-> return_block_to_freelist(x, blocks[n])]]
<1>1. N \in Nat
  OBVIOUS
<1>2. base \in X /\ Returned(v, i, blocks, 0, base)
  <2> HIDE DEF blocks
  <2>1. QED  BY ReturnInodeToFreelist, FreeStatesAre DEF Returned, BlockUsed
<1>3. \A x \in X, n \in 1 .. N :
         LET w == return_block_to_freelist(x, blocks[n])
         IN  /\ w \in X
             /\ \A j \in Inode : InodeUsed(w, j) <=> InodeUsed(x, j)
             /\ \A c \in Block : BlockUsed(w, c) <=> BlockUsed(x, c) /\ c # blocks[n]
  <2> SUFFICES ASSUME NEW x \in X, NEW n \in 1 .. N
               PROVE  LET w == return_block_to_freelist(x, blocks[n])
                      IN  /\ w \in X
                          /\ \A j \in Inode : InodeUsed(w, j) <=> InodeUsed(x, j)
                          /\ \A c \in Block : BlockUsed(w, c) <=> BlockUsed(x, c) /\ c # blocks[n]
    OBVIOUS
  <2>1. IsVolume(x) /\ x.inode = v.inode /\ x.data = v.data
    BY FreeStatesAre
  <2>2. blocks[n] \in Block
    OBVIOUS
  <2> HIDE DEF blocks, X
  <2>3. LET w == return_block_to_freelist(x, blocks[n])
        IN  /\ IsVolume(w)
            /\ w.inode_bitmap = x.inode_bitmap /\ w.inode = x.inode /\ w.data = x.data
            /\ \A c \in Block : BlockUsed(w, c) <=> BlockUsed(x, c) /\ c # blocks[n]
    BY <2>1, <2>2, ReturnBlockToFreelist
  <2>4. QED  BY <2>1, <2>3, FreeStatesAre DEF InodeUsed, X
<1> HIDE DEF X
<1>4. PICK f : f \in Runs(N, X, base, step)
  <2>1. step \in Loop(N, X)
    <3> HIDE DEF blocks, N
    <3> QED  BY <1>3 DEF Loop
  <2> HIDE DEF step, N, base
  <2>2. QED  BY <1>1, <1>2, <2>1, PrimitiveRecursion
<1>5. f = [n \in 0 .. N |-> body(f, n)]
  <2> HIDE DEF base, blocks
  <2>1. \A n \in 0 .. N : f[n] = body(f, n)
    <3> TAKE n \in 0 .. N
    <3>1. CASE n = 0
      BY <1>4, <3>1 DEF Runs
    <3>2. CASE n # 0
      <4>1. n \in 1 .. N /\ n - 1 \in 0 .. N
        BY <1>1, <3>2
      <4>2. f[n] = step[n][f[n - 1]] /\ f[n - 1] \in X
        BY <1>4, <4>1 DEF Runs
      <4>3. QED  BY <3>2, <4>1, <4>2
    <3>3. QED  BY <3>1, <3>2
  <2> HIDE DEF body, step
  <2>2. QED  BY <1>4, <2>1 DEF Runs
<1>6. freed = [n \in 0 .. N |-> body(freed, n)]
  BY <1>5
<1>7. Freed(v, i) = freed[N]
  BY DEF Freed
<1> HIDE DEF freed, step, N, blocks, base
<1> DEFINE S == {n \in 0 .. N : freed[n] \in X /\ Returned(v, i, blocks, n, freed[n])}
<1>8. 0 \in S
  BY <1>1, <1>2, <1>6
<1>9. ASSUME NEW n \in 1 .. N, n - 1 \in S
      PROVE  n \in S
  <2>1. n \in 0 .. N /\ n # 0
    BY <1>1, <1>9
  <2>2. freed[n] = return_block_to_freelist(freed[n - 1], blocks[n])
    BY <1>6, <2>1
  <2>3. freed[n - 1] \in X /\ Returned(v, i, blocks, n - 1, freed[n - 1])
    BY <1>9
  <2>4. /\ freed[n] \in X
        /\ \A j \in Inode : InodeUsed(freed[n], j) <=> InodeUsed(freed[n - 1], j)
        /\ \A c \in Block : BlockUsed(freed[n], c) <=> BlockUsed(freed[n - 1], c) /\ c # blocks[n]
    BY <1>3, <1>9, <2>2, <2>3
  <2>5. \A c \in Block : (\A m \in 1 .. n : blocks[m] # c)
                          <=> (\A m \in 1 .. n - 1 : blocks[m] # c) /\ c # blocks[n]
    BY <1>1
  <2>6. Returned(v, i, blocks, n, freed[n])
    BY <2>3, <2>4, <2>5 DEF Returned
  <2>7. QED  BY <2>1, <2>4, <2>6
<1>10. \A n \in 0 .. N : n \in S
  <2> HIDE DEF S
  <2>1. QED  BY <1>1, <1>8, <1>9, InductionUpTo
<1>11. /\ freed[0] = base
       /\ \A n \in 1 .. N : freed[n] = return_block_to_freelist(freed[n - 1], blocks[n])
  <2>1. \A n \in 1 .. N : n \in 0 .. N /\ n # 0
    BY <1>1
  <2>2. QED  BY <1>1, <1>6, <2>1
<1>12. \A n \in 0 .. N : freed[n] \in X /\ Returned(v, i, blocks, n, freed[n])
  BY <1>10
<1> HIDE DEF S
<1>13. QED  BY <1>7, <1>11, <1>12 DEF X, N, base, blocks

(* Freed returns the inode and the blocks of a file, and nothing else.      *)
LEMMA FreedSound ==
    ASSUME NEW v, IsVolume(v), NEW i \in Inode, Len(BlocksOf(v, i)) \in Nat,
           \A n \in 1 .. Len(BlocksOf(v, i)) : BlocksOf(v, i)[n] \in Block
    PROVE  LET w == Freed(v, i)
           IN  /\ IsVolume(w) /\ w.inode = v.inode /\ w.data = v.data
               /\ Returned(v, i, BlocksOf(v, i), Len(BlocksOf(v, i)), w)
<1> DEFINE N == Len(BlocksOf(v, i))
<1>1. N \in 0 .. N
  OBVIOUS
<1>2. Freed(v, i) \in FreeStates(v) /\ Returned(v, i, BlocksOf(v, i), N, Freed(v, i))
  BY <1>1, FreedIs
<1>3. QED  BY <1>2, FreeStatesAre

(* A record with the fields of a volume, and its inodes and blocks typed.   *)
LEMMA VolumeOKIs ==
    ASSUME NEW v
    PROVE  VolumeOK(v) <=>
              /\ v = [block_bitmap |-> v.block_bitmap, inode_bitmap |-> v.inode_bitmap,
                      inode |-> v.inode, data |-> v.data]
              /\ v.block_bitmap \in Bits(BlocksPerGroup) /\ v.inode_bitmap \in Bits(InodesPerGroup)
              /\ v.inode \in [Inode -> [size : Nat \cup {None},
                                        blockptrs : [0 .. Ptrs - 1 -> Block \cup {None}]]]
              /\ v.data = [b \in Block |-> v.data[b]]
              /\ \A b \in Block : \A k \in DOMAIN Dirents(v, b) :
                    k \in 0 .. BlockSize - DirentSize /\ Dirents(v, b)[k] \in Entries
BY VolumeFields DEF VolumeOK

SameBits(v, w) == w.block_bitmap = v.block_bitmap /\ w.inode_bitmap = v.inode_bitmap

(* w is v with entry e added to directory d, or with fewer entries there:   *)
(* an entry is dropped if it does not fit.                                  *)
Added(v, w, d, e) ==
    /\ VolumeOK(w)
    /\ SameBits(v, w)
    /\ \A i \in Inode : Size(w, i) = IF i = d THEN Size(v, i) + e.entry_len ELSE Size(v, i)
    /\ \A i \in Inode, n \in 0 .. Ptrs - 1 : Ptr(w, i, n) = Ptr(v, i, n)
    /\ \A c \in Block : c # Ptr(v, d, 0) => w.data[c] = v.data[c]
    /\ \A c \in Block : \A o \in DOMAIN Dirents(w, c) :
          \/ o \in DOMAIN Dirents(v, c) /\ Dirents(w, c)[o] = Dirents(v, c)[o]
          \/ c = Ptr(v, d, 0) /\ o = Size(v, d) /\ Dirents(w, c)[o] = e

(* AddEntry adds its entry at the end of the directory, or drops it, and    *)
(* changes nothing else but the size.                                       *)
LEMMA AddEntryIs ==
    ASSUME NEW v, VolumeOK(v), NEW d \in Inode, Ptr(v, d, 0) \in Block, Size(v, d) \in Nat,
           NEW e \in Entries
    PROVE  Added(v, AddEntry(v, d, e), d, e)
<1> DEFINE b == Ptr(v, d, 0)
           k == Size(v, d)
           w == AddEntry(v, d, e)
           dat == IF Fits(k, e) THEN [v.data EXCEPT ![b] = WithEntry(AsDir(@), k, e)] ELSE v.data
           ino == [v.inode EXCEPT ![d].size = @ + e.entry_len]
           u == [block_bitmap |-> v.block_bitmap, inode_bitmap |-> v.inode_bitmap,
                 inode |-> ino, data |-> dat]
<1>1. /\ v = [block_bitmap |-> v.block_bitmap, inode_bitmap |-> v.inode_bitmap,
              inode |-> v.inode, data |-> v.data]
      /\ v.block_bitmap \in Bits(BlocksPerGroup) /\ v.inode_bitmap \in Bits(InodesPerGroup)
      /\ v.inode \in [Inode -> [size : Nat \cup {None},
                                blockptrs : [0 .. Ptrs - 1 -> Block \cup {None}]]]
      /\ v.data = [c \in Block |-> v.data[c]]
      /\ \A c \in Block : \A o \in DOMAIN Dirents(v, c) :
            o \in 0 .. BlockSize - DirentSize /\ Dirents(v, c)[o] \in Entries
  BY VolumeOKIs
<1>2. w = u
  <2> DEFINE x == create_dirent(v, b, k, e)
  <2>1. x = [block_bitmap |-> v.block_bitmap, inode_bitmap |-> v.inode_bitmap,
             inode |-> v.inode, data |-> dat]
    <3>1. v = [block_bitmap |-> v.block_bitmap, inode_bitmap |-> v.inode_bitmap,
               inode |-> v.inode, data |-> v.data]
      BY <1>1
    <3> HIDE DEF b, k
    <3>2. CASE Fits(k, e)
      BY <3>1, <3>2 DEF create_dirent
    <3>3. CASE ~Fits(k, e)
      BY <3>1, <3>3 DEF create_dirent
    <3>4. QED  BY <3>2, <3>3
  <2>2. w = [x EXCEPT !.inode[d].size = @ + e.entry_len]
    BY DEF AddEntry, Ptr, Size
  <2> HIDE DEF x, dat, w
  <2>3. QED  BY <2>1, <2>2
<1>3. e.entry_len \in Nat
  BY DEF Entries
<1>4. /\ ino \in [Inode -> [size : Nat \cup {None},
                            blockptrs : [0 .. Ptrs - 1 -> Block \cup {None}]]]
      /\ \A i \in Inode : /\ ino[i].size = IF i = d THEN Size(v, i) + e.entry_len ELSE Size(v, i)
                          /\ ino[i].blockptrs = v.inode[i].blockptrs
  BY <1>1, <1>3 DEF Size
<1>5. /\ dat = [c \in Block |-> dat[c]]
      /\ \A c \in Block : c # b => dat[c] = v.data[c]
  BY <1>1
<1>6. \A c \in Block : \A o \in DOMAIN AsDir(dat[c]) :
          \/ o \in DOMAIN Dirents(v, c) /\ AsDir(dat[c])[o] = Dirents(v, c)[o]
          \/ c = b /\ o = k /\ Fits(k, e) /\ AsDir(dat[c])[o] = e
  <2> SUFFICES ASSUME NEW c \in Block, NEW o \in DOMAIN AsDir(dat[c])
               PROVE  \/ o \in DOMAIN Dirents(v, c) /\ AsDir(dat[c])[o] = Dirents(v, c)[o]
                      \/ c = b /\ o = k /\ Fits(k, e) /\ AsDir(dat[c])[o] = e
    OBVIOUS
  <2>1. CASE c = b /\ Fits(k, e)
    <3>1. dat[c] = WithEntry(Dirents(v, b), k, e)
      BY <1>1, <2>1 DEF Dirents
    <3> HIDE DEF dat
    <3>2. dat[c] \notin Text
      BY DEF AsDir, NoEntries
    <3>3. AsDir(dat[c]) = WithEntry(Dirents(v, b), k, e)
      BY <3>1, <3>2 DEF AsDir
    <3>4. QED  BY <2>1, <3>3 DEF WithEntry
  <2>2. CASE ~(c = b /\ Fits(k, e))
    <3>1. dat[c] = v.data[c]
      BY <1>1, <2>2
    <3> HIDE DEF dat
    <3>2. QED  BY <3>1 DEF Dirents
  <2>3. QED  BY <2>1, <2>2
<1>7. Fits(k, e) => k \in 0 .. BlockSize - DirentSize
  <2>1. NameLength(e.name) \in Nat
    BY NameLengthIsNat
  <2>2. QED  BY <2>1, VolumeSizes DEF Fits, DirentSize
<1> HIDE DEF dat, ino, w, k, b
<1>8. /\ u.block_bitmap = v.block_bitmap /\ u.inode_bitmap = v.inode_bitmap
      /\ u.inode = ino /\ u.data = dat
  OBVIOUS
<1>9. \A c \in Block : \A o \in DOMAIN Dirents(u, c) :
         \/ o \in DOMAIN Dirents(v, c) /\ Dirents(u, c)[o] = Dirents(v, c)[o]
         \/ c = b /\ o = k /\ Fits(k, e) /\ Dirents(u, c)[o] = e
  BY <1>6, <1>8 DEF Dirents
<1>10. VolumeOK(u)
  <2>1. \A c \in Block : \A o \in DOMAIN Dirents(u, c) :
           o \in 0 .. BlockSize - DirentSize /\ Dirents(u, c)[o] \in Entries
    BY <1>1, <1>7, <1>9
  <2>2. u = [block_bitmap |-> u.block_bitmap, inode_bitmap |-> u.inode_bitmap,
             inode |-> u.inode, data |-> u.data]
    OBVIOUS
  <2>3. u.data = [c \in Block |-> u.data[c]]
    BY <1>5, <1>8
  <2> HIDE DEF u
  <2>4. QED  BY <1>1, <1>4, <1>8, <2>1, <2>2, <2>3, VolumeOKIs
<1> HIDE DEF u
<1>11. QED  BY <1>2, <1>4, <1>5, <1>8, <1>9, <1>10 DEF Added, SameBits, Size, Ptr, w, b, k
=============================================================================

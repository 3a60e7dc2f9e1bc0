----------------------------- MODULE VolumeWalks -----------------------------
(***************************************************************************)
(* What the walks of jfs_ls and jfs_fsck meet on a sound volume, and that  *)
(* they meet all that is in use: proofs of the properties of VolumeSafety  *)
(* that are about what is listed, of LeakInv and of FsckClean.             *)
(***************************************************************************)
EXTENDS VolumeProofs, FiniteSetTheorems

-----------------------------------------------------------------------------
(* The directories on the walks.                                            *)

(* A walk that reads an entry of a type reads one that is there.            *)
LEMMA ReadEntry ==
    ASSUME NEW v, NEW dirs, NEW files, Sound(v, dirs, files), NEW d \in dirs,
           NEW k, Entry(v, d, k).type # "junk"
    PROVE  LET b == Ptr(v, d, 0)
               e == Dirents(v, b)[k]
           IN  /\ b \in Block /\ k \in DOMAIN Dirents(v, b) /\ Entry(v, d, k) = e
               /\ e.name \in Name \cup {".", "..", ".log"} /\ e.type \in {"dir", "file"}
               /\ e.inode \in Inode
               /\ e.type = "dir" => e.inode \in dirs
               /\ e.type = "file" => e.inode \in files
<1> DEFINE b == Ptr(v, d, 0)
<1>1. b \in Block /\ Dir(v, d) = Dirents(v, b)
  BY DirIs
<1>2. Entry(v, d, k) = EntryAt(Dirents(v, b), k)
  BY <1>1 DEF Entry
<1>3. k \in DOMAIN Dirents(v, b)
  BY <1>2, NoEntryType DEF EntryAt
<1>4. Entry(v, d, k) = Dirents(v, b)[k]
  BY <1>2, <1>3 DEF EntryAt
<1>5. LET e == Dirents(v, b)[k]
      IN  /\ e.name \in Name \cup {".", "..", ".log"} /\ e.type \in {"dir", "file"}
          /\ e.inode \in Inode
          /\ e.type = "dir" => e.inode \in dirs
          /\ e.type = "file" => e.inode \in files
  BY <1>1, <1>3, EntryFacts
<1> HIDE DEF b
<1>6. QED  BY <1>1, <1>3, <1>4, <1>5 DEF b

(* Paths to directories.                                                    *)
PlaceOf(dirs) == [path : Seq(Name \cup {".", "..", ".log"}), inode : dirs]

(* The places below a place are places of directories.                      *)
LEMMA SubdirsAre ==
    ASSUME NEW v, NEW dirs, NEW files, Sound(v, dirs, files), NEW p \in PlaceOf(dirs)
    PROVE  Subdirs(v, p) \subseteq PlaceOf(dirs)
<1> SUFFICES ASSUME NEW k, Entry(v, p.inode, k).type = "dir"
             PROVE  [path |-> Append(p.path, Entry(v, p.inode, k).name),
                     inode |-> Entry(v, p.inode, k).inode] \in PlaceOf(dirs)
  BY DEF Subdirs
<1>1. p.inode \in dirs /\ p.path \in Seq(Name \cup {".", "..", ".log"})
  BY DEF PlaceOf
<1>2. /\ Entry(v, p.inode, k).name \in Name \cup {".", "..", ".log"}
      /\ Entry(v, p.inode, k).inode \in dirs
  BY <1>1, ReadEntry
<1>3. QED  BY <1>1, <1>2 DEF PlaceOf

(* The levels of the tree, one below the other.                             *)
Levels(v, dirs) ==
    {f \in [0 .. MaxDepth -> SUBSET PlaceOf(dirs)] :
        /\ f[0] = {[path |-> <<>>, inode |-> Root]}
        /\ \A n \in 1 .. MaxDepth : f[n] = UNION {Subdirs(v, p) : p \in f[n - 1]}
        /\ Places(v) = UNION {f[n] : n \in 0 .. MaxDepth}}

(* The levels of the tree are given by Subdirs, one by one.                 *)
LEMMA PlacesAre ==
    ASSUME NEW v, NEW dirs, NEW files, Sound(v, dirs, files)
    PROVE  \E f : f \in Levels(v, dirs)
<1> DEFINE X == SUBSET PlaceOf(dirs)
           base == {[path |-> <<>>, inode |-> Root]}
           below(x) == UNION {Subdirs(v, p) : p \in x}
           step == [n \in 1 .. MaxDepth |-> [x \in X |-> below(x)]]
           body(f, n) == IF n = 0 THEN base ELSE below(f[n - 1])
           level[n \in 0 .. MaxDepth] ==
               IF n = 0 THEN {[path |-> <<>>, inode |-> Root]}
                        ELSE UNION {Subdirs(v, p) : p \in level[n - 1]}
<1>1. MaxDepth \in Nat
  BY VolumeSizes
<1>2. base \in X
  BY DEF Sound, InodesInv, PlaceOf
<1>3. \A x \in X : below(x) \in X
  BY SubdirsAre
<1>4. Places(v) = UNION {level[n] : n \in 0 .. MaxDepth}
  BY DEF Places
<1> HIDE DEF X
<1>5. PICK f : f \in Runs(MaxDepth, X, base, step)
  <2> HIDE DEF below, base
  <2>1. step \in Loop(MaxDepth, X)
    BY <1>3 DEF Loop
  <2> HIDE DEF step
  <2>2. QED  BY <1>1, <1>2, <2>1, PrimitiveRecursion
<1>6. f \in [0 .. MaxDepth -> X] /\ f[0] = base
  BY <1>5 DEF Runs
<1>7. \A n \in 1 .. MaxDepth : f[n] = below(f[n - 1])
  <2> HIDE DEF below, base
  <2> TAKE n \in 1 .. MaxDepth
  <2>1. f[n] = step[n][f[n - 1]] /\ f[n - 1] \in X
    BY <1>1, <1>5 DEF Runs
  <2>2. QED  BY <2>1
<1>8. f = [n \in 0 .. MaxDepth |-> body(f, n)]
  <2> HIDE DEF below, base
  <2>1. \A n \in 0 .. MaxDepth : f[n] = body(f, n)
    <3> TAKE n \in 0 .. MaxDepth
    <3>1. CASE n = 0
      BY <1>6, <3>1
    <3>2. CASE n # 0
      <4>1. n \in 1 .. MaxDepth
        BY <1>1, <3>2
      <4>2. QED  BY <1>7, <3>2, <4>1
    <3>3. QED  BY <3>1, <3>2
  <2> HIDE DEF body
  <2>2. QED  BY <1>6, <2>1
<1>9. level = [n \in 0 .. MaxDepth |-> body(level, n)]
  BY <1>8
<1>10. /\ level[0] = base
       /\ \A n \in 1 .. MaxDepth : level[n] = below(level[n - 1])
  <2> HIDE DEF level, below, base
  <2>1. 0 \in 0 .. MaxDepth /\ \A n \in 1 .. MaxDepth : n \in 0 .. MaxDepth /\ n # 0
    BY <1>1
  <2>2. level[0] = body(level, 0)
    BY <1>9, <2>1
  <2>3. ASSUME NEW n \in 1 .. MaxDepth
        PROVE  level[n] = body(level, n)
    <3>1. n \in 0 .. MaxDepth
      BY <2>1
    <3> HIDE DEF body
    <3>2. QED  BY <1>9, <3>1
  <2>4. QED  BY <2>1, <2>2, <2>3
<1>11. level \in [0 .. MaxDepth -> X]
  <2> HIDE DEF level, below, base
  <2> DEFINE S == {n \in 0 .. MaxDepth : level[n] \in X}
  <2>1. 0 \in S
    BY <1>1, <1>2, <1>10
  <2>2. ASSUME NEW n \in 1 .. MaxDepth, n - 1 \in S
        PROVE  n \in S
    BY <1>1, <1>3, <1>10, <2>2
  <2>3. \A n \in 0 .. MaxDepth : n \in S
    <3> HIDE DEF S
    <3> QED  BY <1>1, <2>1, <2>2, InductionUpTo
  <2>4. level = [n \in 0 .. MaxDepth |-> level[n]]
    <3> HIDE DEF body
    <3>1. \A g : g = [n \in 0 .. MaxDepth |-> body(level, n)] => g = [n \in 0 .. MaxDepth |-> g[n]]
      OBVIOUS
    <3>2. QED  BY <1>9, <3>1
  <2>5. QED  BY <2>3, <2>4
<1> HIDE DEF level
<1>12. level \in [0 .. MaxDepth -> SUBSET PlaceOf(dirs)]
  BY <1>11 DEF X
<1>13. level \in Levels(v, dirs)
  <2>1. /\ level[0] = {[path |-> <<>>, inode |-> Root]}
        /\ \A n \in 1 .. MaxDepth : level[n] = UNION {Subdirs(v, p) : p \in level[n - 1]}
    BY <1>10
  <2>2. QED  BY <1>4, <1>12, <2>1 DEF Levels
<1>14. QED  BY <1>13

(* So the places of the tree have directories.                              *)
LEMMA PlacesHaveDirs ==
    ASSUME NEW v, NEW dirs, NEW files, Sound(v, dirs, files), NEW p \in Places(v)
    PROVE  p \in PlaceOf(dirs)
<1>1. PICK f : f \in Levels(v, dirs)
  BY PlacesAre
<1>2. f \in [0 .. MaxDepth -> SUBSET PlaceOf(dirs)] /\ Places(v) = UNION {f[n] : n \in 0 .. MaxDepth}
  BY <1>1 DEF Levels
<1>3. QED  BY <1>2

(* A listed entry whose inode is one is an entry of a directory on the tree.*)
LEMMA ListedIs ==
    ASSUME NEW v, NEW dirs, NEW files, Sound(v, dirs, files),
           NEW x \in Listed(v), Target(v, x) \in Inode
    PROVE  \E p \in Places(v) :
              LET b == Ptr(v, p.inode, 0)
                  e == Dirents(v, b)[x.offset]
              IN  /\ p \in PlaceOf(dirs)
                  /\ b \in Block /\ x.offset \in DOMAIN Dirents(v, b)
                  /\ ~IsDot(e) /\ Target(v, x) = e.inode /\ Entry(v, x.dir, x.offset) = e
                  /\ x = [path |-> Append(p.path, e.name), dir |-> p.inode, offset |-> x.offset]
<1>0. PICK p \in Places(v) : \E k \in Walked(v, p.inode) :
         x = [path |-> Append(p.path, Entry(v, p.inode, k).name), dir |-> p.inode, offset |-> k]
  BY DEF Listed, Met
<1>1. PICK k \in Walked(v, p.inode) :
         x = [path |-> Append(p.path, Entry(v, p.inode, k).name), dir |-> p.inode, offset |-> k]
  BY <1>0
<1>2. x.dir = p.inode /\ x.offset = k /\ x.path = Append(p.path, Entry(v, p.inode, k).name)
  BY <1>1
<1>3. p \in PlaceOf(dirs)
  BY PlacesHaveDirs
<1>4. p.inode \in dirs /\ p.path \in Seq(Name \cup {".", "..", ".log"})
  BY <1>3 DEF PlaceOf
<1>5. Target(v, x) = Entry(v, p.inode, k).inode
  BY <1>2 DEF Target
<1>6. Entry(v, p.inode, k).type # "junk"
  <2>1. CASE k \in DOMAIN Dir(v, p.inode)
    <3>1. Entry(v, p.inode, k) = Dirents(v, Ptr(v, p.inode, 0))[k] /\ k \in DOMAIN Dirents(v, Ptr(v, p.inode, 0))
          /\ Ptr(v, p.inode, 0) \in Block
      BY <1>4, <2>1, DirIs DEF Entry, EntryAt
    <3>2. Entry(v, p.inode, k).type \in {"dir", "file"}
      BY <3>1, EntryFacts
    <3>3. QED  BY <3>2
  <2>2. CASE k \notin DOMAIN Dir(v, p.inode)
    <3>1. Entry(v, p.inode, k) = Junk
      BY <2>2 DEF Entry, EntryAt
    <3>2. None \notin Inode
      BY InodeNumbers DEF None
    <3>3. QED  BY <1>5, <3>1, <3>2, NoEntryType
  <2>3. QED  BY <2>1, <2>2
<1> DEFINE b == Ptr(v, p.inode, 0)
           e == Dirents(v, b)[k]
<1>7. /\ b \in Block /\ k \in DOMAIN Dirents(v, b) /\ Entry(v, p.inode, k) = e
      /\ e.name \in Name \cup {".", "..", ".log"}
  BY <1>4, <1>6, ReadEntry
<1>8. Last(x.path) = e.name
  <2> HIDE DEF e, b
  <2>1. x.path = Append(p.path, e.name)
    BY <1>2, <1>7
  <2>2. Len(Append(p.path, e.name)) = Len(p.path) + 1
        /\ Append(p.path, e.name)[Len(p.path) + 1] = e.name
    BY <1>4, <1>7
  <2>3. QED  BY <2>1, <2>2 DEF Last
<1>9. ~IsDot(e)
  BY <1>8 DEF Listed, IsDot
<1> HIDE DEF e, b
<1>10. /\ p \in PlaceOf(dirs)
       /\ b \in Block /\ x.offset \in DOMAIN Dirents(v, b)
       /\ ~IsDot(e) /\ Target(v, x) = e.inode /\ Entry(v, x.dir, x.offset) = e
       /\ x = [path |-> Append(p.path, e.name), dir |-> p.inode, offset |-> x.offset]
  BY <1>1, <1>2, <1>3, <1>5, <1>7, <1>9
<1>11. e = Dirents(v, Ptr(v, p.inode, 0))[x.offset]
  BY <1>2 DEF e, b
<1>12. QED  BY <1>10, <1>11 DEF b

(* Entries that name the same inode, other than as . or .., are one entry   *)
(* of one directory.                                                        *)
LEMMA SameEntry ==
    ASSUME NEW v, NEW dirs, NEW files, Sound(v, dirs, files),
           NEW d \in dirs, NEW k \in DOMAIN Dirents(v, Ptr(v, d, 0)),
           NEW c \in dirs, NEW l \in DOMAIN Dirents(v, Ptr(v, c, 0)),
           ~IsDot(Dirents(v, Ptr(v, d, 0))[k]), ~IsDot(Dirents(v, Ptr(v, c, 0))[l]),
           Dirents(v, Ptr(v, d, 0))[k].inode = Dirents(v, Ptr(v, c, 0))[l].inode
    PROVE  d = c /\ k = l
<1>1. Ptr(v, d, 0) \in Block /\ Ptr(v, c, 0) \in Block
  BY DirIs
<1>2. Ptr(v, d, 0) = Ptr(v, c, 0) /\ k = l
  BY <1>1 DEF Sound, SoleEntryInv
<1>3. 0 \in 0 .. Ptrs - 1
  BY VolumeSizes
<1>4. Owns(v, dirs, files, d, 0) /\ Owns(v, dirs, files, c, 0)
  BY DEF Owns
<1>5. d = c
  BY <1>2, <1>3, <1>4 DEF Sound, BlocksInv
<1>6. QED  BY <1>2, <1>5

(* Where a directory below another comes from.                              *)
LEMMA SubdirIs ==
    ASSUME NEW v, NEW dirs, NEW files, Sound(v, dirs, files),
           NEW p \in PlaceOf(dirs), NEW q \in Subdirs(v, p)
    PROVE  \E k \in DOMAIN Dirents(v, Ptr(v, p.inode, 0)) :
              LET e == Dirents(v, Ptr(v, p.inode, 0))[k]
              IN  /\ ~IsDot(e) /\ e.inode # Root
                  /\ q = [path |-> Append(p.path, e.name), inode |-> e.inode]
<1>1. PICK k : /\ Entry(v, p.inode, k).type = "dir"
               /\ Entry(v, p.inode, k).name \notin {".", ".."}
               /\ q = [path |-> Append(p.path, Entry(v, p.inode, k).name),
                       inode |-> Entry(v, p.inode, k).inode]
  BY DEF Subdirs
<1> DEFINE b == Ptr(v, p.inode, 0)
<1>2. p.inode \in dirs
  BY DEF PlaceOf
<1>3. b \in Block /\ k \in DOMAIN Dirents(v, b) /\ Entry(v, p.inode, k) = Dirents(v, b)[k]
  BY <1>1, <1>2, ReadEntry
<1>4. ~IsDot(Dirents(v, b)[k])
  BY <1>1, <1>3 DEF IsDot
<1>5. Dirents(v, b)[k].inode # Root
  <2> HIDE DEF b
  <2> QED  BY <1>3, <1>4 DEF Sound, SoleEntryInv
<1>6. q = [path |-> Append(p.path, Dirents(v, b)[k].name), inode |-> Dirents(v, b)[k].inode]
  BY <1>1, <1>3
<1> HIDE DEF b
<1>7. /\ k \in DOMAIN Dirents(v, b)
      /\ ~IsDot(Dirents(v, b)[k]) /\ Dirents(v, b)[k].inode # Root
      /\ q = [path |-> Append(p.path, Dirents(v, b)[k].name), inode |-> Dirents(v, b)[k].inode]
  BY <1>3, <1>4, <1>5, <1>6
<1>8. QED  BY <1>7 DEF b

(* There is one path to a directory.                                        *)
LEMMA OnePath ==
    ASSUME NEW v, NEW dirs, NEW files, Sound(v, dirs, files),
           NEW p \in Places(v), NEW q \in Places(v), p.inode = q.inode
    PROVE  p = q
<1>1. PICK f : f \in Levels(v, dirs)
  BY PlacesAre
<1>2. MaxDepth \in Nat
  BY VolumeSizes
<1>3. /\ f \in [0 .. MaxDepth -> SUBSET PlaceOf(dirs)]
      /\ f[0] = {[path |-> <<>>, inode |-> Root]}
      /\ \A n \in 1 .. MaxDepth : f[n] = UNION {Subdirs(v, s) : s \in f[n - 1]}
      /\ Places(v) = UNION {f[n] : n \in 0 .. MaxDepth}
  BY <1>1 DEF Levels
<1>4. ASSUME NEW n \in 1 .. MaxDepth, NEW t \in f[n]
      PROVE  /\ t.inode # Root
             /\ \E s \in f[n - 1] : s \in PlaceOf(dirs) /\ t \in Subdirs(v, s)
  <2>1. n - 1 \in 0 .. MaxDepth
    BY <1>2
  <2>2. PICK s \in f[n - 1] : t \in Subdirs(v, s)
    BY <1>3
  <2>3. s \in PlaceOf(dirs)
    BY <1>3, <2>1, <2>2
  <2>4. PICK k \in DOMAIN Dirents(v, Ptr(v, s.inode, 0)) :
           LET e == Dirents(v, Ptr(v, s.inode, 0))[k]
           IN  /\ ~IsDot(e) /\ e.inode # Root
               /\ t = [path |-> Append(s.path, e.name), inode |-> e.inode]
    BY <2>2, <2>3, SubdirIs
  <2>5. t.inode # Root
    BY <2>4
  <2>6. QED  BY <2>2, <2>3, <2>5
<1> DEFINE S == {n \in 0 .. MaxDepth :
                    \A m \in 0 .. MaxDepth : \A s \in f[n], t \in f[m] :
                        s.inode = t.inode => s = t}
<1>5. 0 \in S
  <2> SUFFICES ASSUME NEW m \in 0 .. MaxDepth, NEW s \in f[0], NEW t \in f[m],
                      s.inode = t.inode
               PROVE  s = t
    BY <1>2
  <2>1. s = [path |-> <<>>, inode |-> Root]
    BY <1>3
  <2>2. m = 0
    <3> SUFFICES ASSUME m # 0 PROVE FALSE
      OBVIOUS
    <3>1. m \in 1 .. MaxDepth
      BY <1>2
    <3>2. QED  BY <1>4, <2>1, <3>1
  <2>3. QED  BY <1>3, <2>1, <2>2
<1>6. ASSUME NEW n \in 1 .. MaxDepth, n - 1 \in S
      PROVE  n \in S
  <2> SUFFICES ASSUME NEW m \in 0 .. MaxDepth, NEW s \in f[n], NEW t \in f[m],
                      s.inode = t.inode
               PROVE  s = t
    BY <1>2
  <2>1. s.inode # Root
    BY <1>4
  <2>2. m \in 1 .. MaxDepth
    <3>1. m # 0
      BY <1>3, <2>1
    <3>2. QED  BY <1>2, <3>1
  <2>3. PICK a \in f[n - 1] : a \in PlaceOf(dirs) /\ s \in Subdirs(v, a)
    BY <1>4
  <2>4. PICK c \in f[m - 1] : c \in PlaceOf(dirs) /\ t \in Subdirs(v, c)
    BY <1>4, <2>2
  <2>5. PICK k \in DOMAIN Dirents(v, Ptr(v, a.inode, 0)) :
           LET e == Dirents(v, Ptr(v, a.inode, 0))[k]
           IN  /\ ~IsDot(e) /\ e.inode # Root
               /\ s = [path |-> Append(a.path, e.name), inode |-> e.inode]
    BY <2>3, SubdirIs
  <2>6. PICK l \in DOMAIN Dirents(v, Ptr(v, c.inode, 0)) :
           LET e == Dirents(v, Ptr(v, c.inode, 0))[l]
           IN  /\ ~IsDot(e) /\ e.inode # Root
               /\ t = [path |-> Append(c.path, e.name), inode |-> e.inode]
    BY <2>4, SubdirIs
  <2>7. a.inode \in dirs /\ c.inode \in dirs
    BY <2>3, <2>4 DEF PlaceOf
  <2>8. Dirents(v, Ptr(v, a.inode, 0))[k].inode = Dirents(v, Ptr(v, c.inode, 0))[l].inode
    BY <2>5, <2>6
  <2>9. a.inode = c.inode /\ k = l
    BY <2>5, <2>6, <2>7, <2>8, SameEntry
  <2>10. a = c
    <3>1. n - 1 \in 0 .. MaxDepth /\ m - 1 \in 0 .. MaxDepth
      BY <1>2, <2>2
    <3>2. QED  BY <1>6, <2>3, <2>4, <2>9, <3>1
  <2>11. QED  BY <2>5, <2>6, <2>9, <2>10
<1>7. \A n \in 0 .. MaxDepth : n \in S
  <2> HIDE DEF S
  <2> QED  BY <1>2, <1>5, <1>6, InductionUpTo
<1>8. QED  BY <1>3, <1>7

-----------------------------------------------------------------------------
(* What is listed.                                                          *)

(* An inode that is listed is one of a file or of a directory, and in use.  *)
LEMMA TargetIs ==
    ASSUME NEW v, NEW dirs, NEW files, Sound(v, dirs, files),
           NEW x \in Listed(v), Target(v, x) \in Inode
    PROVE  /\ Target(v, x) \in dirs \cup files /\ Target(v, x) # Root
           /\ InodeUsed(v, Target(v, x))
           /\ Entry(v, x.dir, x.offset).type = "file" => Target(v, x) \in files
<1>1. PICK p \in Places(v) :
              LET b == Ptr(v, p.inode, 0)
                  e == Dirents(v, b)[x.offset]
              IN  /\ p \in PlaceOf(dirs)
                  /\ b \in Block /\ x.offset \in DOMAIN Dirents(v, b)
                  /\ ~IsDot(e) /\ Target(v, x) = e.inode /\ Entry(v, x.dir, x.offset) = e
                  /\ x = [path |-> Append(p.path, e.name), dir |-> p.inode, offset |-> x.offset]
  BY ListedIs
<1> DEFINE b == Ptr(v, p.inode, 0)
           e == Dirents(v, b)[x.offset]
<1>2. /\ b \in Block /\ x.offset \in DOMAIN Dirents(v, b)
      /\ ~IsDot(e) /\ Target(v, x) = e.inode /\ Entry(v, x.dir, x.offset) = e
  BY <1>1
<1> HIDE DEF e, b
<1>3. e.inode # Root
  BY <1>2 DEF Sound, SoleEntryInv, e
<1>4. /\ e.type \in {"dir", "file"} /\ (e.type = "dir" => e.inode \in dirs)
      /\ (e.type = "file" => e.inode \in files)
  BY <1>2, EntryFacts DEF e
<1>5. InodeUsed(v, e.inode)
  BY <1>4 DEF Sound, InodesInv
<1>6. QED  BY <1>2, <1>3, <1>4, <1>5

(* No inode is listed twice.                                                *)
LEMMA ListedOnce ==
    ASSUME NEW v, NEW dirs, NEW files, Sound(v, dirs, files),
           NEW x \in Listed(v), NEW y \in Listed(v),
           Target(v, x) \in Inode, Target(v, x) = Target(v, y)
    PROVE  x = y
<1>1. PICK p \in Places(v) :
              LET b == Ptr(v, p.inode, 0)
                  e == Dirents(v, b)[x.offset]
              IN  /\ p \in PlaceOf(dirs)
                  /\ b \in Block /\ x.offset \in DOMAIN Dirents(v, b)
                  /\ ~IsDot(e) /\ Target(v, x) = e.inode /\ Entry(v, x.dir, x.offset) = e
                  /\ x = [path |-> Append(p.path, e.name), dir |-> p.inode, offset |-> x.offset]
  BY ListedIs
<1>2. PICK q \in Places(v) :
              LET b == Ptr(v, q.inode, 0)
                  e == Dirents(v, b)[y.offset]
              IN  /\ q \in PlaceOf(dirs)
                  /\ b \in Block /\ y.offset \in DOMAIN Dirents(v, b)
                  /\ ~IsDot(e) /\ Target(v, y) = e.inode /\ Entry(v, y.dir, y.offset) = e
                  /\ y = [path |-> Append(q.path, e.name), dir |-> q.inode, offset |-> y.offset]
  BY ListedIs
<1>3. p.inode \in dirs /\ q.inode \in dirs
  BY <1>1, <1>2 DEF PlaceOf
<1>4. /\ x.offset \in DOMAIN Dirents(v, Ptr(v, p.inode, 0))
      /\ y.offset \in DOMAIN Dirents(v, Ptr(v, q.inode, 0))
      /\ ~IsDot(Dirents(v, Ptr(v, p.inode, 0))[x.offset])
      /\ ~IsDot(Dirents(v, Ptr(v, q.inode, 0))[y.offset])
      /\ Dirents(v, Ptr(v, p.inode, 0))[x.offset].inode
            = Dirents(v, Ptr(v, q.inode, 0))[y.offset].inode
  BY <1>1, <1>2
<1>5. p.inode = q.inode /\ x.offset = y.offset
  BY <1>3, <1>4, SameEntry
<1>6. p = q
  BY <1>5, OnePath
<1>7. QED  BY <1>1, <1>2, <1>5, <1>6

(* The files that are listed are files that entries name.                   *)
LEMMA FilesAreNamed ==
    ASSUME NEW v, NEW dirs, NEW files, Sound(v, dirs, files), NEW x \in FileEntries(v)
    PROVE  x \in Listed(v) /\ Target(v, x) \in Inode /\ Target(v, x) \in files
<1>1. x \in Listed(v) /\ Entry(v, x.dir, x.offset).type = "file"
  BY DEF FileEntries
<1>2. PICK p \in Places(v) : x.dir = p.inode
  BY <1>1 DEF Listed, Met
<1>3. x.dir \in dirs
  BY <1>2, PlacesHaveDirs DEF PlaceOf
<1>4. Target(v, x) \in Inode
  BY <1>1, <1>3, ReadEntry DEF Target
<1>5. QED  BY <1>1, <1>4, TargetIs

(* A set without two elements has a cardinality of at most one.             *)
LEMMA AtMostOne ==
    ASSUME NEW S, \A x \in S, y \in S : x = y
    PROVE  /\ S = {} \/ Cardinality(S) = 1
           /\ S = {} => Cardinality(S) = 0
<1>1. CASE S = {}
  BY <1>1, FS_EmptySet
<1>2. CASE S # {}
  <2>1. PICK x : x \in S
    BY <1>2
  <2>2. S = {x}
    BY <2>1
  <2>3. QED  BY <1>2, <2>2, FS_Singleton
<1>3. QED  BY <1>1, <1>2

(* What jfs_fsck finds in use, by what it comes to.                         *)
InodeFound(v, i) == i = Root \/ \E x \in Listed(v) : Target(v, x) = i

BlockFound(v, b) ==
    \/ IsHeader(b)
    \/ \E d \in Dirs(v) : Ptr(v, d, 0) = b
    \/ \E x \in FileEntries(v), n \in 0 .. Ptrs - 1 : Ptr(v, Target(v, x), n) = b

(* It finds no inode twice, and none that is marked as free.                *)
LEMMA InodesAreOwned ==
    ASSUME NEW v, NEW dirs, NEW files, Sound(v, dirs, files), NEW i \in Inode
    PROVE  /\ InodeUses(v)[i] = IF InodeFound(v, i) THEN 1 ELSE 0
           /\ InodeMarks(v)[i] = IF InodeUsed(v, i) THEN 1 ELSE 0
           /\ InodeFound(v, i) => InodeUsed(v, i)
<1> DEFINE S == {x \in Listed(v) : Target(v, x) = i}
<1>1. InodeUses(v)[i] = Cardinality(S) + (IF i = Root THEN 1 ELSE 0)
  BY DEF InodeUses
<1>2. InodeMarks(v)[i] = IF InodeUsed(v, i) THEN 1 ELSE 0
  BY DEF InodeMarks
<1>3. \A x \in S, y \in S : x = y
  BY ListedOnce
<1>4. \A x \in S : i # Root /\ InodeUsed(v, i)
  BY TargetIs
<1>5. InodeUsed(v, Root)
  BY DEF Sound, InodesInv
<1>6. InodeFound(v, i) <=> i = Root \/ S # {}
  BY DEF InodeFound
<1> HIDE DEF S
<1>7. (S = {} \/ Cardinality(S) = 1) /\ (S = {} => Cardinality(S) = 0)
  BY <1>3, AtMostOne
<1>8. QED  BY <1>1, <1>2, <1>4, <1>5, <1>6, <1>7

(* Nor any such block.                                                      *)
LEMMA BlocksAreOwned ==
    ASSUME NEW v, NEW dirs, NEW files, Sound(v, dirs, files), NEW b \in Block
    PROVE  /\ BlockUses(v)[b] = IF BlockFound(v, b) THEN 1 ELSE 0
           /\ BlockMarks(v)[b] = IF BlockUsed(v, b) THEN 1 ELSE 0
           /\ BlockFound(v, b) => BlockUsed(v, b)
<1> DEFINE A == {d \in Dirs(v) : v.inode[d].blockptrs[0] = b}
           C == {y \in FileEntries(v) \X (0 .. Ptrs - 1) :
                    v.inode[Target(v, y[1])].blockptrs[y[2]] = b}
<1>1. BlockUses(v)[b] = IF IsHeader(b) THEN 1 ELSE Cardinality(A) + Cardinality(C)
  BY DEF BlockUses
<1>2. BlockMarks(v)[b] = IF BlockUsed(v, b) THEN 1 ELSE 0
  BY DEF BlockMarks
<1>3. IsHeader(b) => BlockUsed(v, b)
  BY DEF Sound, BlocksInv
<1>4. 0 \in 0 .. Ptrs - 1
  BY VolumeSizes
<1>5. ASSUME NEW d \in A
      PROVE  Owns(v, dirs, files, d, 0) /\ Ptr(v, d, 0) = b /\ d \in dirs
  <2>1. d \in dirs
    BY PlacesHaveDirs DEF Dirs, PlaceOf
  <2>2. QED  BY <2>1 DEF Owns, Ptr
<1>6. ASSUME NEW y \in C, ~IsHeader(b)
      PROVE  LET i == Target(v, y[1])
             IN  /\ Owns(v, dirs, files, i, y[2]) /\ Ptr(v, i, y[2]) = b /\ i \in files
                 /\ y[2] \in 0 .. Ptrs - 1 /\ y[1] \in Listed(v) /\ i \in Inode
                 /\ y = <<y[1], y[2]>>
  <2> DEFINE i == Target(v, y[1])
  <2>1. /\ y[1] \in FileEntries(v) /\ y[2] \in 0 .. Ptrs - 1 /\ y = <<y[1], y[2]>>
        /\ Ptr(v, i, y[2]) = b
    BY DEF Ptr
  <2>2. i \in files /\ i \in Inode /\ y[1] \in Listed(v)
    BY <2>1, FilesAreNamed
  <2> HIDE DEF i
  <2>3. y[2] < Size(v, i)
    <3> SUFFICES ASSUME ~(y[2] < Size(v, i)) PROVE FALSE
      OBVIOUS
    <3>1. b = 0
      BY <2>1, <2>2 DEF Sound, FileInv
    <3>2. QED  BY <1>6, <3>1, InodeNumbers
  <2>4. QED  BY <2>1, <2>2, <2>3 DEF Owns, i
<1>7. BlockFound(v, b) <=> IsHeader(b) \/ A # {} \/ C # {}
  <2>1. A # {} <=> \E d \in Dirs(v) : Ptr(v, d, 0) = b
    BY DEF Ptr
  <2>2. C # {} <=> \E x \in FileEntries(v), n \in 0 .. Ptrs - 1 : Ptr(v, Target(v, x), n) = b
    <3>1. ASSUME NEW x \in FileEntries(v), NEW n \in 0 .. Ptrs - 1, Ptr(v, Target(v, x), n) = b
          PROVE  C # {}
      <4>1. <<x, n>> \in C
        BY <3>1 DEF Ptr
      <4>2. QED  BY <4>1
    <3>2. ASSUME NEW y \in C
          PROVE  \E x \in FileEntries(v), n \in 0 .. Ptrs - 1 : Ptr(v, Target(v, x), n) = b
      BY DEF Ptr
    <3>3. QED  BY <3>1, <3>2
  <2>3. QED  BY <2>1, <2>2 DEF BlockFound
<1> HIDE DEF A, C
<1>8. ASSUME ~IsHeader(b), NEW i \in dirs \cup files, NEW n \in 0 .. Ptrs - 1,
             Owns(v, dirs, files, i, n), Ptr(v, i, n) = b,
             NEW j \in dirs \cup files, NEW m \in 0 .. Ptrs - 1,
             Owns(v, dirs, files, j, m), Ptr(v, j, m) = b
      PROVE  i = j /\ n = m /\ BlockUsed(v, b)
  BY <1>8 DEF Sound, BlocksInv
<1>9. CASE IsHeader(b)
  BY <1>1, <1>2, <1>3, <1>9, <1>7
<1>10. CASE ~IsHeader(b)
  <2>1. \A d \in A, c \in A : d = c
    BY <1>4, <1>5, <1>8, <1>10
  <2>2. ASSUME NEW y \in C, NEW z \in C
        PROVE  y = z
    <3>1. Target(v, y[1]) = Target(v, z[1]) /\ y[2] = z[2]
      BY <1>6, <1>8, <1>10
    <3>2. y[1] = z[1]
      BY <1>6, <1>10, <3>1, ListedOnce
    <3>3. QED  BY <1>6, <1>10, <3>1, <3>2
  <2>3. \A d \in A, y \in C : FALSE
    <3> SUFFICES ASSUME NEW d \in A, NEW y \in C PROVE FALSE
      OBVIOUS
    <3>1. d = Target(v, y[1])
      BY <1>4, <1>5, <1>6, <1>8, <1>10
    <3>2. QED  BY <1>5, <1>6, <1>10, <3>1 DEF Sound, InodesInv
  <2>4. \A d \in A : BlockUsed(v, b)
    BY <1>4, <1>5, <1>8, <1>10
  <2>5. \A y \in C : BlockUsed(v, b)
    BY <1>6, <1>8, <1>10
  <2>6. (A = {} \/ Cardinality(A) = 1) /\ (A = {} => Cardinality(A) = 0)
    BY <2>1, AtMostOne
  <2>7. (C = {} \/ Cardinality(C) = 1) /\ (C = {} => Cardinality(C) = 0)
    BY <2>2, AtMostOne
  <2>8. QED  BY <1>1, <1>2, <1>10, <1>7, <2>3, <2>4, <2>5, <2>6, <2>7
<1>11. QED  BY <1>9, <1>10

-----------------------------------------------------------------------------
(* The properties of VolumeSafety.                                          *)

(* jfs_fsck never finds an inode or a block that is used twice, or used and *)
(* marked as free, whatever jfs_mkdir, jfs_copyin and jfs_rm have done, and *)
(* wherever jfs_rm has died, unless users remove a file that uses every     *)
(* block pointer.                                                           *)
THEOREM NothingIsInTwoPlaces == ASSUME ~RmFull PROVE Spec => []ListedIsOwned
<1>1. VolumeInv => ListedIsOwned
  BY InodesAreOwned, BlocksAreOwned DEF VolumeInv, ListedIsOwned
<1>2. QED  BY <1>1, VolumeStaysSound, PTL

(* No tool changes what jfs_copyout copies out of a file that is listed     *)
(* before and after it, again unless such a file is removed.                *)
THEOREM ToolsLeaveFilesAlone == ASSUME ~RmFull PROVE Spec => FilesAreLeftAlone
<1> DEFINE Kept == \A i \in Files(vol) \cap Files(vol') : copyout(vol, i) = copyout(vol', i)
<1>1. VolumeInv /\ [Next]_vars => Kept
  <2> SUFFICES ASSUME VolumeInv, [Next]_vars, NEW i \in Files(vol), i \in Files(vol')
               PROVE  copyout(vol, i) = copyout(vol', i)
    OBVIOUS
  <2>1. VolumeInv' /\ KeepsFiles
    BY VolumeStep
  <2>2. /\ Sound(vol, KnownDirs(vol, rm), Named(vol, "file"))
        /\ Sound(vol', KnownDirs(vol', rm'), Named(vol', "file"))
    BY <2>1 DEF VolumeInv
  <2>3. i \in Named(vol, "file") /\ i \in Named(vol', "file")
    BY <2>2, FilesAreNamed DEF Files
  <2>4. SameFiles(vol, vol', {i})
    BY <2>1, <2>3 DEF KeepsFiles, SameFiles
  <2>5. QED  BY <2>2, <2>3, <2>4, SameCopyout
<1>2. Kept => [Kept]_vol
  OBVIOUS
<1>3. QED  BY <1>1, <1>2, VolumeStaysSound, PTL DEF Spec, FilesAreLeftAlone

-----------------------------------------------------------------------------
(* Bytes that entries fill.                                                 *)

(* Entries that fill a directory fill the beginning of it.                  *)
LEMMA FilledLess ==
    ASSUME NEW v, NEW d, NEW m \in Int, NEW n \in Int, n <= m, Filled(v, d, m)
    PROVE  Filled(v, d, n)
<1>1. \A k \in 0 .. n - 1 : k \in 0 .. m - 1
  OBVIOUS
<1>2. QED  BY <1>1 DEF Filled, Fills

(* A directory looks the same if its block and its entries do.              *)
LEMMA SamePlaces ==
    ASSUME NEW v, NEW w, NEW d, Ptr(w, d, 0) = Ptr(v, d, 0),
           Dirents(w, Ptr(v, d, 0)) = Dirents(v, Ptr(v, d, 0))
    PROVE  /\ \A i : Holds(w, d, i) <=> Holds(v, d, i)
           /\ \A size : Filled(w, d, size) <=> Filled(v, d, size)
BY DEF Holds, Filled

(* Of the entries of a sound volume, one fills a byte.                      *)
LEMMA OneFills ==
    ASSUME NEW v, NEW dirs, NEW files, Sound(v, dirs, files), NEW b \in Block,
           NEW o \in DOMAIN Dirents(v, b), NEW p \in DOMAIN Dirents(v, b),
           NEW n \in Int,
           o <= n, n < o + Dirents(v, b)[o].entry_len,
           p <= n, n < p + Dirents(v, b)[p].entry_len
    PROVE  o = p
<1>1. /\ o \in Int /\ p \in Int
      /\ Dirents(v, b)[o].entry_len \in Int /\ Dirents(v, b)[p].entry_len \in Int
  BY EntryFacts
<1>2. /\ o < p => o + Dirents(v, b)[o].entry_len <= p
      /\ p < o => p + Dirents(v, b)[p].entry_len <= o
  BY DEF Sound, EntriesInv
<1>3. QED  BY <1>1, <1>2

(* A directory that is full of entries after one was added has them all.    *)
LEMMA AddedFills ==
    ASSUME NEW v, NEW w, NEW dirs, NEW files, Sound(v, dirs, files),
           NEW d \in dirs, NEW e, e.entry_len \in Nat \ {0}, Added(v, w, d, e),
           Filled(w, d, Size(w, d))
    PROVE  LET b == Ptr(v, d, 0)
           IN  /\ Filled(v, d, Size(v, d))
               /\ \A o \in DOMAIN Dirents(v, b) :
                     o \in DOMAIN Dirents(w, b) /\ Dirents(w, b)[o] = Dirents(v, b)[o]
               /\ Size(v, d) \in DOMAIN Dirents(w, b) /\ Dirents(w, b)[Size(v, d)] = e
<1> DEFINE b == Ptr(v, d, 0)
           size == Size(v, d)
           old == Dirents(v, b)
           new == Dirents(w, b)
<1>1. d \in Inode /\ b \in Block /\ 0 \in 0 .. Ptrs - 1
  BY DirIs, VolumeSizes
<1>2. size \in Nat /\ \A o \in DOMAIN old : o + old[o].entry_len <= size
  BY DEF Sound, DirInv, EndBefore
<1>3. Ptr(w, d, 0) = b /\ Size(w, d) = size + e.entry_len
  BY <1>1 DEF Added
<1>4. \A o \in DOMAIN new : \/ o \in DOMAIN old /\ new[o] = old[o]
                            \/ o = size /\ new[o] = e
  BY <1>1 DEF Added
<1>5. \A o \in DOMAIN old : o \in Nat /\ old[o].entry_len \in Nat \ {0}
  BY <1>1, EntryFacts
<1> HIDE DEF b, size
<1>6. \A n \in 0 .. size + e.entry_len - 1 :
         \E o \in DOMAIN new : o <= n /\ n < o + new[o].entry_len
  <2>1. Fills(new, size + e.entry_len)
    BY <1>3 DEF Filled
  <2> HIDE DEF new
  <2>2. QED  BY <1>2, <2>1 DEF Fills
<1> HIDE DEF new
<1>7. ASSUME NEW n \in 0 .. size - 1
      PROVE  \E o \in DOMAIN old : /\ o \in DOMAIN new /\ new[o] = old[o]
                                   /\ o <= n /\ n < o + old[o].entry_len
  <2>1. n \in 0 .. size + e.entry_len - 1
    BY <1>2
  <2>2. PICK o \in DOMAIN new : o <= n /\ n < o + new[o].entry_len
    BY <1>6, <2>1
  <2>3. o # size
    BY <1>2, <2>2
  <2>4. QED  BY <1>4, <2>2, <2>3
<1>8. Filled(v, d, size)
  BY <1>7 DEF Filled, Fills, b, old
<1>9. ASSUME NEW o \in DOMAIN old
      PROVE  o \in DOMAIN new /\ new[o] = old[o]
  <2>1. o \in 0 .. size - 1 /\ o < o + old[o].entry_len
    BY <1>2, <1>5
  <2>2. PICK p \in DOMAIN old : /\ p \in DOMAIN new /\ new[p] = old[p]
                                /\ p <= o /\ o < p + old[p].entry_len
    BY <1>7, <2>1
  <2>3. p = o
    BY <1>1, <1>5, <2>1, <2>2, OneFills
  <2>4. QED  BY <2>2, <2>3
<1>10. size \in DOMAIN new /\ new[size] = e
  <2>1. size \in 0 .. size + e.entry_len - 1
    BY <1>2
  <2>2. PICK o \in DOMAIN new : o <= size /\ size < o + new[o].entry_len
    BY <1>6, <2>1
  <2>3. ~(o \in DOMAIN old /\ new[o] = old[o])
    BY <1>2, <1>5, <2>2
  <2>4. QED  BY <1>4, <2>2, <2>3
<1>11. QED  BY <1>8, <1>9, <1>10 DEF b, size, new, old

(* A directory that is full of entries after one was cut was full before,   *)
(* and has the others still.                                                *)
LEMMA CutFills ==
    ASSUME NEW v, NEW w, NEW dirs, NEW files, Sound(v, dirs, files),
           NEW d \in dirs, NEW k \in DOMAIN Dirents(v, Ptr(v, d, 0)), NEW i,
           RemovedFrom(v, w, Ptr(v, d, 0), k, i),
           Filled(w, d, Size(v, d) - Dirents(v, Ptr(v, d, 0))[k].entry_len)
    PROVE  LET b == Ptr(v, d, 0)
           IN  /\ Filled(v, d, Size(v, d))
               /\ \A q \in DOMAIN Dirents(v, b) : q # k =>
                     \E o \in DOMAIN Dirents(w, b) : Dirents(w, b)[o] = Dirents(v, b)[q]
<1> DEFINE b == Ptr(v, d, 0)
           size == Size(v, d)
           old == Dirents(v, b)
           new == Dirents(w, b)
           len == old[k].entry_len
<1>1. d \in Inode /\ b \in Block
  BY DirIs
<1>2. size \in Nat /\ \A o \in DOMAIN old : o + old[o].entry_len <= size
  BY DEF Sound, DirInv, EndBefore
<1>3. Ptr(w, d, 0) = b
  BY DEF RemovedFrom, Ptr
<1>4. \A o \in DOMAIN new :
         /\ o \in Nat /\ Source(k, len, o) \in DOMAIN old /\ Source(k, len, o) # k
         /\ new[o] = old[Source(k, len, o)]
  BY DEF RemovedFrom
<1>5. \A o \in DOMAIN old : o \in Nat /\ old[o].entry_len \in Nat \ {0}
  BY <1>1, EntryFacts
<1>6. k \in Nat /\ len \in Nat \ {0} /\ k + len <= size
  BY <1>2, <1>5
<1>7. \A o \in DOMAIN old, p \in DOMAIN old : o < p => o + old[o].entry_len <= p
  BY <1>1 DEF Sound, EntriesInv
<1>8. \A n \in 0 .. (size - len) - 1 : \E o \in DOMAIN new : o <= n /\ n < o + new[o].entry_len
  <2>1. Fills(new, size - len)
    BY <1>3 DEF Filled
  <2> HIDE DEF new, size, len
  <2>2. QED  BY <1>2, <1>6, <2>1 DEF Fills
<1> HIDE DEF b, size, old, new, len
(* What fills a byte now filled one before. *)
<1>9. ASSUME NEW n \in 0 .. (size - len) - 1
      PROVE  \E o \in DOMAIN new :
                LET q == Source(k, len, o)
                    m == Source(k, len, n)
                IN  q \in DOMAIN old /\ q # k /\ new[o] = old[q] /\ q <= m /\ m < q + old[q].entry_len
  <2>1. PICK o \in DOMAIN new : o <= n /\ n < o + new[o].entry_len
    BY <1>8
  <2> DEFINE q == Source(k, len, o)
             m == Source(k, len, n)
  <2>2. q \in DOMAIN old /\ q # k /\ new[o] = old[q] /\ o \in Nat
    BY <1>4
  <2>3. q \in Nat /\ old[q].entry_len \in Nat \ {0}
    BY <1>5, <2>2
  <2>4. CASE o < k
    <3>1. q = o
      BY <2>4 DEF Source
    <3>2. o + old[q].entry_len <= k
      BY <1>6, <1>7, <2>2, <2>4, <3>1, k \in DOMAIN old DEF old, b
    <3> HIDE DEF q
    <3>3. n < k
      BY <1>6, <2>1, <2>2, <2>3, <3>1, <3>2
    <3>4. m = n
      BY <3>3 DEF Source
    <3> HIDE DEF m
    <3>5. q <= m /\ m < q + old[q].entry_len
      BY <2>1, <2>2, <3>1, <3>4
    <3>6. QED  BY <2>2, <3>5 DEF q, m
  <2>5. CASE ~(o < k)
    <3>1. q = o + len
      BY <2>5 DEF Source
    <3>2. m = n + len
      BY <1>6, <2>1, <2>2, <2>5 DEF Source
    <3> HIDE DEF q, m
    <3>3. q <= m /\ m < q + old[q].entry_len
      BY <1>6, <2>1, <2>2, <2>3, <3>1, <3>2
    <3>4. QED  BY <2>2, <3>3 DEF q, m
  <2>6. QED  BY <2>4, <2>5
<1>10. ASSUME NEW n \in 0 .. size - 1
       PROVE  \E q \in DOMAIN old : q <= n /\ n < q + old[q].entry_len
  <2>1. CASE n < k
    <3>1. n \in 0 .. (size - len) - 1 /\ Source(k, len, n) = n
      BY <1>2, <1>6, <2>1 DEF Source
    <3>2. QED  BY <1>9, <3>1
  <2>2. CASE k <= n /\ n < k + len
    BY <2>2 DEF len, old, b
  <2>3. CASE k + len <= n
    <3>1. n - len \in 0 .. (size - len) - 1 /\ Source(k, len, n - len) = n
      BY <1>2, <1>6, <2>3 DEF Source
    <3>2. QED  BY <1>9, <3>1
  <2>4. QED  BY <1>6, <2>1, <2>2, <2>3
<1>11. ASSUME NEW q \in DOMAIN old, q # k
       PROVE  \E o \in DOMAIN new : new[o] = old[q]
  <2>1. \E n \in 0 .. (size - len) - 1 : Source(k, len, n) = q
    <3>1. q \in Nat /\ old[q].entry_len \in Nat \ {0} /\ q + old[q].entry_len <= size
      BY <1>2, <1>5
    <3>2. (q < k => q + old[q].entry_len <= k) /\ (k < q => k + len <= q)
      BY <1>7, k \in DOMAIN old DEF old, b, len
    <3>3. CASE q < k
      <4>1. q \in 0 .. (size - len) - 1 /\ Source(k, len, q) = q
        BY <1>2, <1>6, <3>1, <3>2, <3>3 DEF Source
      <4>2. QED  BY <4>1
    <3>4. CASE k < q
      <4>1. q - len \in 0 .. (size - len) - 1 /\ Source(k, len, q - len) = q
        BY <1>2, <1>6, <3>1, <3>2, <3>4 DEF Source
      <4>2. QED  BY <4>1
    <3>5. QED  BY <1>6, <1>11, <3>1, <3>3, <3>4
  <2>2. PICK n \in 0 .. (size - len) - 1 : Source(k, len, n) = q
    BY <2>1
  <2>3. PICK o \in DOMAIN new :
           LET p == Source(k, len, o)
           IN  p \in DOMAIN old /\ new[o] = old[p] /\ p <= q /\ q < p + old[p].entry_len
    BY <1>9, <2>2
  <2> DEFINE p == Source(k, len, o)
  <2>4. p \in DOMAIN old /\ new[o] = old[p] /\ p <= q /\ q < p + old[p].entry_len
    BY <2>3
  <2> HIDE DEF p
  <2>5. q \in Nat /\ q < q + old[q].entry_len
    BY <1>5
  <2>6. p = q
    BY <1>5, <1>7, <2>4, <2>5
  <2>7. QED  BY <2>4, <2>6
<1>12. Filled(v, d, size)
  <2>1. Fills(old, size)
    BY <1>10 DEF Fills
  <2>2. QED  BY <2>1 DEF Filled, old, b
<1>13. QED  BY <1>11, <1>12 DEF b, size, old, new

-----------------------------------------------------------------------------
(* The parts of NoLeak that do not depend on where inodes have their place. *)
Rooted(v, dirs, depth) ==
    /\ Sound(v, dirs, Used(v) \ dirs)
    /\ OwnedInv(v, dirs)
    /\ DepthInv(v, dirs, depth)

(* Outside of a jfs_rm, the entries of a directory end at its size.         *)
LEMMA EndIsSize ==
    ASSUME NEW v, NEW d \in Inode
    PROVE  EndOf(v, NoRm, d) = Size(v, d)
BY InodeNumbers DEF EndOf, NoRm, None

(* No two directories have the same block.                                  *)
LEMMA DirsApart ==
    ASSUME NEW v, NEW dirs, NEW files, Sound(v, dirs, files),
           NEW c \in dirs, NEW d \in dirs, Ptr(v, c, 0) = Ptr(v, d, 0)
    PROVE  c = d
<1>1. 0 \in 0 .. Ptrs - 1
  BY VolumeSizes
<1>2. QED  BY <1>1 DEF Sound, BlocksInv, Owns

(* What one step keeps of the places.                                       *)
KeepsPlaces(v, r, w, q, dirs) ==
    \A d \in dirs : \A i : PlaceIn(v, r, d, i) => PlaceIn(w, q, d, i)

(* What had a place has one when an entry is added, and so has what the     *)
(* entry names, whether the entry is dropped or not.                        *)
LEMMA AddedPlaces ==
    ASSUME NEW v, NEW w, NEW dirs, NEW files, Sound(v, dirs, files),
           NEW d \in dirs, NEW e, e.entry_len \in Nat \ {0}, Added(v, w, d, e)
    PROVE  /\ KeepsPlaces(v, NoRm, w, NoRm, dirs)
           /\ ~IsDot(e) => PlaceIn(w, NoRm, d, e.inode)
<1>1. /\ \A c \in dirs : c \in Inode /\ Ptr(v, c, 0) \in Block
      /\ 0 \in 0 .. Ptrs - 1
  BY DirIs, VolumeSizes
<1>2. \A c \in dirs : /\ Ptr(w, c, 0) = Ptr(v, c, 0)
                      /\ EndOf(v, NoRm, c) = Size(v, c) /\ EndOf(w, NoRm, c) = Size(w, c)
  BY <1>1, EndIsSize DEF Added
<1>3. ASSUME NEW c \in dirs, c # d, NEW i, PlaceIn(v, NoRm, c, i)
      PROVE  PlaceIn(w, NoRm, c, i)
  <2>1. Ptr(v, c, 0) # Ptr(v, d, 0)
    BY <1>3, DirsApart
  <2>2. Dirents(w, Ptr(v, c, 0)) = Dirents(v, Ptr(v, c, 0))
    BY <1>1, <2>1 DEF Added, Dirents
  <2>3. Size(w, c) = Size(v, c)
    BY <1>1, <1>3 DEF Added
  <2>4. QED  BY <1>2, <1>3, <2>2, <2>3, SamePlaces DEF PlaceIn
<1>4. ASSUME Filled(w, d, Size(w, d))
      PROVE  /\ Filled(v, d, Size(v, d))
             /\ \A i : Holds(v, d, i) => Holds(w, d, i)
             /\ ~IsDot(e) => Holds(w, d, e.inode)
  <2> DEFINE b == Ptr(v, d, 0)
  <2>1. /\ Filled(v, d, Size(v, d))
        /\ \A o \in DOMAIN Dirents(v, b) :
              o \in DOMAIN Dirents(w, b) /\ Dirents(w, b)[o] = Dirents(v, b)[o]
        /\ Size(v, d) \in DOMAIN Dirents(w, b) /\ Dirents(w, b)[Size(v, d)] = e
    BY <1>4, AddedFills
  <2>2. Ptr(w, d, 0) = b
    BY <1>2
  <2> HIDE DEF b
  <2>3. QED  BY <2>1, <2>2 DEF Holds, b
<1>5. QED  BY <1>2, <1>3, <1>4 DEF PlaceIn, KeepsPlaces

(* An entry that leads down one level at most leaves the tree a tree.       *)
LEMMA AddedTree ==
    ASSUME NEW v, NEW w, NEW dirs, NEW depth, Rooted(v, dirs, depth),
           NEW d \in dirs, NEW e, Addable(v, dirs, Used(v) \ dirs, e), Added(v, w, d, e),
           e.type = "dir" => depth[e.inode] <= depth[d] + 1
    PROVE  Rooted(w, dirs, depth) /\ Used(w) = Used(v)
<1> DEFINE files == Used(v) \ dirs
<1>1. Used(w) = Used(v)
  BY SameBitsAre DEF Added, Used
<1>2. Sound(v, dirs, files)
  BY DEF Rooted
<1>3. Sound(w, dirs, files)
  <2> HIDE DEF files
  <2>1. Addable(v, dirs, files, e)
    BY DEF files
  <2>2. QED  BY <1>2, <2>1, AddSound
<1>4. /\ \A i \in dirs \cup files : i \in Inode
      /\ dirs \cap files = {}
  BY <1>2 DEF Sound, InodesInv
<1>5. 0 \in 0 .. Ptrs - 1
  BY VolumeSizes
<1>6. /\ \A i \in dirs \cup files, n \in 0 .. Ptrs - 1 : Ptr(w, i, n) = Ptr(v, i, n)
      /\ \A i \in files : Size(w, i) = Size(v, i)
      /\ \A b \in Block : BlockUsed(w, b) <=> BlockUsed(v, b)
  BY <1>4, SameBitsAre DEF Added
<1>7. OwnedInv(w, dirs)
  <2> SUFFICES ASSUME NEW b \in Block, BlockUsed(w, b), ~IsHeader(b)
               PROVE  \E i \in Used(w), n \in 0 .. Ptrs - 1 :
                         Owns(w, dirs, Used(w) \ dirs, i, n) /\ Ptr(w, i, n) = b
    BY DEF OwnedInv
  <2>1. \E i \in Used(v), n \in 0 .. Ptrs - 1 : Owns(v, dirs, files, i, n) /\ Ptr(v, i, n) = b
    BY <1>6 DEF Rooted, OwnedInv
  <2>2. PICK i \in Used(v), n \in 0 .. Ptrs - 1 : Owns(v, dirs, files, i, n) /\ Ptr(v, i, n) = b
    BY <2>1
  <2> HIDE DEF files
  <2>3. Owns(w, dirs, files, i, n) /\ Ptr(w, i, n) = b
    BY <1>6, <2>2 DEF Owns
  <2>4. QED  BY <1>1, <2>2, <2>3 DEF files
<1>8. DepthInv(w, dirs, depth)
  <2> SUFFICES ASSUME NEW c \in dirs, NEW o \in DOMAIN Dirents(w, Ptr(w, c, 0)),
                      Dirents(w, Ptr(w, c, 0))[o].type = "dir"
               PROVE  depth[Dirents(w, Ptr(w, c, 0))[o].inode] <= depth[c] + 1
    BY DEF Rooted, DepthInv
  <2> DEFINE b == Ptr(v, c, 0)
  <2>1. Ptr(w, c, 0) = b /\ b \in Block
    BY <1>2, <1>5, <1>6, DirIs
  <2>2. \/ o \in DOMAIN Dirents(v, b) /\ Dirents(w, b)[o] = Dirents(v, b)[o]
        \/ b = Ptr(v, d, 0) /\ Dirents(w, b)[o] = e
    BY <2>1 DEF Added
  <2>3. b = Ptr(v, d, 0) => c = d
    BY <1>2, DirsApart
  <2> HIDE DEF b
  <2>4. QED  BY <2>1, <2>2, <2>3 DEF Rooted, DepthInv, b
<1>9. QED  BY <1>1, <1>3, <1>7, <1>8 DEF Rooted

(* What keeps the places of the directories keeps those of the inodes.      *)
LEMMA StillPlaced ==
    ASSUME NEW v, NEW r, NEW w, NEW q, NEW dirs, NEW depth, NEW dirs2, NEW depth2,
           KeepsPlaces(v, r, w, q, dirs), dirs \subseteq dirs2,
           \A d \in dirs : depth2[d] = depth[d],
           NEW i, Placed(v, r, dirs, depth, i), i \in dirs2 => i \in dirs
    PROVE  Placed(w, q, dirs2, depth2, i)
BY DEF KeepsPlaces, Placed

(* w is v with a new inode i, one of dirs2 if it is a directory, and its    *)
(* new blocks.                                                              *)
Growth(v, w, dirs, dirs2, i) ==
    /\ Grown(v, w, i)
    /\ dirs \subseteq dirs2 /\ dirs2 \subseteq dirs \cup {i}
    /\ Sound(w, dirs2, Used(w) \ dirs2)
    /\ i \in dirs2 => NewBlock(v, w, Ptr(w, i, 0))
    /\ \A c \in Block : NewBlock(v, w, c) =>
          \E n \in 0 .. Ptrs - 1 :
             Owns(w, dirs2, Used(w) \ dirs2, i, n) /\ Ptr(w, i, n) = c

(* It leaves the tree a tree with one inode more, that has no place yet.    *)
LEMMA GrownTree ==
    ASSUME NEW v, NEW w, NEW dirs, NEW depth, Rooted(v, dirs, depth),
           NEW dirs2, NEW depth2, NEW i, Growth(v, w, dirs, dirs2, i),
           \A d \in dirs : depth2[d] = depth[d]
    PROVE  Rooted(w, dirs2, depth2) /\ KeepsPlaces(v, NoRm, w, NoRm, dirs)
<1> USE DEF Growth
<1> DEFINE files == Used(v) \ dirs
           files2 == Used(w) \ dirs2
<1>1. Sound(v, dirs, files)
  BY DEF Rooted
<1>2. /\ i \in Inode /\ i \notin Used(v) /\ Used(w) = Used(v) \cup {i}
  BY DEF Grown, Used
<1>3. Root \in dirs /\ \A j \in dirs : j \in Used(v) /\ j \in Inode
  BY <1>1 DEF Sound, InodesInv, Used
<1>4. files \subseteq files2 /\ i \notin dirs
  BY <1>2, <1>3
<1>5. dirs \cup files = Used(v) /\ 0 \in 0 .. Ptrs - 1
  BY <1>3, VolumeSizes
<1> HIDE DEF files, files2
<1>6. /\ \A j \in dirs \cup files :
            /\ j # i /\ Size(w, j) = Size(v, j)
            /\ \A n \in 0 .. Ptrs - 1 :
                  /\ Ptr(w, j, n) = Ptr(v, j, n)
                  /\ Owns(v, dirs, files, j, n) =>
                        Ptr(v, j, n) \in Block /\ w.data[Ptr(v, j, n)] = v.data[Ptr(v, j, n)]
      /\ \A c \in Block : \A o \in DOMAIN Dirents(w, c) : ~NewBlock(v, w, c)
  BY <1>1, GrownKeeps
<1>7. \A d \in dirs : /\ Ptr(w, d, 0) = Ptr(v, d, 0) /\ Ptr(v, d, 0) \in Block
                      /\ Dirents(w, Ptr(v, d, 0)) = Dirents(v, Ptr(v, d, 0))
                      /\ Size(w, d) = Size(v, d)
  BY <1>5, <1>6 DEF Owns, Dirents
<1>8. OwnedInv(w, dirs2)
  <2> SUFFICES ASSUME NEW b \in Block, BlockUsed(w, b), ~IsHeader(b)
               PROVE  \E j \in Used(w), n \in 0 .. Ptrs - 1 :
                         Owns(w, dirs2, files2, j, n) /\ Ptr(w, j, n) = b
    BY DEF OwnedInv, files2
  <2>1. CASE BlockUsed(v, b)
    <3>1. \E j \in Used(v), n \in 0 .. Ptrs - 1 : Owns(v, dirs, files, j, n) /\ Ptr(v, j, n) = b
      BY <2>1 DEF Rooted, OwnedInv, files
    <3>2. PICK j \in Used(v), n \in 0 .. Ptrs - 1 : Owns(v, dirs, files, j, n) /\ Ptr(v, j, n) = b
      BY <3>1
    <3>3. Ptr(w, j, n) = b /\ Size(w, j) = Size(v, j)
      BY <1>5, <1>6, <3>2
    <3>4. Owns(w, dirs2, files2, j, n)
      BY <1>4, <3>2, <3>3 DEF Owns
    <3>5. QED  BY <1>2, <3>3, <3>4
  <2>2. CASE ~BlockUsed(v, b)
    BY <1>2, <2>2 DEF NewBlock, files2
  <2>3. QED  BY <2>1, <2>2
<1>9. DepthInv(w, dirs2, depth2)
  <2>1. depth2[Root] = 0
    BY <1>3 DEF Rooted, DepthInv
  <2>2. ASSUME NEW d \in dirs2, NEW o \in DOMAIN Dirents(w, Ptr(w, d, 0)),
               Dirents(w, Ptr(w, d, 0))[o].type = "dir"
        PROVE  depth2[Dirents(w, Ptr(w, d, 0))[o].inode] <= depth2[d] + 1
    <3>1. CASE d \in dirs
      <4> DEFINE b == Ptr(v, d, 0)
      <4>1. /\ b \in Block /\ Ptr(w, d, 0) = b /\ o \in DOMAIN Dirents(v, b)
            /\ Dirents(w, b)[o] = Dirents(v, b)[o]
        BY <1>7, <2>2, <3>1
      <4>2. Dirents(v, b)[o].inode \in dirs
        BY <1>1, <2>2, <4>1, EntryFacts
      <4>3. depth[Dirents(v, b)[o].inode] <= depth[d] + 1
        BY <2>2, <3>1, <4>1 DEF Rooted, DepthInv
      <4> HIDE DEF b
      <4>4. QED  BY <3>1, <4>1, <4>2, <4>3
    <3>2. CASE d = i
      <4>1. NewBlock(v, w, Ptr(w, i, 0)) /\ Ptr(w, i, 0) \in Block
        BY <3>2, DirIs
      <4>2. QED  BY <1>6, <2>2, <3>2, <4>1
    <3>3. QED  BY <3>1, <3>2
  <2>3. QED  BY <2>1, <2>2 DEF DepthInv
<1>10. KeepsPlaces(v, NoRm, w, NoRm, dirs)
  <2> SUFFICES ASSUME NEW d \in dirs, NEW j, PlaceIn(v, NoRm, d, j)
               PROVE  PlaceIn(w, NoRm, d, j)
    BY DEF KeepsPlaces
  <2>1. EndOf(v, NoRm, d) = Size(v, d) /\ EndOf(w, NoRm, d) = Size(w, d)
    BY <1>3, EndIsSize
  <2>2. QED  BY <1>7, <2>1, SamePlaces DEF PlaceIn
<1>11. QED  BY <1>8, <1>9, <1>10 DEF Rooted, files2

(* AddDir leaves the tree a tree, and gives the directory it names a place. *)
LEMMA AddDirTree ==
    ASSUME NEW v, NEW dirs, NEW depth, Rooted(v, dirs, depth),
           NEW d, NEW name, NEW i, DirEntryOK(v, dirs, d, name, i), depth[i] <= depth[d] + 1
    PROVE  LET w == AddDir(v, d, name, i)
           IN  /\ Rooted(w, dirs, depth) /\ Used(w) = Used(v)
               /\ KeepsPlaces(v, NoRm, w, NoRm, dirs)
               /\ name \notin {".", ".."} => PlaceIn(w, NoRm, d, i)
<1> DEFINE files == Used(v) \ dirs
           w == AddDir(v, d, name, i)
<1>1. d \in dirs /\ Sound(v, dirs, files)
  BY DEF DirEntryOK, Rooted
<1>2. PICK e : /\ e.name = name /\ e.type = "dir" /\ e.inode = i
               /\ Addable(v, dirs, files, e) /\ Added(v, w, d, e)
  BY <1>1, AddDirIs
<1> HIDE DEF w
<1>3. Rooted(w, dirs, depth) /\ Used(w) = Used(v)
  BY <1>1, <1>2, AddedTree
<1>4. e.entry_len \in Nat \ {0}
  BY <1>2 DEF Addable, Entries
<1> HIDE DEF files
<1>5. KeepsPlaces(v, NoRm, w, NoRm, dirs) /\ (~IsDot(e) => PlaceIn(w, NoRm, d, i))
  BY <1>1, <1>2, <1>4, AddedPlaces
<1>6. QED  BY <1>2, <1>3, <1>5 DEF w, IsDot

(* A new directory extends the tree by one inode, that has its place.       *)
LEMMA NewDirTree ==
    ASSUME NEW v, NEW dirs, NEW depth \in [dirs -> Nat], Rooted(v, dirs, depth),
           NEW d \in dirs, NEW name \in Name,
           NEW i \in Inode, ~InodeUsed(v, i), NEW b \in Block, ~BlockUsed(v, b),
           NEW dirs2, dirs2 = dirs \cup {i},
           NEW depth2, depth2[i] = depth[d] + 1, \A c \in dirs : depth2[c] = depth[c]
    PROVE  LET w == mk_new_directory(v, d, name, i, b)
           IN  /\ Rooted(w, dirs2, depth2) /\ Used(w) = Used(v) \cup {i}
               /\ KeepsPlaces(v, NoRm, w, NoRm, dirs)
               /\ PlaceIn(w, NoRm, d, i)
<1> DEFINE x == EmptyDir(v, i, b)
           y == AddDir(x, d, name, i)
           z == AddDir(y, i, ".", i)
           w == AddDir(z, i, "..", d)
           files == Used(v) \ dirs
<1>1. /\ Grown(v, x, i) /\ Size(x, i) = 0 /\ Ptr(x, i, 0) = b
      /\ \A c \in Block : NewBlock(v, x, c) <=> c = b
  BY NewDirGrows DEF Rooted
<1>2. mk_new_directory(v, d, name, i, b) = w
  BY DEF mk_new_directory, EmptyDir
<1> HIDE DEF x
<1>3. Sound(v, dirs, files)
  BY DEF Rooted
<1>4. i \notin dirs /\ i \notin Used(v) /\ Root \in dirs
  BY <1>3 DEF Sound, InodesInv, Used
<1>5. Used(x) = Used(v) \cup {i}
  BY <1>1 DEF Grown, Used
<1>6. Sound(x, dirs2, Used(x) \ dirs2)
  <2>1. Used(x) \ dirs2 = files
    BY <1>4, <1>5
  <2> HIDE DEF files
  <2>2. Sound(x, dirs \cup {i}, files)
    BY <1>1, <1>3, EmptyDirSound
  <2>3. QED  BY <2>1, <2>2
<1>7. depth2[i] = depth[d] + 1 /\ \A c \in dirs : depth2[c] = depth[c]
  BY <1>4
<1>8. depth[d] \in Nat
  OBVIOUS
<1>9. d \in dirs2 /\ i \in dirs2 /\ i # Root /\ dirs \subseteq dirs2
  BY <1>4
<1>10. Rooted(x, dirs2, depth2) /\ KeepsPlaces(v, NoRm, x, NoRm, dirs)
  <2>1. 0 \in 0 .. Ptrs - 1
    BY VolumeSizes
  <2>2. Owns(x, dirs2, Used(x) \ dirs2, i, 0)
    BY <1>9 DEF Owns
  <2>3. /\ dirs2 \subseteq dirs \cup {i} /\ NewBlock(v, x, Ptr(x, i, 0))
        /\ \A c \in Block : NewBlock(v, x, c) =>
              \E n \in 0 .. Ptrs - 1 : Owns(x, dirs2, Used(x) \ dirs2, i, n) /\ Ptr(x, i, n) = c
    BY <1>1, <2>1, <2>2
  <2>4. Growth(v, x, dirs, dirs2, i)
    BY <1>1, <1>6, <1>9, <2>3 DEF Growth
  <2>5. QED  BY <1>7, <2>4, GrownTree
<1>11. \A c \in Block : \A p \in DOMAIN Dirents(x, c) : Dirents(x, c)[p].inode # i
  BY <1>1, <1>3, GrownKeeps
<1>12. /\ Rooted(y, dirs2, depth2) /\ Used(y) = Used(x)
       /\ KeepsPlaces(x, NoRm, y, NoRm, dirs2) /\ PlaceIn(y, NoRm, d, i)
  <2>1. DirEntryOK(x, dirs2, d, name, i) /\ depth2[i] <= depth2[d] + 1
    BY <1>7, <1>8, <1>9, <1>11 DEF DirEntryOK
  <2>2. name \notin {".", ".."}
    BY VolumeAssumption
  <2>3. QED  BY <1>10, <2>1, <2>2, AddDirTree
<1> HIDE DEF y
<1>13. /\ Rooted(z, dirs2, depth2) /\ Used(z) = Used(y)
       /\ KeepsPlaces(y, NoRm, z, NoRm, dirs2)
  <2>1. DirEntryOK(y, dirs2, i, ".", i) /\ depth2[i] <= depth2[i] + 1
    BY <1>7, <1>8, <1>9 DEF DirEntryOK
  <2>2. QED  BY <1>12, <2>1, AddDirTree
<1> HIDE DEF z
<1>14. /\ Rooted(w, dirs2, depth2) /\ Used(w) = Used(z)
       /\ KeepsPlaces(z, NoRm, w, NoRm, dirs2)
  <2>1. DirEntryOK(z, dirs2, i, "..", d) /\ depth2[d] <= depth2[i] + 1
    BY <1>7, <1>8, <1>9 DEF DirEntryOK
  <2>2. QED  BY <1>13, <2>1, AddDirTree
<1> HIDE DEF w
<1>15. KeepsPlaces(v, NoRm, w, NoRm, dirs) /\ PlaceIn(w, NoRm, d, i)
  BY <1>9, <1>10, <1>12, <1>13, <1>14 DEF KeepsPlaces
<1>16. Used(w) = Used(v) \cup {i}
  BY <1>5, <1>12, <1>13, <1>14
<1>17. QED  BY <1>2, <1>14, <1>15, <1>16

(* So does a new file, with the depths as they are.                         *)
LEMMA PutFileTree ==
    ASSUME NEW v, NEW dirs, NEW depth, Rooted(v, dirs, depth),
           NEW d \in dirs, NEW path, Len(path) \in Nat \ {0}, Last(path) \in Name \cup {".log"},
           NEW i \in Inode, ~InodeUsed(v, i),
           NEW file \in Seq(Text), Len(file) <= Ptrs, ~Store(set_inode_used(v, i), file).full
    PROVE  LET w == PutFile(v, d, path, i, file)
           IN  /\ Rooted(w, dirs, depth) /\ Used(w) = Used(v) \cup {i} /\ i \notin dirs
               /\ KeepsPlaces(v, NoRm, w, NoRm, dirs)
               /\ PlaceIn(w, NoRm, d, i)
<1> DEFINE w == PutFile(v, d, path, i, file)
           files == Used(v) \ dirs
<1>1. Sound(v, dirs, files)
  BY DEF Rooted
<1>2. PICK x, e :
         /\ Grown(v, x, i) /\ NewFile(v, x, i) /\ Sound(x, dirs, files \cup {i})
         /\ e.type = "file" /\ e.inode = i /\ ~IsDot(e)
         /\ Addable(x, dirs, files \cup {i}, e) /\ Added(x, w, d, e)
  <2> HIDE DEF files, w
  <2>1. PICK x, e : FilePut(v, w, dirs, files \cup {i}, d, path, i, x, e)
    BY <1>1, PutFileIs DEF w
  <2>2. QED  BY <2>1 DEF FilePut
<1> HIDE DEF w
<1>3. i \notin dirs /\ i \notin Used(v)
  BY <1>1 DEF Sound, InodesInv, Used
<1>4. Used(x) = Used(v) \cup {i}
  BY <1>2 DEF Grown, Used
<1>5. Used(x) \ dirs = files \cup {i}
  BY <1>3, <1>4
<1>6. Rooted(x, dirs, depth) /\ KeepsPlaces(v, NoRm, x, NoRm, dirs)
  <2>1. \A c \in Block : NewBlock(v, x, c) =>
           \E n \in 0 .. Ptrs - 1 : Owns(x, dirs, Used(x) \ dirs, i, n) /\ Ptr(x, i, n) = c
    BY <1>2, <1>5 DEF NewFile, Owns
  <2>2. Sound(x, dirs, Used(x) \ dirs)
    BY <1>2, <1>5
  <2>3. Growth(v, x, dirs, dirs, i)
    BY <1>2, <1>3, <2>1, <2>2 DEF Growth
  <2>4. QED  BY <2>3, GrownTree
<1>7. Rooted(w, dirs, depth) /\ Used(w) = Used(x)
  BY <1>2, <1>5, <1>6, AddedTree
<1>8. KeepsPlaces(x, NoRm, w, NoRm, dirs) /\ PlaceIn(w, NoRm, d, i)
  <2>1. e.entry_len \in Nat \ {0}
    BY <1>2 DEF Addable, Entries
  <2> HIDE DEF files
  <2>2. QED  BY <1>2, <2>1, AddedPlaces
<1>9. KeepsPlaces(v, NoRm, w, NoRm, dirs)
  BY <1>6, <1>8 DEF KeepsPlaces
<1>10. QED  BY <1>3, <1>4, <1>7, <1>8, <1>9 DEF w

(* w is v when jfs_rm has removed file i, whose entry was at k of directory *)
(* d, and is yet to write what r says.                                      *)
Removal(v, w, r, dirs, d, k, i) ==
    /\ d \in dirs /\ k \in DOMAIN Dirents(v, Ptr(v, d, 0)) /\ i \in Used(v) \ dirs
    /\ Dirents(v, Ptr(v, d, 0))[k].inode = i
    /\ Dirents(v, Ptr(v, d, 0))[k].type = "file"
    /\ RemovedFrom(v, w, Ptr(v, d, 0), k, i)
    /\ r.dir = d /\ r.size = Size(v, d) - Dirents(v, Ptr(v, d, 0))[k].entry_len

(* The first commit of a jfs_rm leaves the tree a tree, without the file,   *)
(* and the other inodes their places, with the size that is yet to be       *)
(* written counted as the end of the directory.                             *)
LEMMA RemovedTree ==
    ASSUME NEW v, NEW w, NEW r, NEW dirs, NEW depth, NEW d, NEW k, NEW i,
           Rooted(v, dirs, depth), Removal(v, w, r, dirs, d, k, i)
    PROVE  /\ Rooted(w, dirs, depth) /\ Used(w) = Used(v) \ {i} /\ ShrinkInv(w, r)
           /\ \A c \in dirs : \A j : j # i /\ PlaceIn(v, NoRm, c, j) => PlaceIn(w, r, c, j)
<1> USE DEF Removal
<1> DEFINE files == Used(v) \ dirs
           b == Ptr(v, d, 0)
<1>1. Sound(v, dirs, files)
  BY DEF Rooted
<1>2. Used(w) = Used(v) \ {i} /\ Used(w) \ dirs = files \ {i}
  BY DEF RemovedFrom, Used
<1>3. i \in files /\ i \notin dirs /\ i \in Inode /\ \A c \in dirs : c \in Inode /\ c \in Used(v)
  BY <1>1 DEF Sound, InodesInv, Used
<1>4. \A j, n : Size(w, j) = Size(v, j) /\ Ptr(w, j, n) = Ptr(v, j, n)
  BY DEF RemovedFrom, Size, Ptr
<1>5. \A c \in Block : c # b => Dirents(w, c) = Dirents(v, c)
  BY DEF RemovedFrom, Dirents
<1>6. \A c \in dirs : Ptr(v, c, 0) \in Block
  BY <1>1, DirIs
<1>7. LET size == Size(v, d) - Dirents(v, Ptr(v, d, 0))[k].entry_len
      IN  Sound(w, dirs, files \ {i}) /\ size \in Nat /\ EndBefore(w, Ptr(w, d, 0), size)
  <2>1. /\ d \in dirs /\ k \in DOMAIN Dirents(v, Ptr(v, d, 0))
        /\ Dirents(v, Ptr(v, d, 0))[k].inode = i
        /\ Dirents(v, Ptr(v, d, 0))[k].type = "file"
        /\ RemovedFrom(v, w, Ptr(v, d, 0), k, i)
    OBVIOUS
  <2> HIDE DEF files, Removal
  <2>2. QED  BY <1>1, <1>3, <2>1, RemovedSound
<1>8. EndBefore(w, Ptr(w, d, 0), r.size) /\ r.size \in Nat
  <2> HIDE DEF files
  <2>1. QED  BY <1>7
<1>9. ShrinkInv(w, r)
  <2>1. Dirents(v, b)[k].entry_len \in Nat /\ Size(v, d) \in Nat
    <3>1. Dirents(v, b)[k].entry_len \in Nat
      BY <1>1, <1>6, EntryFacts
    <3>2. QED  BY <1>1, <3>1 DEF Sound, DirInv
  <2>2. r.size <= Size(w, d)
    BY <1>4, <2>1
  <2>3. QED  BY <1>8, <2>2 DEF ShrinkInv
<1>10. OwnedInv(w, dirs)
  <2> SUFFICES ASSUME NEW c \in Block, BlockUsed(w, c), ~IsHeader(c)
               PROVE  \E j \in Used(w), n \in 0 .. Ptrs - 1 :
                         Owns(w, dirs, Used(w) \ dirs, j, n) /\ Ptr(w, j, n) = c
    BY DEF OwnedInv
  <2>1. /\ BlockUsed(v, c)
        /\ \A n \in 0 .. Ptrs - 1 : n < Size(v, i) => Ptr(v, i, n) # c
    BY DEF RemovedFrom
  <2>2. PICK j \in Used(v), n \in 0 .. Ptrs - 1 : Owns(v, dirs, files, j, n) /\ Ptr(v, j, n) = c
    BY <2>1 DEF Rooted, OwnedInv
  <2> HIDE DEF files
  <2>3. j # i
    BY <1>3, <2>1, <2>2 DEF Owns
  <2>4. Owns(w, dirs, files \ {i}, j, n) /\ Ptr(w, j, n) = c
    BY <1>4, <2>2, <2>3 DEF Owns
  <2>5. QED  BY <1>2, <2>2, <2>3, <2>4
<1>11. DepthInv(w, dirs, depth)
  <2> SUFFICES ASSUME NEW c \in dirs, NEW o \in DOMAIN Dirents(w, Ptr(w, c, 0)),
                      Dirents(w, Ptr(w, c, 0))[o].type = "dir"
               PROVE  depth[Dirents(w, Ptr(w, c, 0))[o].inode] <= depth[c] + 1
    BY DEF Rooted, DepthInv
  <2>1. Ptr(w, c, 0) = Ptr(v, c, 0)
    BY <1>4
  <2>2. \E q \in DOMAIN Dirents(v, Ptr(v, c, 0)) :
           Dirents(w, Ptr(w, c, 0))[o] = Dirents(v, Ptr(v, c, 0))[q]
    <3>1. CASE Ptr(v, c, 0) = b
      BY <2>1, <3>1 DEF RemovedFrom
    <3>2. CASE Ptr(v, c, 0) # b
      BY <1>5, <1>6, <2>1, <3>2
    <3>3. QED  BY <3>1, <3>2
  <2>3. PICK q \in DOMAIN Dirents(v, Ptr(v, c, 0)) :
           Dirents(w, Ptr(w, c, 0))[o] = Dirents(v, Ptr(v, c, 0))[q]
    BY <2>2
  <2>4. QED  BY <2>3 DEF Rooted, DepthInv
<1>12. ASSUME NEW c \in dirs, NEW j, j # i, PlaceIn(v, NoRm, c, j)
       PROVE  PlaceIn(w, r, c, j)
  <2>1. EndOf(v, NoRm, c) = Size(v, c)
    BY <1>3, EndIsSize
  <2>2. CASE c # d
    <3>1. Dirents(w, Ptr(v, c, 0)) = Dirents(v, Ptr(v, c, 0)) /\ Ptr(w, c, 0) = Ptr(v, c, 0)
      <4>1. Ptr(v, c, 0) # b
        BY <1>1, <2>2, DirsApart
      <4>2. QED  BY <1>4, <1>5, <1>6, <4>1
    <3>2. EndOf(w, r, c) = Size(v, c)
      BY <1>4, <2>2 DEF EndOf
    <3>3. /\ Holds(w, c, j) <=> Holds(v, c, j)
          /\ Filled(w, c, Size(v, c)) <=> Filled(v, c, Size(v, c))
      BY <3>1, SamePlaces
    <3>4. QED  BY <1>12, <2>1, <3>2, <3>3 DEF PlaceIn
  <2>3. CASE c = d /\ Filled(w, d, r.size)
    <3>1. /\ Filled(v, d, Size(v, d))
          /\ \A q \in DOMAIN Dirents(v, b) : q # k =>
                \E o \in DOMAIN Dirents(w, b) : Dirents(w, b)[o] = Dirents(v, b)[q]
      <4> HIDE DEF files
      <4>1. QED  BY <1>1, <2>3, CutFills
    <3>2. PICK q \in DOMAIN Dirents(v, b) : ~IsDot(Dirents(v, b)[q]) /\ Dirents(v, b)[q].inode = j
      BY <1>12, <2>1, <2>3, <3>1 DEF PlaceIn, Holds
    <3>3. q # k
      BY <1>12, <3>2
    <3>4. PICK o \in DOMAIN Dirents(w, b) : Dirents(w, b)[o] = Dirents(v, b)[q]
      BY <3>1, <3>3
    <3>5. Ptr(w, d, 0) = b
      BY <1>4
    <3>6. Holds(w, d, j)
      BY <3>2, <3>4, <3>5 DEF Holds
    <3>7. QED  BY <2>3, <3>6 DEF PlaceIn
  <2>4. CASE c = d /\ ~Filled(w, d, r.size)
    BY <2>4 DEF PlaceIn, EndOf
  <2>5. QED  BY <2>2, <2>3, <2>4
<1>13. Rooted(w, dirs, depth)
  BY <1>2, <1>7, <1>10, <1>11 DEF Rooted
<1>14. QED  BY <1>2, <1>9, <1>12, <1>13

(* The second commit moves no entry.                                        *)
LEMMA ResizedTree ==
    ASSUME NEW v, NEW dirs, NEW depth, Rooted(v, dirs, depth),
           NEW r, r.dir \in dirs, r.size \in Nat, ShrinkInv(v, r)
    PROVE  LET w == Resized(v, r)
           IN  /\ Rooted(w, dirs, depth) /\ Used(w) = Used(v)
               /\ KeepsPlaces(v, r, w, NoRm, dirs)
<1> DEFINE files == Used(v) \ dirs
           w == Resized(v, r)
<1>1. Sound(v, dirs, files)
  BY DEF Rooted
<1>2. r.dir \in Inode /\ r.dir # None /\ \A c \in dirs : c \in Inode
  <2>1. \A c \in dirs : c \in Inode
    BY <1>1 DEF Sound, InodesInv
  <2>2. None \notin Inode
    BY InodeNumbers DEF None
  <2>3. QED  BY <2>1, <2>2
<1>3. EndBefore(v, Ptr(v, r.dir, 0), r.size)
  BY <1>2 DEF ShrinkInv
<1>4. Sound(w, dirs, files)
  <2> HIDE DEF files
  <2>1. QED  BY <1>1, <1>3, ResizedSound
<1>5. /\ v.inode \in [Inode -> [size : Nat \cup {None},
                                blockptrs : [0 .. Ptrs - 1 -> Block \cup {None}]]]
      /\ v = [block_bitmap |-> v.block_bitmap, inode_bitmap |-> v.inode_bitmap,
              inode |-> v.inode, data |-> v.data]
  BY <1>1, VolumeOKIs DEF Sound
<1>6. /\ w.block_bitmap = v.block_bitmap /\ w.inode_bitmap = v.inode_bitmap /\ w.data = v.data
      /\ w.inode = [v.inode EXCEPT ![r.dir].size = r.size]
  BY <1>5 DEF Resized
<1>7. \A j \in Inode, n \in 0 .. Ptrs - 1 :
         Ptr(w, j, n) = Ptr(v, j, n) /\ Size(w, j) = IF j = r.dir THEN r.size ELSE Size(v, j)
  BY <1>2, <1>5, <1>6 DEF Ptr, Size
<1> HIDE DEF w
<1>8. Used(w) = Used(v) /\ \A b : BlockUsed(w, b) <=> BlockUsed(v, b)
  BY <1>6 DEF Used, InodeUsed, BlockUsed
<1>9. \A b : Dirents(w, b) = Dirents(v, b)
  BY <1>6 DEF Dirents
<1>10. 0 \in 0 .. Ptrs - 1 /\ \A c \in dirs : Ptr(w, c, 0) = Ptr(v, c, 0)
  BY <1>2, <1>7, VolumeSizes
<1>11. OwnedInv(w, dirs)
  <2> SUFFICES ASSUME NEW b \in Block, BlockUsed(w, b), ~IsHeader(b)
               PROVE  \E j \in Used(w), n \in 0 .. Ptrs - 1 :
                         Owns(w, dirs, Used(w) \ dirs, j, n) /\ Ptr(w, j, n) = b
    BY DEF OwnedInv
  <2>1. PICK j \in Used(v), n \in 0 .. Ptrs - 1 : Owns(v, dirs, files, j, n) /\ Ptr(v, j, n) = b
    BY <1>8 DEF Rooted, OwnedInv
  <2>2. j \in Inode
    BY DEF Used
  <2>3. j \in files => Size(w, j) = Size(v, j)
    BY <1>7, <2>2
  <2> HIDE DEF files
  <2>4. Owns(w, dirs, files, j, n) /\ Ptr(w, j, n) = b
    BY <1>7, <2>1, <2>2, <2>3 DEF Owns
  <2>5. QED  BY <1>8, <2>4 DEF files
<1>12. DepthInv(w, dirs, depth)
  BY <1>9, <1>10 DEF Rooted, DepthInv
<1>13. Rooted(w, dirs, depth)
  BY <1>4, <1>8, <1>11, <1>12 DEF Rooted
<1>14. KeepsPlaces(v, r, w, NoRm, dirs)
  <2> SUFFICES ASSUME NEW c \in dirs, NEW j, PlaceIn(v, r, c, j)
               PROVE  PlaceIn(w, NoRm, c, j)
    BY DEF KeepsPlaces
  <2>1. EndOf(w, NoRm, c) = Size(w, c) /\ EndOf(v, r, c) = Size(w, c)
    BY <1>2, <1>7, <1>10, EndIsSize DEF EndOf
  <2>2. /\ Holds(w, c, j) <=> Holds(v, c, j)
        /\ Filled(w, c, Size(w, c)) <=> Filled(v, c, Size(w, c))
    BY <1>9, <1>10, SamePlaces
  <2>3. QED  BY <2>1, <2>2 DEF PlaceIn
<1>15. QED  BY <1>8, <1>13, <1>14 DEF w

(* After a crash between the commits, the directory has the size it had:    *)
(* what was in it still has its place.                                      *)
LEMMA CrashedPlaces ==
    ASSUME NEW v, NEW dirs, NEW files, Sound(v, dirs, files),
           NEW r, r.dir \in dirs, r.size \in Nat, ShrinkInv(v, r)
    PROVE  KeepsPlaces(v, r, v, NoRm, dirs)
<1> SUFFICES ASSUME NEW c \in dirs, NEW j, PlaceIn(v, r, c, j)
             PROVE  PlaceIn(v, NoRm, c, j)
  BY DEF KeepsPlaces
<1>1. r.dir \in Inode /\ r.dir # None /\ c \in Inode /\ Size(v, c) \in Nat
  <2>1. r.dir \in Inode /\ c \in Inode
    BY DEF Sound, InodesInv
  <2>2. None \notin Inode
    BY InodeNumbers DEF None
  <2>3. QED  BY <2>1, <2>2 DEF Sound, DirInv
<1>2. EndOf(v, NoRm, c) = Size(v, c)
  BY <1>1, EndIsSize
<1>3. EndOf(v, r, c) \in Nat /\ EndOf(v, r, c) <= Size(v, c)
  BY <1>1 DEF EndOf, ShrinkInv
<1>4. Filled(v, c, Size(v, c)) => Filled(v, c, EndOf(v, r, c))
  BY <1>1, <1>3, FilledLess
<1>5. QED  BY <1>2, <1>4 DEF PlaceIn

-----------------------------------------------------------------------------
(* The tools keep NoLeak.                                                   *)

(* A search does not go down faster than its path.                          *)
LEMMA DescendDepth ==
    ASSUME NEW v, NEW dirs, NEW files, NEW depth,
           Sound(v, dirs, files), DepthInv(v, dirs, depth),
           NEW types \in SUBSET {"dir", "file"}, NEW name,
           NEW d \in Reach(dirs, files, types) \cup {None, Died},
           Descend(v, d, name, types) \in dirs
    PROVE  d \in dirs /\ depth[Descend(v, d, name, types)] <= depth[d] + 1
<1> DEFINE e == Lookup(v, d, name)
<1>1. None \notin dirs /\ Died \notin dirs
  <2>1. None \notin Nat /\ Died \notin Nat
    BY DEF None, Died
  <2>2. QED  BY <2>1, InodeNumbers DEF Sound, InodesInv
<1>2. d \in dirs \cup files
  <2>1. d \notin {None, Died}
    BY <1>1 DEF Descend, None, Died
  <2>2. QED  BY <2>1 DEF Reach
<1>3. d \in Nat
  BY <1>2, InodeNumbers DEF Sound, InodesInv
<1>4. Descend(v, d, name, types) = IF e.type = "junk" THEN Died
                                   ELSE IF e.type \in types THEN e.inode ELSE None
  BY <1>3 DEF Descend
<1>5. /\ \/ e \in {Missing, Junk}
         \/ /\ \E k \in DOMAIN Dirents(v, Ptr(v, d, 0)) : e = Dirents(v, Ptr(v, d, 0))[k]
            /\ e.type \in {"dir", "file"}
            /\ e.type = "file" => e.inode \in files
      /\ d \in files => e = Junk
  BY <1>2, LookupSound
<1> HIDE DEF e
<1>6. e.type # "junk" /\ Descend(v, d, name, types) = e.inode
  BY <1>1, <1>4
<1>7. e \notin {Missing, Junk}
  BY <1>1, <1>6, NoEntryType
<1>8. d \in dirs
  BY <1>2, <1>5, <1>7
<1>9. e.type = "dir"
  BY <1>5, <1>6, <1>7 DEF Sound, InodesInv
<1>10. QED  BY <1>5, <1>6, <1>7, <1>8, <1>9 DEF DepthInv

(* So the directory part of a path is not further down than the path says.  *)
LEMMA DirOfDepth ==
    ASSUME NEW v, NEW dirs, NEW files, NEW depth \in [dirs -> Nat],
           Sound(v, dirs, files), DepthInv(v, dirs, depth),
           NEW types \in SUBSET {"dir", "file"},
           NEW path, Len(path) \in Nat \ {0}, DirOf(v, path, types) \in dirs
    PROVE  depth[DirOf(v, path, types)] <= Len(path) - 1
<1> DEFINE N == Len(path) - 1
<1>1. PICK d : /\ d[0] = Root /\ DirOf(v, path, types) = d[N]
               /\ \A n \in 1 .. N : d[n] = Descend(v, d[n - 1], path[n], types)
               /\ \A n \in 0 .. N : d[n] \in Reach(dirs, files, types) \cup {None, Died}
  BY DirOfIs
<1>2. N \in Nat
  OBVIOUS
<1> HIDE DEF N
<1> DEFINE S == {n \in 0 .. N : d[n] \in dirs => depth[d[n]] <= n}
<1>3. 0 \in S
  BY <1>1, <1>2 DEF DepthInv
<1>4. ASSUME NEW n \in 1 .. N, n - 1 \in S
      PROVE  n \in S
  <2>1. n \in 0 .. N /\ n - 1 \in 0 .. N
    BY <1>2
  <2> SUFFICES ASSUME d[n] \in dirs PROVE depth[d[n]] <= n
    BY <2>1
  <2>2. d[n - 1] \in Reach(dirs, files, types) \cup {None, Died}
    BY <1>1, <2>1
  <2>3. d[n] = Descend(v, d[n - 1], path[n], types)
    BY <1>1
  <2>4. d[n - 1] \in dirs /\ depth[d[n]] <= depth[d[n - 1]] + 1
    BY <2>2, <2>3, DescendDepth
  <2>5. depth[d[n - 1]] <= n - 1
    BY <1>4, <2>4
  <2>6. depth[d[n - 1]] \in Nat /\ depth[d[n]] \in Nat
    BY <2>4
  <2>7. QED  BY <2>1, <2>4, <2>5, <2>6
<1>5. N \in S
  <2> HIDE DEF S
  <2>1. \A n \in 0 .. N : n \in S
    BY <1>2, <1>3, <1>4, InductionUpTo
  <2>2. QED  BY <1>2, <2>1
<1>6. QED  BY <1>1, <1>5 DEF N

(* NoLeak, with its ghosts.                                                 *)
Leakless(v, r) ==
    \E dirs : \E depth \in [dirs -> 0 .. MaxDepth] :
       r.dir \in dirs \cup {None} /\ NoLeak(v, r, dirs, depth)

(* jfs_mkdir gives the new directory its place.                             *)
LEMMA MkdirLeakless ==
    ASSUME NEW v, Leakless(v, NoRm), NEW path \in Path, mkdirResult(v, path) = "ok"
    PROVE  Leakless(Made(v, path), NoRm)
<1>1. PICK dirs : \E depth \in [dirs -> 0 .. MaxDepth] : NoLeak(v, NoRm, dirs, depth)
  BY DEF Leakless
<1>2. PICK depth \in [dirs -> 0 .. MaxDepth] : NoLeak(v, NoRm, dirs, depth)
  BY <1>1
<1> DEFINE files == Used(v) \ dirs
           d == DirOf(v, path, {"dir", "file"})
           i == get_free_inode(v)
           b == get_free_block(v)
           w == Made(v, path)
           dirs2 == dirs \cup {i}
           depth2 == [j \in dirs2 |-> IF j = i THEN depth[d] + 1 ELSE depth[j]]
<1>3. Rooted(v, dirs, depth) /\ Sound(v, dirs, files) /\ DepthInv(v, dirs, depth)
  BY <1>2 DEF NoLeak, Rooted
<1>4. MaxDepth \in Nat /\ depth \in [dirs -> Nat]
  BY VolumeSizes
<1>5. /\ d \in dirs /\ Last(path) \in Name
      /\ i \in Inode /\ ~InodeUsed(v, i) /\ b \in Block /\ ~BlockUsed(v, b)
      /\ w = mk_new_directory(v, d, Last(path), i, b)
  <2> HIDE DEF files
  <2>1. QED  BY <1>3, MkdirIs
<1>6. depth[d] + 1 \in 0 .. MaxDepth
  <2>1. Len(path) \in Nat \ {0} /\ Len(path) <= MaxDepth
    BY PathIs
  <2>2. depth[d] <= Len(path) - 1
    <3> HIDE DEF files
    <3>1. QED  BY <1>3, <1>4, <1>5, <2>1, DirOfDepth
  <2> HIDE DEF d
  <2>3. QED  BY <1>4, <1>5, <2>1, <2>2
<1>7. i \notin dirs /\ i \notin Used(v) /\ dirs \subseteq Used(v) /\ Root \in dirs
  BY <1>3, <1>5 DEF Sound, InodesInv, Used
<1> HIDE DEF d, i, b, w
<1>8. /\ depth2[i] = depth[d] + 1 /\ d \in dirs2 /\ i \in dirs2 /\ dirs \subseteq dirs2
      /\ \A c \in dirs : depth2[c] = depth[c]
      /\ \A j \in dirs2 : j = i \/ j \in dirs
  BY <1>5, <1>7
<1>9. depth2 \in [dirs2 -> 0 .. MaxDepth] /\ dirs2 = dirs \cup {i}
  BY <1>6
<1> HIDE DEF dirs2, depth2
<1>10. /\ Rooted(w, dirs2, depth2) /\ Used(w) = Used(v) \cup {i}
       /\ KeepsPlaces(v, NoRm, w, NoRm, dirs)
       /\ PlaceIn(w, NoRm, d, i)
  BY <1>3, <1>4, <1>5, <1>8, <1>9, NewDirTree
<1>11. PlacedInv(w, NoRm, dirs2, depth2)
  <2> SUFFICES ASSUME NEW j \in Used(w) \ {Root}
               PROVE  Placed(w, NoRm, dirs2, depth2, j)
    BY DEF PlacedInv
  <2>1. CASE j = i
    BY <1>5, <1>8, <1>10, <2>1 DEF Placed
  <2>2. CASE j # i
    <3>1. Placed(v, NoRm, dirs, depth, j)
      BY <1>2, <1>10, <2>2 DEF NoLeak, PlacedInv
    <3>2. QED  BY <1>8, <1>10, <2>2, <3>1, StillPlaced
  <2>3. QED  BY <2>1, <2>2
<1>12. NoLeak(w, NoRm, dirs2, depth2)
  BY <1>10, <1>11 DEF NoLeak, Rooted, ShrinkInv, NoRm
<1>13. QED  BY <1>9, <1>12 DEF Leakless, NoRm, w

(* jfs_copyin gives the new file its place.                                 *)
LEMMA CopyinLeakless ==
    ASSUME NEW v, Leakless(v, NoRm), NEW path \in Path, NEW file \in Seq(Text),
           copyinResult(v, path, file) = "ok"
    PROVE  Leakless(CopiedIn(v, path, file), NoRm)
<1>1. PICK dirs : \E depth \in [dirs -> 0 .. MaxDepth] : NoLeak(v, NoRm, dirs, depth)
  BY DEF Leakless
<1>2. PICK depth \in [dirs -> 0 .. MaxDepth] : NoLeak(v, NoRm, dirs, depth)
  BY <1>1
<1> DEFINE files == Used(v) \ dirs
           d == DirOf(v, path, {"dir"})
           i == get_free_inode(v)
           cut == Truncated(file)
           w == CopiedIn(v, path, file)
<1>3. Rooted(v, dirs, depth) /\ Sound(v, dirs, files)
  BY <1>2 DEF NoLeak, Rooted
<1>4. /\ d \in dirs /\ Last(path) \in Name
      /\ i \in Inode /\ ~InodeUsed(v, i)
      /\ cut \in Seq(Text) /\ Len(cut) <= Ptrs /\ ~Store(set_inode_used(v, i), cut).full
      /\ w = PutFile(v, d, path, i, cut)
  <2> HIDE DEF files
  <2>1. QED  BY <1>3, CopyinIs
<1>5. Len(path) \in Nat \ {0}
  BY PathIs
<1> HIDE DEF d, i, cut, w
<1>6. /\ Rooted(w, dirs, depth) /\ Used(w) = Used(v) \cup {i} /\ i \notin dirs
      /\ KeepsPlaces(v, NoRm, w, NoRm, dirs)
      /\ PlaceIn(w, NoRm, d, i)
  BY <1>3, <1>4, <1>5, PutFileTree
<1>7. PlacedInv(w, NoRm, dirs, depth)
  <2> SUFFICES ASSUME NEW j \in Used(w) \ {Root}
               PROVE  Placed(w, NoRm, dirs, depth, j)
    BY DEF PlacedInv
  <2>1. CASE j = i
    BY <1>4, <1>6, <2>1 DEF Placed
  <2>2. CASE j # i
    <3>1. Placed(v, NoRm, dirs, depth, j)
      BY <1>2, <1>6, <2>2 DEF NoLeak, PlacedInv
    <3>2. QED  BY <1>6, <3>1, StillPlaced
  <2>3. QED  BY <2>1, <2>2
<1>8. NoLeak(w, NoRm, dirs, depth)
  BY <1>6, <1>7 DEF NoLeak, Rooted, ShrinkInv, NoRm
<1>9. QED  BY <1>8 DEF Leakless, NoRm, w

(* The first transaction of jfs_rm frees what its entry names, and nothing  *)
(* else.                                                                    *)
LEMMA RemoveLeakless ==
    ASSUME NEW v, Leakless(v, NoRm), NEW path \in Path, rmResult(v, path) = "rm"
    PROVE  Leakless(Removed(v, path), ToResize(v, path)) /\ ToResize(v, path).dir # None
<1>1. PICK dirs : \E depth \in [dirs -> 0 .. MaxDepth] : NoLeak(v, NoRm, dirs, depth)
  BY DEF Leakless
<1>2. PICK depth \in [dirs -> 0 .. MaxDepth] : NoLeak(v, NoRm, dirs, depth)
  BY <1>1
<1> DEFINE files == Used(v) \ dirs
           d == DirOf(v, path, {"dir"})
           k == FoundAt(v, path)
           e == FoundEntry(v, path)
           w == Removed(v, path)
           r == ToResize(v, path)
<1>3. Rooted(v, dirs, depth) /\ Sound(v, dirs, files)
  BY <1>2 DEF NoLeak, Rooted
<1>4. /\ d \in dirs /\ k \in DOMAIN Dirents(v, Ptr(v, d, 0))
      /\ e = Dirents(v, Ptr(v, d, 0))[k] /\ e.type = "file" /\ e.inode \in files
      /\ RemovedFrom(v, w, Ptr(v, d, 0), k, e.inode)
      /\ r = [dir |-> d, size |-> Size(v, d) - e.entry_len]
  <2> HIDE DEF files
  <2>1. QED  BY <1>3, RemoveIs
<1>5. e.inode \in Used(v) \ dirs
  BY <1>4
<1> DEFINE i == e.inode
<1> HIDE DEF d, k, e, w, r
<1>6. Removal(v, w, r, dirs, d, k, i)
  BY <1>4, <1>5 DEF Removal
<1> HIDE DEF i
<1>7. /\ Rooted(w, dirs, depth) /\ Used(w) = Used(v) \ {i} /\ ShrinkInv(w, r)
      /\ \A c \in dirs : \A j : j # i /\ PlaceIn(v, NoRm, c, j) => PlaceIn(w, r, c, j)
  BY <1>3, <1>6, RemovedTree
<1>8. PlacedInv(w, r, dirs, depth)
  <2> SUFFICES ASSUME NEW j \in Used(w) \ {Root}
               PROVE  Placed(w, r, dirs, depth, j)
    BY DEF PlacedInv
  <2>1. Placed(v, NoRm, dirs, depth, j) /\ j # i
    BY <1>2, <1>7 DEF NoLeak, PlacedInv
  <2>2. QED  BY <1>7, <2>1 DEF Placed
<1>9. NoLeak(w, r, dirs, depth)
  BY <1>7, <1>8 DEF NoLeak, Rooted
<1>10. d # None
  <2>1. d \in Inode
    BY <1>3, <1>4 DEF Sound, InodesInv
  <2>2. QED  BY <2>1, InodeNumbers DEF None
<1>11. QED  BY <1>4, <1>9, <1>10 DEF Leakless, w, r

(* Both ends of a jfs_rm: its second commit, and a crash before it.         *)
LEMMA ResizeLeakless ==
    ASSUME NEW v, NEW r, Leakless(v, r), r.dir # None, r.size \in Nat
    PROVE  Leakless(Resized(v, r), NoRm) /\ Leakless(v, NoRm)
<1>1. PICK dirs : \E depth \in [dirs -> 0 .. MaxDepth] :
                     r.dir \in dirs \cup {None} /\ NoLeak(v, r, dirs, depth)
  BY DEF Leakless
<1>2. PICK depth \in [dirs -> 0 .. MaxDepth] :
              r.dir \in dirs \cup {None} /\ NoLeak(v, r, dirs, depth)
  BY <1>1
<1> DEFINE files == Used(v) \ dirs
<1>3. /\ Rooted(v, dirs, depth) /\ Sound(v, dirs, files) /\ ShrinkInv(v, r)
      /\ r.dir \in dirs /\ r.size \in Nat
  BY <1>2 DEF NoLeak, Rooted
<1>4. ASSUME NEW w, Rooted(w, dirs, depth), Used(w) = Used(v), KeepsPlaces(v, r, w, NoRm, dirs)
      PROVE  Leakless(w, NoRm)
  <2>1. PlacedInv(w, NoRm, dirs, depth)
    <3> SUFFICES ASSUME NEW j \in Used(w) \ {Root}
                 PROVE  Placed(w, NoRm, dirs, depth, j)
      BY DEF PlacedInv
    <3>1. Placed(v, r, dirs, depth, j)
      BY <1>2, <1>4 DEF NoLeak, PlacedInv
    <3>2. QED  BY <1>4, <3>1, StillPlaced
  <2>2. NoLeak(w, NoRm, dirs, depth)
    BY <1>4, <2>1 DEF NoLeak, Rooted, ShrinkInv, NoRm
  <2>3. QED  BY <2>2 DEF Leakless, NoRm
<1>5. KeepsPlaces(v, r, v, NoRm, dirs)
  <2> HIDE DEF files
  <2>1. QED  BY <1>3, CrashedPlaces
<1>6. Leakless(v, NoRm)
  BY <1>3, <1>4, <1>5
<1>7. Leakless(Resized(v, r), NoRm)
  <2> DEFINE w == Resized(v, r)
  <2>1. Rooted(w, dirs, depth) /\ Used(w) = Used(v) /\ KeepsPlaces(v, r, w, NoRm, dirs)
    BY <1>3, ResizedTree
  <2> HIDE DEF w
  <2>2. Leakless(w, NoRm)
    BY <1>4, <2>1
  <2>3. QED  BY <2>2 DEF w
<1>8. QED  BY <1>6, <1>7

(* What jfs_format makes.                                                   *)
LEMMA FormatLeakless == Leakless(create_log_file(create_fs_root(NewGroups)), NoRm)
<1> DEFINE b == get_free_block(NewGroups)
           x == RootVolume(b)
           y == AddDir(x, Root, ".", Root)
           v == NewRoot
           i == get_free_inode(v)
           path == <<".log">>
           w == create_log_file(create_fs_root(NewGroups))
           dirs == {Root}
           depth == [d \in dirs |-> 0]
<1>1. /\ b \in Block /\ ~BlockUsed(NewGroups, b)
      /\ i # None /\ ~Store(set_inode_used(v, i), LogFile).full
      /\ LogFile \in Seq(Text) /\ Len(LogFile) <= Ptrs
      /\ Len(path) \in Nat \ {0} /\ Last(path) \in Name \cup {".log"}
      /\ w = PutFile(v, Root, path, i, LogFile)
  BY FormatIs
<1>2. v = AddDir(y, Root, "..", Root)
  BY DEF NewRoot
<1>3. /\ Sound(x, {Root}, {}) /\ Ptr(x, Root, 0) = b
      /\ \A c \in Block : BlockUsed(x, c) <=> IsHeader(c) \/ c = b
      /\ \A j \in Inode : InodeUsed(x, j) <=> j = Root
      /\ \A c \in Block : DOMAIN Dirents(x, c) = {}
  <2> HIDE DEF b
  <2> QED  BY <1>1, RootSound
<1>4. /\ Root \in dirs /\ depth[Root] = 0 /\ depth[Root] <= depth[Root] + 1
      /\ depth \in [dirs -> 0 .. MaxDepth] /\ \A d \in dirs : d = Root
  BY VolumeSizes
<1> HIDE DEF x, b
<1>5. Rooted(x, dirs, depth) /\ Used(x) = {Root}
  <2>1. Used(x) = {Root} /\ Used(x) \ dirs = {}
    BY <1>3, InodeNumbers DEF Used
  <2>2. Sound(x, dirs, Used(x) \ dirs)
    BY <1>3, <2>1
  <2>3. OwnedInv(x, dirs)
    <3>1. 0 \in 0 .. Ptrs - 1
      BY VolumeSizes
    <3>2. \A c \in Block : BlockUsed(x, c) => \/ IsHeader(c)
                                              \/ /\ Owns(x, dirs, Used(x) \ dirs, Root, 0)
                                                 /\ Ptr(x, Root, 0) = c
      BY <1>3 DEF Owns
    <3>3. QED  BY <2>1, <3>1, <3>2 DEF OwnedInv
  <2> HIDE DEF dirs, depth
  <2>4. DepthInv(x, dirs, depth)
    <3>1. \A d \in dirs : DOMAIN Dirents(x, Ptr(x, d, 0)) = {}
      BY <1>1, <1>3, <1>4
    <3>2. QED  BY <1>4, <3>1 DEF DepthInv
  <2>5. QED  BY <2>1, <2>2, <2>4, <2>3 DEF Rooted
<1> HIDE DEF y, v, i, path, w, dirs, depth
<1>6. Rooted(y, dirs, depth) /\ Used(y) = Used(x)
  BY <1>4, <1>5, AddDirTree DEF DirEntryOK, y
<1>7. Rooted(v, dirs, depth) /\ Used(v) = Used(y)
  BY <1>2, <1>4, <1>6, AddDirTree DEF DirEntryOK
<1>8. i \in Inode /\ ~InodeUsed(v, i)
  <2>1. IsVolume(v)
    BY <1>7 DEF Rooted, Sound, VolumeOK
  <2>2. QED  BY <1>1, <2>1, FreeInode DEF i
<1>9. /\ Rooted(w, dirs, depth) /\ Used(w) = Used(v) \cup {i} /\ i \notin dirs
      /\ PlaceIn(w, NoRm, Root, i)
  BY <1>1, <1>4, <1>7, <1>8, PutFileTree
<1>10. PlacedInv(w, NoRm, dirs, depth)
  <2>1. \A j \in Used(w) \ {Root} : j = i
    BY <1>5, <1>6, <1>7, <1>9
  <2>2. QED  BY <1>4, <1>9, <2>1 DEF PlacedInv, Placed
<1>11. NoLeak(w, NoRm, dirs, depth)
  BY <1>9, <1>10 DEF NoLeak, Rooted, ShrinkInv, NoRm
<1>12. QED  BY <1>4, <1>11 DEF Leakless, NoRm, w

-----------------------------------------------------------------------------
(* LeakInv is inductive.                                                    *)

(* It says that the volume is leakless.                                     *)
LEMMA LeaklessIs ==
    ASSUME NEW v, NEW r
    PROVE  Leakless(v, r) <=>
              \E dirs \in SUBSET Used(v) :
                 /\ KnownDirs(v, r) \subseteq dirs
                 /\ \E depth \in [dirs -> 0 .. MaxDepth] : NoLeak(v, r, dirs, depth)
<1>1. ASSUME Leakless(v, r)
      PROVE  \E dirs \in SUBSET Used(v) :
                /\ KnownDirs(v, r) \subseteq dirs
                /\ \E depth \in [dirs -> 0 .. MaxDepth] : NoLeak(v, r, dirs, depth)
  <2>1. PICK dirs : \E depth \in [dirs -> 0 .. MaxDepth] :
                       r.dir \in dirs \cup {None} /\ NoLeak(v, r, dirs, depth)
    BY <1>1 DEF Leakless
  <2> DEFINE files == Used(v) \ dirs
  <2>2. Sound(v, dirs, files) /\ r.dir \in dirs \cup {None}
    BY <2>1 DEF NoLeak
  <2>3. dirs \subseteq Used(v) /\ Root \in dirs
    BY <2>2 DEF Sound, InodesInv, Used
  <2> HIDE DEF files
  <2>4. Named(v, "dir") \subseteq dirs
    BY <2>2, EntryFacts DEF Named
  <2>5. QED  BY <2>1, <2>2, <2>3, <2>4 DEF KnownDirs
<1>2. QED  BY <1>1 DEF Leakless, KnownDirs

(* The volume starts leakless.                                              *)
LEMMA LeakInvInit == Init => LeakInv
BY FormatLeakless, LeaklessIs DEF Init, Idle, LeakInv

(* Every step keeps it.                                                     *)
LEMMA LeakStep == ASSUME ~RmFull PROVE VolumeInv /\ LeakInv /\ [Next]_vars => LeakInv'
<1> SUFFICES ASSUME VolumeInv, LeakInv, [Next]_vars PROVE LeakInv'
  OBVIOUS
<1>1. Leakless(vol, rm) /\ (rm.dir = None => Idle)
  BY LeaklessIs DEF LeakInv
<1>2. ASSUME rm' = NoRm, Leakless(vol', NoRm)
      PROVE  LeakInv'
  <2>1. Leakless(vol', rm') /\ (rm'.dir = None => Idle')
    BY <1>2 DEF Idle
  <2>2. QED  BY <2>1, LeaklessIs DEF LeakInv
<1>3. ASSUME ~Idle
      PROVE  Leakless(Resized(vol, rm), NoRm) /\ Leakless(vol, NoRm)
  <2>1. rm.dir # None /\ rm.size \in Nat
    BY <1>1, <1>3 DEF VolumeInv, TypeOK
  <2>2. QED  BY <1>1, <2>1, ResizeLeakless
<1>4. CASE UNCHANGED vars
  BY <1>4 DEF vars, LeakInv, Idle
<1>5. ASSUME NEW path \in Path, mkdir(path)
      PROVE  LeakInv'
  <2>1. rm = NoRm /\ rm' = NoRm
    BY <1>5 DEF mkdir, Idle
  <2>2. Leakless(vol', NoRm)
    BY <1>1, <1>5, <2>1, MkdirLeakless DEF mkdir
  <2>3. QED  BY <1>2, <2>1, <2>2
<1>6. ASSUME NEW path \in Path, NEW file \in File, copyin(path, file)
      PROVE  LeakInv'
  <2>1. rm = NoRm /\ rm' = NoRm /\ file \in Seq(Text)
    BY <1>6, VolumeAssumption DEF copyin, Idle
  <2>2. Leakless(vol', NoRm)
    BY <1>1, <1>6, <2>1, CopyinLeakless DEF copyin
  <2>3. QED  BY <1>2, <2>1, <2>2
<1>7. ASSUME NEW path \in Path, jfs_remove_file(path)
      PROVE  LeakInv'
  <2>1. rm = NoRm
    BY <1>7, RmIs
  <2>2. CASE result' = "rm"
    <3>1. vol' = Removed(vol, path) /\ rm' = ToResize(vol, path) /\ rmResult(vol, path) = "rm"
      BY <1>7, <2>2, RmIs
    <3>2. Leakless(vol', rm') /\ rm'.dir # None
      BY <1>1, <2>1, <3>1, RemoveLeakless
    <3>3. QED  BY <3>2, LeaklessIs DEF LeakInv
  <2>3. CASE result' # "rm"
    <3>1. vol' = vol /\ rm' = NoRm
      BY <1>7, <2>3, RmIs
    <3>2. QED  BY <1>1, <1>2, <2>1, <3>1
  <2>4. QED  BY <2>2, <2>3
<1>8. CASE change_dir_size
  BY <1>2, <1>3, <1>8 DEF change_dir_size
<1>9. CASE CrashBetweenCommits
  BY <1>2, <1>3, <1>9 DEF CrashBetweenCommits
<1>10. QED  BY <1>4, <1>5, <1>6, <1>7, <1>8, <1>9 DEF Next

(* A directory that is full of entries has those of all that is in it: what *)
(* is in use and has no entry is missing from one that counts bytes no      *)
(* entry fills, if no file that uses every block pointer is removed.        *)
THEOREM NothingIsLost == ASSUME ~RmFull PROVE Spec => []LeakInv
<1>1. LeakInv /\ VolumeInv /\ [Next]_vars => LeakInv'
  BY LeakStep
<1>2. QED  BY <1>1, LeakInvInit, VolumeStaysSound, PTL DEF Spec

-----------------------------------------------------------------------------
(* Walks that read no garbage.                                              *)

(* Such a walk reads every entry, and there are entries all the way.        *)
LEMMA SafeWalk ==
    ASSUME NEW v, NEW dirs, NEW files, Sound(v, dirs, files), NEW d \in dirs,
           \A k \in Walked(v, d) : Entry(v, d, k).type # "junk"
    PROVE  /\ Filled(v, d, Size(v, d))
           /\ \A o \in DOMAIN Dirents(v, Ptr(v, d, 0)) : o \in Walked(v, d)
<1> DEFINE b == Ptr(v, d, 0)
           dir == Dirents(v, b)
           size == Size(v, d)
           W == Walked(v, d)
<1>1. b \in Block /\ Dir(v, d) = dir /\ Walkable(Dir(v, d))
  BY DirIs
<1>2. size \in Nat /\ \A o \in DOMAIN dir : o + dir[o].entry_len <= size
  BY DEF Sound, DirInv, EndBefore
<1>3. WalksOn(dir, size, 0, W)
  BY <1>1, WalkedIs
<1>4. \A k \in W : k \in DOMAIN dir
  BY ReadEntry
<1>5. \A k \in DOMAIN dir : k \in Nat /\ dir[k].entry_len \in Nat \ {0}
  BY <1>1, EntryFacts
<1> HIDE DEF dir, size, W, b
<1>6. /\ W \subseteq Nat /\ 0 \in W
      /\ \A j \in W : ~(j + dir[j].entry_len >= size) => j + dir[j].entry_len \in W
  BY <1>3, <1>4 DEF WalksOn, EntryAt
<1>7. ASSUME NEW n \in 0 .. size - 1
      PROVE  \E j \in W : j <= n /\ n < j + dir[j].entry_len
  <2> DEFINE S == {m \in 0 .. n : n - m \in W}
  <2>1. S \in SUBSET Nat /\ n \in S
    BY <1>6
  <2>2. PICK m \in S : \A k \in S : m <= k
    <3> HIDE DEF S
    <3> QED  BY <2>1, LeastExists
  <2> DEFINE j == n - m
             next == j + dir[j].entry_len
  <2>3. j \in W /\ j <= n /\ m \in 0 .. n /\ n = j + m
    OBVIOUS
  <2>4. j \in Nat /\ dir[j].entry_len \in Nat \ {0}
    BY <1>4, <1>5, <2>3
  <2> HIDE DEF j
  <2>5. n < next
    <3> SUFFICES ASSUME next <= n PROVE FALSE
      BY <2>4
    <3>1. next \in W
      BY <1>2, <1>6, <2>3, <2>4
    <3>2. n - next \in S
      <4>1. n - next \in 0 .. n /\ n - (n - next) = next
        BY <2>4
      <4>2. QED  BY <3>1, <4>1
    <3>3. n - next < m
      BY <2>3, <2>4
    <3>4. QED  BY <2>2, <2>3, <2>4, <3>2, <3>3
  <2>6. QED  BY <2>3, <2>5
<1>8. Filled(v, d, size)
  <2>1. Fills(dir, size)
    BY <1>4, <1>7 DEF Fills
  <2>2. QED  BY <2>1 DEF Filled, dir, b
<1>9. ASSUME NEW o \in DOMAIN dir
      PROVE  o \in W
  <2>1. o \in 0 .. size - 1 /\ o < o + dir[o].entry_len
    BY <1>2, <1>5
  <2>2. PICK j \in W : j <= o /\ o < j + dir[j].entry_len
    BY <1>7, <2>1
  <2>3. j = o
    BY <1>1, <1>4, <2>1, <2>2, OneFills DEF dir
  <2>4. QED  BY <2>2, <2>3
<1>10. QED  BY <1>8, <1>9 DEF W, size, dir, b

(* A safe walk through a directory meets everything that has its place      *)
(* there.                                                                   *)
LEMMA SafeWalkMeets ==
    ASSUME NEW v, NEW dirs, NEW files, Sound(v, dirs, files), WalkSafe(v),
           NEW p \in Places(v), NEW i, PlaceIn(v, NoRm, p.inode, i)
    PROVE  \E k \in Walked(v, p.inode) :
              LET e == Entry(v, p.inode, k)
              IN  /\ ~IsDot(e) /\ e.inode = i
                  /\ e.type = IF i \in dirs THEN "dir" ELSE "file"
                  /\ e.name \in Name \cup {".", "..", ".log"}
<1> DEFINE d == p.inode
           b == Ptr(v, d, 0)
<1>1. d \in dirs /\ d \in Dirs(v) /\ d \in Inode
  BY PlacesHaveDirs DEF PlaceOf, Dirs, Sound, InodesInv
<1> HIDE DEF d
<1>2. \A k \in Walked(v, d) : Entry(v, d, k).type # "junk"
  BY <1>1 DEF WalkSafe
<1>3. /\ Filled(v, d, Size(v, d))
      /\ \A o \in DOMAIN Dirents(v, b) : o \in Walked(v, d)
  BY <1>1, <1>2, SafeWalk
<1>4. Holds(v, d, i)
  BY <1>1, <1>3, EndIsSize DEF PlaceIn, d
<1>5. PICK o \in DOMAIN Dirents(v, b) : ~IsDot(Dirents(v, b)[o]) /\ Dirents(v, b)[o].inode = i
  BY <1>4 DEF Holds
<1>6. o \in Walked(v, d)
  BY <1>3
<1>7. LET e == Dirents(v, b)[o]
      IN  /\ Entry(v, d, o) = e
          /\ e.name \in Name \cup {".", "..", ".log"} /\ e.type \in {"dir", "file"}
          /\ e.type = "dir" => e.inode \in dirs
          /\ e.type = "file" => e.inode \in files
  BY <1>1, <1>2, <1>6, ReadEntry
<1>8. i \in files => i \notin dirs
  BY DEF Sound, InodesInv
<1>9. QED  BY <1>5, <1>6, <1>7, <1>8 DEF d

(* If no walk reads garbage, the walks come to every directory.             *)
LEMMA AllDirsAreReached ==
    ASSUME NEW v, NEW dirs, NEW depth \in [dirs -> 0 .. MaxDepth],
           NoLeak(v, NoRm, dirs, depth), WalkSafe(v)
    PROVE  \A d \in dirs : \E p \in Places(v) : p.inode = d
<1> DEFINE files == Used(v) \ dirs
<1>1. Sound(v, dirs, files)
  BY DEF NoLeak
<1>2. PICK level : level \in Levels(v, dirs)
  <2> HIDE DEF files
  <2> QED  BY <1>1, PlacesAre
<1>3. /\ \A n \in 0 .. MaxDepth : \A p \in level[n] : p \in Places(v)
      /\ level[0] = {[path |-> <<>>, inode |-> Root]}
      /\ \A n \in 1 .. MaxDepth : level[n] = UNION {Subdirs(v, p) : p \in level[n - 1]}
  BY <1>2 DEF Levels
<1>4. /\ MaxDepth \in Nat /\ Root \in dirs /\ depth[Root] = 0
      /\ \A d \in dirs : d \in Used(v) /\ depth[d] \in 0 .. MaxDepth
  BY <1>1, VolumeSizes DEF Sound, InodesInv, Used, NoLeak, DepthInv
<1> DEFINE S == {n \in 0 .. MaxDepth :
                    \A d \in dirs : depth[d] = n => \E p \in level[n] : p.inode = d}
<1>5. \A d \in dirs : d # Root =>
         \E c \in dirs : PlaceIn(v, NoRm, c, d) /\ depth[d] = depth[c] + 1
  BY <1>4 DEF NoLeak, PlacedInv, Placed
<1> HIDE DEF files
<1>6. 0 \in S
  <2>1. \A d \in dirs : depth[d] = 0 => d = Root
    BY <1>4, <1>5
  <2>2. [path |-> <<>>, inode |-> Root] \in level[0]
    BY <1>3
  <2>3. QED  BY <1>4, <2>1, <2>2
<1>7. ASSUME NEW n \in 1 .. MaxDepth, n - 1 \in S
      PROVE  n \in S
  <2> SUFFICES ASSUME NEW d \in dirs, depth[d] = n
               PROVE  \E q \in level[n] : q.inode = d
    BY <1>4
  <2>1. d # Root
    BY <1>4
  <2>2. PICK c \in dirs : PlaceIn(v, NoRm, c, d) /\ depth[d] = depth[c] + 1
    BY <1>5, <2>1
  <2>3. depth[c] = n - 1
    BY <1>4, <2>2
  <2>4. PICK p \in level[n - 1] : p.inode = c
    BY <1>7, <2>3
  <2>5. p \in Places(v)
    BY <1>3, <1>4
  <2>6. PICK k \in Walked(v, p.inode) :
           LET e == Entry(v, p.inode, k)
           IN  ~IsDot(e) /\ e.inode = d /\ e.type = IF d \in dirs THEN "dir" ELSE "file"
    BY <1>1, <2>2, <2>4, <2>5, SafeWalkMeets
  <2> DEFINE q == [path |-> Append(p.path, Entry(v, p.inode, k).name),
                   inode |-> Entry(v, p.inode, k).inode]
  <2>7. q \in Subdirs(v, p) /\ q.inode = d
    BY <2>6 DEF Subdirs, IsDot
  <2> HIDE DEF q
  <2>8. q \in level[n]
    BY <1>3, <2>4, <2>7
  <2>9. QED  BY <2>7, <2>8
<1>8. \A n \in 0 .. MaxDepth : n \in S
  <2> HIDE DEF S
  <2> QED  BY <1>4, <1>6, <1>7, InductionUpTo
<1>9. QED
  <2> TAKE d \in dirs
  <2>1. PICK p \in level[depth[d]] : p.inode = d
    BY <1>4, <1>8
  <2>2. QED  BY <1>3, <1>4, <2>1

(* So jfs_fsck finds all that is in use.                                    *)
LEMMA AllIsFound ==
    ASSUME NEW v, NEW dirs, NEW depth \in [dirs -> 0 .. MaxDepth],
           NoLeak(v, NoRm, dirs, depth), WalkSafe(v)
    PROVE  /\ \A i \in Inode : InodeUsed(v, i) => InodeFound(v, i)
           /\ \A b \in Block : BlockUsed(v, b) => BlockFound(v, b)
<1> DEFINE files == Used(v) \ dirs
<1>1. Sound(v, dirs, files) /\ Root \in dirs
  BY DEF NoLeak, Sound, InodesInv
<1>2. ASSUME NEW i \in Used(v) \ {Root}
      PROVE  \E x \in Listed(v) : /\ Target(v, x) = i
                                  /\ i \in files => x \in FileEntries(v)
  <2>1. PICK c \in dirs : PlaceIn(v, NoRm, c, i)
    BY DEF NoLeak, PlacedInv, Placed
  <2>2. i \in files => i \notin dirs
    OBVIOUS
  <2> HIDE DEF files
  <2>3. PICK p \in Places(v) : p.inode = c
    BY AllDirsAreReached
  <2>4. PICK k \in Walked(v, p.inode) :
           LET e == Entry(v, p.inode, k)
           IN  /\ ~IsDot(e) /\ e.inode = i /\ e.type = IF i \in dirs THEN "dir" ELSE "file"
               /\ e.name \in Name \cup {".", "..", ".log"}
    BY <1>1, <2>1, <2>3, SafeWalkMeets
  <2> DEFINE e == Entry(v, p.inode, k)
             x == [path |-> Append(p.path, e.name), dir |-> p.inode, offset |-> k]
  <2>5. ~IsDot(e) /\ e.inode = i /\ e.type = IF i \in dirs THEN "dir" ELSE "file"
    BY <2>4
  <2>6. x \in Met(v)
    <3> DEFINE here(q) == {[path |-> Append(q.path, Entry(v, q.inode, j).name),
                            dir |-> q.inode, offset |-> j] : j \in Walked(v, q.inode)}
    <3>1. x \in here(p)
      OBVIOUS
    <3>2. Met(v) = UNION {here(q) : q \in Places(v)}
      BY DEF Met
    <3> HIDE DEF here, x
    <3>3. QED  BY <3>1, <3>2
  <2>7. Last(x.path) = e.name
    <3>1. p.path \in Seq(Name \cup {".", "..", ".log"}) /\ e.name \in Name \cup {".", "..", ".log"}
      BY <1>1, <2>4, PlacesHaveDirs DEF PlaceOf
    <3>2. x.path = Append(p.path, e.name)
      OBVIOUS
    <3> HIDE DEF e, x
    <3>3. Len(Append(p.path, e.name)) = Len(p.path) + 1
          /\ Append(p.path, e.name)[Len(p.path) + 1] = e.name
      BY <3>1
    <3>4. QED  BY <3>2, <3>3 DEF Last
  <2>8. Entry(v, x.dir, x.offset) = e
    OBVIOUS
  <2> HIDE DEF e, x
  <2>9. x \in Listed(v) /\ Target(v, x) = i
    BY <2>5, <2>6, <2>7, <2>8 DEF Listed, IsDot, Target
  <2>10. QED  BY <2>2, <2>5, <2>8, <2>9 DEF FileEntries
<1>3. \A i \in Inode : InodeUsed(v, i) => InodeFound(v, i)
  BY <1>2 DEF Used, InodeFound
<1>4. ASSUME NEW b \in Block, BlockUsed(v, b), ~IsHeader(b)
      PROVE  BlockFound(v, b)
  <2>1. PICK i \in Used(v), n \in 0 .. Ptrs - 1 : Owns(v, dirs, files, i, n) /\ Ptr(v, i, n) = b
    BY <1>4 DEF NoLeak, OwnedInv
  <2>2. CASE i \in dirs /\ n = 0
    <3>1. i \in Dirs(v)
      BY <2>2, AllDirsAreReached DEF Dirs
    <3>2. QED  BY <2>1, <2>2, <3>1 DEF BlockFound
  <2>3. CASE i \in files /\ n < Size(v, i)
    <3>1. i # Root
      BY <1>1, <2>3
    <3>2. PICK x \in Listed(v) : Target(v, x) = i /\ x \in FileEntries(v)
      BY <1>2, <2>3, <3>1
    <3>3. QED  BY <2>1, <3>2 DEF BlockFound
  <2>4. QED  BY <2>1, <2>2, <2>3 DEF Owns
<1>5. QED  BY <1>3, <1>4 DEF BlockFound

(* Nothing leaks: if no walk reads garbage, jfs_fsck finds in use what is   *)
(* marked as used, and nothing else, whatever jfs_mkdir, jfs_copyin and     *)
(* jfs_rm have done in whatever order, and wherever jfs_rm has died, as long *)
(* as they remove no file that uses every block pointer.                    *)
THEOREM NothingLeaks == ASSUME ~RmFull PROVE Spec => []FsckClean
<1>1. VolumeInv /\ LeakInv => FsckClean
  <2> SUFFICES ASSUME VolumeInv, LeakInv, WalkSafe(vol)
               PROVE  InodeUses(vol) = InodeMarks(vol) /\ BlockUses(vol) = BlockMarks(vol)
    BY DEF FsckClean
  <2>1. Leakless(vol, NoRm)
    <3>1. Leakless(vol, rm)
      BY LeaklessIs DEF LeakInv
    <3>2. CASE Idle
      BY <3>1, <3>2 DEF Idle
    <3>3. CASE ~Idle
      <4>1. rm.dir # None /\ rm.size \in Nat
        BY <3>3 DEF LeakInv, VolumeInv, TypeOK
      <4>2. QED  BY <3>1, <4>1, ResizeLeakless
    <3>4. QED  BY <3>2, <3>3
  <2>2. /\ \A i \in Inode : InodeUsed(vol, i) => InodeFound(vol, i)
        /\ \A b \in Block : BlockUsed(vol, b) => BlockFound(vol, b)
    BY <2>1, AllIsFound DEF Leakless
  <2> DEFINE dirs == KnownDirs(vol, rm)
             files == Named(vol, "file")
  <2>3. Sound(vol, dirs, files)
    BY DEF VolumeInv
  <2> HIDE DEF dirs, files
  <2>4. \A i \in Inode : InodeUses(vol)[i] = InodeMarks(vol)[i]
    BY <2>2, <2>3, InodesAreOwned
  <2>5. \A b \in Block : BlockUses(vol)[b] = BlockMarks(vol)[b]
    BY <2>2, <2>3, BlocksAreOwned
  <2>6. QED  BY <2>4, <2>5 DEF InodeUses, InodeMarks, BlockUses, BlockMarks
<1>2. QED  BY <1>1, VolumeStaysSound, NothingIsLost, PTL
=============================================================================

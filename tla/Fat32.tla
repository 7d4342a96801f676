-------------------------------- MODULE Fat32 --------------------------------
(***************************************************************************)
(* The FAT32 file system (fat32.c) under sys_open, sys_close, sys_read,    *)
(* sys_write and sys_lseek (sys.c).  A task sleeps in every transfer of the *)
(* disk driver, so a step is what it does up to the end of one transfer.   *)
(* FAT32 has no cache and no locks: whatever it looks up it reads, whatever *)
(* it changes it reads, changes and writes back, sector by sector.  Names   *)
(* are abstracted: a file is the place of its directory entry.  The one    *)
(* FAT sector and the one directory cluster hold every entry; the copies of *)
(* the FAT, which nothing reads, are left out, as is kmalloc that fails.   *)
(*                                                                         *)
(* The byte of file f at position p is written as <<f, p>>, so the content *)
(* of a file is right when each byte is found where f and p say.           *)
(***************************************************************************)
EXTENDS Integers, FiniteSets, FiniteSetsExt

CONSTANTS
  Users,     \* those that use files; each has one descriptor
  Files,     \* the entries of the directory
  NoFile,    \* a descriptor that is not open
  Clusters,  \* the volume's clusters, numbers from 2 on
  ClusterSize, \* fsbi->bytes_per_cluster
  InitSize,  \* the most a file holds when the volume is mounted
  MaxSize,   \* bound on the position behind a write, for model checking
  MaxEvents  \* bound on the kinds of events met in a behaviour

EOC == 268435448   \* 0x0ffffff8: the last cluster of a chain

ASSUME FatAssumption ==
  /\ NoFile \notin Files
  /\ Clusters \subseteq 2..(EOC - 1) /\ Clusters # {}
  /\ ClusterSize \in Nat \ {0}
  /\ IsFiniteSet(Clusters) /\ InitSize \in Nat
  /\ {MaxSize, MaxEvents} \subseteq Nat /\ InitSize <= MaxSize

VARIABLES
  fat,       \* the entries of the FAT on the disk
  dir,       \* size and first cluster in the entries of the directory
  data,      \* the bytes of the clusters
  filp,      \* the file of each task's descriptor
  inode,     \* its index_node: file_size, first_cluster
  position,  \* filp->position
  fat_pc,    \* the transfer each task is at
  loc,       \* the variables of FAT32_read and FAT32_write
  garbled,   \* history: a read has returned a byte other than was written
  fat_hit    \* history: the events of a kind that may do harm

openVars == <<filp, inode>>
fat_vars == <<fat, dir, data, openVars, position, fat_pc, loc, garbled, fat_hit>>

Offsets == 0..(ClusterSize - 1)
NoByte == <<NoFile, 0>>   \* what no file has put there
Blank == [o \in Offsets |-> NoByte]
Empty == <<>>   \* no sector of the FAT or the directory has been read

\* A cluster's first sector is named by its number.  Outside the clusters, and in
\* sector 0 of the disk, nothing of a file is stored.
Outside == 0
SectorOf(c) == IF c \in Clusters THEN c ELSE Outside
Contents(s) == IF s = Outside THEN Blank ELSE data[s]

NoEntry == [size |-> 0, first |-> 0]
Unused == [cluster |-> 0, next_cluster |-> 0, sector |-> Outside, flags |-> FALSE,
           index |-> 0, offset |-> 0, i |-> 0, buffer |-> Blank, buf |-> Empty]

(* Where a task is: "run" outside, else at the transfer that                *)
(*   "walk", "walk_read"  follows the chain to the position                 *)
(*   "find_first", "find_next"  looks for a free cluster                    *)
(*   "inode", "size"      writes the directory entry, first or last         *)
(*   "mark", "link", "end"  writes an entry of the FAT                      *)
(*   "load", "store", "next"  reads, writes a cluster, looks for the next   *)
(*   "fetch", "follow"    reads a cluster for FAT32_read, finds the next    *)
Allocating == {"inode", "mark", "link", "end"}
FatPCs == Allocating \cup
  {"run", "walk", "walk_read", "find_first", "find_next", "size", "load", "store",
   "next", "fetch", "follow"}

Events == {"fresh", "crossing", "boundary", "full", "fat_race", "dir_race", "shared"}

FatGoto(t, from, to) == fat_pc[t] = from /\ fat_pc' = [fat_pc EXCEPT ![t] = to]
\* The call returns, its locals are gone.
Return(t) == fat_pc' = [fat_pc EXCEPT ![t] = "run"] /\ loc' = [loc EXCEPT ![t] = Unused]
Hit(events) == fat_hit' = fat_hit \cup events /\ Cardinality(fat_hit') <= MaxEvents
Others(t, points) == \E u \in Users \ {t} : fat_pc[u] \in points
-----------------------------------------------------------------------------
(* The FAT *)

\* DISK1_FAT32_read_FAT_Entry.  The entry of EOC would be a gigabyte on: the disk is
\* taken to be smaller, so that nothing is transferred and buf keeps its zeroes.
Entry(c) == IF c \in Clusters THEN fat[c] ELSE 0

\* FAT32_find_available_cluster: the first entry that is 0, or 0.
FreeCluster ==
  LET free == {c \in Clusters : fat[c] = 0}
  IN IF free = {} THEN 0 ELSE Min(free)

EOCForgotten(t) ==
  CASE fat_pc[t] = "mark" -> <<loc[t].cluster, EOC>>
    [] fat_pc[t] = "link" -> <<loc[t].cluster, loc[t].next_cluster>>
    [] fat_pc[t] = "end"  -> <<loc[t].next_cluster, 0>>

\* The entry FAT32_write changes, and to what.
Change(t) ==
  CASE fat_pc[t] = "mark" -> <<loc[t].cluster, EOC>>
    [] fat_pc[t] = "link" -> <<loc[t].cluster, loc[t].next_cluster>>
    [] fat_pc[t] = "end"  -> <<loc[t].next_cluster, EOC>>

\* DISK1_FAT32_write_FAT_Entry: the sector is read, changed and written back.
ReadFAT(t) ==
  /\ fat_pc[t] \in {"mark", "link", "end"} /\ loc[t].buf = Empty
  /\ loc' = [loc EXCEPT ![t].buf = fat]
  /\ UNCHANGED <<fat, dir, data, openVars, position, fat_pc, garbled, fat_hit>>

WriteFAT(t) ==
  /\ fat_pc[t] \in {"mark", "link", "end"} /\ loc[t].buf # Empty
  /\ fat' = [loc[t].buf EXCEPT ![Change(t)[1]] = Change(t)[2]]
  /\ fat_pc' = [fat_pc EXCEPT ![t] = IF @ = "link" THEN "end" ELSE "store"]
  /\ loc' = [loc EXCEPT ![t] =
       IF fat_pc[t] = "end" THEN [@ EXCEPT !.buf = Empty, !.cluster = loc[t].next_cluster,
                                       !.flags = TRUE]
       ELSE [@ EXCEPT !.buf = Empty]]
  /\ UNCHANGED <<dir, data, openVars, position, garbled, fat_hit>>

\* fat32_write_inode does the same to the directory's cluster.
ReadDir(t) ==
  /\ fat_pc[t] \in {"inode", "size"} /\ loc[t].buf = Empty
  /\ loc' = [loc EXCEPT ![t].buf = dir]
  /\ Hit(IF \E u \in Users \ {t} : fat_pc[u] \in {"inode", "size"} /\ loc[u].buf # Empty
         THEN {"dir_race"} ELSE {})
  /\ UNCHANGED <<fat, dir, data, openVars, position, fat_pc, garbled>>

WriteDir(t) ==
  /\ fat_pc[t] \in {"inode", "size"} /\ loc[t].buf # Empty
  /\ dir' = [loc[t].buf EXCEPT ![filp[t]] = inode[t]]
  /\ IF fat_pc[t] = "inode"
     THEN FatGoto(t, "inode", "mark") /\ loc' = [loc EXCEPT ![t].buf = Empty]
     ELSE Return(t)
  /\ UNCHANGED <<fat, data, openVars, position, garbled, fat_hit>>
-----------------------------------------------------------------------------
(* sys_open, sys_close, sys_lseek *)

\* path_walk and FAT32_lookup: each open makes an index_node of its own.
Lookup(f) == dir[f]

Open(t, f, trunc, append) ==
  /\ fat_pc[t] = "run" /\ filp[t] = NoFile
  /\ filp' = [filp EXCEPT ![t] = f]
  /\ inode' = [inode EXCEPT ![t] = [Lookup(f) EXCEPT !.size = IF trunc THEN 0 ELSE @]]
  /\ position' = [position EXCEPT ![t] = IF append THEN inode'[t].size ELSE 0]
  /\ Hit(IF \E u \in Users \ {t} : filp[u] = f THEN {"shared"} ELSE {})
  /\ UNCHANGED <<fat, dir, data, fat_pc, loc, garbled>>

Close(t) ==
  /\ fat_pc[t] = "run" /\ filp[t] # NoFile
  /\ filp' = [filp EXCEPT ![t] = NoFile]
  /\ inode' = [inode EXCEPT ![t] = NoEntry]
  /\ position' = [position EXCEPT ![t] = 0]
  /\ UNCHANGED <<fat, dir, data, fat_pc, loc, garbled, fat_hit>>

\* FAT32_lseek refuses what is beyond file_size, from wherever it is counted.
Lseek(t, pos) ==
  /\ fat_pc[t] = "run" /\ filp[t] # NoFile
  /\ pos \in 0..inode[t].size
  /\ position' = [position EXCEPT ![t] = pos]
  /\ UNCHANGED <<fat, dir, data, openVars, fat_pc, loc, garbled, fat_hit>>
-----------------------------------------------------------------------------
(* FAT32_write *)

Started(t, n) ==
  [Unused EXCEPT !.cluster = inode[t].first, !.i = position[t] \div ClusterSize,
                 !.offset = position[t] % ClusterSize, !.index = n]

Write(t, n) ==
  /\ fat_pc[t] = "run" /\ filp[t] # NoFile /\ position[t] + n <= MaxSize
  /\ loc' = [loc EXCEPT ![t] = Started(t, n)]
  /\ fat_pc' = [fat_pc EXCEPT ![t] = IF inode[t].first = 0 THEN "find_first"
                             ELSE IF loc'[t].i > 0 THEN "walk" ELSE "load"]
  /\ UNCHANGED <<fat, dir, data, openVars, position, garbled, fat_hit>>

\* The loop over index, also that of FAT32_read, and what comes after it; a
\* write at a cluster 0 fails with ENOSPC.
Walk(t, from, after) ==
  /\ fat_pc[t] = from
  /\ LET c == Entry(loc[t].cluster)
     IN IF after = "load" /\ loc[t].i = 1 /\ c = 0 THEN Return(t)
        ELSE /\ loc' = [loc EXCEPT ![t].cluster = c, ![t].i = loc[t].i - 1]
             /\ FatGoto(t, from, IF loc[t].i = 1 THEN after ELSE from)
  /\ UNCHANGED <<fat, dir, data, openVars, position, garbled, fat_hit>>

\* Another task has found a free cluster and its entry is not yet written.
FindRace(t) == IF Others(t, Allocating) THEN {"fat_race"} ELSE {}

\* An empty file gets its first cluster.
FindFirst(t) ==
  /\ fat_pc[t] = "find_first"
  /\ IF FreeCluster = 0 THEN Return(t) /\ UNCHANGED inode
     ELSE /\ inode' = [inode EXCEPT ![t].first = FreeCluster]
          /\ loc' = [loc EXCEPT ![t].cluster = FreeCluster, ![t].flags = TRUE]
          /\ FatGoto(t, "find_first", "inode")
  /\ Hit(FindRace(t))
  /\ UNCHANGED <<fat, dir, data, filp, position, garbled>>

SectorBehind(c) == SectorOf(c + 1)
\* The sector of a cluster, set only where it has been read.
Sector(c) == SectorOf(c)

Load(t) ==
  /\ FatGoto(t, "load", "store")
  /\ loc' = [loc EXCEPT ![t].sector = Sector(loc[t].cluster),
                        ![t].buffer = Contents(Sector(loc[t].cluster))]
  /\ Hit(IF loc[t].cluster \in Clusters THEN {} ELSE {"boundary"})
  /\ UNCHANGED <<fat, dir, data, openVars, position, garbled>>

\* How much of the cluster a step of read or write covers.
Length(t) ==
  IF loc[t].index <= ClusterSize - loc[t].offset THEN loc[t].index
  ELSE ClusterSize - loc[t].offset

Covered(t) == {o \in Offsets : o >= loc[t].offset /\ o < loc[t].offset + Length(t)}
Byte(t, o) == <<filp[t], position[t] + o - loc[t].offset>>

PieceOffsetKept(t, buffer) ==
  [loc[t] EXCEPT !.index = @ - Length(t), !.buffer = buffer]

\* index -= length; offset -= offset
Piece(t, buffer) ==
  [loc[t] EXCEPT !.index = @ - Length(t), !.offset = 0, !.buffer = buffer]

\* file_size after a write that ends at pos
Grown(t, pos) == IF pos > inode[t].size THEN pos ELSE inode[t].size

\* After the last byte the file size is recorded, if it has grown.
Store(t) ==
  /\ fat_pc[t] = "store"
  /\ LET buffer == [o \in Offsets |-> IF o \in Covered(t) THEN Byte(t, o)
                                      ELSE loc[t].buffer[o]]
         pos == position[t] + Length(t)
         piece == Piece(t, buffer)
     IN /\ data' = IF loc[t].sector = Outside THEN data
                   ELSE [data EXCEPT ![loc[t].sector] = buffer]
        /\ position' = [position EXCEPT ![t] = pos]
        /\ inode' = IF piece.index > 0 THEN inode
                    ELSE [inode EXCEPT ![t].size = Grown(t, pos)]
        /\ IF piece.index > 0
           THEN FatGoto(t, "store", "next") /\ loc' = [loc EXCEPT ![t] = piece]
           ELSE IF pos > inode[t].size
           THEN FatGoto(t, "store", "size") /\ loc' = [loc EXCEPT ![t] = Unused]
           ELSE Return(t)
  /\ Hit(IF loc[t].flags THEN {"fresh"} ELSE {})
  /\ UNCHANGED <<fat, dir, filp, garbled>>

\* A cluster that has a next one stays the current one.
NextCluster(t) ==
  /\ fat_pc[t] = "next"
  /\ LET c == Entry(loc[t].cluster)
     IN /\ loc' = [loc EXCEPT ![t].next_cluster = c]
        /\ FatGoto(t, "next", IF c >= EOC THEN "find_next"
                           ELSE IF loc[t].flags THEN "store" ELSE "load")
        /\ Hit(IF c >= EOC THEN {} ELSE {"crossing"})
  /\ UNCHANGED <<fat, dir, data, openVars, position, garbled>>

\* On a full volume the write ends here, its position moved on, its size not.
FindNext(t) ==
  /\ fat_pc[t] = "find_next"
  /\ IF FreeCluster = 0 THEN Return(t)
     ELSE /\ loc' = [loc EXCEPT ![t].next_cluster = FreeCluster]
          /\ FatGoto(t, "find_next", "link")
  /\ Hit(FindRace(t) \cup IF FreeCluster = 0 THEN {"full"} ELSE {})
  /\ UNCHANGED <<fat, dir, data, openVars, position, garbled>>
-----------------------------------------------------------------------------
(* FAT32_read *)

\* A file without a cluster cannot be read.  What a read from behind file_size
\* does, whose count is negative, is not modelled.
Read(t, n) ==
  /\ fat_pc[t] = "run" /\ filp[t] # NoFile
  /\ inode[t].first # 0 /\ position[t] <= inode[t].size
  /\ loc' = [loc EXCEPT ![t] = Started(t, IF position[t] + n > inode[t].size
                                          THEN inode[t].size - position[t] ELSE n)]
  /\ fat_pc' = [fat_pc EXCEPT ![t] = IF loc'[t].i > 0 THEN "walk_read" ELSE "fetch"]
  /\ UNCHANGED <<fat, dir, data, openVars, position, garbled, fat_hit>>

Fetch(t) ==
  /\ fat_pc[t] = "fetch"
  /\ LET buffer == Contents(Sector(loc[t].cluster))
         piece == Piece(t, buffer)
     IN /\ garbled' = (garbled \/ \E o \in Covered(t) : buffer[o] # Byte(t, o))
        /\ position' = [position EXCEPT ![t] = @ + Length(t)]
        /\ IF piece.index > 0
           THEN FatGoto(t, "fetch", "follow") /\ loc' = [loc EXCEPT ![t] = piece]
           ELSE Return(t)
  /\ UNCHANGED <<fat, dir, data, openVars, fat_hit>>

Follow(t) ==
  /\ fat_pc[t] = "follow"
  /\ LET c == Entry(loc[t].cluster)
     IN IF c = 0 THEN Return(t)
        ELSE /\ loc' = [loc EXCEPT ![t].cluster = c]
             /\ FatGoto(t, "follow", "fetch")
  /\ UNCHANGED <<fat, dir, data, openVars, position, garbled, fat_hit>>
-----------------------------------------------------------------------------
(* A volume on which the files have the first clusters, each its own one behind *)
(* the other, as the tool leaves it that makes the image: external.             *)
Needed(size) == (size + ClusterSize - 1) \div ClusterSize

Formatted(sizes, first) ==
  LET own(f) == first[f]..(first[f] + Needed(sizes[f]) - 1)
      user(c) == CHOOSE f \in Files : c \in own(f)
      used == UNION {own(f) : f \in Files}
  IN /\ used \subseteq Clusters /\ \A c \in Clusters \ used, d \in used : d < c
     /\ \A f, g \in Files : f # g => own(f) \cap own(g) = {}
     /\ dir = [f \in Files |-> [size |-> sizes[f],
                                first |-> IF sizes[f] = 0 THEN 0 ELSE first[f]]]
     /\ fat = [c \in Clusters |-> IF c \notin used THEN 0
                                  ELSE IF c + 1 \in own(user(c)) THEN c + 1 ELSE EOC]
     /\ data = [s \in Clusters |-> [o \in Offsets |->
          IF s \in used THEN <<user(s), (s - first[user(s)]) * ClusterSize + o>> ELSE NoByte]]

FatInit ==
  /\ \E sizes \in [Files -> 0..InitSize], first \in [Files -> Clusters] :
       Formatted(sizes, first)
  /\ filp = [t \in Users |-> NoFile]
  /\ inode = [t \in Users |-> NoEntry]
  /\ position = [t \in Users |-> 0]
  /\ fat_pc = [t \in Users |-> "run"]
  /\ loc = [t \in Users |-> Unused]
  /\ garbled = FALSE /\ fat_hit = {}

SysCall(t) ==
  \/ \E f \in Files, trunc, append \in BOOLEAN : Open(t, f, trunc, append)
  \/ Close(t)
  \/ \E pos \in 0..MaxSize : Lseek(t, pos)
  \/ \E n \in 1..MaxSize : Write(t, n) \/ Read(t, n)

FatTransfer(t) ==
  \/ Walk(t, "walk", "load") \/ Walk(t, "walk_read", "fetch")
  \/ FindFirst(t) \/ FindNext(t)
  \/ ReadFAT(t) \/ WriteFAT(t) \/ ReadDir(t) \/ WriteDir(t)
  \/ Load(t) \/ Store(t) \/ NextCluster(t)
  \/ Fetch(t) \/ Follow(t)

\* Where a further kind of event is left out, nothing may be left to do.
Bounded == Cardinality(fat_hit) = MaxEvents /\ UNCHANGED fat_vars

FatNext == (\E t \in Users : SysCall(t) \/ FatTransfer(t)) \/ Bounded

FatSpec == FatInit /\ [][FatNext]_fat_vars
-----------------------------------------------------------------------------
(* Properties *)

Bytes == {NoByte} \cup (Files \X Nat)
Links == Clusters \cup {0, EOC}
Inodes == [size : 0..MaxSize, first : Clusters \cup {0}]

\* Every variable keeps the type its C declaration and its use give it.
FatTypeOK ==
  /\ fat \in [Clusters -> Links]
  /\ dir \in [Files -> Inodes]
  /\ data \in [Clusters -> [Offsets -> Bytes]]
  /\ filp \in [Users -> Files \cup {NoFile}]
  /\ inode \in [Users -> Inodes]
  /\ position \in [Users -> 0..MaxSize]
  /\ fat_pc \in [Users -> FatPCs]
  /\ \A t \in Users :
       /\ loc[t].cluster \in Links /\ loc[t].next_cluster \in Links
       /\ loc[t].sector \in Clusters \cup {Outside}
       /\ loc[t].index \in 0..MaxSize /\ loc[t].i \in 0..MaxSize
       /\ loc[t].offset \in Offsets
       /\ loc[t].buffer \in [Offsets -> Bytes]
  /\ fat_hit \subseteq Events

\* The clusters of a file: the one its directory entry names, and with each cluster the
\* one its entry in the FAT names, but no other.
FollowsLinks(f, S) ==
  /\ {dir[f].first} \cap Clusters \subseteq S
  /\ \A c \in S : {fat[c]} \cap Clusters \subseteq S
Chain(f) == {c \in Clusters : \A S \in SUBSET Clusters : FollowsLinks(f, S) => c \in S}

\* The file is being given a cluster.
Growing(f) == \E t \in Users : filp[t] = f /\ fat_pc[t] \in Allocating

\* Two tasks at once in the FAT, in the directory or in one file.
Races == {"fat_race", "dir_race", "shared"}

\* The chains of files have no cluster in common, unless a task has looked for a
\* cluster while another was about to enter one into the FAT (fat32.c:117-138).  Each
\* chain ends, except that of a file that is growing, and no cluster is allocated
\* that no chain reaches, unless two tasks were in the FAT, the directory or a file
\* at once: a write that finds the volume full, starts a file or crosses a border
\* leaves the FAT in order.
ChainsSound ==
  /\ "fat_race" \notin fat_hit =>
       \A f, g \in Files : f # g => Chain(f) \cap Chain(g) = {}
  /\ fat_hit \cap Races = {} =>
    /\ \A f \in Files : dir[f].first = 0 \/ Growing(f) \/ EOC \in {fat[c] : c \in Chain(f)}
    /\ \A c \in Clusters : fat[c] # 0 => \E f \in Files : c \in Chain(f)

\* Every byte that the directory gives a file has its place in the file's chain,
\* unless a write has begun behind the last cluster (fat32.c:162-163 walks on to the
\* end mark) or has crossed a border inside the chain (fat32.c:214-231 stays where
\* it is), besides the races.
SizeCovered ==
  fat_hit \cap (Races \cup {"boundary", "crossing"}) = {} =>
    \A f \in Files : Growing(f) \/ dir[f].size <= ClusterSize * Cardinality(Chain(f))

\* The volume is in order: the FAT32_write of either task, cut between any two
\* transfers, leaves entries, chains and sizes as the three parts above say.
VolumeSound == FatTypeOK /\ ChainsSound /\ SizeCovered

\* A write changes no byte of another file, not even one that starts a file, crosses
\* a border or finds the volume full: what it puts in the wrong place (fat32.c:182)
\* is in its own clusters or in sector 0 of the disk.  Only the race for a cluster
\* breaks this, not two tasks that have one file open or write the directory at once.
OwnBytesOnly ==
  "fat_race" \notin fat_hit =>
    \A f \in Files : \A c \in Chain(f), o \in Offsets :
      data[c][o] = NoByte \/ data[c][o][1] = f

\* A read returns what was written at its position, until a write has used a cluster
\* it has just been given, which it never addresses (fat32.c:182), or one of the other
\* events has come: running out of clusters does no harm to what is read.  And no
\* descriptor is left behind the end of its file, where a read would go wrong, unless
\* a write has run out of clusters half way (fat32.c:221-225).
PositionInside ==
  "full" \notin fat_hit => \A t \in Users : fat_pc[t] = "run" => position[t] <= inode[t].size
ReadsRight == (garbled => fat_hit \cap (Events \ {"full"}) # {}) /\ PositionInside
=============================================================================

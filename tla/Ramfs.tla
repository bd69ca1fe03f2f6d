------------------------------- MODULE Ramfs -------------------------------
(***************************************************************************)
(* The RAM file system of kernel/kernel/filesystem/ramfs.c: a fixed table  *)
(* of inodes, directories that are arrays of (name, inode index) pairs,    *)
(* and files whose bytes live in one heap buffer each.                     *)
(*                                                                         *)
(* A path relative to the file system is the sequence of the parts between *)
(* its slashes; a doubled or trailing slash shows as the part Empty, which *)
(* strtok skips and strrchr does not.  A handler that changes state is an  *)
(* action whose last parameter is its result; one that does not is the     *)
(* operator giving its result.                                             *)
(***************************************************************************)
EXTENDS Integers, Sequences, FiniteSets, SequencesExt

CONSTANTS
  RAMFS_MAX_FILES,  (* slots of the inode table                              *)
  MAX_ENTRIES,      (* slots of a directory's entries[]                      *)
  WORD,             (* 2^32: size_t arithmetic is modulo WORD                *)
  Name,             (* the parts a path can have, Empty among them           *)
  Empty,            (* the empty part                                        *)
  Trunc,            (* Trunc[n]: what strncpy(.., n, RAMFS_NAME_MAX-1) keeps of n *)
  Byte,             (* values a file byte can have                           *)
  Zero,             (* the byte memset() writes into a gap                   *)
  Buffers,          (* the file buffers the heap has room for                *)
  NULL,
  InPath, InOffset, InData  (* the paths, offsets and byte strings callers pass *)

ASSUME TableAssumption ==
  /\ RAMFS_MAX_FILES \in Nat \ {0}
  /\ MAX_ENTRIES \in Nat
  /\ WORD \in Nat \ {0}
ASSUME NameAssumption == Empty \in Name /\ Trunc \in [Name -> Name]
ASSUME DataAssumption == Zero \in Byte /\ NULL \notin Buffers
ASSUME InputAssumption ==
  /\ InPath \subseteq Seq(Name)
  /\ InOffset \subseteq 0 .. WORD - 1
  /\ InData \subseteq Seq(Byte)

VARIABLES
  inodes,   (* the static table inodes[]                                   *)
  bufs,     (* the file buffers that are allocated in the heap             *)
  overrun   (* a write has stored outside its buffer; nothing is modelled after it *)

ramfs_vars == <<inodes, bufs, overrun>>

FILE == "file"
DIR  == "dir"

Inode   == 0 .. RAMFS_MAX_FILES - 1
Root    == 0
NoInode == -1
Dirent  == [name : Name, inode_idx : Inode]

(* bytes is the first size bytes of data; the rest, up to capacity, is     *)
(* never read.  A slot that is freed keeps its record until it is reused.  *)
InodeRecord == [used : BOOLEAN, type : {FILE, DIR}, data : Buffers \cup {NULL},
                bytes : Seq(Byte), capacity : Nat, entries : Seq(Dirent)]

FreshInode(used, type) ==
  [used |-> used, type |-> type, data |-> NULL, bytes |-> <<>>, capacity |-> 0,
   entries |-> <<>>]

ramfs_init ==
  /\ inodes = [i \in Inode |-> IF i = Root THEN FreshInode(TRUE, DIR)
                                           ELSE FreshInode(FALSE, FILE)]
  /\ bufs = {}
  /\ overrun = FALSE

-----------------------------------------------------------------------------
(* Looking names up.                                                       *)

Matches(d, n) ==
  {k \in 1 .. Len(inodes[d].entries) : inodes[d].entries[k].name = n}

FirstMatch(d, n) == CHOOSE k \in Matches(d, n) : \A j \in Matches(d, n) : k <= j

IsDir(i)  == i \in Inode /\ inodes[i].type = DIR
IsFile(i) == i \in Inode /\ inodes[i].used /\ inodes[i].type = FILE

HasEntry(d, n) == IsDir(d) /\ Matches(d, n) # {}

(* One turn of the loop in ramfs_find_inode: from inode d to its entry n.  *)
FindIn(d, n) ==
  IF n = Empty THEN d
  ELSE IF HasEntry(d, n)
       THEN inodes[d].entries[FirstMatch(d, n)].inode_idx
       ELSE NoInode

ramfs_find_inode(p) ==
  LET current[k \in 0 .. Len(p)] == IF k = 0 THEN Root ELSE FindIn(current[k - 1], p[k])
  IN current[Len(p)]

(* The two halves that strrchr(path, '/') splits a path into.              *)
Dirname(p)  == IF p = <<>> THEN <<>> ELSE Front(p)
Basename(p) == IF p = <<>> THEN Empty ELSE Last(p)

-----------------------------------------------------------------------------
(* Making and removing directory entries.                                  *)

FreeInodes == {i \in Inode : ~inodes[i].used}

FirstFree == CHOOSE i \in FreeInodes : \A j \in FreeInodes : i <= j

(* Slip: alloc_inode takes the slot as it is, without resetting it.        *)
AddChildUnreset(d, n, type, success, r) ==
  /\ inodes' = [inodes EXCEPT
                  ![FirstFree].used = TRUE, ![FirstFree].type = type,
                  ![d].entries = Append(@, [name |-> Trunc[n], inode_idx |-> FirstFree])]
  /\ r = success

(* Slip: alloc_inode forgets to mark the slot used.                        *)
AddChildUnmarked(d, n, type, success, r) ==
  /\ inodes' = [inodes EXCEPT
                  ![FirstFree] = FreshInode(FALSE, type),
                  ![d].entries = Append(@, [name |-> Trunc[n], inode_idx |-> FirstFree])]
  /\ r = success

(* alloc_inode and the tail that ramfs_create and ramfs_mkdir share.  When *)
(* the directory is full the inode just allocated is not given back.       *)
AddChild(d, n, type, success, r) ==
  \/ /\ Len(inodes[d].entries) < MAX_ENTRIES
     /\ inodes' = [inodes EXCEPT
                     ![FirstFree] = FreshInode(TRUE, type),
                     ![d].entries = Append(@, [name |-> Trunc[n], inode_idx |-> FirstFree])]
     /\ r = success
  \/ /\ Len(inodes[d].entries) >= MAX_ENTRIES
     /\ inodes' = [inodes EXCEPT ![FirstFree] = FreshInode(TRUE, type)]
     /\ r = -1

(* Slip: no check for an existing entry.                                   *)
CanAddTwice(d, n) == IsDir(d) /\ FreeInodes # {}

CanAdd(d, n) == IsDir(d) /\ Matches(d, n) = {} /\ FreeInodes # {}

ramfs_create(p, r) ==
  LET d == ramfs_find_inode(Dirname(p))
      n == Basename(p)
  IN /\ \/ ~CanAdd(d, n) /\ r = -1 /\ UNCHANGED inodes
        \/ CanAdd(d, n) /\ AddChild(d, n, FILE, FirstFree, r)
     /\ UNCHANGED <<bufs, overrun>>

ramfs_mkdir(p, r) ==
  LET d == ramfs_find_inode(Dirname(p))
      n == Basename(p)
  IN /\ \/ HasEntry(d, n) /\ r = 0 /\ UNCHANGED inodes
        \/ ~HasEntry(d, n) /\ ~CanAdd(d, n) /\ r = -1 /\ UNCHANGED inodes
        \/ CanAdd(d, n) /\ AddChild(d, n, DIR, 0, r)
     /\ UNCHANGED <<bufs, overrun>>

(* Slips: num_entries goes down but nothing is shifted; or the entry stays.*)
RemoveLastChild(d, k, i) ==
  inodes' = [inodes EXCEPT ![d].entries = Front(@), ![i].used = FALSE]

RemoveNoEntry(d, k, i) == inodes' = [inodes EXCEPT ![i].used = FALSE]

(* Entry k of directory d goes, and the slot i is free from now on.        *)
RemoveChild(d, k, i) ==
  inodes' = [inodes EXCEPT ![d].entries = RemoveAt(@, k), ![i].used = FALSE]

(* Slip: the data of the file is not freed.                                *)
UnlinkLeaks(p, r) ==
  LET d == ramfs_find_inode(Dirname(p))
      k == FirstMatch(d, Basename(p))
  IN /\ HasEntry(d, Basename(p)) /\ r = 0
     /\ RemoveChild(d, k, inodes[d].entries[k].inode_idx)
     /\ UNCHANGED <<bufs, overrun>>

ramfs_unlink(p, r) ==
  LET d == ramfs_find_inode(Dirname(p))
      k == FirstMatch(d, Basename(p))
      i == inodes[d].entries[k].inode_idx
  IN \/ /\ ~HasEntry(d, Basename(p))
        /\ r = -1
        /\ UNCHANGED ramfs_vars
     \/ /\ HasEntry(d, Basename(p))
        /\ RemoveChild(d, k, i)
        /\ bufs' = bufs \ {inodes[i].data}
        /\ r = 0
        /\ UNCHANGED overrun

(* Slip: no check that the directory is empty.                             *)
RmdirFull(p, r) ==
  LET parent == ramfs_find_inode(Dirname(p))
      idx    == ramfs_find_inode(p)
  IN /\ IsDir(idx) /\ HasEntry(parent, Basename(p)) /\ r = 0
     /\ RemoveChild(parent, FirstMatch(parent, Basename(p)), idx)
     /\ UNCHANGED <<bufs, overrun>>

ramfs_rmdir(p, r) ==
  LET parent  == ramfs_find_inode(Dirname(p))
      idx     == ramfs_find_inode(p)
      removes == /\ IsDir(idx) /\ inodes[idx].entries = <<>>
                 /\ parent \in Inode /\ Matches(parent, Basename(p)) # {}
  IN /\ \/ /\ removes
           /\ RemoveChild(parent, FirstMatch(parent, Basename(p)), idx)
           /\ r = 0
        \/ /\ ~removes
           /\ r = -1
           /\ UNCHANGED inodes
     /\ UNCHANGED <<bufs, overrun>>

-----------------------------------------------------------------------------
(* The bytes of a file.                                                    *)

(* Slip: the gap is left as malloc returned it.                            *)
PatchNoMemset(bytes, off, data) ==
  [k \in 1 .. off + Len(data) |-> IF off < k THEN data[k - off]
                                  ELSE IF k <= Len(bytes) THEN bytes[k] ELSE NULL]

(* The first size bytes after the gap is zeroed and data stored at off.    *)
Patch(bytes, off, data) ==
  LET end == off + Len(data)
      size == IF end > Len(bytes) THEN end ELSE Len(bytes)
  IN [k \in 1 .. size |-> IF off < k /\ k <= end THEN data[k - off]
                          ELSE IF k <= Len(bytes) THEN bytes[k] ELSE Zero]

(* The memset and the memcpy of ramfs_write stay within cap bytes.         *)
Fits(bytes, off, data, cap) ==
  /\ off > Len(bytes) => off <= cap
  /\ Len(data) > 0 => off + Len(data) <= cap

Store(idx, buf, cap, off, data) ==
  \/ /\ Fits(inodes[idx].bytes, off, data, cap)
     /\ inodes' = [inodes EXCEPT ![idx].bytes = Patch(@, off, data),
                                 ![idx].data = buf, ![idx].capacity = cap]
     /\ UNCHANGED overrun
  \/ /\ ~Fits(inodes[idx].bytes, off, data, cap)
     /\ inodes' = [inodes EXCEPT ![idx].data = buf, ![idx].capacity = cap]
     /\ overrun' = TRUE

(* Slip: the offset is left out of the size to allocate.                   *)
NeededFromStart(off, data) == Len(data) % WORD

Needed(off, data) == (off + Len(data)) % WORD

(* n is the result and off2 the caller's offset afterwards.  The heap is   *)
(* shared, so malloc may fail whenever it is called.                       *)
ramfs_write(idx, data, off, off2, n) ==
  LET needed == Needed(off, data) IN
  \/ /\ ~IsFile(idx)
     /\ n = 0 /\ off2 = off
     /\ UNCHANGED ramfs_vars
  \/ /\ IsFile(idx)
     /\ needed > inodes[idx].capacity
     /\ n = 0 /\ off2 = off
     /\ UNCHANGED ramfs_vars
  \/ /\ IsFile(idx)
     /\ needed > inodes[idx].capacity
     /\ \E b \in Buffers \ bufs :
          /\ bufs' = (bufs \ {inodes[idx].data}) \cup {b}
          /\ Store(idx, b, needed, off, data)
     /\ n = Len(data) /\ off2 = needed
  \/ /\ IsFile(idx)
     /\ needed <= inodes[idx].capacity
     /\ Store(idx, inodes[idx].data, inodes[idx].capacity, off, data)
     /\ n = Len(data) /\ off2 = needed
     /\ UNCHANGED bufs

(* The bytes a read of at most size bytes at offset off copies out.        *)
ramfs_read(idx, off, size) ==
  IF IsFile(idx)
  THEN SubSeq(inodes[idx].bytes, off + 1,
              IF off + size < Len(inodes[idx].bytes) THEN off + size
                                                     ELSE Len(inodes[idx].bytes))
  ELSE <<>>

ramfs_close(idx) == IF idx \in Inode /\ inodes[idx].used THEN 0 ELSE -1

ramfs_stat(p) ==
  LET i == ramfs_find_inode(p)
  IN IF i \in Inode THEN [type |-> inodes[i].type, size |-> Len(inodes[i].bytes)] ELSE NULL

-----------------------------------------------------------------------------
(* The file system on its own: any caller, any order of calls.             *)

Create == \E p \in InPath, r \in Inode \cup {-1} : ramfs_create(p, r)
Mkdir  == \E p \in InPath, r \in {0, -1} : ramfs_mkdir(p, r)
Unlink == \E p \in InPath, r \in {0, -1} : ramfs_unlink(p, r)
Rmdir  == \E p \in InPath, r \in {0, -1} : ramfs_rmdir(p, r)
Write  == \E idx \in Inode, data \in InData, off \in InOffset :
            \E off2 \in {off, Needed(off, data)}, n \in {0, Len(data)} :
              ramfs_write(idx, data, off, off2, n)

Next == ~overrun /\ (Create \/ Mkdir \/ Unlink \/ Rmdir \/ Write)

Spec == ramfs_init /\ [][Next]_ramfs_vars

(* The callers that unlink only what is not a directory, as the comment    *)
(* above ramfs_unlink supposes.                                            *)
UnlinkFile == \E p \in InPath, r \in {0, -1} :
                ~IsDir(ramfs_find_inode(p)) /\ ramfs_unlink(p, r)

FilesNext == ~overrun /\ (Create \/ Mkdir \/ UnlinkFile \/ Rmdir \/ Write)

FilesSpec == ramfs_init /\ [][FilesNext]_ramfs_vars

-----------------------------------------------------------------------------
(* Properties.  They speak of every slot, freed ones too: ramfs_unlink     *)
(* leaves the entries of a directory in the freed slot.                    *)

(* Every slot of inodes[] keeps its shape, whatever is stored in it.       *)
TypeOK ==
  /\ inodes \in [Inode -> InodeRecord]
  /\ bufs \in SUBSET Buffers
  /\ overrun \in BOOLEAN

Entry(d)     == DOMAIN inodes[d].entries
Target(d, k) == inodes[d].entries[k].inode_idx

(* The table holds a tree: the root stays a directory in use, an entry     *)
(* leads to a slot in use that is not the root, and no two entries share   *)
(* one.  (The frees of ramfs_unlink and ramfs_rmdir against the first fit  *)
(* of alloc_inode.)                                                        *)
TreeOK ==
  /\ inodes[Root].used /\ inodes[Root].type = DIR
  /\ \A d \in Inode : \A k \in Entry(d) :
       Target(d, k) # Root /\ inodes[Target(d, k)].used
  /\ \A d1, d2 \in Inode : \A k1 \in Entry(d1), k2 \in Entry(d2) :
       Target(d1, k1) = Target(d2, k2) => d1 = d2 /\ k1 = k2

(* A file has no entries and a directory no data: no reuse of a slot mixes *)
(* the two kinds up, so ramfs_rmdir has no buffer to free.                 *)
KindOK ==
  \A i \in Inode :
    /\ inodes[i].type = FILE => inodes[i].entries = <<>>
    /\ inodes[i].type = DIR  => inodes[i].data = NULL /\ inodes[i].capacity = 0

Owners == {i \in Inode : inodes[i].used /\ inodes[i].data # NULL}

(* The allocated buffers are those of the files in use, each owned by one: *)
(* ramfs_write and ramfs_unlink neither leak a buffer nor free one twice.  *)
BuffersOwned ==
  /\ bufs = {inodes[i].data : i \in Owners}
  /\ \A i, j \in Owners : inodes[i].data = inodes[j].data => i = j

(* A file's size never passes the capacity of its buffer, so what          *)
(* ramfs_read copies is inside it.                                         *)
SizeFits ==
  \A i \in Inode :
    /\ Len(inodes[i].bytes) <= inodes[i].capacity
    /\ inodes[i].used /\ inodes[i].type = FILE
         => (inodes[i].data = NULL <=> inodes[i].capacity = 0)

(* No write stores outside its file's buffer.                              *)
NoOverrun == ~overrun

(* A directory has one entry of a name: the check of ramfs_create and      *)
(* ramfs_mkdir for an existing entry does its work.                        *)
UniqueNames ==
  \A d \in Inode : \A j, k \in Entry(d) :
    inodes[d].entries[j].name = inodes[d].entries[k].name => j = k

(* A slot in use is the root or has an entry in a directory in use: no     *)
(* inode is lost until the next boot.                                      *)
NoOrphans ==
  \A i \in Inode \ {Root} : inodes[i].used =>
    \E d \in Inode : inodes[d].used /\ \E k \in Entry(d) : Target(d, k) = i

(* A directory never fills up: entries[] has more slots than there are     *)
(* inodes to point to, so AddChild never drops an inode.                   *)
NeverFull == \A d \in Inode : Len(inodes[d].entries) < RAMFS_MAX_FILES
=============================================================================

----------------------------- MODULE ThreadedFS -----------------------------
(***************************************************************************)
(* TecnicoFS as a library for threads (ProjetoSO/fs).  Here no lock spans  *)
(* a call: inode_table_lock, dir_lock and open_file_table_lock guard one   *)
(* table access at a time, each inode has a reader-writer lock, and the    *)
(* allocators, tfs_write and tfs_read take no lock at all.  A step is what *)
(* a call does between two points where another thread can be seen to      *)
(* interfere: a lock it may wait for, or an access to a shared table.      *)
(*                                                                         *)
(* dir_lock and open_file_table_lock are taken and released within one     *)
(* step (nothing blocks inside), so they are not variables.  An inode's    *)
(* lock admits readers while writers wait, as glibc's default does.        *)
(*                                                                         *)
(* File contents are left out (MonitorFS has them): a file is its size and *)
(* its block.  The root directory is inode 0 with block 0 from tfs_init    *)
(* on; its lock is never taken.                                            *)
(***************************************************************************)
EXTENDS Integers, Sequences, FiniteSets, FiniteSetsExt

CONSTANTS
    Threads,
    Paths, InvalidPaths, LongPaths, NoName,     \* as in MonitorFS
    MaxInodeCount, MaxBlockCount, MaxOpenFilesCount, BlockSize, MaxDirEntries,
    Present,            \* bound: the files that exist when the threads start
    Menu,               \* bound: Menu[t][k], what t's k-th call may be
    Nobody              \* owner of a lock that is free

VARIABLES
    inode, freeinode_ts, free_blocks, dir,
    open_file_table, free_open_file_entries,
    inode_table_lock,   \* its owner
    readers, writer,    \* of each inode's lock: how often each thread holds
                        \* it for reading; who holds it for writing
    me,                 \* local state of each thread
    calls,              \* calls each thread has started
    status,             \* of the process
    races               \* history: the kinds of races that have happened

tables == <<inode, freeinode_ts, free_blocks, dir, open_file_table,
            free_open_file_entries>>
locks == <<inode_table_lock, readers, writer>>
vars == <<tables, locks, me, calls, status, races>>

INums == 0 .. MaxInodeCount - 1
BlockNumbers == 0 .. MaxBlockCount - 1
Handles == 0 .. MaxOpenFilesCount - 1
Slots == 0 .. MaxDirEntries - 1
Modes == SUBSET {"CREAT", "TRUNC", "APPEND"}
NoHandle == -1

\* len is the number of bytes; for "copy" the number of buffers the source
\* fills, or -1 when fopen fails.
Call == [op : {"open", "symlink", "link", "unlink", "close", "write", "read",
               "copy"},
         path : Paths \cup {NoName}, target : Paths \cup {NoName},
         mode : Modes, len : Int]

Open(p, m) == [op |-> "open", path |-> p, target |-> p, mode |-> m, len |-> 0]
Copy(p, n) == [op |-> "copy", path |-> p, target |-> p, mode |-> {"CREAT"},
               len |-> n]
Unlink(p) == [op |-> "unlink", path |-> p, target |-> p, mode |-> {}, len |-> 0]
Link(p, q) == [op |-> "link", path |-> q, target |-> p, mode |-> {}, len |-> 0]
SymLink(p, q) == [op |-> "symlink", path |-> q, target |-> p, mode |-> {},
                  len |-> 0]
FileCall(op, n) == [op |-> op, path |-> NoName, target |-> NoName, mode |-> {},
                    len |-> n]

ASSUME LimitsAssumption ==
    /\ MaxInodeCount \in Nat \ {0} /\ MaxBlockCount \in Nat \ {0}
    /\ BlockSize \in Nat \ {0}
    /\ MaxOpenFilesCount \in Nat /\ MaxDirEntries \in Nat

ASSUME NamesAssumption ==
    /\ InvalidPaths \subseteq Paths /\ LongPaths \subseteq Paths
    /\ NoName \notin Paths /\ Nobody \notin Threads

ASSUME ClientAssumption ==
    /\ Present \in Seq(Paths \ (InvalidPaths \cup LongPaths))
    /\ Len(Present) < MaxInodeCount /\ Len(Present) <= MaxDirEntries
    /\ Len(Present) < MaxBlockCount
    /\ \A j, k \in 1 .. Len(Present) : j # k => Present[j] # Present[k]
    /\ Menu \in [Threads -> Seq(SUBSET Call)]
    /\ \A t \in Threads : \A k \in 1 .. Len(Menu[t]) : \A c \in Menu[t][k] :
           /\ c.op # "copy" => c.len \in Nat
           /\ c.op \notin {"close", "write", "read"} => c.path \in Paths

Labels == {"idle", "root", "lookup", "lookup_link", "node", "deref", "follow",
           "target_node", "trunc", "trunc_zero", "trunc_again", "append", "add",
           "scan", "take", "table_lock", "init", "file", "block_scan",
           "block_take", "block_set", "entry", "shortcut", "fill", "link_check",
           "link_entry", "inc", "unlink_check", "dec", "gone", "delete",
           "clear", "close", "count", "bytes", "grow", "set_size", "copy_next"}

Locals == [pc : Labels, call : Call, ret : Int, fh : Handles \cup {NoHandle},
           inum : INums, pos : Nat, amount : Nat, left : Int]

RaceKinds == {"taken twice", "named twice", "name lost", "deleted twice",
              "freed in use", "used deleted", "not yet a link"}

TypeOK ==
    /\ inode \in [INums -> [i_size : 0 .. BlockSize,
                            i_data_block : BlockNumbers \cup {-1},
                            n_links : Int, is_shortcut : BOOLEAN,
                            soft_link : Paths \cup {NoName}]]
    /\ freeinode_ts \in [INums -> {"FREE", "TAKEN"}]
    /\ free_blocks \in [BlockNumbers -> {"FREE", "TAKEN"}]
    /\ dir \in [Slots -> [d_name : Paths \cup {NoName},
                          d_inumber : INums \cup {-1}]]
    /\ open_file_table \in [Handles -> [of_inumber : INums, of_offset : Nat]]
    /\ free_open_file_entries \in [Handles -> {"FREE", "TAKEN"}]
    /\ inode_table_lock \in Threads \cup {Nobody}
    /\ readers \in [INums -> [Threads -> Nat]]
    /\ writer \in [INums -> Threads \cup {Nobody}]
    /\ me \in [Threads -> Locals]
    /\ calls \in [Threads -> Nat]
    /\ status \in {"running", "aborted"}
    /\ races \subseteq RaceKinds

\* Mutant: "no block" is one past the last block.
NewInodeBadBlock == [i_size |-> 0, i_data_block |-> MaxBlockCount, n_links |-> 1,
                     is_shortcut |-> FALSE, soft_link |-> NoName]

NewInode == [i_size |-> 0, i_data_block |-> -1, n_links |-> 1,
             is_shortcut |-> FALSE, soft_link |-> NoName]

\* Mutant: size and block are those of the last file.
StaleFresh(i) == [i EXCEPT !.n_links = 1, !.is_shortcut = FALSE]

\* What inode_create leaves of a file's inode: soft_link is not reset.
Fresh(i) == [NewInode EXCEPT !.soft_link = i.soft_link]

\* After tfs_init and the creation of the files of Present, one by one, with one
\* unit of contents each.
Init ==
    /\ inode = [i \in INums |->
                    IF i = 0 THEN [NewInode EXCEPT !.i_size = BlockSize,
                                                   !.i_data_block = 0]
                    ELSE IF i <= Len(Present)
                    THEN [NewInode EXCEPT !.i_size = 1, !.i_data_block = i]
                    ELSE NewInode]
    /\ freeinode_ts = [i \in INums |->
                           IF i <= Len(Present) THEN "TAKEN" ELSE "FREE"]
    /\ free_blocks = [b \in BlockNumbers |-> IF b <= Len(Present) THEN "TAKEN"
                                          ELSE "FREE"]
    /\ dir = [s \in Slots |->
                  IF s < Len(Present)
                  THEN [d_name |-> Present[s + 1], d_inumber |-> s + 1]
                  ELSE [d_name |-> NoName, d_inumber |-> -1]]
    /\ open_file_table = [h \in Handles |-> [of_inumber |-> 0, of_offset |-> 0]]
    /\ free_open_file_entries = [h \in Handles |-> "FREE"]
    /\ inode_table_lock = Nobody
    /\ readers = [i \in INums |-> [t \in Threads |-> 0]]
    /\ writer = [i \in INums |-> Nobody]
    /\ me = [t \in Threads |->
                 [pc |-> "idle", call |-> FileCall("close", 0), ret |-> 0,
                  fh |-> NoHandle, inum |-> 0, pos |-> 0, amount |-> 0,
                  left |-> 0]]
    /\ calls = [t \in Threads |-> 0]
    /\ status = "running"
    /\ races = {}

-----------------------------------------------------------------------------
(* Tables and locks *)

valid_pathname(name) == name \notin InvalidPaths

find_in_dir(sub_name) ==
    LET hits == {s \in Slots : /\ dir[s].d_inumber # -1
                               /\ dir[s].d_name = sub_name}
    IN  IF hits = {} THEN -1 ELSE dir[Min(hits)].d_inumber

tfs_lookup(name) == IF valid_pathname(name) THEN find_in_dir(name) ELSE -1

EmptySlots == {s \in Slots : dir[s].d_inumber = -1}

CanAddEntry(sub_name) == sub_name \notin LongPaths /\ EmptySlots # {}

add_dir_entry(sub_name, inum) ==
    dir' = [dir EXCEPT ![Min(EmptySlots)] = [d_name |-> sub_name,
                                             d_inumber |-> inum]]

\* Mutant: the table is entered without its lock.
TableOpen == TRUE

TableFree == inode_table_lock = Nobody
CanRead(i) == writer[i] = Nobody
CanWrite(i) == writer[i] = Nobody /\ \A u \in Threads : readers[i][u] = 0

ReadLock(i, t) == readers' = [readers EXCEPT ![i][t] = @ + 1]

\* Mutant: the read lock is not released.
KeepReadLock(i, t) == UNCHANGED readers

ReadUnlock(i, t) == readers' = [readers EXCEPT ![i][t] = @ - 1]

\* Mutant: inode_create returns with the table lock.
KeepTable == UNCHANGED inode_table_lock

UnlockTable == inode_table_lock' = Nobody

At(t, label) == status = "running" /\ me[t].pc = label
Goto(t, label) == me' = [me EXCEPT ![t].pc = label]
Op(t) == me[t].call.op
Opening(t) == Op(t) \in {"open", "copy"}

Idle(local, val) == [local EXCEPT !.pc = "idle", !.ret = val, !.inum = 0,
                                  !.pos = 0, !.amount = 0, !.left = 0]
Return(t, val) == me' = [me EXCEPT ![t] = Idle(@, val)]

\* tfs_write is done: the caller's result, or the next buffer of
\* tfs_copy_from_external_fs, which gives up on a short write.
WriteReturns(t, n) ==
    IF Op(t) = "copy"
    THEN me' = [me EXCEPT ![t].pc = "copy_next",
                          ![t].left = IF n = 1 THEN @ - 1 ELSE -1]
    ELSE Return(t, n)

Panic == status' = "aborted" /\ UNCHANGED <<tables, locks, me, calls>>

\* A step that only waits for inode_table_lock: inode_get_secure.
InodeGet(t, from, to) ==
    /\ At(t, from)
    /\ TableFree
    /\ Goto(t, to)
    /\ UNCHANGED <<tables, locks, calls, status>>

-----------------------------------------------------------------------------
(* Calling *)

FirstStep(c) ==
    CASE c.op \in {"open", "copy", "symlink", "link", "unlink"} -> "root"
      [] c.op = "close" -> "close"
      [] c.op \in {"write", "read"} -> "file"

\* tfs_unlink leaves an invalid path to tfs_lookup.
Refused(t, c) ==
    \/ c.op \in {"open", "copy", "symlink", "link"} /\ ~valid_pathname(c.path)
    \/ c.op \in {"close", "write", "read"} /\ me[t].fh = NoHandle

\* A thread uses the handle that its last tfs_open returned, until it closes it.
Start(t) ==
    /\ At(t, "idle")
    /\ calls[t] < Len(Menu[t])
    /\ calls' = [calls EXCEPT ![t] = @ + 1]
    /\ \E c \in Menu[t][calls[t] + 1] :
           me' = [me EXCEPT ![t] =
                     IF Refused(t, c) THEN [Idle(@, -1) EXCEPT !.call = c]
                     ELSE [@ EXCEPT !.call = c, !.pc = FirstStep(c),
                              !.left = c.len,
                              !.inum = IF c.op \in {"write", "read"}
                                       THEN open_file_table[me[t].fh].of_inumber
                                       ELSE 0]]
    /\ UNCHANGED <<tables, locks, status>>

Root(t) == InodeGet(t, "root", "lookup")

\* What a lookup of the call's name leads to.
Lookup(t) ==
    /\ At(t, "lookup")
    /\ \/ /\ Opening(t)
          /\ LET found == tfs_lookup(me[t].call.path)
             IN  CASE found # -1 ->
                        me' = [me EXCEPT ![t].pc = "node", ![t].inum = found]
                   [] found = -1 /\ "CREAT" \in me[t].call.mode ->
                        me' = [me EXCEPT ![t].pc = "scan", ![t].pos = 1]
                   [] OTHER -> Return(t, -1)
       \/ /\ Op(t) \in {"link", "symlink"}
          /\ LET found == tfs_lookup(me[t].call.target)
             IN  IF found = -1 THEN Return(t, -1)
                 ELSE me' = [me EXCEPT ![t].pc = "lookup_link",
                                       ![t].inum = found]
       \/ /\ Op(t) = "unlink"
          /\ LET found == tfs_lookup(me[t].call.path)
             IN  IF found = -1 THEN Return(t, -1)
                 ELSE me' = [me EXCEPT ![t].pc = "unlink_check",
                                       ![t].inum = found]
    /\ UNCHANGED <<tables, locks, calls, status>>

LookupLink(t) ==
    /\ At(t, "lookup_link")
    /\ IF tfs_lookup(me[t].call.path) # -1 THEN Return(t, -1)
       ELSE IF Op(t) = "link" THEN Goto(t, "link_check")
       ELSE me' = [me EXCEPT ![t].pc = "scan", ![t].pos = 1]
    /\ UNCHANGED <<tables, locks, calls, status>>

-----------------------------------------------------------------------------
(* inode_create: inode_alloc scans and takes without a lock.  Index 0 of *)
(* inodes and blocks is the root's, always taken: scans start at 1.      *)

ScanInodes(t) ==
    /\ At(t, "scan")
    /\ LET i == me[t].pos
       IN  IF i \notin INums THEN Return(t, -1)
           ELSE IF freeinode_ts[i] = "FREE" THEN Goto(t, "take")
           ELSE me' = [me EXCEPT ![t].pos = @ + 1]
    /\ UNCHANGED <<tables, locks, calls, status>>

TakeInode(t) ==
    /\ At(t, "take")
    /\ freeinode_ts' = [freeinode_ts EXCEPT ![me[t].pos] = "TAKEN"]
    /\ me' = [me EXCEPT ![t].pc = "table_lock", ![t].inum = me[t].pos]
    /\ UNCHANGED <<inode, free_blocks, dir, open_file_table,
                   free_open_file_entries, locks, calls, status>>

LockTable(t) ==
    /\ At(t, "table_lock")
    /\ TableFree
    /\ inode_table_lock' = t
    /\ Goto(t, "init")
    /\ UNCHANGED <<tables, readers, writer, calls, status>>

\* A file is initialised and both locks released; a directory (the inode of a
\* symbolic link is created as one) keeps them until it has its block.
InitInode(t) ==
    LET i == me[t].inum
    IN  /\ At(t, "init")
        /\ CanWrite(i)
        /\ \/ /\ Opening(t)
              /\ inode' = [inode EXCEPT ![i] = Fresh(@)]
              /\ UnlockTable
              /\ Goto(t, "entry")
              /\ UNCHANGED writer
           \/ /\ Op(t) = "symlink"
              /\ inode' = [inode EXCEPT ![i].n_links = 1,
                                        ![i].is_shortcut = FALSE]
              /\ writer' = [writer EXCEPT ![i] = t]
              /\ me' = [me EXCEPT ![t].pc = "block_scan", ![t].pos = 1]
              /\ UNCHANGED inode_table_lock
        /\ UNCHANGED <<freeinode_ts, free_blocks, dir, open_file_table,
                       free_open_file_entries, readers, calls, status>>

\* data_block_alloc, for a directory or for tfs_write.  With no block left,
\* inode_create goes on to inode_delete with both locks held.
ScanBlocks(t) ==
    LET b == me[t].pos
    IN  /\ At(t, "block_scan")
        /\ \/ /\ b \in BlockNumbers
              /\ IF free_blocks[b] = "FREE" THEN Goto(t, "block_take")
                 ELSE me' = [me EXCEPT ![t].pos = @ + 1]
              /\ UNCHANGED inode
           \/ /\ b \notin BlockNumbers /\ Op(t) = "symlink"
              /\ inode' = [inode EXCEPT ![me[t].inum].i_size = 0,
                                        ![me[t].inum].i_data_block = -1]
              /\ Goto(t, "delete")
           \/ /\ b \notin BlockNumbers /\ Op(t) # "symlink"
              /\ WriteReturns(t, -1)
              /\ UNCHANGED inode
        /\ UNCHANGED <<freeinode_ts, free_blocks, dir, open_file_table,
                       free_open_file_entries, locks, calls, status>>

TakeBlock(t) ==
    /\ At(t, "block_take")
    /\ free_blocks' = [free_blocks EXCEPT ![me[t].pos] = "TAKEN"]
    /\ Goto(t, "block_set")
    /\ UNCHANGED <<inode, freeinode_ts, dir, open_file_table,
                   free_open_file_entries, locks, calls, status>>

SetBlock(t) ==
    LET i == me[t].inum
    IN  /\ At(t, "block_set")
        /\ \/ /\ Op(t) = "symlink"
              /\ inode' = [inode EXCEPT ![i].i_size = BlockSize,
                                        ![i].i_data_block = me[t].pos]
              /\ writer' = [writer EXCEPT ![i] = Nobody]
              /\ UnlockTable
              /\ Goto(t, "node")
           \/ /\ Op(t) # "symlink"
              /\ inode' = [inode EXCEPT ![i].i_data_block = me[t].pos]
              /\ Goto(t, "bytes")
              /\ UNCHANGED <<writer, inode_table_lock>>
        /\ UNCHANGED <<freeinode_ts, free_blocks, dir, open_file_table,
                       free_open_file_entries, readers, calls, status>>

\* add_dir_entry for a new inode.
AddEntry(t) ==
    /\ At(t, "entry")
    /\ \/ /\ CanAddEntry(me[t].call.path)
          /\ add_dir_entry(me[t].call.path, me[t].inum)
          /\ Goto(t, IF Opening(t) THEN "add" ELSE "shortcut")
       \/ /\ ~CanAddEntry(me[t].call.path)
          /\ IF Opening(t) THEN Goto(t, "delete") ELSE Return(t, -1)
          /\ UNCHANGED dir
    /\ UNCHANGED <<inode, freeinode_ts, free_blocks, open_file_table,
                   free_open_file_entries, locks, calls, status>>

\* inode_delete takes inode_table_lock and the inode's lock for reading.  In
\* tfs_unlink the caller reads the inode too, until the inode is deleted.
DeleteInode(t) ==
    LET i == me[t].inum
    IN  /\ At(t, "delete")
        /\ TableFree
        /\ CanRead(i)
        /\ IF \/ freeinode_ts[i] = "FREE"
              \/ inode[i].i_size > 0 /\ inode[i].i_data_block = -1
           THEN Panic
           ELSE /\ freeinode_ts' = [freeinode_ts EXCEPT ![i] = "FREE"]
                /\ free_blocks' = IF inode[i].i_size = 0 THEN free_blocks
                                  ELSE [free_blocks EXCEPT
                                           ![inode[i].i_data_block] = "FREE"]
                /\ IF Op(t) = "unlink"
                   THEN ReadUnlock(i, t) /\ Goto(t, "clear")
                   ELSE Return(t, -1) /\ UNCHANGED readers
                /\ UNCHANGED <<inode, dir, open_file_table, writer, calls,
                               free_open_file_entries, inode_table_lock, status>>

-----------------------------------------------------------------------------
(* tfs_open of a name that exists *)

AfterTrunc(t) == IF "APPEND" \in me[t].call.mode THEN "append" ELSE "add"
AfterResolve(t) ==
    IF "TRUNC" \in me[t].call.mode THEN "trunc" ELSE AfterTrunc(t)

\* Of the file found, or of the one tfs_sym_link has created.
GetInode(t) == InodeGet(t, "node", IF Opening(t) THEN "deref" ELSE "entry")
Deref(t) ==
    /\ At(t, "deref")
    /\ Goto(t, IF inode[me[t].inum].is_shortcut THEN "follow"
               ELSE AfterResolve(t))
    /\ UNCHANGED <<tables, locks, calls, status>>

\* One link is followed, once.  Until tfs_sym_link has copied the target, the
\* buffer holds what malloc left there: the lookup may find any path or none.
Follow(t) ==
    LET link == inode[me[t].inum].soft_link
    IN  /\ At(t, "follow")
        /\ \E p \in IF link = NoName THEN Paths \cup {NoName} ELSE {link} :
               IF tfs_lookup(p) = -1 THEN Return(t, -1)
               ELSE me' = [me EXCEPT ![t].pc = "target_node",
                                     ![t].inum = tfs_lookup(p)]
        /\ UNCHANGED <<tables, locks, calls, status>>

GetTarget(t) == InodeGet(t, "target_node", AfterResolve(t))

\* The block is freed under the read lock, the size reset later under the
\* write lock; a last pair of lock and unlock follows.
Truncate(t) ==
    LET i == me[t].inum
    IN  /\ At(t, "trunc")
        /\ CanRead(i)
        /\ IF inode[i].i_size = 0
           THEN /\ Goto(t, AfterTrunc(t))
                /\ UNCHANGED <<tables, locks, calls, status>>
           ELSE IF inode[i].i_data_block = -1 THEN Panic
           ELSE /\ free_blocks' = [free_blocks EXCEPT
                                      ![inode[i].i_data_block] = "FREE"]
                /\ Goto(t, "trunc_zero")
                /\ UNCHANGED <<inode, freeinode_ts, dir, open_file_table,
                               free_open_file_entries, locks, calls, status>>

ResetSize(t) ==
    /\ At(t, "trunc_zero")
    /\ CanWrite(me[t].inum)
    /\ inode' = [inode EXCEPT ![me[t].inum].i_size = 0]
    /\ Goto(t, "trunc_again")
    /\ UNCHANGED <<freeinode_ts, free_blocks, dir, open_file_table,
                   free_open_file_entries, locks, calls, status>>

Truncated(t) ==
    /\ At(t, "trunc_again")
    /\ CanRead(me[t].inum)
    /\ Goto(t, AfterTrunc(t))
    /\ UNCHANGED <<tables, locks, calls, status>>

AppendOffset(t) ==
    /\ At(t, "append")
    /\ CanRead(me[t].inum)
    /\ me' = [me EXCEPT ![t].pc = "add", ![t].amount = inode[me[t].inum].i_size]
    /\ UNCHANGED <<tables, locks, calls, status>>

\* Mutant: entries in use are handed out too.
AllHandles == Handles

FreeHandles == {h \in Handles : free_open_file_entries[h] = "FREE"}

\* add_to_open_file_table, at the offset in amount.
AddHandle(t) ==
    /\ At(t, "add")
    /\ IF FreeHandles = {}
       THEN /\ Return(t, -1)
            /\ UNCHANGED <<open_file_table, free_open_file_entries>>
       ELSE LET h == Min(FreeHandles)
            IN  /\ free_open_file_entries' =
                       [free_open_file_entries EXCEPT ![h] = "TAKEN"]
                /\ open_file_table' =
                       [open_file_table EXCEPT ![h] =
                           [of_inumber |-> me[t].inum, of_offset |-> me[t].amount]]
                /\ me' = [me EXCEPT ![t] =
                             IF Op(t) = "copy"
                             THEN [@ EXCEPT !.fh = h, !.pc = "copy_next"]
                             ELSE [Idle(@, h) EXCEPT !.fh = h]]
    /\ UNCHANGED <<inode, freeinode_ts, free_blocks, dir, locks, calls, status>>

-----------------------------------------------------------------------------
(* tfs_close, tfs_write, tfs_read and tfs_copy_from_external_fs *)

offset(t) == open_file_table[me[t].fh].of_offset

CloseHandle(t, val) ==
    /\ free_open_file_entries' =
           [free_open_file_entries EXCEPT ![me[t].fh] = "FREE"]
    /\ me' = [me EXCEPT ![t] = [Idle(@, val) EXCEPT !.fh = NoHandle]]
    /\ UNCHANGED <<inode, freeinode_ts, free_blocks, dir, open_file_table,
                   locks, calls, status>>

Close(t) == At(t, "close") /\ CloseHandle(t, 0)

\* The loop of tfs_copy_from_external_fs; left is -1 after a failure.
CopyNext(t) ==
    /\ At(t, "copy_next")
    /\ \/ me[t].left <= 0 /\ CloseHandle(t, me[t].left)
       \/ /\ me[t].left > 0
          /\ me' = [me EXCEPT ![t].pc = "file",
                              ![t].inum = open_file_table[me[t].fh].of_inumber]
          /\ UNCHANGED <<tables, locks, calls, status>>

\* A buffer of the copy is one unit of BlockSize.
Length(t) == IF Op(t) = "copy" THEN 1 ELSE me[t].call.len

GetFile(t) == InodeGet(t, "file", "count")

\* How many bytes to move.  Both subtractions are of size_t: past the end of
\* the block a write has no bound (it crashes), past the end of the file a read
\* has none but len.
Count(t) ==
    LET size == inode[me[t].inum].i_size
        room == (IF Op(t) = "read" THEN size ELSE BlockSize) - offset(t)
        n == IF room < 0 THEN Length(t) ELSE Min({room, Length(t)})
    IN  /\ At(t, "count")
        /\ IF Op(t) # "read" /\ room < 0 THEN Panic
           ELSE /\ CASE n = 0 /\ Op(t) = "read" -> Return(t, 0)
                     [] n = 0 /\ Op(t) # "read" -> WriteReturns(t, 0)
                     [] n # 0 ->
                          me' = [me EXCEPT ![t].amount = n, ![t].pos = 1,
                                     ![t].pc = IF Op(t) # "read" /\ size = 0
                                               THEN "block_scan" ELSE "bytes"]
                /\ UNCHANGED <<tables, locks, calls, status>>

\* data_block_get, the copy, and the step of the handle's offset.
MoveBytes(t) ==
    /\ At(t, "bytes")
    /\ IF inode[me[t].inum].i_data_block = -1 THEN Panic
       ELSE /\ open_file_table' = [open_file_table EXCEPT
                                      ![me[t].fh].of_offset = @ + me[t].amount]
            /\ IF Op(t) = "read" THEN Return(t, me[t].amount)
               ELSE Goto(t, "grow")
            /\ UNCHANGED <<inode, freeinode_ts, free_blocks, dir,
                           free_open_file_entries, locks, calls, status>>

Grow(t) ==
    /\ At(t, "grow")
    /\ IF offset(t) > inode[me[t].inum].i_size THEN Goto(t, "set_size")
       ELSE WriteReturns(t, me[t].amount)
    /\ UNCHANGED <<tables, locks, calls, status>>

SetSize(t) ==
    /\ At(t, "set_size")
    /\ inode' = [inode EXCEPT ![me[t].inum].i_size = offset(t)]
    /\ WriteReturns(t, me[t].amount)
    /\ UNCHANGED <<freeinode_ts, free_blocks, dir, open_file_table,
                   free_open_file_entries, locks, calls, status>>
-----------------------------------------------------------------------------
(* tfs_link, the end of tfs_sym_link, and tfs_unlink *)

LinkCheck(t) ==
    LET i == me[t].inum
    IN  /\ At(t, "link_check")
        /\ CanRead(i)
        /\ IF inode[i].is_shortcut THEN Return(t, -1) /\ UNCHANGED readers
           ELSE Goto(t, "link_entry") /\ ReadLock(i, t)
        /\ UNCHANGED <<tables, inode_table_lock, writer, calls, status>>

\* When the entry cannot be added the call returns with its read lock.
LinkEntry(t) ==
    /\ At(t, "link_entry")
    /\ \/ /\ CanAddEntry(me[t].call.path)
          /\ add_dir_entry(me[t].call.path, me[t].inum)
          /\ ReadUnlock(me[t].inum, t)
          /\ Goto(t, "inc")
       \/ /\ ~CanAddEntry(me[t].call.path)
          /\ Return(t, -1)
          /\ UNCHANGED <<dir, readers>>
    /\ UNCHANGED <<inode, freeinode_ts, free_blocks, open_file_table, writer,
                   free_open_file_entries, inode_table_lock, calls, status>>

Increment(t) ==
    /\ At(t, "inc")
    /\ CanWrite(me[t].inum)
    /\ inode' = [inode EXCEPT ![me[t].inum].n_links = @ + 1]
    /\ Return(t, 0)
    /\ UNCHANGED <<freeinode_ts, free_blocks, dir, open_file_table,
                   free_open_file_entries, locks, calls, status>>

\* The inode becomes a link, to a buffer that malloc left as it was.
MakeShortcut(t) ==
    /\ At(t, "shortcut")
    /\ CanWrite(me[t].inum)
    /\ inode' = [inode EXCEPT ![me[t].inum].is_shortcut = TRUE,
                              ![me[t].inum].soft_link = NoName]
    /\ Goto(t, "fill")
    /\ UNCHANGED <<freeinode_ts, free_blocks, dir, open_file_table,
                   free_open_file_entries, locks, calls, status>>

FillTarget(t) ==
    /\ At(t, "fill")
    /\ inode' = [inode EXCEPT ![me[t].inum].soft_link = me[t].call.target]
    /\ Return(t, 0)
    /\ UNCHANGED <<freeinode_ts, free_blocks, dir, open_file_table,
                   free_open_file_entries, locks, calls, status>>

\* A link is deleted as it is, its inode still locked for reading.
UnlinkCheck(t) ==
    LET i == me[t].inum
    IN  /\ At(t, "unlink_check")
        /\ CanRead(i)
        /\ IF inode[i].is_shortcut THEN Goto(t, "delete") /\ ReadLock(i, t)
           ELSE Goto(t, "dec") /\ UNCHANGED readers
        /\ UNCHANGED <<tables, inode_table_lock, writer, calls, status>>

Decrement(t) ==
    /\ At(t, "dec")
    /\ CanWrite(me[t].inum)
    /\ inode' = [inode EXCEPT ![me[t].inum].n_links = @ - 1]
    /\ Goto(t, "gone")
    /\ UNCHANGED <<freeinode_ts, free_blocks, dir, open_file_table,
                   free_open_file_entries, locks, calls, status>>

\* Mutant: off by one.
IsLastOrOne(i) == inode[i].n_links <= 1

IsLast(i) == inode[i].n_links = 0

LastLink(t) ==
    LET i == me[t].inum
    IN  /\ At(t, "gone")
        /\ CanRead(i)
        /\ IF IsLast(i) THEN Goto(t, "delete") /\ ReadLock(i, t)
           ELSE Goto(t, "clear") /\ UNCHANGED readers
        /\ UNCHANGED <<tables, inode_table_lock, writer, calls, status>>

\* clear_dir_entry takes the first entry with the name, whatever its inode.
ClearEntry(t) ==
    LET hits == {s \in Slots : dir[s].d_name = me[t].call.path}
    IN  /\ At(t, "clear")
        /\ IF hits = {} THEN Return(t, -1) /\ UNCHANGED dir
           ELSE /\ dir' = [dir EXCEPT ![Min(hits)] = [d_name |-> NoName,
                                                      d_inumber |-> -1]]
                /\ Return(t, 0)
        /\ UNCHANGED <<inode, freeinode_ts, free_blocks, open_file_table,
                       free_open_file_entries, locks, calls, status>>

-----------------------------------------------------------------------------
Creating(t) == \/ ScanInodes(t) \/ TakeInode(t) \/ LockTable(t) \/ InitInode(t)
               \/ ScanBlocks(t) \/ TakeBlock(t) \/ SetBlock(t) \/ AddEntry(t)
Opened(t) == \/ GetInode(t) \/ Deref(t) \/ Follow(t) \/ GetTarget(t)
             \/ Truncate(t) \/ ResetSize(t) \/ Truncated(t) \/ AppendOffset(t)
             \/ AddHandle(t)
Transfer(t) == \/ Close(t) \/ CopyNext(t) \/ GetFile(t) \/ Count(t)
               \/ MoveBytes(t) \/ Grow(t) \/ SetSize(t)
Linking(t) == \/ LinkCheck(t) \/ LinkEntry(t) \/ Increment(t)
              \/ MakeShortcut(t) \/ FillTarget(t)
Unlinking(t) == \/ UnlinkCheck(t) \/ Decrement(t) \/ LastLink(t)
                \/ ClearEntry(t) \/ DeleteInode(t)

(* History: the races between two calls that TecnicoFS leaves open, noted *)
(* at the step that completes one.                                         *)

\* An allocator marks what another call has taken since it looked.
TakenTwice(t) ==
    \/ me[t].pc = "take" /\ freeinode_ts[me[t].pos] = "TAKEN"
    \/ me[t].pc = "block_take" /\ free_blocks[me[t].pos] = "TAKEN"

\* An entry is added for a name that has one by now.
NamedTwice(t) ==
    me[t].pc \in {"entry", "link_entry"} /\ find_in_dir(me[t].call.path) # -1

\* A tfs_unlink overlaps a tfs_link or tfs_unlink of one of its names.
Renaming(t) ==
    Op(t) \in {"link", "unlink"} /\ me[t].pc \notin {"idle", "root", "lookup"}
Names(t) == {me[t].call.path, me[t].call.target}
NameLost(t) ==
    \E u \in Threads \ {t} :
        /\ Renaming(t) /\ Renaming(u) /\ "unlink" \in {Op(t), Op(u)}
        /\ Names(t) \cap Names(u) # {}

\* Two tfs_unlinks, of different names, find the link count at zero.
DeletedTwice(t) ==
    /\ me[t].pc = "gone" /\ IsLast(me[t].inum)
    /\ \E u \in Threads \ {t} :
           /\ me[u].inum = me[t].inum /\ Op(u) = "unlink"
           /\ me[u].pc \in {"gone", "delete", "clear"}

\* A file loses its block in the middle of a write or of another truncation, or
\* a write starts between the loss and the reset of the size.
Truncating(i) == \E t \in Threads : me[t].inum = i /\ me[t].pc = "trunc_zero"
Writing(t) ==
    /\ Op(t) # "symlink"
    /\ me[t].pc \in {"block_scan", "block_take", "block_set", "bytes", "grow",
                     "set_size"}
FreedInUse(t) ==
    \/ /\ me[t].pc \in {"trunc", "delete"}
       /\ \E u \in Threads \ {t} :
              me[u].inum = me[t].inum /\ (Writing(u) \/ me[u].pc = "trunc_zero")
    \/ me[t].pc = "count" /\ Truncating(me[t].inum)

\* A call that found a file, or has a handle for it, truncates, reads or writes
\* it after its inode was deleted, and before the next file is set up in it.
SettingUp(i) ==
    \E t \in Threads :
        /\ me[t].inum = i
        /\ \/ me[t].pc \in {"table_lock", "init"}
           \/ Op(t) = "symlink" /\ me[t].pc \in {"block_scan", "block_take",
                                                "block_set", "delete"}
UsedDeleted(t) ==
    /\ me[t].pc \in {"trunc", "count"}
    /\ freeinode_ts[me[t].inum] = "FREE" \/ SettingUp(me[t].inum)

\* A symbolic link has its name, but is not a link yet, when it is linked to or
\* deleted.
NotYetLink(t) ==
    /\ me[t].pc \in {"link_check", "delete"}
    /\ \E u \in Threads : me[u].inum = me[t].inum /\ me[u].pc = "shortcut"

Races(t) ==
    {k \in RaceKinds : \/ k = "taken twice" /\ TakenTwice(t)
                       \/ k = "named twice" /\ NamedTwice(t)
                       \/ k = "name lost" /\ NameLost(t)
                       \/ k = "deleted twice" /\ DeletedTwice(t)
                       \/ k = "freed in use" /\ FreedInUse(t)
                       \/ k = "used deleted" /\ UsedDeleted(t)
                       \/ k = "not yet a link" /\ NotYetLink(t)}

\* What a thread does inside a call.
Step(t) ==
    /\ \/ Root(t) \/ Lookup(t) \/ LookupLink(t) \/ Creating(t) \/ Opened(t)
       \/ Transfer(t) \/ Linking(t) \/ Unlinking(t)
    /\ races' = races \cup Races(t)

Next == \E t \in Threads : (Start(t) /\ UNCHANGED races) \/ Step(t)

Spec == Init /\ [][Next]_vars

\* The system runs every thread that can go on.
FairSpec == Spec /\ \A t \in Threads : WF_vars(Step(t))

-----------------------------------------------------------------------------
(* Properties *)

Holding(t, i) == /\ me[t].inum = i
                 /\ \/ me[t].pc = "link_entry"
                    \/ me[t].pc = "delete" /\ Op(t) = "unlink"

\* inode_table_lock is held exactly by the inode_create that initialises an
\* inode, or hangs in its own inode_delete; only such a thread holds an inode for
\* writing over several steps, and then no thread reads that inode.  A thread
\* in the middle of tfs_link or tfs_unlink reads the inode it works on.
LockDiscipline ==
    /\ \A t \in Threads :
           inode_table_lock = t <=>
               \/ me[t].pc = "init"
               \/ Op(t) = "symlink" /\ me[t].pc \in {"block_scan", "block_take",
                                                     "block_set", "delete"}
    /\ \A i \in INums : writer[i] # Nobody =>
           /\ inode_table_lock = writer[i] /\ me[writer[i]].inum = i
           /\ \A t \in Threads : readers[i][t] = 0
    /\ \A t \in Threads, i \in INums : Holding(t, i) => readers[i][t] > 0

\* Two threads never use one handle, and a handle in use is not free: tfs_open
\* hands out an entry once until it is closed.
HandlesExclusive ==
    \A t, u \in Threads : me[t].fh # NoHandle =>
        /\ free_open_file_entries[me[t].fh] = "TAKEN"
        /\ t # u => me[t].fh # me[u].fh

\* The names of an inode, without those that a tfs_unlink has only to clear: the
\* inode is deleted, or has other names.
Named(i) ==
    {s \in Slots : /\ dir[s].d_inumber = i
                   /\ ~\E t \in Threads : /\ me[t].pc = "clear" /\ me[t].inum = i
                                          /\ me[t].call.path = dir[s].d_name}

\* Calls that have done one of the two updates, of n_links and of the directory:
\* a name not counted yet, a name that is not counted any more.
CountPending(t) == me[t].pc = "inc"
ClearPending(t) == Op(t) = "unlink" /\ me[t].pc \in {"gone", "delete"}

On(i, P(_)) == Cardinality({t \in Threads : me[t].inum = i /\ P(t)})

\* Every name leads to an inode in use; and n_links of a file counts its names,
\* up to the calls that have done one of the two updates.
LinksCounted ==
    \A i \in INums : Named(i) # {} =>
        /\ freeinode_ts[i] = "TAKEN"
        /\ inode[i].is_shortcut
           \/ inode[i].n_links + On(i, CountPending) + On(i, ClearPending)
                 = Cardinality(Named(i))

\* Names and link counts agree, whatever the threads call at the same time on
\* the same names, unless one of the races of RaceKinds has happened: there is
\* no other way to lose a name or a count (operations.c and state.c).
LinksWrongHasCause == races = {} => LinksCounted

\* No two files with a name have the same block, although truncation, deletion
\* and re-creation leave i_data_block behind (tfs_open, inode_delete), unless
\* one of those races has happened; a file whose truncation has freed the block
\* and not yet reset the size still points to it.
SharedBlockHasCause ==
    LET files == {i \in INums : /\ Named(i) # {} /\ inode[i].i_size > 0
                                /\ ~Truncating(i)}
    IN  races = {} => \A i, j \in files :
            i # j => inode[i].i_data_block # inode[j].i_data_block

\* No assertion of state.c fires: "inode already freed", "invalid block number".
NeverAborts == status = "running"

\* No thread waits for inode_table_lock while it holds it.
SelfLocked == \E t \in Threads : me[t].pc = "delete" /\ inode_table_lock = t
\* An idle thread has kept a read lock: its tfs_link found no room.
LockLeaked == \E t \in Threads, i \in INums :
                  readers[i][t] > 0 /\ ~Holding(t, i)
\* inode_create waits for the inode a tfs_unlink is reading, and tfs_unlink
\* for the table lock inode_create has.
CreateUnlinkCycle ==
    \E t, u \in Threads, i \in INums :
        /\ inode_table_lock = t /\ me[t].pc = "init" /\ me[t].inum = i
        /\ Holding(u, i) /\ me[u].pc = "delete"

Waiting(t) ==
    CASE me[t].pc \in {"root", "node", "target_node", "file", "table_lock"} ->
             ~TableFree
      [] me[t].pc = "delete" -> ~TableFree \/ ~CanRead(me[t].inum)
      [] me[t].pc \in {"trunc", "trunc_again", "append", "link_check",
                       "unlink_check", "gone"} -> ~CanRead(me[t].inum)
      [] me[t].pc \in {"init", "trunc_zero", "inc", "shortcut", "dec"} ->
             ~CanWrite(me[t].inum)
      [] OTHER -> FALSE

\* Whenever no call can go on, the reason is one of these three: the order in
\* which operations.c and state.c take their locks has no other deadlock.
HangHasCause ==
    LET busy == {t \in Threads : me[t].pc # "idle"}
    IN  (status = "running" /\ busy # {} /\ \A t \in busy : Waiting(t))
            => SelfLocked \/ LockLeaked \/ CreateUnlinkCycle

\* Every call of operations.c that a thread makes returns: no lock order and no
\* forgotten unlock keeps it waiting for ever.
CallsReturn == \A t \in Threads : me[t].pc # "idle" ~> me[t].pc = "idle"

\* TestThreads.c asserts that a thread that copied one buffer to a name and then
\* opened the name reads that buffer, while others copy to the name too.
CopyThenRead ==
    \A t \in Threads : (me[t].pc = "idle" /\ Op(t) = "read") => me[t].ret = 1
=============================================================================

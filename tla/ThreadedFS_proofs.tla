-------------------------- MODULE ThreadedFS_proofs --------------------------
(***************************************************************************)
(* TLAPS proofs about ThreadedFS, for any number of threads, any calls and *)
(* any limits: the tables keep their types, each lock is held by whom it   *)
(* should be, a handle is used by one thread, and no set of calls can wait *)
(* for each other but for the three reasons that HangHasCause names.       *)
(***************************************************************************)
EXTENDS ThreadedFS, TableLemmas

-----------------------------------------------------------------------------
(* The inductive invariant *)

\* The calls that can be at each point: of tfs_open and tfs_copy_from_external_fs,
\* which opens first; of these and tfs_sym_link, in inode_create; and so on.
Opens == {"open", "copy"}
Writes == {"write", "copy"}
OpsAt(label) ==
    CASE label \in {"deref", "follow", "target_node", "trunc", "trunc_zero",
                    "trunc_again", "append", "add"} -> Opens
      [] label \in {"node", "scan", "take", "table_lock", "init", "entry"} ->
             Opens \cup {"symlink"}
      [] label \in {"block_scan", "block_take", "block_set"} ->
             Writes \cup {"symlink"}
      [] label \in {"grow", "set_size"} -> Writes
      [] label \in {"file", "count", "bytes"} -> Writes \cup {"read"}
      [] label \in {"shortcut", "fill"} -> {"symlink"}
      [] label = "lookup_link" -> {"link", "symlink"}
      [] label \in {"link_check", "link_entry", "inc"} -> {"link"}
      [] label \in {"unlink_check", "dec", "gone", "clear"} -> {"unlink"}
      [] label = "delete" -> Opens \cup {"symlink", "unlink"}
      [] label = "close" -> {"close"}
      [] label = "copy_next" -> {"copy"}
      [] label \in {"root", "lookup"} ->
             Opens \cup {"symlink", "link", "unlink"}
      [] OTHER -> {"open", "symlink", "link", "unlink", "close", "write",
                   "read", "copy"}

\* tfs_write has no block yet, or is past that.
Blockless == {"block_scan", "block_take", "block_set"}
Moving(l) == l.call.op # "symlink" /\ l.pc \in Blockless \cup {"bytes"}
\* A handle is in use: by tfs_close, tfs_read, tfs_write and a copy's writes.
WithHandle(l) ==
    \/ l.pc \in {"close", "copy_next", "file", "count", "bytes", "grow", "set_size"}
    \/ l.call.op # "symlink" /\ l.pc \in Blockless

\* A thread's locals are as its position needs them, whatever others do.
LocalFits(l) ==
    /\ l.call.op \in OpsAt(l.pc)
    /\ l.call.op # "copy" => l.call.len \in Nat
    /\ l.pc = "take" => l.pos \in INums
    /\ l.pc \in {"block_take", "block_set"} => l.pos \in BlockNumbers
    /\ WithHandle(l) => l.fh # NoHandle
    /\ l.pc = "idle" => l.amount = 0
    /\ l.call.op # "read" => l.amount <= BlockSize

\* tfs_write stays inside the block, because nobody else moves the handle.
OffsetFits(l, table) ==
    l.call.op \in Writes =>
        /\ Moving(l) => table[l.fh].of_offset + l.amount <= BlockSize
        /\ l.pc \in {"grow", "set_size"} => table[l.fh].of_offset <= BlockSize

\* inode_create holds the table lock; between two of its steps an inode too.
HoldsTable(l) ==
    \/ l.pc = "init"
    \/ l.call.op = "symlink" /\ l.pc \in Blockless \cup {"delete"}

\* A writer is past the initialisation (or LockDiscipline would not say whether
\* inode_create waits for itself).
WriterPast == \A i \in INums : writer[i] # Nobody => me[writer[i]].pc # "init"

IInv ==
    /\ TypeOK
    /\ \A t \in Threads : LocalFits(me[t]) /\ OffsetFits(me[t], open_file_table)
    /\ HandlesExclusive
    /\ LockDiscipline
    /\ WriterPast

\* A thread reads the inode it works on.
Reads(l) ==
    \/ l.pc = "link_entry"
    \/ l.pc = "delete" /\ l.call.op = "unlink"

\* The type invariant, up to the threads' locals.
TablesOK ==
    /\ inode \in [INums -> [i_size : 0 .. BlockSize,
                            i_data_block : BlockNumbers \cup {-1},
                            n_links : Int, is_shortcut : BOOLEAN,
                            soft_link : Paths \cup {NoName}]]
    /\ freeinode_ts \in [INums -> {"FREE", "TAKEN"}]
    /\ free_blocks \in [BlockNumbers -> {"FREE", "TAKEN"}]
    /\ dir \in [Slots -> [d_name : Paths \cup {NoName},
                          d_inumber : INums \cup {-1}]]
    /\ open_file_table \in [Handles -> [of_inumber : INums, of_offset : Nat]]
    /\ free_open_file_entries \in [Handles -> {"FREE", "TAKEN"}]
    /\ inode_table_lock \in Threads \cup {Nobody}
    /\ readers \in [INums -> [Threads -> Nat]]
    /\ writer \in [INums -> Threads \cup {Nobody}]
    /\ calls \in [Threads -> Nat]
    /\ status \in {"running", "aborted"}
    /\ races \subseteq RaceKinds

-----------------------------------------------------------------------------
(* What a step of one thread leaves alone *)

\* A lookup finds the number of an inode, or none.
LEMMA LookupTyped ==
    ASSUME TypeOK, NEW name PROVE tfs_lookup(name) \in INums \cup {-1}
<1> DEFINE hits == {s \in Slots : dir[s].d_inumber # -1 /\ dir[s].d_name = name}
<1>1. hits \in SUBSET Nat  BY LimitsAssumption DEF Slots
<1>2. hits # {} => Min(hits) \in hits  BY <1>1, MinIn
<1>3. find_in_dir(name) \in INums \cup {-1}
  BY <1>2 DEF find_in_dir, TypeOK
<1> QED  BY <1>3 DEF tfs_lookup

\* The locks are as they were, and thread t moves where it needs no others.
LEMMA LocksKept ==
    ASSUME IInv, NEW t \in Threads, NEW l \in Locals, me' = [me EXCEPT ![t] = l],
           UNCHANGED locks, HoldsTable(l) <=> HoldsTable(me[t]),
           HoldsTable(l) => l.inum = me[t].inum /\ (l.pc = "init" => me[t].pc = "init"),
           Reads(l) => Reads(me[t]) /\ l.inum = me[t].inum
    PROVE  LockDiscipline' /\ WriterPast'
<1> USE DEF IInv, TypeOK, locks
<1>1. /\ me'[t] = l
      /\ \A u \in Threads : u # t => me'[u] = me[u]
  OBVIOUS
<1>2. \A u \in Threads : inode_table_lock = u <=> HoldsTable(me[u])
  BY DEF LockDiscipline, HoldsTable, Blockless, Op
<1>3. \A u \in Threads : inode_table_lock' = u <=> HoldsTable(me'[u])
  BY <1>1, <1>2
<1>4. \A i \in INums : writer[i] # Nobody =>
          /\ inode_table_lock = writer[i] /\ me'[writer[i]].inum = i
          /\ \A u \in Threads : readers[i][u] = 0
          /\ me'[writer[i]].pc # "init"
  <2> SUFFICES ASSUME NEW i \in INums, writer[i] # Nobody
               PROVE  me'[writer[i]].inum = i /\ me'[writer[i]].pc # "init"
    BY DEF LockDiscipline
  <2>1. /\ writer[i] \in Threads /\ inode_table_lock = writer[i]
        /\ me[writer[i]].inum = i /\ me[writer[i]].pc # "init"
    BY DEF LockDiscipline, WriterPast
  <2>2. HoldsTable(me[writer[i]])  BY <1>2, <2>1
  <2> QED  BY <1>1, <2>1, <2>2
<1>5. \A u \in Threads, i \in INums : Holding(u, i)' => readers[i][u] > 0
  BY <1>1, SMTT(30) DEF LockDiscipline, Holding, Reads, Op
<1> QED
  BY <1>3, <1>4, <1>5 DEF LockDiscipline, WriterPast, HoldsTable, Blockless, Op

\* The handles are as they were.
LEMMA HandlesKept ==
    ASSUME IInv, NEW t \in Threads, NEW l \in Locals, me' = [me EXCEPT ![t] = l],
           UNCHANGED free_open_file_entries, l.fh = me[t].fh
    PROVE  HandlesExclusive'
BY DEF IInv, TypeOK, HandlesExclusive

\* Thread t fits where it goes; the others go by handles that are not t's.
LEMMA FitsKept ==
    ASSUME IInv, NEW t \in Threads, NEW l \in Locals, me' = [me EXCEPT ![t] = l],
           LocalFits(l), OffsetFits(l, open_file_table'),
           \A u \in Threads \ {t} : me[u].fh # NoHandle =>
               open_file_table'[me[u].fh] = open_file_table[me[u].fh]
    PROVE  \A u \in Threads : LocalFits(me'[u]) /\ OffsetFits(me'[u], open_file_table')
<1> SUFFICES ASSUME NEW u \in Threads, u # t
             PROVE  LocalFits(me[u]) /\ OffsetFits(me[u], open_file_table')
  BY DEF IInv, TypeOK
<1>1. LocalFits(me[u]) /\ OffsetFits(me[u], open_file_table)
  BY DEF IInv
<1>2. Moving(me[u]) \/ me[u].pc \in {"grow", "set_size"} => WithHandle(me[u])
  <2>1. me[u].pc \in {"grow", "set_size", "bytes"} => WithHandle(me[u])
    BY DEF WithHandle
  <2> QED  BY <2>1 DEF Moving, WithHandle
<1>3. WithHandle(me[u]) => me[u].fh # NoHandle
  BY <1>1 DEF LocalFits
<1> QED  BY <1>1, <1>2, <1>3 DEF OffsetFits

\* A step of t that is about neither locks nor handles.
LEMMA MoveInv ==
    ASSUME IInv, NEW t \in Threads, NEW l \in Locals, me' = [me EXCEPT ![t] = l],
           TablesOK', UNCHANGED <<locks, open_file_table, free_open_file_entries>>,
           LocalFits(l), OffsetFits(l, open_file_table), l.fh = me[t].fh,
           HoldsTable(l) <=> HoldsTable(me[t]),
           HoldsTable(l) => l.inum = me[t].inum /\ (l.pc = "init" => me[t].pc = "init"),
           Reads(l) => Reads(me[t]) /\ l.inum = me[t].inum
    PROVE  IInv'
<1>1. LockDiscipline' /\ WriterPast'  BY LocksKept
<1>2. HandlesExclusive'  BY HandlesKept
<1>3. \A u \in Threads : LocalFits(me'[u]) /\ OffsetFits(me'[u], open_file_table')
  BY FitsKept
<1>4. TypeOK'  BY DEF IInv, TypeOK, TablesOK
<1> QED  BY <1>1, <1>2, <1>3, <1>4 DEF IInv

-----------------------------------------------------------------------------
(* A thread's locals after a step.  Each lemma follows the updates of one   *)
(* kind of step, one field at a time.                                       *)

AtPc(l, label) == [l EXCEPT !.pc = label]
AtInum(l, label, i) == [l EXCEPT !.pc = label, !.inum = i]
AtPos(l, label, n) == [l EXCEPT !.pc = label, !.pos = n]
AtAmount(l, label, n) == [l EXCEPT !.pc = label, !.amount = n]
AtLeft(l, label, n) == [l EXCEPT !.pc = label, !.left = n]
AtMove(l, label, n, p) == [l EXCEPT !.amount = n, !.pos = p, !.pc = label]
AtHandle(l, label, h) == [l EXCEPT !.fh = h, !.pc = label]

\* A thread goes on; the rest of its locals stay.
LEMMA PcOnly ==
    ASSUME NEW l \in Locals, NEW label \in Labels
    PROVE  /\ AtPc(l, label) \in Locals /\ AtPc(l, label).pc = label
           /\ AtPc(l, label).call = l.call /\ AtPc(l, label).fh = l.fh
           /\ AtPc(l, label).inum = l.inum
           /\ AtPc(l, label).pos = l.pos /\ AtPc(l, label).amount = l.amount
           /\ AtPc(l, label).left = l.left
BY DEF Locals, AtPc

\* It goes on with an inode.
LEMMA PcInum ==
    ASSUME NEW l \in Locals, NEW label \in Labels, NEW i \in INums
    PROVE  /\ AtInum(l, label, i) \in Locals
           /\ AtInum(l, label, i).pc = label /\ AtInum(l, label, i).inum = i
           /\ AtInum(l, label, i).call = l.call /\ AtInum(l, label, i).fh = l.fh
           /\ AtInum(l, label, i).pos = l.pos
           /\ AtInum(l, label, i).amount = l.amount
<1> DEFINE m == [l EXCEPT !.pc = label]
<1>1. /\ m \in Locals /\ m.pc = label
      /\ m.call = l.call /\ m.fh = l.fh /\ m.pos = l.pos /\ m.amount = l.amount
  BY DEF Locals
<1>2. AtInum(l, label, i) = [m EXCEPT !.inum = i]  BY DEF AtInum
<1> HIDE DEF m
<1> QED  BY <1>1, <1>2 DEF Locals

\* It goes on with a position to scan from.
LEMMA PcPos ==
    ASSUME NEW l \in Locals, NEW label \in Labels, NEW n \in Nat
    PROVE  /\ AtPos(l, label, n) \in Locals /\ AtPos(l, label, n).pc = label
           /\ AtPos(l, label, n).pos = n
           /\ AtPos(l, label, n).call = l.call /\ AtPos(l, label, n).fh = l.fh
           /\ AtPos(l, label, n).inum = l.inum
           /\ AtPos(l, label, n).amount = l.amount
<1> DEFINE m == [l EXCEPT !.pc = label]
<1>1. /\ m \in Locals /\ m.pc = label
      /\ m.call = l.call /\ m.fh = l.fh /\ m.inum = l.inum /\ m.amount = l.amount
  BY DEF Locals
<1>2. AtPos(l, label, n) = [m EXCEPT !.pos = n]  BY DEF AtPos
<1> HIDE DEF m
<1> QED  BY <1>1, <1>2 DEF Locals

\* It goes on with an amount.
LEMMA PcAmount ==
    ASSUME NEW l \in Locals, NEW label \in Labels, NEW n \in Nat
    PROVE  /\ AtAmount(l, label, n) \in Locals
           /\ AtAmount(l, label, n).pc = label
           /\ AtAmount(l, label, n).amount = n
           /\ AtAmount(l, label, n).call = l.call
           /\ AtAmount(l, label, n).fh = l.fh
           /\ AtAmount(l, label, n).inum = l.inum
<1> DEFINE m == [l EXCEPT !.pc = label]
<1>1. /\ m \in Locals /\ m.pc = label
      /\ m.call = l.call /\ m.fh = l.fh /\ m.inum = l.inum
  BY DEF Locals
<1>2. AtAmount(l, label, n) = [m EXCEPT !.amount = n]  BY DEF AtAmount
<1> HIDE DEF m
<1> QED  BY <1>1, <1>2 DEF Locals

\* It goes on with a number of buffers left.
LEMMA PcLeft ==
    ASSUME NEW l \in Locals, NEW label \in Labels, NEW n \in Int
    PROVE  /\ AtLeft(l, label, n) \in Locals
           /\ AtLeft(l, label, n).pc = label
           /\ AtLeft(l, label, n).amount = l.amount
           /\ AtLeft(l, label, n).call = l.call /\ AtLeft(l, label, n).fh = l.fh
<1> DEFINE m == [l EXCEPT !.pc = label]
<1>1. /\ m \in Locals /\ m.pc = label
      /\ m.call = l.call /\ m.fh = l.fh /\ m.amount = l.amount
  BY DEF Locals
<1>2. AtLeft(l, label, n) = [m EXCEPT !.left = n]  BY DEF AtLeft
<1> HIDE DEF m
<1> QED  BY <1>1, <1>2 DEF Locals

\* It goes on with an amount and a position.
LEMMA PcPosAmount ==
    ASSUME NEW l \in Locals, NEW label \in Labels, NEW n \in Nat, NEW p \in Nat
    PROVE  /\ AtMove(l, label, n, p) \in Locals
           /\ AtMove(l, label, n, p).pc = label
           /\ AtMove(l, label, n, p).amount = n
           /\ AtMove(l, label, n, p).pos = p
           /\ AtMove(l, label, n, p).call = l.call
           /\ AtMove(l, label, n, p).fh = l.fh
           /\ AtMove(l, label, n, p).inum = l.inum
<1> DEFINE m == [l EXCEPT !.amount = n]
           k == [m EXCEPT !.pos = p]
<1>1. /\ m \in Locals /\ m.amount = n
      /\ m.call = l.call /\ m.fh = l.fh /\ m.inum = l.inum
  BY DEF Locals
<1>2. AtMove(l, label, n, p) = [k EXCEPT !.pc = label]
  BY DEF AtMove
<1> HIDE DEF m
<1>3. /\ k \in Locals /\ k.amount = n /\ k.pos = p
      /\ k.call = l.call /\ k.fh = l.fh /\ k.inum = l.inum
  BY <1>1 DEF Locals
<1> HIDE DEF k
<1> QED  BY <1>2, <1>3 DEF Locals

\* It goes on with a handle.
LEMMA FhPc ==
    ASSUME NEW l \in Locals, NEW label \in Labels, NEW h \in Handles
    PROVE  /\ AtHandle(l, label, h) \in Locals
           /\ AtHandle(l, label, h).pc = label
           /\ AtHandle(l, label, h).fh = h
           /\ AtHandle(l, label, h).call = l.call
           /\ AtHandle(l, label, h).inum = l.inum
           /\ AtHandle(l, label, h).amount = l.amount
<1> DEFINE m == [l EXCEPT !.fh = h]
<1>1. /\ m \in Locals /\ m.fh = h
      /\ m.call = l.call /\ m.inum = l.inum /\ m.amount = l.amount
  BY DEF Locals
<1>2. AtHandle(l, label, h) = [m EXCEPT !.pc = label]  BY DEF AtHandle
<1> HIDE DEF m
<1> QED  BY <1>1, <1>2 DEF Locals

\* It returns, and keeps its call and its handle.
LEMMA IdleTyped ==
    ASSUME NEW l \in Locals, NEW val \in Int
    PROVE  /\ Idle(l, val) \in Locals /\ Idle(l, val).pc = "idle"
           /\ Idle(l, val).call = l.call /\ Idle(l, val).fh = l.fh
           /\ Idle(l, val).amount = 0
<1> DEFINE a == [l EXCEPT !.pc = "idle"]
           b == [a EXCEPT !.ret = val]
           c == [b EXCEPT !.inum = 0]
           d == [c EXCEPT !.pos = 0]
           e == [d EXCEPT !.amount = 0]
           f == [e EXCEPT !.left = 0]
<1>1. "idle" \in Labels /\ 0 \in INums
  BY LimitsAssumption DEF Labels, INums
<1>2. a \in Locals /\ a.pc = "idle" /\ a.call = l.call /\ a.fh = l.fh
  BY <1>1 DEF Locals
<1>3. Idle(l, val) = f
  BY DEF Idle
<1> HIDE DEF a
<1>4. b \in Locals /\ b.pc = "idle" /\ b.call = l.call /\ b.fh = l.fh
  BY <1>2 DEF Locals
<1> HIDE DEF b
<1>5. c \in Locals /\ c.pc = "idle" /\ c.call = l.call /\ c.fh = l.fh
  BY <1>1, <1>4 DEF Locals
<1> HIDE DEF c
<1>6. d \in Locals /\ d.pc = "idle" /\ d.call = l.call /\ d.fh = l.fh
  BY <1>5 DEF Locals
<1> HIDE DEF d
<1>7. e \in Locals /\ e.pc = "idle" /\ e.call = l.call /\ e.fh = l.fh /\ e.amount = 0
  BY <1>6 DEF Locals
<1> HIDE DEF e
<1> QED  BY <1>3, <1>7 DEF Locals


\* A thread's locals have their types.
LEMMA MeTyped == ASSUME IInv, NEW t \in Threads PROVE me[t] \in Locals
BY DEF IInv, TypeOK

\* A call that holds no lock returns.
LEMMA ReturnInv ==
    ASSUME IInv, NEW t \in Threads, NEW val \in Int, Return(t, val), TablesOK',
           UNCHANGED <<locks, open_file_table, free_open_file_entries>>,
           ~HoldsTable(me[t])
    PROVE  IInv'
<1> DEFINE l == Idle(me[t], val)
<1>1. l \in Locals /\ l.fh = me[t].fh /\ l.pc = "idle" /\ l.call = me[t].call
      /\ l.amount = 0
  BY MeTyped, IdleTyped
<1>2. ~HoldsTable(l) /\ ~Reads(l)
  BY <1>1 DEF HoldsTable, Reads, Blockless
<1>3. LocalFits(l)
  <2>1. LocalFits(me[t])
    BY DEF IInv
  <2>2. l.call.op \in OpsAt("idle")
    BY <1>1 DEF OpsAt, Locals, Call
  <2> QED  BY <1>1, <2>1, <2>2, LimitsAssumption DEF LocalFits, WithHandle, Blockless
<1>4. OffsetFits(l, open_file_table)
  BY <1>1 DEF OffsetFits, Moving, Blockless
<1>5. me' = [me EXCEPT ![t] = l]  BY DEF Return
<1> HIDE DEF l
<1> QED  BY <1>1, <1>2, <1>3, <1>4, <1>5, MoveInv

\* tfs_write returns to its caller or to tfs_copy_from_external_fs.
LEMMA WriteReturnsInv ==
    ASSUME IInv, NEW t \in Threads, NEW n \in Int, WriteReturns(t, n), TablesOK',
           UNCHANGED <<locks, open_file_table, free_open_file_entries>>,
           WithHandle(me[t]), Op(t) # "symlink", me[t].pc # "init"
    PROVE  IInv'
<1>1. ~HoldsTable(me[t])  BY DEF HoldsTable, Op
<1>2. CASE Op(t) # "copy"  BY <1>1, <1>2, ReturnInv DEF WriteReturns
<1>3. CASE Op(t) = "copy"
  <2> DEFINE left == IF n = 1 THEN me[t].left - 1 ELSE -1
             l == AtLeft(me[t], "copy_next", left)
  <2>1. me' = [me EXCEPT ![t] = l]
    BY <1>3 DEF WriteReturns, AtLeft, IInv, TypeOK
  <2>2. l \in Locals /\ l.fh = me[t].fh /\ l.pc = "copy_next" /\ l.call = me[t].call
        /\ l.amount = me[t].amount
    <3>1. "copy_next" \in Labels  BY DEF Labels
    <3>2. me[t] \in Locals  BY MeTyped
    <3>3. left \in Int  BY <3>2 DEF Locals
    <3> HIDE DEF left
    <3> QED  BY <3>1, <3>2, <3>3, PcLeft
  <2>3. LocalFits(l)
    <3>1. LocalFits(me[t])  BY DEF IInv
    <3>2. l.call.op \in OpsAt("copy_next")  BY <1>3, <2>2 DEF OpsAt, Op
    <3> QED  BY <1>3, <2>2, <3>1, <3>2 DEF LocalFits, WithHandle, Op
  <2>4. OffsetFits(l, open_file_table)
    BY <2>2 DEF OffsetFits, Moving, Blockless
  <2>5. ~HoldsTable(l) /\ ~Reads(l)
    BY <2>2 DEF HoldsTable, Reads, Blockless
  <2> HIDE DEF l
  <2> QED  BY <1>1, <2>1, <2>2, <2>3, <2>4, <2>5, MoveInv
<1> QED  BY <1>2, <1>3

\* A failed assertion stops the process and changes nothing else.
LEMMA PanicInv ==
    ASSUME IInv, Panic, races' \subseteq RaceKinds PROVE IInv'
<1> USE DEF Panic, tables, locks
<1>1. TypeOK'  BY DEF IInv, TypeOK
<1>2. LockDiscipline' /\ WriterPast' /\ HandlesExclusive'
  BY DEF IInv, LockDiscipline, WriterPast, HandlesExclusive, Holding, Op
<1> QED  BY <1>1, <1>2 DEF IInv, OffsetFits

\* Positions in which a thread holds nothing and has no handle to move.
Plain == {"root", "lookup", "lookup_link", "node", "deref", "follow", "target_node",
          "trunc", "trunc_zero", "trunc_again", "append", "add", "scan", "table_lock",
          "entry", "shortcut", "fill", "link_check", "inc", "unlink_check", "dec",
          "gone", "clear"}

\* A thread comes to such a position, holding nothing.
LEMMA PlainInv ==
    ASSUME IInv, NEW t \in Threads, NEW l \in Locals, me' = [me EXCEPT ![t] = l],
           TablesOK', UNCHANGED <<locks, open_file_table, free_open_file_entries>>,
           l.pc \in Plain, l.call = me[t].call, l.fh = me[t].fh,
           Op(t) \in OpsAt(l.pc), l.amount \in {me[t].amount} \cup (0 .. BlockSize),
           ~HoldsTable(me[t])
    PROVE  IInv'
<1>1. ~HoldsTable(l) /\ ~Reads(l) /\ ~WithHandle(l)
  BY DEF Plain, HoldsTable, Reads, WithHandle, Blockless
<1>2. LocalFits(l)
  <2>1. LocalFits(me[t])  BY DEF IInv
  <2> QED  BY <1>1, <2>1, LimitsAssumption DEF LocalFits, Plain, Op
<1>3. OffsetFits(l, open_file_table)
  BY DEF OffsetFits, Moving, Blockless, Plain
<1> QED  BY <1>1, <1>2, <1>3, MoveInv

\* The same, when only its position changes.
LEMMA PlainGoto ==
    ASSUME IInv, NEW t \in Threads, NEW label \in Plain, Goto(t, label),
           TablesOK', UNCHANGED <<locks, open_file_table, free_open_file_entries>>,
           Op(t) \in OpsAt(label), ~HoldsTable(me[t])
    PROVE  IInv'
<1> DEFINE l == AtPc(me[t], label)
<1>1. label \in Labels  BY DEF Plain, Labels
<1>2. /\ l \in Locals /\ l.pc = label
      /\ l.call = me[t].call /\ l.fh = me[t].fh /\ l.amount = me[t].amount
  BY <1>1, MeTyped, PcOnly
<1>3. me' = [me EXCEPT ![t] = l]  BY DEF Goto, AtPc, IInv, TypeOK
<1> HIDE DEF l
<1> QED  BY <1>2, <1>3, PlainInv

\* The same, when it has found an inode.
LEMMA PlainInum ==
    ASSUME IInv, NEW t \in Threads, NEW label \in Plain, NEW i \in INums,
           me' = [me EXCEPT ![t].pc = label, ![t].inum = i],
           TablesOK', UNCHANGED <<locks, open_file_table, free_open_file_entries>>,
           Op(t) \in OpsAt(label), ~HoldsTable(me[t])
    PROVE  IInv'
<1> DEFINE l == AtInum(me[t], label, i)
<1>1. label \in Labels  BY DEF Plain, Labels
<1>2. /\ l \in Locals /\ l.pc = label
      /\ l.call = me[t].call /\ l.fh = me[t].fh /\ l.amount = me[t].amount
  BY <1>1, MeTyped, PcInum
<1>3. me' = [me EXCEPT ![t] = l]  BY DEF AtInum, IInv, TypeOK
<1> HIDE DEF l
<1> QED  BY <1>2, <1>3, PlainInv

\* The same, when it starts or goes on scanning.
LEMMA PlainPos ==
    ASSUME IInv, NEW t \in Threads, NEW label \in Plain, NEW n \in Nat,
           me' = [me EXCEPT ![t].pc = label, ![t].pos = n],
           TablesOK', UNCHANGED <<locks, open_file_table, free_open_file_entries>>,
           Op(t) \in OpsAt(label), ~HoldsTable(me[t])
    PROVE  IInv'
<1> DEFINE l == AtPos(me[t], label, n)
<1>1. label \in Labels  BY DEF Plain, Labels
<1>2. /\ l \in Locals /\ l.pc = label
      /\ l.call = me[t].call /\ l.fh = me[t].fh /\ l.amount = me[t].amount
  BY <1>1, MeTyped, PcPos
<1>3. me' = [me EXCEPT ![t] = l]  BY DEF AtPos, IInv, TypeOK
<1> HIDE DEF l
<1> QED  BY <1>2, <1>3, PlainInv

\* A step that changes a thread alone keeps the tables.
LEMMA TablesKept ==
    ASSUME IInv, UNCHANGED <<tables, locks, calls, status>>, races' \subseteq RaceKinds
    PROVE  /\ TablesOK'
           /\ UNCHANGED <<locks, open_file_table, free_open_file_entries>>
BY DEF IInv, TypeOK, TablesOK, tables, locks

\* Not in inode_create between its locks: nothing to release.
LEMMA HoldsNothing ==
    ASSUME NEW t \in Threads, me[t].pc \notin Blockless \cup {"init", "delete"}
    PROVE  ~HoldsTable(me[t])
BY DEF HoldsTable

\* The calls that can be at a point.
LEMMA OpAt == ASSUME IInv, NEW t \in Threads PROVE Op(t) \in OpsAt(me[t].pc)
BY DEF IInv, LocalFits, Op

-----------------------------------------------------------------------------
(* The steps *)

\* The lookup begins once the table lock has been free.
LEMMA RootInv == ASSUME IInv, NEW t \in Threads, races' \subseteq RaceKinds, Root(t)
                 PROVE  IInv'
<1> USE DEF Root, InodeGet, At
<1>1. Op(t) \in OpsAt("lookup")  BY OpAt DEF OpsAt
<1>2. "lookup" \in Plain  BY DEF Plain
<1>3. ~HoldsTable(me[t])  BY HoldsNothing DEF Blockless
<1> QED  BY <1>1, <1>2, <1>3, TablesKept, PlainGoto

\* A name is looked up, for tfs_open, tfs_unlink or a link's target.
LEMMA LookupInv == ASSUME IInv, NEW t \in Threads, races' \subseteq RaceKinds, Lookup(t)
                   PROVE  IInv'
<1>1. ~HoldsTable(me[t])  BY HoldsNothing DEF Lookup, At, Blockless
<1>2. /\ TablesOK'
      /\ UNCHANGED <<locks, open_file_table, free_open_file_entries>>
  BY TablesKept DEF Lookup
<1>3. ASSUME Return(t, -1) PROVE IInv'
  BY <1>1, <1>2, <1>3, ReturnInv
<1>4. ASSUME NEW label \in {"node", "lookup_link", "unlink_check"}, NEW name,
             Op(t) \in OpsAt(label), tfs_lookup(name) # -1,
             me' = [me EXCEPT ![t].pc = label, ![t].inum = tfs_lookup(name)]
      PROVE  IInv'
  <2> DEFINE i == tfs_lookup(name)
  <2>1. i \in INums /\ label \in Plain  BY <1>4, LookupTyped DEF IInv, Plain
  <2> HIDE DEF i
  <2> QED  BY <1>1, <1>2, <1>4, <2>1, PlainInum DEF i
<1>5. CASE Opening(t)
  <2>1. Op(t) \in OpsAt("node") /\ Op(t) \in OpsAt("scan") /\ "scan" \in Plain
    BY <1>5 DEF OpsAt, Opening, Opens, Plain
  <2>2. ASSUME me' = [me EXCEPT ![t].pc = "scan", ![t].pos = 1] PROVE IInv'
    BY <1>1, <1>2, <2>1, <2>2, PlainPos
  <2> QED  BY <1>3, <1>4, <1>5, <2>1, <2>2 DEF Lookup, Opening
<1>6. CASE Op(t) \in {"link", "symlink"}
  <2>1. Op(t) \in OpsAt("lookup_link")  BY <1>6 DEF OpsAt
  <2> QED  BY <1>3, <1>4, <1>6, <2>1 DEF Lookup, Opening
<1>7. CASE Op(t) = "unlink"
  <2>1. Op(t) \in OpsAt("unlink_check")  BY <1>7 DEF OpsAt
  <2> QED  BY <1>3, <1>4, <1>7, <2>1 DEF Lookup, Opening
<1> QED  BY <1>5, <1>6, <1>7 DEF Lookup

\* The name of the link is looked up.
LEMMA LookupLinkInv ==
    ASSUME IInv, NEW t \in Threads, races' \subseteq RaceKinds, LookupLink(t)
    PROVE  IInv'
<1>1. ~HoldsTable(me[t])  BY HoldsNothing DEF LookupLink, At, Blockless
<1>2. /\ TablesOK'
      /\ UNCHANGED <<locks, open_file_table, free_open_file_entries>>
  BY TablesKept DEF LookupLink
<1>3. CASE Return(t, -1)  BY <1>1, <1>2, <1>3, ReturnInv
<1>4. CASE Op(t) = "link" /\ Goto(t, "link_check")
  <2>1. Op(t) \in OpsAt("link_check") /\ "link_check" \in Plain
    BY <1>4 DEF OpsAt, Plain
  <2> QED  BY <1>1, <1>2, <1>4, <2>1, PlainGoto
<1>5. CASE Op(t) # "link" /\ me' = [me EXCEPT ![t].pc = "scan", ![t].pos = 1]
  <2>1. Op(t) = "symlink"  BY <1>5, OpAt DEF LookupLink, At, OpsAt
  <2>2. Op(t) \in OpsAt("scan") /\ "scan" \in Plain  BY <2>1 DEF OpsAt, Plain
  <2> QED  BY <1>1, <1>2, <1>5, <2>2, PlainPos
<1> QED  BY <1>3, <1>4, <1>5 DEF LookupLink

\* Where a call starts, and how one is refused.
Begin(l, c, label, i) ==
    [l EXCEPT !.call = c, !.pc = label, !.left = c.len, !.inum = i]
Refusal(l, c) == [Idle(l, -1) EXCEPT !.call = c]

\* A thread's locals at the first step of call c.
LEMMA BeginTyped ==
    ASSUME NEW l \in Locals, NEW c \in Call, NEW label \in Labels, NEW i \in INums
    PROVE  /\ Begin(l, c, label, i) \in Locals /\ Begin(l, c, label, i).pc = label
           /\ Begin(l, c, label, i).call = c /\ Begin(l, c, label, i).fh = l.fh
           /\ Begin(l, c, label, i).amount = l.amount
<1> DEFINE a == [l EXCEPT !.call = c]
           b == [a EXCEPT !.pc = label]
           d == [b EXCEPT !.left = c.len]
<1>1. a \in Locals /\ a.call = c /\ a.fh = l.fh /\ a.amount = l.amount
  BY DEF Locals
<1>2. Begin(l, c, label, i) = [d EXCEPT !.inum = i]
  BY DEF Begin
<1>3. c.len \in Int  BY DEF Call
<1> HIDE DEF a
<1>4. b \in Locals /\ b.pc = label /\ b.call = c /\ b.fh = l.fh
      /\ b.amount = l.amount
  BY <1>1 DEF Locals
<1> HIDE DEF b
<1>5. d \in Locals /\ d.pc = label /\ d.call = c /\ d.fh = l.fh
      /\ d.amount = l.amount
  BY <1>3, <1>4 DEF Locals
<1> HIDE DEF d
<1> QED  BY <1>2, <1>5 DEF Locals

\* A refused call leaves the thread idle.
LEMMA RefusalTyped ==
    ASSUME NEW l \in Locals, NEW c \in Call
    PROVE  /\ Refusal(l, c) \in Locals /\ Refusal(l, c).pc = "idle"
           /\ Refusal(l, c).call = c /\ Refusal(l, c).fh = l.fh
           /\ Refusal(l, c).amount = 0
<1> DEFINE a == Idle(l, -1)
<1>1. a \in Locals /\ a.pc = "idle" /\ a.fh = l.fh /\ a.amount = 0
  BY IdleTyped
<1>2. Refusal(l, c) = [a EXCEPT !.call = c]  BY DEF Refusal
<1> HIDE DEF a
<1> QED  BY <1>1, <1>2 DEF Locals

\* A call starts: what it is comes from the thread's menu.
LEMMA StartInv ==
    ASSUME IInv, NEW t \in Threads, UNCHANGED races, Start(t) PROVE IInv'
<1>1. PICK c \in Menu[t][calls[t] + 1] :
           me' = [me EXCEPT ![t] =
                     IF Refused(t, c) THEN [Idle(@, -1) EXCEPT !.call = c]
                     ELSE [@ EXCEPT !.call = c, !.pc = FirstStep(c),
                              !.left = c.len,
                              !.inum = IF c.op \in {"write", "read"}
                                       THEN open_file_table[me[t].fh].of_inumber
                                       ELSE 0]]
  BY DEF Start
<1>2. c \in Call /\ (c.op # "copy" => c.len \in Nat)
  <2>1. calls[t] + 1 \in 1 .. Len(Menu[t])
    BY DEF Start, IInv, TypeOK
  <2>2. Menu[t] \in Seq(SUBSET Call)  BY ClientAssumption
  <2> QED  BY <2>1, <2>2, ClientAssumption
<1>3. /\ TablesOK'
      /\ UNCHANGED <<locks, open_file_table, free_open_file_entries>>
  BY DEF Start, IInv, TypeOK, TablesOK, tables, locks
<1>4. me[t] \in Locals /\ me[t].amount = 0 /\ me[t].pc = "idle" /\ ~HoldsTable(me[t])
  BY MeTyped DEF IInv, LocalFits, Start, At, HoldsTable, Blockless
<1>5. CASE Refused(t, c)
  <2> DEFINE l == Refusal(me[t], c)
  <2>1. me' = [me EXCEPT ![t] = l]  BY <1>1, <1>5 DEF Refusal
  <2>2. l \in Locals /\ l.pc = "idle" /\ l.call = c /\ l.fh = me[t].fh /\ l.amount = 0
    BY <1>2, <1>4, RefusalTyped
  <2> HIDE DEF l
  <2>3. ~HoldsTable(l) /\ ~Reads(l) /\ ~WithHandle(l)
    BY <2>2 DEF HoldsTable, Reads, WithHandle, Blockless
  <2>4. LocalFits(l)
    <3>1. c.op \in OpsAt("idle")  BY <1>2 DEF Call, OpsAt
    <3> QED  BY <1>2, <2>2, <2>3, <3>1, LimitsAssumption DEF LocalFits
  <2>5. OffsetFits(l, open_file_table)
    BY <2>2 DEF OffsetFits, Moving, Blockless
  <2> QED  BY <1>3, <1>4, <2>1, <2>2, <2>3, <2>4, <2>5, MoveInv
<1>6. CASE ~Refused(t, c)
  <2> DEFINE i == IF c.op \in {"write", "read"}
                  THEN open_file_table[me[t].fh].of_inumber ELSE 0
             l == Begin(me[t], c, FirstStep(c), i)
  <2>1. me' = [me EXCEPT ![t] = l]  BY <1>1, <1>6 DEF Begin
  <2>2. c.op \in {"close", "write", "read"} => me[t].fh \in Handles
    BY <1>4, <1>6 DEF Refused, Locals
  <2>3. i \in INums
    BY <2>2, LimitsAssumption DEF IInv, TypeOK, INums
  <2>4. /\ FirstStep(c) \in {"root", "close", "file"}
        /\ c.op \in OpsAt(FirstStep(c))
        /\ FirstStep(c) \in {"close", "file"} => c.op \in {"close", "write", "read"}
    <3>1. CASE c.op \in {"open", "copy", "symlink", "link", "unlink"}
      <4>1. FirstStep(c) = "root"  BY <3>1 DEF FirstStep
      <4> QED  BY <3>1, <4>1 DEF OpsAt, Opens
    <3>2. CASE c.op = "close"
      <4>1. FirstStep(c) = "close"  BY <3>2 DEF FirstStep
      <4> QED  BY <3>2, <4>1 DEF OpsAt
    <3>3. CASE c.op \in {"write", "read"}
      <4>1. FirstStep(c) = "file"  BY <3>3 DEF FirstStep
      <4> QED  BY <3>3, <4>1 DEF OpsAt, Writes
    <3> QED  BY <1>2, <3>1, <3>2, <3>3 DEF Call
  <2>5. FirstStep(c) \in Labels  BY <2>4 DEF Labels
  <2> HIDE DEF i
  <2>6. l \in Locals /\ l.pc = FirstStep(c) /\ l.call = c /\ l.fh = me[t].fh
        /\ l.amount = 0
    BY <1>2, <1>4, <2>3, <2>5, BeginTyped
  <2> HIDE DEF l
  <2>7. ~HoldsTable(l) /\ ~Reads(l)
    BY <2>4, <2>6 DEF HoldsTable, Reads, Blockless
  <2>8. LocalFits(l)
    <3>1. WithHandle(l) => l.fh # NoHandle
      BY <2>2, <2>4, <2>6 DEF WithHandle, Blockless, Handles, NoHandle
    <3> QED  BY <1>2, <2>4, <2>6, <3>1, LimitsAssumption DEF LocalFits
  <2>9. OffsetFits(l, open_file_table)
    BY <2>4, <2>6 DEF OffsetFits, Moving, Blockless
  <2> QED  BY <1>3, <1>4, <2>1, <2>6, <2>7, <2>8, <2>9, MoveInv
<1> QED  BY <1>5, <1>6

\* The scan for a free inode stops at the end of the table or at a free one.
LEMMA ScanInodesInv ==
    ASSUME IInv, NEW t \in Threads, races' \subseteq RaceKinds, ScanInodes(t)
    PROVE  IInv'
<1>1. me[t].pc = "scan" /\ me[t] \in Locals
  BY MeTyped DEF ScanInodes, At
<1>2. ~HoldsTable(me[t])  BY <1>1, HoldsNothing DEF Blockless
<1>3. /\ TablesOK'
      /\ UNCHANGED <<locks, open_file_table, free_open_file_entries>>
  BY TablesKept DEF ScanInodes
<1>4. CASE Return(t, -1)  BY <1>2, <1>3, <1>4, ReturnInv
<1>5. CASE me[t].pos \in INums /\ Goto(t, "take")
  <2> DEFINE l == AtPc(me[t], "take")
  <2>1. "take" \in Labels  BY DEF Labels
  <2>2. me' = [me EXCEPT ![t] = l]  BY <1>5 DEF Goto, AtPc, IInv, TypeOK
  <2>3. /\ l \in Locals /\ l.pc = "take" /\ l.call = me[t].call
        /\ l.fh = me[t].fh /\ l.amount = me[t].amount /\ l.pos \in INums
    BY <1>1, <1>5, <2>1, PcOnly
  <2> HIDE DEF l
  <2>4. ~HoldsTable(l) /\ ~Reads(l) /\ ~WithHandle(l)
    BY <2>3 DEF HoldsTable, Reads, WithHandle, Blockless
  <2>5. LocalFits(l)
    <3>1. l.call.op \in OpsAt("take")  BY <1>1, <2>3, OpAt DEF OpsAt, Op
    <3> QED  BY <2>3, <2>4, <3>1 DEF LocalFits, IInv
  <2>6. OffsetFits(l, open_file_table)
    BY <2>3 DEF OffsetFits, Moving, Blockless
  <2> QED  BY <1>2, <1>3, <2>2, <2>3, <2>4, <2>5, <2>6, MoveInv
<1>6. CASE me' = [me EXCEPT ![t].pos = @ + 1]
  <2> DEFINE n == me[t].pos + 1
  <2>1. n \in Nat /\ "scan" \in Plain  BY <1>1 DEF Locals, Plain
  <2>2. me' = [me EXCEPT ![t] = AtPos(me[t], "scan", n)]
    BY <1>1, <1>6, ZenonT(60) DEF AtPos, IInv, TypeOK, Locals
  <2>3. me' = [me EXCEPT ![t].pc = "scan", ![t].pos = n]
    BY <2>2 DEF AtPos, IInv, TypeOK
  <2>4. Op(t) \in OpsAt("scan")  BY <1>1, OpAt
  <2> HIDE DEF n
  <2> QED  BY <1>2, <1>3, <2>1, <2>3, <2>4, PlainPos
<1> QED  BY <1>4, <1>5, <1>6 DEF ScanInodes

\* An inode is marked taken, whoever has marked it since the scan.
LEMMA TakeInodeInv ==
    ASSUME IInv, NEW t \in Threads, races' \subseteq RaceKinds, TakeInode(t)
    PROVE  IInv'
<1>1. me[t].pc = "take"  BY DEF TakeInode, At
<1>2. ~HoldsTable(me[t])  BY <1>1, HoldsNothing DEF Blockless
<1>3. me[t].pos \in INums  BY <1>1 DEF IInv, LocalFits
<1>4. /\ TablesOK'
      /\ UNCHANGED <<locks, open_file_table, free_open_file_entries>>
  BY DEF TakeInode, IInv, TypeOK, TablesOK, locks
<1>5. Op(t) \in OpsAt("table_lock") /\ "table_lock" \in Plain
  BY <1>1, OpAt DEF OpsAt, Plain
<1> QED  BY <1>2, <1>3, <1>4, <1>5, PlainInum DEF TakeInode

\* A step that keeps handles, once the locks are seen to be in order.
LEMMA LockStepInv ==
    ASSUME IInv, NEW t \in Threads, NEW l \in Locals, me' = [me EXCEPT ![t] = l],
           TablesOK', UNCHANGED <<open_file_table, free_open_file_entries>>,
           LocalFits(l), OffsetFits(l, open_file_table), l.fh = me[t].fh,
           LockDiscipline', WriterPast'
    PROVE  IInv'
<1>1. HandlesExclusive'  BY HandlesKept
<1>2. \A u \in Threads : LocalFits(me'[u]) /\ OffsetFits(me'[u], open_file_table')
  BY FitsKept
<1>3. TypeOK'  BY DEF IInv, TypeOK, TablesOK
<1> QED  BY <1>1, <1>2, <1>3 DEF IInv

\* Who holds the table lock, said of the threads' locals.
LEMMA TableHolder ==
    ASSUME IInv, NEW u \in Threads
    PROVE  inode_table_lock = u <=> HoldsTable(me[u])
BY DEF IInv, LockDiscipline, HoldsTable, Blockless, Op

\* The same for the next state.
LEMMA DisciplineNext ==
    ASSUME \A u \in Threads : inode_table_lock' = u <=> HoldsTable(me'[u]),
           \A i \in INums : writer'[i] # Nobody =>
               /\ inode_table_lock' = writer'[i] /\ me'[writer'[i]].inum = i
               /\ \A u \in Threads : readers'[i][u] = 0,
           \A u \in Threads, i \in INums :
               me'[u].inum = i /\ Reads(me'[u]) => readers'[i][u] > 0
    PROVE  LockDiscipline'
BY DEF LockDiscipline, HoldsTable, Blockless, Op, Holding, Reads

\* Nobody writes an inode while the table lock is free, or while its holder has
\* not initialised its inode yet.
LEMMA NoWriter ==
    ASSUME IInv, \/ TableFree
                 \/ \E u \in Threads : inode_table_lock = u /\ me[u].pc = "init"
    PROVE  \A i \in INums : writer[i] = Nobody
<1> SUFFICES ASSUME NEW i \in INums, writer[i] # Nobody PROVE FALSE  OBVIOUS
<1>1. inode_table_lock = writer[i] /\ me[writer[i]].pc # "init"
  BY DEF IInv, LockDiscipline, WriterPast
<1> QED  BY <1>1 DEF TableFree

\* inode_create takes the table lock.
LEMMA LockTableInv ==
    ASSUME IInv, NEW t \in Threads, races' \subseteq RaceKinds, LockTable(t)
    PROVE  IInv'
<1> DEFINE l == AtPc(me[t], "init")
<1>1. me[t].pc = "table_lock" /\ TableFree  BY DEF LockTable, At
<1>2. /\ l \in Locals /\ l.pc = "init" /\ l.call = me[t].call
      /\ l.fh = me[t].fh /\ l.amount = me[t].amount
  <2>1. "init" \in Labels  BY DEF Labels
  <2> QED  BY <2>1, MeTyped, PcOnly
<1>3. me' = [me EXCEPT ![t] = l]
  BY DEF LockTable, Goto, AtPc, IInv, TypeOK
<1> HIDE DEF l
<1>4. HoldsTable(l) /\ ~Reads(l) /\ ~WithHandle(l)
  BY <1>2 DEF HoldsTable, Reads, WithHandle, Blockless
<1>5. LocalFits(l)
  <2>1. l.call.op \in OpsAt("init")  BY <1>1, <1>2, OpAt DEF OpsAt, Op
  <2> QED  BY <1>2, <1>4, <2>1 DEF LocalFits, IInv
<1>6. OffsetFits(l, open_file_table)
  BY <1>2 DEF OffsetFits, Moving, Blockless
<1>7. TablesOK' /\ UNCHANGED <<open_file_table, free_open_file_entries, readers, writer>>
  BY DEF LockTable, IInv, TypeOK, TablesOK, tables
<1>8. \A i \in INums : writer[i] = Nobody  BY <1>1, NoWriter
<1>9. \A u \in Threads : u # t => ~HoldsTable(me[u])
  BY <1>1, TableHolder, NamesAssumption DEF TableFree
<1>10. me'[t] = l /\ \A u \in Threads : u # t => me'[u] = me[u]
  BY <1>3 DEF IInv, TypeOK
<1>11. LockDiscipline'
  <2>1. \A u \in Threads : inode_table_lock' = u <=> HoldsTable(me'[u])
    BY <1>4, <1>9, <1>10 DEF LockTable
  <2>2. \A u \in Threads, i \in INums :
            me'[u].inum = i /\ Reads(me'[u]) => readers'[i][u] > 0
    BY <1>4, <1>7, <1>10 DEF IInv, LockDiscipline, Holding, Reads, Op
  <2> QED  BY <1>7, <1>8, <2>1, <2>2, DisciplineNext
<1>12. WriterPast'  BY <1>7, <1>8 DEF WriterPast
<1> QED  BY <1>2, <1>3, <1>5, <1>6, <1>7, <1>11, <1>12, LockStepInv

\* A thread without the table lock locks its inode for reading, or unlocks it.
LEMMA ReadersInv ==
    ASSUME IInv, NEW t \in Threads, NEW l \in Locals, me' = [me EXCEPT ![t] = l],
           TablesOK', UNCHANGED <<open_file_table, free_open_file_entries>>,
           LocalFits(l), OffsetFits(l, open_file_table), l.fh = me[t].fh,
           NEW n \in Nat, NEW i \in INums, readers' = [readers EXCEPT ![i][t] = n],
           UNCHANGED <<inode_table_lock, writer>>, writer[i] = Nobody,
           ~HoldsTable(l), ~HoldsTable(me[t]), Reads(l) => l.inum = i /\ n > 0
    PROVE  IInv'
<1>1. me'[t] = l /\ \A u \in Threads : u # t => me'[u] = me[u]
  BY DEF IInv, TypeOK
<1>2. /\ readers'[i][t] = n
      /\ \A j \in INums, u \in Threads : j # i \/ u # t => readers'[j][u] = readers[j][u]
  BY DEF IInv, TypeOK
<1>3. \A u \in Threads : inode_table_lock' = u <=> HoldsTable(me'[u])
  BY <1>1, TableHolder
<1>4. \A j \in INums : writer'[j] # Nobody =>
          /\ inode_table_lock' = writer'[j] /\ me'[writer'[j]].inum = j
          /\ me'[writer'[j]].pc # "init"
          /\ \A u \in Threads : readers'[j][u] = 0
  <2> SUFFICES ASSUME NEW j \in INums, writer[j] # Nobody
               PROVE  /\ inode_table_lock = writer[j] /\ me'[writer[j]].inum = j
                      /\ me'[writer[j]].pc # "init"
                      /\ \A u \in Threads : readers'[j][u] = 0
    OBVIOUS
  <2>1. /\ writer[j] \in Threads /\ inode_table_lock = writer[j]
        /\ me[writer[j]].inum = j /\ me[writer[j]].pc # "init"
        /\ \A u \in Threads : readers[j][u] = 0
    BY DEF IInv, TypeOK, LockDiscipline, WriterPast
  <2>2. writer[j] # t  BY <2>1, TableHolder
  <2> QED  BY <1>1, <1>2, <2>1, <2>2
<1>5. \A u \in Threads, j \in INums :
          me'[u].inum = j /\ Reads(me'[u]) => readers'[j][u] > 0
  BY <1>1, <1>2 DEF IInv, LockDiscipline, Holding, Reads, Op
<1>6. LockDiscipline'  BY <1>3, <1>4, <1>5, DisciplineNext
<1>7. WriterPast'  BY <1>4 DEF WriterPast
<1> QED  BY <1>6, <1>7, LockStepInv

\* A thread holds nothing and is at a point without a handle.
LEMMA AtPcFits ==
    ASSUME IInv, NEW t \in Threads,
           NEW label \in Plain \cup {"link_entry", "delete", "take"},
           Op(t) \in OpsAt(label), label = "take" => me[t].pos \in INums
    PROVE  LET l == AtPc(me[t], label)
           IN  /\ l \in Locals /\ l.pc = label /\ l.fh = me[t].fh
               /\ l.inum = me[t].inum /\ l.call = me[t].call
               /\ LocalFits(l) /\ OffsetFits(l, open_file_table)
<1> DEFINE l == AtPc(me[t], label)
<1>1. /\ l \in Locals /\ l.pc = label /\ l.call = me[t].call /\ l.pos = me[t].pos
      /\ l.fh = me[t].fh /\ l.amount = me[t].amount /\ l.inum = me[t].inum
  <2>1. label \in Labels  BY DEF Plain, Labels
  <2> QED  BY <2>1, MeTyped, PcOnly
<1> HIDE DEF l
<1>2. ~WithHandle(l) /\ OffsetFits(l, open_file_table)
  BY <1>1 DEF WithHandle, OffsetFits, Moving, Blockless, Plain
<1>3. LocalFits(l)
  BY <1>1, <1>2 DEF LocalFits, IInv, Op, Plain
<1> QED  BY <1>1, <1>2, <1>3 DEF l

\* Counting the locks a thread has on an inode keeps the type of readers.
LEMMA ReadersTyped ==
    ASSUME TypeOK, NEW i \in INums, NEW t \in Threads, NEW n \in Nat
    PROVE  [readers EXCEPT ![i][t] = n] \in [INums -> [Threads -> Nat]]
<1> DEFINE row == [readers[i] EXCEPT ![t] = n]
<1>1. row \in [Threads -> Nat]  BY DEF TypeOK
<1> HIDE DEF row
<1>2. [readers EXCEPT ![i] = row] \in [INums -> [Threads -> Nat]]
  BY <1>1 DEF TypeOK
<1> QED  BY <1>2 DEF row

\* A thread looks at its inode and goes on with the lock for reading: to the
\* entry of tfs_link, or to the inode_delete of tfs_unlink.
LEMMA KeepLockInv ==
    ASSUME IInv, NEW t \in Threads, races' \subseteq RaceKinds,
           ~HoldsTable(me[t]), CanRead(me[t].inum), ReadLock(me[t].inum, t),
           NEW label \in {"link_entry", "delete"}, Goto(t, label),
           Op(t) \in OpsAt(label), Op(t) # "symlink",
           UNCHANGED <<tables, inode_table_lock, writer, calls, status>>
    PROVE  IInv'
<1> DEFINE l == AtPc(me[t], label)
           i == me[t].inum
           n == readers[i][t] + 1
<1>1. /\ l \in Locals /\ l.pc = label /\ l.fh = me[t].fh /\ l.inum = i
      /\ l.call = me[t].call
      /\ LocalFits(l) /\ OffsetFits(l, open_file_table)
  BY AtPcFits
<1>2. me' = [me EXCEPT ![t] = l]  BY DEF Goto, AtPc, IInv, TypeOK
<1> HIDE DEF l
<1>3. ~HoldsTable(l)  BY <1>1 DEF HoldsTable, Blockless, Op
<1>4. i \in INums /\ writer[i] = Nobody
  BY MeTyped DEF CanRead, Locals
<1>5. n \in Nat /\ n > 0  BY <1>4 DEF IInv, TypeOK
<1>6. readers' = [readers EXCEPT ![i][t] = n]  BY DEF ReadLock
<1> HIDE DEF n, i
<1>7. readers' \in [INums -> [Threads -> Nat]]
  BY <1>4, <1>5, <1>6, ReadersTyped DEF IInv
<1>8. TablesOK' /\ UNCHANGED <<open_file_table, free_open_file_entries>>
  BY <1>7 DEF IInv, TypeOK, TablesOK, tables
<1> QED  BY <1>1, <1>2, <1>3, <1>4, <1>5, <1>6, <1>8, ReadersInv

\* tfs_link looks at the inode, under its read lock, and keeps the lock.
LEMMA LinkCheckInv ==
    ASSUME IInv, NEW t \in Threads, races' \subseteq RaceKinds, LinkCheck(t)
    PROVE  IInv'
<1>1. me[t].pc = "link_check"  BY DEF LinkCheck, At
<1>2. ~HoldsTable(me[t])  BY <1>1, HoldsNothing DEF Blockless
<1>3. CASE Return(t, -1) /\ UNCHANGED readers
  <2>1. UNCHANGED <<tables, locks, calls, status>>
    BY <1>3 DEF LinkCheck, locks
  <2> QED  BY <1>2, <1>3, <2>1, TablesKept, ReturnInv
<1>4. CASE Goto(t, "link_entry") /\ ReadLock(me[t].inum, t)
  <2>1. Op(t) \in OpsAt("link_entry") /\ Op(t) # "symlink"
    BY <1>1, OpAt DEF OpsAt
  <2> QED  BY <1>2, <1>4, <2>1, KeepLockInv DEF LinkCheck
<1> QED  BY <1>3, <1>4 DEF LinkCheck

\* tfs_unlink looks at the inode: a link goes to inode_delete, still locked.
LEMMA UnlinkCheckInv ==
    ASSUME IInv, NEW t \in Threads, races' \subseteq RaceKinds, UnlinkCheck(t)
    PROVE  IInv'
<1>1. me[t].pc = "unlink_check"  BY DEF UnlinkCheck, At
<1>2. ~HoldsTable(me[t])  BY <1>1, HoldsNothing DEF Blockless
<1>3. /\ Op(t) \in OpsAt("delete") /\ Op(t) \in OpsAt("dec")
      /\ Op(t) # "symlink" /\ "dec" \in Plain
  BY <1>1, OpAt DEF OpsAt, Plain
<1>4. CASE Goto(t, "dec") /\ UNCHANGED readers
  <2>1. UNCHANGED <<tables, locks, calls, status>>
    BY <1>4 DEF UnlinkCheck, locks
  <2> QED  BY <1>2, <1>3, <1>4, <2>1, TablesKept, PlainGoto
<1>5. CASE Goto(t, "delete") /\ ReadLock(me[t].inum, t)
  BY <1>2, <1>3, <1>5, KeepLockInv DEF UnlinkCheck
<1> QED  BY <1>4, <1>5 DEF UnlinkCheck

\* The last name: the inode is deleted under the read lock tfs_unlink has.
LEMMA LastLinkInv ==
    ASSUME IInv, NEW t \in Threads, races' \subseteq RaceKinds, LastLink(t)
    PROVE  IInv'
<1>1. me[t].pc = "gone"  BY DEF LastLink, At
<1>2. ~HoldsTable(me[t])  BY <1>1, HoldsNothing DEF Blockless
<1>3. /\ Op(t) \in OpsAt("delete") /\ Op(t) \in OpsAt("clear")
      /\ Op(t) # "symlink" /\ "clear" \in Plain
  BY <1>1, OpAt DEF OpsAt, Plain
<1>4. CASE Goto(t, "clear") /\ UNCHANGED readers
  <2>1. UNCHANGED <<tables, locks, calls, status>>
    BY <1>4 DEF LastLink, locks
  <2> QED  BY <1>2, <1>3, <1>4, <2>1, TablesKept, PlainGoto
<1>5. CASE Goto(t, "delete") /\ ReadLock(me[t].inum, t)
  BY <1>2, <1>3, <1>5, KeepLockInv DEF LastLink
<1> QED  BY <1>4, <1>5 DEF LastLink

\* An update of one inode, of one entry of the directory, keeps the types.
Inodes == [i_size : 0 .. BlockSize, i_data_block : BlockNumbers \cup {-1},
           n_links : Int, is_shortcut : BOOLEAN, soft_link : Paths \cup {NoName}]

\* Setting the size.
LEMMA SizeTyped ==
    ASSUME NEW f \in [INums -> Inodes], NEW i \in INums, NEW n \in 0 .. BlockSize
    PROVE  [f EXCEPT ![i].i_size = n] \in [INums -> Inodes]
BY DEF Inodes

\* Setting the block.
LEMMA BlockTyped ==
    ASSUME NEW f \in [INums -> Inodes], NEW i \in INums,
           NEW b \in BlockNumbers \cup {-1}
    PROVE  [f EXCEPT ![i].i_data_block = b] \in [INums -> Inodes]
BY DEF Inodes

\* Setting the link count.
LEMMA LinksTyped ==
    ASSUME NEW f \in [INums -> Inodes], NEW i \in INums, NEW n \in Int
    PROVE  [f EXCEPT ![i].n_links = n] \in [INums -> Inodes]
BY DEF Inodes

\* Making it a link, or no link.
LEMMA KindTyped ==
    ASSUME NEW f \in [INums -> Inodes], NEW i \in INums, NEW b \in BOOLEAN
    PROVE  [f EXCEPT ![i].is_shortcut = b] \in [INums -> Inodes]
BY DEF Inodes

\* Setting the target.
LEMMA TargetTyped ==
    ASSUME NEW f \in [INums -> Inodes], NEW i \in INums,
           NEW p \in Paths \cup {NoName}
    PROVE  [f EXCEPT ![i].soft_link = p] \in [INums -> Inodes]
BY DEF Inodes

\* What inode_create leaves of a file's inode is an inode.
LEMMA FreshTyped ==
    ASSUME NEW f \in [INums -> Inodes], NEW i \in INums
    PROVE  [f EXCEPT ![i] = Fresh(@)] \in [INums -> Inodes]
<1>1. f[i].soft_link \in Paths \cup {NoName}  BY DEF Inodes
<1>2. NewInode \in Inodes  BY LimitsAssumption DEF NewInode, Inodes
<1>3. Fresh(f[i]) \in Inodes  BY <1>1, <1>2 DEF Fresh, Inodes
<1> QED  BY <1>3

\* The inodes alone have changed.
LEMMA InodeStep ==
    ASSUME IInv, inode' \in [INums -> Inodes], races' \subseteq RaceKinds,
           UNCHANGED <<freeinode_ts, free_blocks, dir, open_file_table,
                       free_open_file_entries, locks, calls, status>>
    PROVE  /\ TablesOK'
           /\ UNCHANGED <<locks, open_file_table, free_open_file_entries>>
BY DEF IInv, TypeOK, TablesOK, Inodes, locks

\* The directory alone has changed.
LEMMA DirStep ==
    ASSUME IInv, races' \subseteq RaceKinds,
           \/ UNCHANGED dir
           \/ \E name \in Paths \cup {NoName}, i \in INums \cup {-1}, s \in Slots :
                  dir' = [dir EXCEPT ![s] = [d_name |-> name, d_inumber |-> i]],
           UNCHANGED <<inode, freeinode_ts, free_blocks, open_file_table,
                       free_open_file_entries, calls, status, inode_table_lock,
                       writer>>,
           readers' \in [INums -> [Threads -> Nat]]
    PROVE  /\ TablesOK'
           /\ UNCHANGED <<inode_table_lock, writer, open_file_table,
                          free_open_file_entries>>
<1>1. dir' \in [Slots -> [d_name : Paths \cup {NoName},
                          d_inumber : INums \cup {-1}]]
  BY DEF IInv, TypeOK
<1> QED  BY <1>1 DEF IInv, TypeOK, TablesOK

\* add_dir_entry finds its slot in the directory.
LEMMA EntryTyped ==
    ASSUME IInv, NEW t \in Threads, CanAddEntry(me[t].call.path),
           add_dir_entry(me[t].call.path, me[t].inum)
    PROVE  \E name \in Paths \cup {NoName}, i \in INums \cup {-1}, s \in Slots :
               dir' = [dir EXCEPT ![s] = [d_name |-> name, d_inumber |-> i]]
<1>1. Min(EmptySlots) \in EmptySlots
  <2>1. EmptySlots \in SUBSET Nat  BY LimitsAssumption DEF EmptySlots, Slots
  <2>2. EmptySlots # {}  BY DEF CanAddEntry
  <2> QED  BY <2>1, <2>2, MinIn
<1>2. Min(EmptySlots) \in Slots  BY <1>1 DEF EmptySlots
<1>3. me[t].call.path \in Paths \cup {NoName} /\ me[t].inum \in INums
  BY MeTyped DEF Locals, Call
<1> QED  BY <1>2, <1>3 DEF add_dir_entry

\* tfs_link adds the name and unlocks the inode, or returns with the lock.
LEMMA LinkEntryInv ==
    ASSUME IInv, NEW t \in Threads, races' \subseteq RaceKinds, LinkEntry(t)
    PROVE  IInv'
<1> DEFINE i == me[t].inum
           n == readers[i][t] - 1
<1>1. me[t].pc = "link_entry" /\ i \in INums
  BY MeTyped DEF LinkEntry, At, Locals
<1>2. ~HoldsTable(me[t])  BY <1>1, HoldsNothing DEF Blockless
<1>3. readers[i][t] \in Nat /\ readers[i][t] > 0
  <2>1. Holding(t, i)  BY <1>1 DEF Holding
  <2> QED  BY <1>1, <2>1 DEF IInv, TypeOK, LockDiscipline
<1>4. CASE /\ CanAddEntry(me[t].call.path)
           /\ add_dir_entry(me[t].call.path, i)
           /\ ReadUnlock(i, t) /\ Goto(t, "inc")
  <2> DEFINE l == AtPc(me[t], "inc")
  <2>1. readers' = [readers EXCEPT ![i][t] = n] /\ n \in Nat
    BY <1>3, <1>4 DEF ReadUnlock
  <2>2. writer[i] = Nobody
    BY <1>1, <1>3 DEF IInv, LockDiscipline
  <2>3. /\ l \in Locals /\ l.pc = "inc" /\ l.fh = me[t].fh
        /\ LocalFits(l) /\ OffsetFits(l, open_file_table)
    <3>1. Op(t) \in OpsAt("inc") /\ "inc" \in Plain
      BY <1>1, OpAt DEF OpsAt, Plain
    <3> QED  BY <3>1, AtPcFits
  <2>4. me' = [me EXCEPT ![t] = l]  BY <1>4 DEF Goto, AtPc, IInv, TypeOK
  <2> HIDE DEF l, n
  <2>5. ~HoldsTable(l) /\ ~Reads(l)  BY <2>3 DEF HoldsTable, Reads, Blockless
  <2>6. readers' \in [INums -> [Threads -> Nat]]
    BY <1>1, <2>1, ReadersTyped DEF IInv
  <2>7. /\ TablesOK'
        /\ UNCHANGED <<inode_table_lock, writer, open_file_table,
                       free_open_file_entries>>
    BY <1>4, <2>6, EntryTyped, DirStep DEF LinkEntry
  <2> HIDE DEF i
  <2> QED  BY <1>1, <1>2, <2>1, <2>2, <2>3, <2>4, <2>5, <2>7, ReadersInv
<1>5. CASE Return(t, -1) /\ UNCHANGED <<dir, readers>>
  <2>1. UNCHANGED <<tables, locks, calls, status>>
    BY <1>5 DEF LinkEntry, tables, locks
  <2> QED  BY <1>2, <1>5, <2>1, TablesKept, ReturnInv
<1> QED  BY <1>4, <1>5 DEF LinkEntry

\* inode_delete frees the inode, and its block with it.
LEMMA DeleteInodeInv ==
    ASSUME IInv, NEW t \in Threads, races' \subseteq RaceKinds, DeleteInode(t)
    PROVE  IInv'
<1> DEFINE i == me[t].inum
           n == readers[i][t] - 1
<1>1. me[t].pc = "delete" /\ i \in INums /\ TableFree /\ writer[i] = Nobody
  BY MeTyped DEF DeleteInode, At, Locals, CanRead
<1>2. ~HoldsTable(me[t])
  BY <1>1, TableHolder, NamesAssumption DEF TableFree
<1>3. CASE Panic  BY <1>3, PanicInv
<1>4. CASE ~Panic
  <2>1. /\ freeinode_ts' = [freeinode_ts EXCEPT ![i] = "FREE"]
        /\ free_blocks' = IF inode[i].i_size = 0 THEN free_blocks
                          ELSE [free_blocks EXCEPT
                                   ![inode[i].i_data_block] = "FREE"]
        /\ IF Op(t) = "unlink" THEN ReadUnlock(i, t) /\ Goto(t, "clear")
           ELSE Return(t, -1) /\ UNCHANGED readers
        /\ UNCHANGED <<inode, dir, open_file_table, writer, calls,
                       free_open_file_entries, inode_table_lock, status>>
        /\ ~(inode[i].i_size > 0 /\ inode[i].i_data_block = -1)
    BY <1>4 DEF DeleteInode
  <2>2. readers' \in [INums -> [Threads -> Nat]] => TablesOK'
    <3>1. freeinode_ts' \in [INums -> {"FREE", "TAKEN"}]
      BY <2>1 DEF IInv, TypeOK
    <3>2. free_blocks' \in [BlockNumbers -> {"FREE", "TAKEN"}]
      BY <2>1 DEF IInv, TypeOK
    <3> QED  BY <2>1, <3>1, <3>2 DEF IInv, TypeOK, TablesOK
  <2>3. CASE Op(t) # "unlink"
    <3>1. Return(t, -1) /\ UNCHANGED readers  BY <2>1, <2>3
    <3>2. TablesOK'  BY <2>2, <3>1 DEF IInv, TypeOK
    <3> QED  BY <1>2, <2>1, <3>1, <3>2, ReturnInv DEF locks
  <2>4. CASE Op(t) = "unlink"
    <3> DEFINE l == AtPc(me[t], "clear")
    <3>1. readers[i][t] \in Nat /\ readers[i][t] > 0
      <4>1. Holding(t, i)  BY <1>1, <2>4 DEF Holding
      <4> QED  BY <1>1, <4>1 DEF IInv, TypeOK, LockDiscipline
    <3>2. readers' = [readers EXCEPT ![i][t] = n] /\ n \in Nat
      BY <2>1, <2>4, <3>1 DEF ReadUnlock
    <3>3. /\ l \in Locals /\ l.pc = "clear" /\ l.fh = me[t].fh
          /\ LocalFits(l) /\ OffsetFits(l, open_file_table)
      <4>1. Op(t) \in OpsAt("clear") /\ "clear" \in Plain
        BY <2>4 DEF OpsAt, Plain
      <4> QED  BY <4>1, AtPcFits
    <3>4. me' = [me EXCEPT ![t] = l]
      BY <2>1, <2>4 DEF Goto, AtPc, IInv, TypeOK
    <3> HIDE DEF l, n
    <3>5. ~HoldsTable(l) /\ ~Reads(l)  BY <3>3 DEF HoldsTable, Reads, Blockless
    <3>6. TablesOK'  BY <1>1, <2>2, <3>2, ReadersTyped DEF IInv
    <3> HIDE DEF i
    <3> QED  BY <1>1, <1>2, <2>1, <3>2, <3>3, <3>4, <3>5, <3>6, ReadersInv
  <2> QED  BY <2>3, <2>4
<1> QED  BY <1>3, <1>4

\* clear_dir_entry clears an entry of the directory.
LEMMA ClearEntryInv ==
    ASSUME IInv, NEW t \in Threads, races' \subseteq RaceKinds, ClearEntry(t)
    PROVE  IInv'
<1> DEFINE hits == {s \in Slots : dir[s].d_name = me[t].call.path}
<1>1. me[t].pc = "clear"  BY DEF ClearEntry, At
<1>2. ~HoldsTable(me[t])  BY <1>1, HoldsNothing DEF Blockless
<1>3. \/ UNCHANGED dir
      \/ \E name \in Paths \cup {NoName}, i \in INums \cup {-1}, s \in Slots :
             dir' = [dir EXCEPT ![s] = [d_name |-> name, d_inumber |-> i]]
  <2>1. CASE hits = {}  BY <2>1 DEF ClearEntry
  <2>2. CASE hits # {}
    <3>1. hits \in SUBSET Nat  BY LimitsAssumption DEF Slots
    <3>2. Min(hits) \in hits  BY <2>2, <3>1, MinIn
    <3>3. dir' = [dir EXCEPT ![Min(hits)] = [d_name |-> NoName,
                                             d_inumber |-> -1]]
      BY <2>2 DEF ClearEntry
    <3> QED  BY <3>2, <3>3
  <2> QED  BY <2>1, <2>2
<1>4. UNCHANGED <<inode, freeinode_ts, free_blocks, open_file_table,
                  free_open_file_entries, inode_table_lock, readers, writer,
                  calls, status>>
  BY DEF ClearEntry, locks
<1>5. readers' \in [INums -> [Threads -> Nat]]  BY <1>4 DEF IInv, TypeOK
<1>6. TablesOK' /\ UNCHANGED locks  BY <1>3, <1>4, <1>5, DirStep DEF locks
<1>7. Return(t, -1) \/ Return(t, 0)  BY DEF ClearEntry
<1> QED  BY <1>2, <1>4, <1>6, <1>7, ReturnInv

\* Once the table lock is taken, the inode it is taken for is not another's.
LEMMA HolderAlone ==
    ASSUME IInv, NEW t \in Threads, HoldsTable(me[t])
    PROVE  /\ inode_table_lock = t
           /\ \A u \in Threads : u # t => ~HoldsTable(me[u])
           /\ \A i \in INums : i # me[t].inum => writer[i] = Nobody
<1>1. inode_table_lock = t /\ t # Nobody  BY TableHolder, NamesAssumption
<1>2. \A u \in Threads : u # t => ~HoldsTable(me[u])  BY <1>1, TableHolder
<1>3. ASSUME NEW i \in INums, i # me[t].inum PROVE writer[i] = Nobody
  BY <1>1, <1>3 DEF IInv, LockDiscipline
<1> QED  BY <1>1, <1>2, <1>3

\* The holder of the table lock lets go of it, and of its inode.
LEMMA ReleaseInv ==
    ASSUME IInv, NEW t \in Threads, HoldsTable(me[t]), NEW label \in Plain,
           Op(t) \in OpsAt(label), Goto(t, label), UnlockTable, TablesOK',
           writer' = [writer EXCEPT ![me[t].inum] = Nobody],
           UNCHANGED <<readers, open_file_table, free_open_file_entries>>
    PROVE  IInv'
<1> DEFINE l == AtPc(me[t], label)
<1>1. /\ l \in Locals /\ l.pc = label /\ l.fh = me[t].fh
      /\ LocalFits(l) /\ OffsetFits(l, open_file_table)
  <2>1. label # "take"  BY DEF Plain
  <2> QED  BY <2>1, AtPcFits
<1>2. me' = [me EXCEPT ![t] = l]  BY DEF Goto, AtPc, IInv, TypeOK
<1> HIDE DEF l
<1>3. ~HoldsTable(l) /\ ~Reads(l)
  BY <1>1 DEF Plain, HoldsTable, Reads, Blockless
<1>4. me'[t] = l /\ \A u \in Threads : u # t => me'[u] = me[u]
  BY <1>2 DEF IInv, TypeOK
<1>5. \A i \in INums : writer'[i] = Nobody
  BY HolderAlone DEF IInv, TypeOK
<1>6. LockDiscipline'
  <2>1. \A u \in Threads : inode_table_lock' = u <=> HoldsTable(me'[u])
    BY <1>3, <1>4, HolderAlone, NamesAssumption DEF UnlockTable
  <2>2. \A u \in Threads, i \in INums :
            me'[u].inum = i /\ Reads(me'[u]) => readers'[i][u] > 0
    BY <1>3, <1>4 DEF IInv, LockDiscipline, Holding, Reads, Op
  <2> QED  BY <1>5, <2>1, <2>2, DisciplineNext
<1>7. WriterPast'  BY <1>5 DEF WriterPast
<1> QED  BY <1>1, <1>2, <1>6, <1>7, LockStepInv

\* inode_create initialises a file's inode and releases it, or keeps the inode
\* of a link locked until it has its block.
LEMMA InitInodeInv ==
    ASSUME IInv, NEW t \in Threads, races' \subseteq RaceKinds, InitInode(t)
    PROVE  IInv'
<1> DEFINE i == me[t].inum
<1>1. me[t].pc = "init" /\ i \in INums /\ HoldsTable(me[t])
  BY MeTyped DEF InitInode, At, Locals, HoldsTable
<1>2. inode \in [INums -> Inodes]  BY DEF IInv, TypeOK, Inodes
<1>3. CASE /\ Opening(t)
           /\ inode' = [inode EXCEPT ![i] = Fresh(@)]
           /\ UnlockTable /\ Goto(t, "entry") /\ UNCHANGED writer
  <2>1. inode' \in [INums -> Inodes]  BY <1>1, <1>2, <1>3, FreshTyped
  <2>2. TablesOK' /\ UNCHANGED <<readers, open_file_table, free_open_file_entries>>
    BY <1>3, <2>1
    DEF InitInode, UnlockTable, IInv, TypeOK, TablesOK, Inodes
  <2>3. \A j \in INums : writer[j] = Nobody
    BY <1>1, TableHolder, NoWriter
  <2>4. writer' = [writer EXCEPT ![i] = Nobody]
    BY <1>1, <1>3, <2>3 DEF IInv, TypeOK
  <2>5. Op(t) \in OpsAt("entry") /\ "entry" \in Plain
    BY <1>3 DEF Opening, OpsAt, Opens, Plain
  <2> QED  BY <1>1, <1>3, <2>2, <2>4, <2>5, ReleaseInv
<1>4. CASE /\ Op(t) = "symlink"
           /\ inode' = [inode EXCEPT ![i].n_links = 1, ![i].is_shortcut = FALSE]
           /\ writer' = [writer EXCEPT ![i] = t]
           /\ me' = [me EXCEPT ![t].pc = "block_scan", ![t].pos = 1]
           /\ UNCHANGED inode_table_lock
  <2> DEFINE l == AtPos(me[t], "block_scan", 1)
             f == [inode EXCEPT ![i].n_links = 1]
  <2>1. inode' \in [INums -> Inodes]
    <3>1. f \in [INums -> Inodes]  BY <1>1, <1>2, LinksTyped
    <3>2. inode' = [f EXCEPT ![i].is_shortcut = FALSE]  BY <1>1, <1>2, <1>4
    <3> HIDE DEF f
    <3> QED  BY <1>1, <3>1, <3>2, KindTyped
  <2>2. TablesOK' /\ UNCHANGED <<readers, open_file_table, free_open_file_entries>>
    BY <1>1, <1>4, <2>1 DEF InitInode, IInv, TypeOK, TablesOK, Inodes
  <2>3. /\ l \in Locals /\ l.pc = "block_scan" /\ l.call = me[t].call
        /\ l.fh = me[t].fh /\ l.inum = i /\ l.amount = me[t].amount
    <3>1. "block_scan" \in Labels  BY DEF Labels
    <3> QED  BY <3>1, MeTyped, PcPos
  <2>4. me' = [me EXCEPT ![t] = l]  BY <1>4 DEF AtPos, IInv, TypeOK
  <2> HIDE DEF l
  <2>5. LocalFits(l)
    <3>1. l.call.op = "symlink" /\ l.call.op \in OpsAt("block_scan")
      BY <1>4, <2>3 DEF Op, OpsAt
    <3>2. ~WithHandle(l)  BY <2>3, <3>1 DEF WithHandle
    <3> QED  BY <2>3, <3>1, <3>2 DEF IInv, LocalFits
  <2>6. /\ OffsetFits(l, open_file_table) /\ HoldsTable(l) /\ ~Reads(l)
    BY <1>4, <2>3 DEF OffsetFits, Writes, HoldsTable, Reads, Blockless, Op
  <2>7. me'[t] = l /\ \A u \in Threads : u # t => me'[u] = me[u]
    BY <2>4 DEF IInv, TypeOK
  <2>8. /\ writer'[i] = t /\ \A u \in Threads : readers'[i][u] = 0
        /\ \A j \in INums : j # i => writer'[j] = Nobody
    BY <1>1, <1>4, <2>2, HolderAlone DEF InitInode, CanWrite, IInv, TypeOK
  <2>9. LockDiscipline'
    <3>1. \A u \in Threads : inode_table_lock' = u <=> HoldsTable(me'[u])
      BY <1>1, <1>4, <2>6, <2>7, TableHolder
    <3>2. \A u \in Threads, j \in INums :
              me'[u].inum = j /\ Reads(me'[u]) => readers'[j][u] > 0
      BY <2>2, <2>6, <2>7 DEF IInv, LockDiscipline, Holding, Reads, Op
    <3>3. \A j \in INums : writer'[j] # Nobody =>
              /\ inode_table_lock' = writer'[j] /\ me'[writer'[j]].inum = j
              /\ \A u \in Threads : readers'[j][u] = 0
      BY <1>1, <1>4, <2>3, <2>7, <2>8, HolderAlone
    <3> QED  BY <3>1, <3>2, <3>3, DisciplineNext
  <2>10. WriterPast'  BY <2>3, <2>7, <2>8 DEF WriterPast
  <2> HIDE DEF i
  <2> QED  BY <2>2, <2>3, <2>4, <2>5, <2>6, <2>9, <2>10, LockStepInv
<1> QED  BY <1>3, <1>4 DEF InitInode

\* The scan for a block and its end, for the link that is being created and for
\* the first write to a file.
LEMMA BlockStepInv ==
    ASSUME IInv, NEW t \in Threads, NEW l \in Locals, me' = [me EXCEPT ![t] = l],
           TablesOK', UNCHANGED <<locks, open_file_table, free_open_file_entries>>,
           me[t].pc \in Blockless, l.call = me[t].call, l.fh = me[t].fh,
           l.inum = me[t].inum, l.amount = me[t].amount,
           \/ l.pc \in Blockless
           \/ l.pc = "bytes" /\ Op(t) # "symlink"
           \/ l.pc = "delete" /\ Op(t) = "symlink",
           l.pc \in {"block_take", "block_set"} => l.pos \in BlockNumbers
    PROVE  IInv'
<1>1. Op(t) \in Writes \cup {"symlink"}  BY OpAt DEF OpsAt, Blockless
<1>2. HoldsTable(l) <=> HoldsTable(me[t])
  BY DEF HoldsTable, Blockless, Op
<1>3. ~Reads(l) /\ l.pc # "init"  BY DEF Reads, Blockless, Op
<1>4. WithHandle(l) => WithHandle(me[t])
  BY DEF WithHandle, Blockless, Op
<1>5. LocalFits(l)
  <2>1. LocalFits(me[t])  BY DEF IInv
  <2>2. l.call.op \in OpsAt(l.pc)
    <3>1. CASE l.pc \in Blockless  BY <1>1, <3>1 DEF OpsAt, Blockless, Op
    <3>2. CASE l.pc = "bytes" /\ Op(t) # "symlink"
      BY <1>1, <3>2 DEF OpsAt, Op
    <3>3. CASE l.pc = "delete" /\ Op(t) = "symlink"
      BY <3>3 DEF OpsAt, Op
    <3> QED  BY <3>1, <3>2, <3>3
  <2> QED  BY <1>4, <2>1, <2>2 DEF LocalFits, Blockless
<1>6. OffsetFits(l, open_file_table)
  <2>1. OffsetFits(me[t], open_file_table)  BY DEF IInv
  <2>2. Moving(l) => Moving(me[t])  BY DEF Moving, Blockless, Op
  <2> QED  BY <2>1, <2>2 DEF OffsetFits, Blockless
<1> QED  BY <1>2, <1>3, <1>5, <1>6, MoveInv

\* data_block_alloc looks for a block; without one inode_create gives up its
\* inode, and tfs_write returns.
LEMMA ScanBlocksInv ==
    ASSUME IInv, NEW t \in Threads, races' \subseteq RaceKinds, ScanBlocks(t)
    PROVE  IInv'
<1> DEFINE b == me[t].pos
           i == me[t].inum
<1>1. /\ me[t].pc = "block_scan" /\ me[t].pc \in Blockless
      /\ me[t] \in Locals /\ i \in INums /\ b \in Nat
  BY MeTyped DEF ScanBlocks, At, Locals, Blockless
<1>2. UNCHANGED <<freeinode_ts, free_blocks, dir, open_file_table,
                  free_open_file_entries, locks, calls, status>>
  BY DEF ScanBlocks
<1>3. inode \in [INums -> Inodes]  BY DEF IInv, TypeOK, Inodes
<1>4. ASSUME inode' \in [INums -> Inodes], NEW label \in Labels, Goto(t, label),
             \/ label = "block_take" /\ b \in BlockNumbers
             \/ label = "delete" /\ Op(t) = "symlink"
      PROVE  IInv'
  <2> DEFINE l == AtPc(me[t], label)
  <2>1. /\ l \in Locals /\ l.pc = label /\ l.call = me[t].call /\ l.fh = me[t].fh
        /\ l.inum = i /\ l.amount = me[t].amount /\ l.pos = b
    BY <1>1, PcOnly
  <2>2. me' = [me EXCEPT ![t] = l]  BY <1>4 DEF Goto, AtPc, IInv, TypeOK
  <2> HIDE DEF l
  <2>3. TablesOK' /\ UNCHANGED <<locks, open_file_table, free_open_file_entries>>
    BY <1>2, <1>4, InodeStep
  <2> QED  BY <1>1, <1>4, <2>1, <2>2, <2>3, BlockStepInv DEF Blockless
<1>5. CASE /\ b \in BlockNumbers /\ Goto(t, "block_take") /\ UNCHANGED inode
  <2>1. "block_take" \in Labels  BY DEF Labels
  <2> QED  BY <1>3, <1>4, <1>5, <2>1
<1>6. CASE /\ me' = [me EXCEPT ![t].pos = @ + 1] /\ UNCHANGED inode
  <2> DEFINE l == AtPos(me[t], "block_scan", b + 1)
  <2>1. me' = [me EXCEPT ![t] = l]
    BY <1>1, <1>6, ZenonT(60) DEF AtPos, IInv, TypeOK, Locals
  <2>2. /\ l \in Locals /\ l.pc = "block_scan" /\ l.call = me[t].call
        /\ l.fh = me[t].fh /\ l.inum = i /\ l.amount = me[t].amount
    <3>1. "block_scan" \in Labels /\ b + 1 \in Nat  BY <1>1 DEF Labels
    <3> QED  BY <1>1, <3>1, PcPos
  <2> HIDE DEF l
  <2>3. TablesOK' /\ UNCHANGED <<locks, open_file_table, free_open_file_entries>>
    BY <1>2, <1>3, <1>6, InodeStep
  <2> QED  BY <1>1, <2>1, <2>2, <2>3, BlockStepInv DEF Blockless
<1>7. CASE /\ Op(t) = "symlink"
           /\ inode' = [inode EXCEPT ![i].i_size = 0, ![i].i_data_block = -1]
           /\ Goto(t, "delete")
  <2> DEFINE f == [inode EXCEPT ![i].i_size = 0]
  <2>1. f \in [INums -> Inodes]
    <3>1. 0 \in 0 .. BlockSize  BY LimitsAssumption
    <3> QED  BY <1>1, <1>3, <3>1, SizeTyped
  <2>2. inode' = [f EXCEPT ![i].i_data_block = -1]  BY <1>1, <1>3, <1>7
  <2> HIDE DEF f
  <2>3. inode' \in [INums -> Inodes]  BY <1>1, <2>1, <2>2, BlockTyped
  <2>4. "delete" \in Labels  BY DEF Labels
  <2> QED  BY <1>4, <1>7, <2>3, <2>4
<1>8. CASE Op(t) # "symlink" /\ WriteReturns(t, -1) /\ UNCHANGED inode
  <2>1. TablesOK' /\ UNCHANGED <<locks, open_file_table, free_open_file_entries>>
    BY <1>2, <1>3, <1>8, InodeStep
  <2>2. WithHandle(me[t]) /\ me[t].pc # "init"
    BY <1>1, <1>8 DEF WithHandle, Blockless, Op
  <2> QED  BY <1>8, <2>1, <2>2, WriteReturnsInv
<1> QED  BY <1>5, <1>6, <1>7, <1>8 DEF ScanBlocks

\* A block is marked taken, whoever has marked it since the scan.
LEMMA TakeBlockInv ==
    ASSUME IInv, NEW t \in Threads, races' \subseteq RaceKinds, TakeBlock(t)
    PROVE  IInv'
<1> DEFINE l == AtPc(me[t], "block_set")
<1>1. me[t].pc = "block_take" /\ me[t].pc \in Blockless
  BY DEF TakeBlock, At, Blockless
<1>2. me[t].pos \in BlockNumbers  BY <1>1 DEF IInv, LocalFits
<1>3. /\ l \in Locals /\ l.pc = "block_set" /\ l.call = me[t].call
      /\ l.fh = me[t].fh /\ l.inum = me[t].inum /\ l.amount = me[t].amount
      /\ l.pos = me[t].pos
  <2>1. "block_set" \in Labels  BY DEF Labels
  <2> QED  BY <2>1, MeTyped, PcOnly
<1>4. me' = [me EXCEPT ![t] = l]  BY DEF TakeBlock, Goto, AtPc, IInv, TypeOK
<1> HIDE DEF l
<1>5. TablesOK' /\ UNCHANGED <<locks, open_file_table, free_open_file_entries>>
  BY <1>2 DEF TakeBlock, IInv, TypeOK, TablesOK, locks
<1> QED  BY <1>1, <1>2, <1>3, <1>4, <1>5, BlockStepInv DEF Blockless

\* The inode gets its block: a link's is released with it, a file is written to.
LEMMA SetBlockInv ==
    ASSUME IInv, NEW t \in Threads, races' \subseteq RaceKinds, SetBlock(t)
    PROVE  IInv'
<1> DEFINE i == me[t].inum
           b == me[t].pos
<1>1. me[t].pc = "block_set" /\ me[t].pc \in Blockless /\ i \in INums
  BY MeTyped DEF SetBlock, At, Blockless, Locals
<1>2. b \in BlockNumbers  BY <1>1 DEF IInv, LocalFits
<1>3. inode \in [INums -> Inodes]  BY DEF IInv, TypeOK, Inodes
<1>4. UNCHANGED <<freeinode_ts, free_blocks, dir, open_file_table,
                  free_open_file_entries, readers, calls, status>>
  BY DEF SetBlock
<1>5. CASE /\ Op(t) = "symlink"
           /\ inode' = [inode EXCEPT ![i].i_size = BlockSize,
                                     ![i].i_data_block = b]
           /\ writer' = [writer EXCEPT ![i] = Nobody]
           /\ UnlockTable /\ Goto(t, "node")
  <2> DEFINE f == [inode EXCEPT ![i].i_size = BlockSize]
  <2>1. f \in [INums -> Inodes]
    <3>1. BlockSize \in 0 .. BlockSize  BY LimitsAssumption
    <3> QED  BY <1>1, <1>3, <3>1, SizeTyped
  <2>2. inode' = [f EXCEPT ![i].i_data_block = b]  BY <1>1, <1>3, <1>5
  <2> HIDE DEF f
  <2>3. inode' \in [INums -> Inodes]  BY <1>1, <1>2, <2>1, <2>2, BlockTyped
  <2>4. TablesOK'
    BY <1>4, <1>5, <2>3 DEF UnlockTable, IInv, TypeOK, TablesOK, Inodes
  <2>5. HoldsTable(me[t])  BY <1>1, <1>5 DEF HoldsTable, Op
  <2>6. Op(t) \in OpsAt("node") /\ "node" \in Plain
    BY <1>5 DEF OpsAt, Plain
  <2> QED  BY <1>4, <1>5, <2>4, <2>5, <2>6, ReleaseInv
<1>6. CASE /\ Op(t) # "symlink"
           /\ inode' = [inode EXCEPT ![i].i_data_block = b]
           /\ Goto(t, "bytes") /\ UNCHANGED <<writer, inode_table_lock>>
  <2> DEFINE l == AtPc(me[t], "bytes")
  <2>1. inode' \in [INums -> Inodes]  BY <1>1, <1>2, <1>3, <1>6, BlockTyped
  <2>2. TablesOK' /\ UNCHANGED <<locks, open_file_table, free_open_file_entries>>
    BY <1>4, <1>6, <2>1, InodeStep DEF locks
  <2>3. /\ l \in Locals /\ l.pc = "bytes" /\ l.call = me[t].call
        /\ l.fh = me[t].fh /\ l.inum = i /\ l.amount = me[t].amount
    <3>1. "bytes" \in Labels  BY DEF Labels
    <3> QED  BY <3>1, MeTyped, PcOnly
  <2>4. me' = [me EXCEPT ![t] = l]  BY <1>6 DEF Goto, AtPc, IInv, TypeOK
  <2> HIDE DEF l
  <2> QED  BY <1>1, <1>6, <2>2, <2>3, <2>4, BlockStepInv
<1> QED  BY <1>5, <1>6 DEF SetBlock

\* The new inode gets its name, or tfs_open deletes it again.
LEMMA AddEntryInv ==
    ASSUME IInv, NEW t \in Threads, races' \subseteq RaceKinds, AddEntry(t)
    PROVE  IInv'
<1>1. me[t].pc = "entry"  BY DEF AddEntry, At
<1>2. ~HoldsTable(me[t])  BY <1>1, HoldsNothing DEF Blockless
<1>3. UNCHANGED <<inode, freeinode_ts, free_blocks, open_file_table,
                  free_open_file_entries, inode_table_lock, readers, writer,
                  calls, status>>
  BY DEF AddEntry, locks
<1>4. readers' \in [INums -> [Threads -> Nat]]  BY <1>3 DEF IInv, TypeOK
<1>5. Op(t) \in Opens \cup {"symlink"}  BY <1>1, OpAt DEF OpsAt
<1>6. CASE /\ CanAddEntry(me[t].call.path)
           /\ add_dir_entry(me[t].call.path, me[t].inum)
           /\ Goto(t, IF Opening(t) THEN "add" ELSE "shortcut")
  <2> DEFINE label == IF Opening(t) THEN "add" ELSE "shortcut"
  <2>1. TablesOK' /\ UNCHANGED locks
    BY <1>3, <1>4, <1>6, EntryTyped, DirStep DEF locks
  <2>2. Op(t) \in OpsAt(label) /\ label \in Plain
    <3>1. CASE Opening(t)  BY <1>5, <3>1 DEF Opening, OpsAt, Opens, Plain
    <3>2. CASE ~Opening(t)  BY <1>5, <3>2 DEF Opening, OpsAt, Opens, Plain
    <3> QED  BY <3>1, <3>2
  <2> HIDE DEF label
  <2>3. Goto(t, label)  BY <1>6 DEF label
  <2> QED  BY <1>2, <1>3, <2>1, <2>2, <2>3, PlainGoto
<1>7. CASE UNCHANGED dir /\ Return(t, -1)
  <2>1. TablesOK' /\ UNCHANGED locks
    BY <1>3, <1>4, <1>7, DirStep DEF locks
  <2> QED  BY <1>2, <1>3, <1>7, <2>1, ReturnInv
<1>8. CASE UNCHANGED dir /\ Opening(t) /\ Goto(t, "delete")
  <2> DEFINE l == AtPc(me[t], "delete")
  <2>1. TablesOK' /\ UNCHANGED locks
    BY <1>3, <1>4, <1>8, DirStep DEF locks
  <2>2. /\ l \in Locals /\ l.pc = "delete" /\ l.fh = me[t].fh
        /\ l.call = me[t].call
        /\ LocalFits(l) /\ OffsetFits(l, open_file_table)
    <3>1. Op(t) \in OpsAt("delete")  BY <1>8 DEF Opening, OpsAt, Opens
    <3> QED  BY <3>1, AtPcFits
  <2>3. me' = [me EXCEPT ![t] = l]  BY <1>8 DEF Goto, AtPc, IInv, TypeOK
  <2> HIDE DEF l
  <2>4. ~HoldsTable(l) /\ ~Reads(l)
    BY <1>8, <2>2 DEF Opening, HoldsTable, Reads, Blockless, Op
  <2> QED  BY <1>2, <1>3, <2>1, <2>2, <2>3, <2>4, MoveInv
<1> QED  BY <1>6, <1>7, <1>8 DEF AddEntry

\* tfs_open waits for the table lock, before it looks at the inode it has found;
\* tfs_sym_link, before it adds the name of the one it has created.
LEMMA GetInodeInv ==
    ASSUME IInv, NEW t \in Threads, races' \subseteq RaceKinds, GetInode(t)
    PROVE  IInv'
<1> DEFINE label == IF Opening(t) THEN "deref" ELSE "entry"
<1>1. me[t].pc = "node"  BY DEF GetInode, InodeGet, At
<1>2. ~HoldsTable(me[t])  BY <1>1, HoldsNothing DEF Blockless
<1>3. Op(t) \in OpsAt(label) /\ label \in Plain
  <2>1. Op(t) \in Opens \cup {"symlink"}  BY <1>1, OpAt DEF OpsAt
  <2>2. CASE Opening(t)  BY <2>1, <2>2 DEF Opening, OpsAt, Opens, Plain
  <2>3. CASE ~Opening(t)  BY <2>1, <2>3 DEF Opening, OpsAt, Opens, Plain
  <2> QED  BY <2>2, <2>3
<1>4. Goto(t, label)  BY DEF GetInode, InodeGet
<1> HIDE DEF label
<1> QED  BY <1>2, <1>3, <1>4, TablesKept, PlainGoto DEF GetInode, InodeGet

\* Where tfs_open goes on, once it has its inode.
LEMMA ResolveAt ==
    ASSUME NEW t \in Threads, Op(t) \in Opens
    PROVE  /\ AfterTrunc(t) \in Plain /\ Op(t) \in OpsAt(AfterTrunc(t))
           /\ AfterResolve(t) \in Plain /\ Op(t) \in OpsAt(AfterResolve(t))
<1>1. /\ AfterTrunc(t) \in {"append", "add"}
      /\ AfterResolve(t) \in {"trunc", "append", "add"}
  BY DEF AfterTrunc, AfterResolve
<1>2. \A label \in {"trunc", "append", "add"} :
          label \in Plain /\ Op(t) \in OpsAt(label)
  BY DEF Plain, OpsAt
<1> QED  BY <1>1, <1>2

\* tfs_open asks whether the inode is a link.
LEMMA DerefInv ==
    ASSUME IInv, NEW t \in Threads, races' \subseteq RaceKinds, Deref(t)
    PROVE  IInv'
<1>1. me[t].pc = "deref"  BY DEF Deref, At
<1>2. ~HoldsTable(me[t])  BY <1>1, HoldsNothing DEF Blockless
<1>3. Op(t) \in Opens  BY <1>1, OpAt DEF OpsAt
<1>4. "follow" \in Plain /\ Op(t) \in OpsAt("follow")
  BY <1>3 DEF Plain, OpsAt
<1>5. PICK label \in {"follow", AfterResolve(t)} : Goto(t, label)
  BY DEF Deref
<1> QED  BY <1>2, <1>3, <1>4, <1>5, ResolveAt, TablesKept, PlainGoto DEF Deref

\* It follows the link to an inode, or fails.
LEMMA FollowInv ==
    ASSUME IInv, NEW t \in Threads, races' \subseteq RaceKinds, Follow(t)
    PROVE  IInv'
<1>1. me[t].pc = "follow"  BY DEF Follow, At
<1>2. ~HoldsTable(me[t])  BY <1>1, HoldsNothing DEF Blockless
<1>3. /\ TablesOK'
      /\ UNCHANGED <<locks, open_file_table, free_open_file_entries>>
  BY TablesKept DEF Follow
<1>4. PICK p : IF tfs_lookup(p) = -1 THEN Return(t, -1)
               ELSE me' = [me EXCEPT ![t].pc = "target_node",
                                     ![t].inum = tfs_lookup(p)]
  BY DEF Follow
<1>5. CASE Return(t, -1)  BY <1>2, <1>3, <1>5, ReturnInv
<1>6. CASE ~Return(t, -1)
  <2> DEFINE i == tfs_lookup(p)
  <2>1. i \in INums  BY <1>4, <1>6, LookupTyped DEF IInv
  <2>2. me' = [me EXCEPT ![t].pc = "target_node", ![t].inum = i]
    BY <1>4, <1>6
  <2>3. "target_node" \in Plain /\ Op(t) \in OpsAt("target_node")
    BY <1>1, OpAt DEF Plain, OpsAt
  <2> HIDE DEF i
  <2> QED  BY <1>2, <1>3, <2>1, <2>2, <2>3, PlainInum
<1> QED  BY <1>5, <1>6

\* It waits for the table lock once more, for the target.
LEMMA GetTargetInv ==
    ASSUME IInv, NEW t \in Threads, races' \subseteq RaceKinds, GetTarget(t)
    PROVE  IInv'
<1>1. me[t].pc = "target_node"  BY DEF GetTarget, InodeGet, At
<1>2. ~HoldsTable(me[t])  BY <1>1, HoldsNothing DEF Blockless
<1>3. Op(t) \in Opens  BY <1>1, OpAt DEF OpsAt
<1> QED  BY <1>2, <1>3, ResolveAt, TablesKept, PlainGoto DEF GetTarget, InodeGet

\* It frees the block of the file.
LEMMA TruncateInv ==
    ASSUME IInv, NEW t \in Threads, races' \subseteq RaceKinds, Truncate(t)
    PROVE  IInv'
<1> DEFINE i == me[t].inum
<1>1. me[t].pc = "trunc" /\ i \in INums
  BY MeTyped DEF Truncate, At, Locals
<1>2. ~HoldsTable(me[t])  BY <1>1, HoldsNothing DEF Blockless
<1>3. Op(t) \in Opens  BY <1>1, OpAt DEF OpsAt
<1>4. CASE Panic  BY <1>4, PanicInv
<1>5. CASE Goto(t, AfterTrunc(t)) /\ UNCHANGED <<tables, locks, calls, status>>
  BY <1>2, <1>3, <1>5, ResolveAt, TablesKept, PlainGoto
<1>6. CASE /\ inode[i].i_data_block # -1
           /\ free_blocks' = [free_blocks EXCEPT ![inode[i].i_data_block] = "FREE"]
           /\ Goto(t, "trunc_zero")
           /\ UNCHANGED <<inode, freeinode_ts, dir, open_file_table,
                          free_open_file_entries, locks, calls, status>>
  <2>1. TablesOK' /\ UNCHANGED <<locks, open_file_table, free_open_file_entries>>
    BY <1>1, <1>6 DEF IInv, TypeOK, TablesOK, locks
  <2>2. "trunc_zero" \in Plain /\ Op(t) \in OpsAt("trunc_zero")
    BY <1>3 DEF Plain, OpsAt
  <2> QED  BY <1>2, <1>6, <2>1, <2>2, PlainGoto
<1> QED  BY <1>4, <1>5, <1>6 DEF Truncate

\* The size follows, under the lock for writing.
LEMMA ResetSizeInv ==
    ASSUME IInv, NEW t \in Threads, races' \subseteq RaceKinds, ResetSize(t)
    PROVE  IInv'
<1>1. me[t].pc = "trunc_zero" /\ me[t].inum \in INums
  BY MeTyped DEF ResetSize, At, Locals
<1>2. ~HoldsTable(me[t])  BY <1>1, HoldsNothing DEF Blockless
<1>3. "trunc_again" \in Plain /\ Op(t) \in OpsAt("trunc_again")
  BY <1>1, OpAt DEF Plain, OpsAt
<1>4. inode' \in [INums -> Inodes]
  <2>1. inode \in [INums -> Inodes]  BY DEF IInv, TypeOK, Inodes
  <2>2. 0 \in 0 .. BlockSize  BY LimitsAssumption
  <2> QED  BY <1>1, <2>1, <2>2, SizeTyped DEF ResetSize
<1> QED  BY <1>2, <1>3, <1>4, InodeStep, PlainGoto DEF ResetSize

\* The last lock of the truncation.
LEMMA TruncatedInv ==
    ASSUME IInv, NEW t \in Threads, races' \subseteq RaceKinds, Truncated(t)
    PROVE  IInv'
<1>1. me[t].pc = "trunc_again"  BY DEF Truncated, At
<1>2. ~HoldsTable(me[t])  BY <1>1, HoldsNothing DEF Blockless
<1>3. Op(t) \in Opens  BY <1>1, OpAt DEF OpsAt
<1> QED  BY <1>2, <1>3, ResolveAt, TablesKept, PlainGoto DEF Truncated

\* The offset of a file opened to append is its size, inside the block.
LEMMA AppendOffsetInv ==
    ASSUME IInv, NEW t \in Threads, races' \subseteq RaceKinds, AppendOffset(t)
    PROVE  IInv'
<1> DEFINE n == inode[me[t].inum].i_size
           l == AtAmount(me[t], "add", n)
<1>1. me[t].pc = "append" /\ me[t].inum \in INums
  BY MeTyped DEF AppendOffset, At, Locals
<1>2. ~HoldsTable(me[t])  BY <1>1, HoldsNothing DEF Blockless
<1>3. "add" \in Plain /\ "add" \in Labels /\ Op(t) \in OpsAt("add")
  BY <1>1, OpAt DEF Plain, Labels, OpsAt
<1>4. n \in 0 .. BlockSize /\ n \in Nat
  BY <1>1, LimitsAssumption DEF IInv, TypeOK
<1> HIDE DEF n
<1>5. /\ l \in Locals /\ l.pc = "add" /\ l.call = me[t].call /\ l.fh = me[t].fh
      /\ l.amount = n
  BY <1>3, <1>4, MeTyped, PcAmount
<1>6. me' = [me EXCEPT ![t] = l]
  BY DEF AppendOffset, AtAmount, IInv, TypeOK, n
<1> HIDE DEF l
<1>7. TablesOK' /\ UNCHANGED <<locks, open_file_table, free_open_file_entries>>
  BY TablesKept DEF AppendOffset
<1> QED  BY <1>2, <1>3, <1>4, <1>5, <1>6, <1>7, PlainInv

\* tfs_link counts the name.
LEMMA IncrementInv ==
    ASSUME IInv, NEW t \in Threads, races' \subseteq RaceKinds, Increment(t)
    PROVE  IInv'
<1>1. me[t].pc = "inc" /\ me[t].inum \in INums
  BY MeTyped DEF Increment, At, Locals
<1>2. ~HoldsTable(me[t])  BY <1>1, HoldsNothing DEF Blockless
<1>3. inode' \in [INums -> Inodes]
  <2> DEFINE n == inode[me[t].inum].n_links + 1
  <2>1. inode \in [INums -> Inodes]  BY DEF IInv, TypeOK, Inodes
  <2>2. n \in Int  BY <1>1, <2>1 DEF Inodes
  <2>3. inode' = [inode EXCEPT ![me[t].inum].n_links = n]  BY DEF Increment
  <2> HIDE DEF n
  <2> QED  BY <1>1, <2>1, <2>2, <2>3, LinksTyped
<1> QED  BY <1>2, <1>3, InodeStep, ReturnInv DEF Increment

\* tfs_sym_link makes the inode a link.
LEMMA MakeShortcutInv ==
    ASSUME IInv, NEW t \in Threads, races' \subseteq RaceKinds, MakeShortcut(t)
    PROVE  IInv'
<1> DEFINE i == me[t].inum
           f == [inode EXCEPT ![i].is_shortcut = TRUE]
<1>1. me[t].pc = "shortcut" /\ i \in INums
  BY MeTyped DEF MakeShortcut, At, Locals
<1>2. ~HoldsTable(me[t])  BY <1>1, HoldsNothing DEF Blockless
<1>3. "fill" \in Plain /\ Op(t) \in OpsAt("fill")
  BY <1>1, OpAt DEF Plain, OpsAt
<1>4. inode' \in [INums -> Inodes]
  <2>1. inode \in [INums -> Inodes]  BY DEF IInv, TypeOK, Inodes
  <2>2. f \in [INums -> Inodes]  BY <1>1, <2>1, KindTyped
  <2>3. inode' = [f EXCEPT ![i].soft_link = NoName]
    BY <1>1, <2>1 DEF MakeShortcut
  <2> HIDE DEF f
  <2> QED  BY <1>1, <2>2, <2>3, TargetTyped
<1> QED  BY <1>2, <1>3, <1>4, InodeStep, PlainGoto DEF MakeShortcut

\* It copies the target.
LEMMA FillTargetInv ==
    ASSUME IInv, NEW t \in Threads, races' \subseteq RaceKinds, FillTarget(t)
    PROVE  IInv'
<1>1. /\ me[t].pc = "fill" /\ me[t].inum \in INums
      /\ me[t].call.target \in Paths \cup {NoName}
  BY MeTyped DEF FillTarget, At, Locals, Call
<1>2. ~HoldsTable(me[t])  BY <1>1, HoldsNothing DEF Blockless
<1>3. inode' \in [INums -> Inodes]
  <2>1. inode \in [INums -> Inodes]  BY DEF IInv, TypeOK, Inodes
  <2> QED  BY <1>1, <2>1, TargetTyped DEF FillTarget
<1> QED  BY <1>2, <1>3, InodeStep, ReturnInv DEF FillTarget

\* tfs_unlink uncounts the name.
LEMMA DecrementInv ==
    ASSUME IInv, NEW t \in Threads, races' \subseteq RaceKinds, Decrement(t)
    PROVE  IInv'
<1>1. me[t].pc = "dec" /\ me[t].inum \in INums
  BY MeTyped DEF Decrement, At, Locals
<1>2. ~HoldsTable(me[t])  BY <1>1, HoldsNothing DEF Blockless
<1>3. inode' \in [INums -> Inodes]
  <2> DEFINE n == inode[me[t].inum].n_links - 1
  <2>1. inode \in [INums -> Inodes]  BY DEF IInv, TypeOK, Inodes
  <2>2. n \in Int  BY <1>1, <2>1 DEF Inodes
  <2>3. inode' = [inode EXCEPT ![me[t].inum].n_links = n]  BY DEF Decrement
  <2> HIDE DEF n
  <2> QED  BY <1>1, <2>1, <2>2, <2>3, LinksTyped
<1>4. "gone" \in Plain /\ Op(t) \in OpsAt("gone")
  BY <1>1, OpAt DEF Plain, OpsAt
<1> QED  BY <1>2, <1>3, <1>4, InodeStep, PlainGoto DEF Decrement

\* A call that ends with another handle than it began, or with none.
IdleWith(l, val, h) == [Idle(l, val) EXCEPT !.fh = h]

\* The locals of such a thread.
LEMMA IdleWithTyped ==
    ASSUME NEW l \in Locals, NEW val \in Int, NEW h \in Handles \cup {NoHandle}
    PROVE  /\ IdleWith(l, val, h) \in Locals /\ IdleWith(l, val, h).pc = "idle"
           /\ IdleWith(l, val, h).call = l.call /\ IdleWith(l, val, h).fh = h
           /\ IdleWith(l, val, h).amount = 0
<1> DEFINE a == Idle(l, val)
<1>1. a \in Locals /\ a.pc = "idle" /\ a.call = l.call /\ a.amount = 0
  BY IdleTyped
<1>2. IdleWith(l, val, h) = [a EXCEPT !.fh = h]  BY DEF IdleWith
<1> HIDE DEF a
<1> QED  BY <1>1, <1>2 DEF Locals

\* A step that changes the open file table only where no other thread looks.
LEMMA HandleInv ==
    ASSUME IInv, NEW t \in Threads, NEW l \in Locals, me' = [me EXCEPT ![t] = l],
           TablesOK', UNCHANGED locks, ~HoldsTable(l), ~HoldsTable(me[t]),
           ~Reads(l), LocalFits(l), OffsetFits(l, open_file_table'),
           HandlesExclusive',
           \A u \in Threads \ {t} : me[u].fh # NoHandle =>
               open_file_table'[me[u].fh] = open_file_table[me[u].fh]
    PROVE  IInv'
<1>1. LockDiscipline' /\ WriterPast'  BY LocksKept
<1>2. \A u \in Threads : LocalFits(me'[u]) /\ OffsetFits(me'[u], open_file_table')
  BY FitsKept
<1>3. TypeOK'  BY DEF IInv, TypeOK, TablesOK
<1> QED  BY <1>1, <1>2, <1>3 DEF IInv

\* An idle thread fits, whatever its handle.
LEMMA IdleFits ==
    ASSUME IInv, NEW t \in Threads, NEW l \in Locals, NEW table, l.pc = "idle",
           l.call = me[t].call, l.amount = 0
    PROVE  LocalFits(l) /\ OffsetFits(l, table) /\ ~HoldsTable(l) /\ ~Reads(l)
<1>1. LocalFits(me[t])  BY DEF IInv
<1>2. l.call.op \in OpsAt("idle")  BY DEF OpsAt, Locals, Call
<1>3. ~WithHandle(l)  BY DEF WithHandle, Blockless
<1>4. LocalFits(l)  BY <1>1, <1>2, <1>3, LimitsAssumption DEF LocalFits
<1>5. ~HoldsTable(l) /\ ~Reads(l) /\ OffsetFits(l, table)
  BY DEF HoldsTable, Reads, OffsetFits, Moving, Blockless
<1> QED  BY <1>4, <1>5

\* A free handle is nobody's; once it is handed out it is this thread's alone.
LEMMA AddHandleInv ==
    ASSUME IInv, NEW t \in Threads, races' \subseteq RaceKinds, AddHandle(t)
    PROVE  IInv'
<1>1. me[t].pc = "add" /\ me[t] \in Locals /\ me[t].inum \in INums
      /\ me[t].amount \in Nat
  BY MeTyped DEF AddHandle, At, Locals
<1>2. ~HoldsTable(me[t])  BY <1>1, HoldsNothing DEF Blockless
<1>3. UNCHANGED <<inode, freeinode_ts, free_blocks, dir, locks, calls, status>>
  BY DEF AddHandle
<1>4. CASE /\ Return(t, -1)
           /\ UNCHANGED <<open_file_table, free_open_file_entries>>
  BY <1>2, <1>3, <1>4, TablesKept, ReturnInv DEF tables
<1>5. CASE FreeHandles # {}
  <2> DEFINE h == Min(FreeHandles)
             entry == [of_inumber |-> me[t].inum, of_offset |-> me[t].amount]
             l == IF Op(t) = "copy" THEN AtHandle(me[t], "copy_next", h)
                  ELSE IdleWith(me[t], h, h)
  <2>1. h \in Handles /\ free_open_file_entries[h] = "FREE"
    <3>1. FreeHandles \in SUBSET Nat
      BY LimitsAssumption DEF FreeHandles, Handles
    <3>2. h \in FreeHandles  BY <1>5, <3>1, MinIn
    <3> QED  BY <3>2 DEF FreeHandles
  <2>2. /\ free_open_file_entries' = [free_open_file_entries EXCEPT ![h] = "TAKEN"]
        /\ open_file_table' = [open_file_table EXCEPT ![h] = entry]
        /\ me' = [me EXCEPT ![t] = l]
    BY <1>5 DEF AddHandle, AtHandle, IdleWith
  <2> HIDE DEF h, entry
  <2>3. entry \in [of_inumber : INums, of_offset : Nat]  BY <1>1 DEF entry
  <2>4. TablesOK'
    BY <1>3, <2>1, <2>2, <2>3 DEF IInv, TypeOK, TablesOK, locks
  <2>5. h \in Int /\ h # NoHandle /\ h \in Handles \cup {NoHandle}
    BY <2>1, LimitsAssumption DEF Handles, NoHandle
  <2>6. /\ l \in Locals /\ l.fh = h /\ LocalFits(l) /\ ~HoldsTable(l) /\ ~Reads(l)
        /\ OffsetFits(l, open_file_table')
    <3>1. CASE Op(t) = "copy"
      <4>1. /\ l \in Locals /\ l.pc = "copy_next" /\ l.fh = h
            /\ l.call = me[t].call /\ l.amount = me[t].amount
        <5>1. "copy_next" \in Labels  BY DEF Labels
        <5>2. l = AtHandle(me[t], "copy_next", h)  BY <3>1
        <5> HIDE DEF l
        <5> QED  BY <1>1, <2>1, <5>1, <5>2, FhPc
      <4> HIDE DEF l
      <4>2. LocalFits(l)
        <5>1. l.call.op \in OpsAt("copy_next")  BY <3>1, <4>1 DEF OpsAt, Op
        <5>2. LocalFits(me[t])  BY DEF IInv
        <5> QED  BY <2>5, <4>1, <5>1, <5>2 DEF LocalFits
      <4>3. ~HoldsTable(l) /\ ~Reads(l) /\ OffsetFits(l, open_file_table')
        BY <4>1 DEF HoldsTable, Reads, OffsetFits, Moving, Blockless
      <4> QED  BY <4>1, <4>2, <4>3
    <3>2. CASE Op(t) # "copy"
      <4>1. /\ l \in Locals /\ l.pc = "idle" /\ l.fh = h
            /\ l.call = me[t].call /\ l.amount = 0
        <5>1. l = IdleWith(me[t], h, h)  BY <3>2
        <5> HIDE DEF l
        <5> QED  BY <1>1, <2>5, <5>1, IdleWithTyped
      <4> HIDE DEF l
      <4> QED  BY <4>1, IdleFits
    <3> QED  BY <3>1, <3>2
  <2> HIDE DEF l
  <2>7. \A u \in Threads : me[u].fh # NoHandle =>
            /\ me[u].fh \in Handles /\ me[u].fh # h
    BY <2>1 DEF IInv, TypeOK, Locals, HandlesExclusive
  <2>8. HandlesExclusive'
    BY <2>1, <2>2, <2>6, <2>7 DEF IInv, TypeOK, HandlesExclusive
  <2>9. \A u \in Threads \ {t} : me[u].fh # NoHandle =>
            open_file_table'[me[u].fh] = open_file_table[me[u].fh]
    BY <2>2, <2>7 DEF IInv, TypeOK
  <2> QED  BY <1>2, <1>3, <2>2, <2>4, <2>6, <2>8, <2>9, HandleInv
<1> QED  BY <1>4, <1>5 DEF AddHandle

\* The handle is given back, and the thread keeps none.
LEMMA CloseHandleInv ==
    ASSUME IInv, NEW t \in Threads, races' \subseteq RaceKinds,
           me[t].pc \in {"close", "copy_next"}, NEW val \in Int, CloseHandle(t, val)
    PROVE  IInv'
<1> DEFINE l == IdleWith(me[t], val, NoHandle)
<1>1. me[t] \in Locals /\ me[t].fh \in Handles
  BY MeTyped DEF IInv, LocalFits, WithHandle, Locals
<1>2. ~HoldsTable(me[t])  BY HoldsNothing DEF Blockless
<1>3. me' = [me EXCEPT ![t] = l]  BY DEF CloseHandle, IdleWith
<1>4. /\ l \in Locals /\ l.pc = "idle" /\ l.call = me[t].call /\ l.fh = NoHandle
      /\ l.amount = 0
  BY <1>1, IdleWithTyped
<1> HIDE DEF l
<1>5. /\ LocalFits(l) /\ OffsetFits(l, open_file_table') /\ ~HoldsTable(l)
      /\ ~Reads(l)
  BY <1>4, IdleFits
<1>6. TablesOK' /\ UNCHANGED <<locks, open_file_table>>
  BY <1>1 DEF CloseHandle, IInv, TypeOK, TablesOK, locks
<1>7. HandlesExclusive'
  BY <1>1, <1>3, <1>4 DEF CloseHandle, IInv, TypeOK, Locals, HandlesExclusive
<1> QED  BY <1>2, <1>3, <1>4, <1>5, <1>6, <1>7, HandleInv

\* tfs_close gives its handle back.
LEMMA CloseInv ==
    ASSUME IInv, NEW t \in Threads, races' \subseteq RaceKinds, Close(t)
    PROVE  IInv'
BY CloseHandleInv DEF Close, At

\* A call with a handle goes on with it.
LEMMA TransferInv ==
    ASSUME IInv, NEW t \in Threads, NEW l \in Locals, me' = [me EXCEPT ![t] = l],
           TablesOK', UNCHANGED <<locks, open_file_table, free_open_file_entries>>,
           me[t].pc \in {"copy_next", "file", "count", "bytes", "grow"},
           l.pc \in {"file", "count", "block_scan", "bytes", "set_size"},
           Op(t) \in OpsAt(l.pc), l.call = me[t].call, l.fh = me[t].fh,
           OffsetFits(l, open_file_table),
           Op(t) # "read" => l.amount <= BlockSize
    PROVE  IInv'
<1>1. Op(t) # "symlink"
  <2>1. Op(t) \in OpsAt(me[t].pc)  BY OpAt
  <2> QED  BY <2>1 DEF OpsAt, Writes
<1>2. ~HoldsTable(me[t]) /\ ~HoldsTable(l) /\ ~Reads(l)
  BY <1>1 DEF HoldsTable, Reads, Blockless, Op
<1>3. LocalFits(l)
  <2>1. LocalFits(me[t]) /\ WithHandle(me[t])  BY DEF IInv, WithHandle
  <2> QED  BY <2>1 DEF LocalFits, Op
<1> QED  BY <1>2, <1>3, MoveInv

\* A copy closes the handle, or takes the next buffer.
LEMMA CopyNextInv ==
    ASSUME IInv, NEW t \in Threads, races' \subseteq RaceKinds, CopyNext(t)
    PROVE  IInv'
<1>1. me[t].pc = "copy_next" /\ me[t] \in Locals /\ me[t].fh \in Handles
  BY MeTyped DEF CopyNext, At, IInv, LocalFits, WithHandle, Locals
<1>2. CASE CloseHandle(t, me[t].left)
  BY <1>1, <1>2, CloseHandleInv DEF Locals
<1>3. CASE /\ me' = [me EXCEPT ![t].pc = "file",
                           ![t].inum = open_file_table[me[t].fh].of_inumber]
           /\ UNCHANGED <<tables, locks, calls, status>>
  <2> DEFINE i == open_file_table[me[t].fh].of_inumber
             l == AtInum(me[t], "file", i)
  <2>1. i \in INums /\ "file" \in Labels  BY <1>1 DEF IInv, TypeOK, Labels
  <2>2. me' = [me EXCEPT ![t] = l]  BY <1>3 DEF AtInum, IInv, TypeOK
  <2> HIDE DEF i
  <2>3. /\ l \in Locals /\ l.pc = "file" /\ l.call = me[t].call
        /\ l.fh = me[t].fh /\ l.amount = me[t].amount
    BY <1>1, <2>1, PcInum
  <2> HIDE DEF l
  <2>4. Op(t) \in OpsAt("file")  BY <1>1, OpAt DEF OpsAt, Writes
  <2>5. OffsetFits(l, open_file_table)
    BY <2>3 DEF OffsetFits, Moving, Blockless
  <2>6. Op(t) # "read" => l.amount <= BlockSize
    BY <2>3 DEF IInv, LocalFits, Op
  <2> QED  BY <1>1, <1>3, <2>2, <2>3, <2>4, <2>5, <2>6, TablesKept, TransferInv
<1> QED  BY <1>2, <1>3 DEF CopyNext

\* tfs_write and tfs_read wait for the table lock.
LEMMA GetFileInv ==
    ASSUME IInv, NEW t \in Threads, races' \subseteq RaceKinds, GetFile(t)
    PROVE  IInv'
<1> DEFINE l == AtPc(me[t], "count")
<1>1. me[t].pc = "file" /\ me[t] \in Locals
  BY MeTyped DEF GetFile, InodeGet, At
<1>2. me' = [me EXCEPT ![t] = l]
  BY DEF GetFile, InodeGet, Goto, AtPc, IInv, TypeOK
<1>3. /\ l \in Locals /\ l.pc = "count" /\ l.call = me[t].call
      /\ l.fh = me[t].fh /\ l.amount = me[t].amount
  <2>1. "count" \in Labels  BY DEF Labels
  <2> QED  BY <1>1, <2>1, PcOnly
<1> HIDE DEF l
<1>4. Op(t) \in OpsAt("count")  BY <1>1, OpAt DEF OpsAt
<1>5. OffsetFits(l, open_file_table)
  BY <1>3 DEF OffsetFits, Moving, Blockless
<1>6. Op(t) # "read" => l.amount <= BlockSize
  BY <1>3 DEF IInv, LocalFits, Op
<1>7. TablesOK' /\ UNCHANGED <<locks, open_file_table, free_open_file_entries>>
  BY TablesKept DEF GetFile, InodeGet
<1> QED  BY <1>1, <1>2, <1>3, <1>4, <1>5, <1>6, <1>7, TransferInv

\* What is to be moved stays in the block, so that a write never wraps around.
LEMMA CountInv ==
    ASSUME IInv, NEW t \in Threads, races' \subseteq RaceKinds, Count(t)
    PROVE  IInv'
<1> DEFINE size == inode[me[t].inum].i_size
           room == (IF Op(t) = "read" THEN size ELSE BlockSize) - offset(t)
           n == IF room < 0 THEN Length(t) ELSE Min({room, Length(t)})
           label == IF Op(t) # "read" /\ size = 0 THEN "block_scan" ELSE "bytes"
           l == AtMove(me[t], label, n, 1)
<1>1. me[t].pc = "count" /\ me[t] \in Locals /\ me[t].fh \in Handles
      /\ me[t].inum \in INums
  BY MeTyped DEF Count, At, IInv, LocalFits, WithHandle, Locals
<1>2. Op(t) \in Writes \cup {"read"}  BY <1>1, OpAt DEF OpsAt
<1>3. ~HoldsTable(me[t]) /\ WithHandle(me[t]) /\ Op(t) # "symlink"
  BY <1>1, <1>2, HoldsNothing DEF WithHandle, Blockless, Writes
<1>4. size \in 0 .. BlockSize /\ offset(t) \in Nat
  BY <1>1 DEF IInv, TypeOK, offset
<1>5. room \in Int /\ (Op(t) # "read" => room = BlockSize - offset(t))
  BY <1>4, LimitsAssumption
<1>6. Length(t) \in Nat  BY <1>1 DEF IInv, LocalFits, Length, Op
<1> HIDE DEF size, room
<1>7. n \in Nat /\ (room >= 0 => n <= room)
  <2>1. CASE room < 0  BY <1>5, <1>6, <2>1
  <2>2. CASE room >= 0
    <3>1. room \in Nat  BY <1>5, <2>2
    <3>2. n = Min({room, Length(t)})  BY <1>5, <2>2
    <3> HIDE DEF n
    <3> QED  BY <1>6, <3>1, <3>2, MinPair
  <2> QED  BY <1>5, <2>1, <2>2
<1>8. CASE Panic  BY <1>8, PanicInv
<1>9. CASE ~Panic
  <2>1. /\ ~(Op(t) # "read" /\ room < 0)
        /\ UNCHANGED <<tables, locks, calls, status>>
        /\ \/ Return(t, 0)
           \/ Op(t) # "read" /\ WriteReturns(t, 0)
           \/ me' = [me EXCEPT ![t].amount = n, ![t].pos = 1, ![t].pc = label]
    BY <1>7, <1>9 DEF Count, size, room
  <2>2. TablesOK' /\ UNCHANGED <<locks, open_file_table, free_open_file_entries>>
    BY <2>1, TablesKept
  <2>3. CASE Return(t, 0)  BY <1>3, <2>2, <2>3, ReturnInv
  <2>4. CASE WriteReturns(t, 0)
    BY <1>1, <1>3, <2>2, <2>4, WriteReturnsInv
  <2>5. CASE me' = [me EXCEPT ![t].amount = n, ![t].pos = 1, ![t].pc = label]
    <3>1. label \in {"block_scan", "bytes"} /\ label \in Labels
      BY DEF Labels
    <3>2. Op(t) \in OpsAt(label)
      BY <1>2 DEF OpsAt
    <3>3. me' = [me EXCEPT ![t] = l]  BY <2>5 DEF AtMove, IInv, TypeOK
    <3>4. n <= BlockSize \/ Op(t) = "read"
      BY <1>4, <1>5, <1>7, <2>1, LimitsAssumption
    <3>5. Op(t) # "read" =>
              open_file_table[me[t].fh].of_offset + n <= BlockSize
      BY <1>4, <1>5, <1>7, <2>1, LimitsAssumption DEF offset
    <3> HIDE DEF n, label
    <3>6. /\ l \in Locals /\ l.pc = label /\ l.call = me[t].call
          /\ l.fh = me[t].fh /\ l.amount = n
      BY <1>1, <1>7, <3>1, PcPosAmount
    <3> HIDE DEF l
    <3>7. OffsetFits(l, open_file_table)
      BY <1>3, <3>1, <3>5, <3>6 DEF OffsetFits, Writes, Op
    <3> QED  BY <1>1, <2>2, <3>1, <3>2, <3>3, <3>4, <3>6, <3>7, TransferInv
  <2> QED  BY <2>1, <2>3, <2>4, <2>5
<1> QED  BY <1>8, <1>9

\* The handle moves by what was moved: a write's stays inside the block.
LEMMA MoveBytesInv ==
    ASSUME IInv, NEW t \in Threads, races' \subseteq RaceKinds, MoveBytes(t)
    PROVE  IInv'
<1> DEFINE h == me[t].fh
           n == open_file_table[h].of_offset + me[t].amount
<1>1. me[t].pc = "bytes" /\ me[t] \in Locals /\ h \in Handles
      /\ me[t].amount \in Nat
  BY MeTyped DEF MoveBytes, At, IInv, LocalFits, WithHandle, Locals
<1>2. Op(t) \in Writes \cup {"read"}  BY <1>1, OpAt DEF OpsAt
<1>3. ~HoldsTable(me[t])  BY <1>1, HoldsNothing DEF Blockless
<1>4. CASE Panic  BY <1>4, PanicInv
<1>5. CASE ~Panic
  <2>1. /\ open_file_table' = [open_file_table EXCEPT ![h].of_offset = n]
        /\ IF Op(t) = "read" THEN Return(t, me[t].amount) ELSE Goto(t, "grow")
        /\ UNCHANGED <<inode, freeinode_ts, free_blocks, dir,
                       free_open_file_entries, locks, calls, status>>
    BY <1>1, <1>5 DEF MoveBytes, IInv, TypeOK
  <2>2. n \in Nat /\ (Op(t) # "read" => n <= BlockSize)
    <3>1. OffsetFits(me[t], open_file_table)  BY DEF IInv
    <3>2. Op(t) # "read" => Moving(me[t]) /\ me[t].call.op \in Writes
      BY <1>1, <1>2 DEF Moving, Writes, Op
    <3> QED  BY <1>1, <3>1, <3>2 DEF OffsetFits, IInv, TypeOK
  <2> HIDE DEF n
  <2>3. /\ open_file_table' \in [Handles -> [of_inumber : INums, of_offset : Nat]]
        /\ open_file_table'[h].of_offset = n
        /\ \A g \in Handles \ {h} : open_file_table'[g] = open_file_table[g]
    BY <1>1, <2>1, <2>2, ZenonT(60) DEF IInv, TypeOK
  <2>4. TablesOK'  BY <2>1, <2>3 DEF IInv, TypeOK, TablesOK, locks
  <2>5. \A u \in Threads \ {t} : me[u].fh # NoHandle =>
            open_file_table'[me[u].fh] = open_file_table[me[u].fh]
    <3> SUFFICES ASSUME NEW u \in Threads \ {t}, me[u].fh # NoHandle
                 PROVE  open_file_table'[me[u].fh] = open_file_table[me[u].fh]
      OBVIOUS
    <3>1. me[u].fh \in Handles /\ me[u].fh # h
      BY MeTyped DEF Locals, IInv, HandlesExclusive
    <3> QED  BY <2>3, <3>1
  <2>6. ASSUME NEW l \in Locals, me' = [me EXCEPT ![t] = l], l.fh = h,
               LocalFits(l), OffsetFits(l, open_file_table'), ~HoldsTable(l),
               ~Reads(l)
        PROVE  IInv'
    <3>1. HandlesExclusive'  BY <2>1, <2>6, HandlesKept
    <3> QED  BY <1>3, <2>1, <2>4, <2>5, <2>6, <3>1, HandleInv
  <2>7. CASE Op(t) = "read"
    <3> DEFINE l == Idle(me[t], me[t].amount)
    <3>1. me' = [me EXCEPT ![t] = l]  BY <2>1, <2>7 DEF Return
    <3>2. /\ l \in Locals /\ l.pc = "idle" /\ l.call = me[t].call /\ l.fh = h
          /\ l.amount = 0
      BY <1>1, IdleTyped
    <3> HIDE DEF l
    <3> QED  BY <2>6, <3>1, <3>2, IdleFits
  <2>8. CASE Op(t) # "read"
    <3> DEFINE l == AtPc(me[t], "grow")
    <3>1. me' = [me EXCEPT ![t] = l]
      BY <2>1, <2>8 DEF Goto, AtPc, IInv, TypeOK
    <3>2. /\ l \in Locals /\ l.pc = "grow" /\ l.call = me[t].call /\ l.fh = h
          /\ l.amount = me[t].amount
      <4>1. "grow" \in Labels  BY DEF Labels
      <4> QED  BY <1>1, <4>1, PcOnly
    <3> HIDE DEF l
    <3>3. LocalFits(l)
      <4>1. l.call.op \in OpsAt("grow")  BY <1>2, <2>8, <3>2 DEF OpsAt, Op
      <4>2. LocalFits(me[t]) /\ WithHandle(me[t])
        BY <1>1 DEF IInv, WithHandle
      <4> QED  BY <3>2, <4>1, <4>2 DEF LocalFits
    <3>4. OffsetFits(l, open_file_table')
      BY <2>2, <2>3, <2>8, <3>2 DEF OffsetFits, Moving, Blockless
    <3>5. ~HoldsTable(l) /\ ~Reads(l)
      BY <1>2, <3>2 DEF HoldsTable, Reads, Blockless
    <3> QED  BY <2>6, <3>1, <3>2, <3>3, <3>4, <3>5
  <2> QED  BY <2>7, <2>8
<1> QED  BY <1>4, <1>5

\* tfs_write compares its offset with the size.
LEMMA GrowInv ==
    ASSUME IInv, NEW t \in Threads, races' \subseteq RaceKinds, Grow(t)
    PROVE  IInv'
<1>1. me[t].pc = "grow" /\ me[t] \in Locals  BY MeTyped DEF Grow, At
<1>2. Op(t) \in Writes  BY <1>1, OpAt DEF OpsAt
<1>3. TablesOK' /\ UNCHANGED <<locks, open_file_table, free_open_file_entries>>
  BY TablesKept DEF Grow
<1>4. CASE WriteReturns(t, me[t].amount)
  <2>1. WithHandle(me[t]) /\ Op(t) # "symlink" /\ me[t].amount \in Int
    BY <1>1, <1>2 DEF WithHandle, Writes, Locals
  <2> QED  BY <1>1, <1>3, <1>4, <2>1, WriteReturnsInv
<1>5. CASE Goto(t, "set_size")
  <2> DEFINE l == AtPc(me[t], "set_size")
  <2>1. me' = [me EXCEPT ![t] = l]  BY <1>5 DEF Goto, AtPc, IInv, TypeOK
  <2>2. /\ l \in Locals /\ l.pc = "set_size" /\ l.call = me[t].call
        /\ l.fh = me[t].fh /\ l.amount = me[t].amount
    <3>1. "set_size" \in Labels  BY DEF Labels
    <3> QED  BY <1>1, <3>1, PcOnly
  <2> HIDE DEF l
  <2>3. Op(t) \in OpsAt("set_size")  BY <1>2 DEF OpsAt
  <2>4. OffsetFits(l, open_file_table)
    <3>1. OffsetFits(me[t], open_file_table)  BY DEF IInv
    <3> QED  BY <1>1, <2>2, <3>1 DEF OffsetFits, Moving, Blockless
  <2>5. Op(t) # "read" => l.amount <= BlockSize
    BY <2>2 DEF IInv, LocalFits, Op
  <2> QED  BY <1>1, <1>3, <2>1, <2>2, <2>3, <2>4, <2>5, TransferInv
<1> QED  BY <1>4, <1>5 DEF Grow

\* The size becomes the offset, which is in the block.
LEMMA SetSizeInv ==
    ASSUME IInv, NEW t \in Threads, races' \subseteq RaceKinds, SetSize(t)
    PROVE  IInv'
<1>1. /\ me[t].pc = "set_size" /\ me[t] \in Locals /\ me[t].inum \in INums
      /\ me[t].fh \in Handles
  BY MeTyped DEF SetSize, At, IInv, LocalFits, WithHandle, Locals
<1>2. Op(t) \in Writes  BY <1>1, OpAt DEF OpsAt
<1>3. inode' \in [INums -> Inodes]
  <2>1. inode \in [INums -> Inodes]  BY DEF IInv, TypeOK, Inodes
  <2>2. offset(t) \in 0 .. BlockSize
    <3>1. OffsetFits(me[t], open_file_table)  BY DEF IInv
    <3>2. offset(t) \in Nat  BY <1>1 DEF offset, IInv, TypeOK
    <3> QED  BY <1>1, <1>2, <3>1, <3>2, LimitsAssumption
         DEF OffsetFits, Op, offset
  <2> QED  BY <1>1, <2>1, <2>2, SizeTyped DEF SetSize
<1>4. TablesOK' /\ UNCHANGED <<locks, open_file_table, free_open_file_entries>>
  BY <1>3, InodeStep DEF SetSize
<1>5. WithHandle(me[t]) /\ Op(t) # "symlink" /\ me[t].amount \in Int
  BY <1>1, <1>2 DEF WithHandle, Writes, Locals
<1> QED  BY <1>1, <1>4, <1>5, WriteReturnsInv DEF SetSize

-----------------------------------------------------------------------------
(* The theorems *)

\* IInv holds when the threads start.
LEMMA InitInv == ASSUME Init PROVE IInv
<1>1. TypeOK
  <2>1. Len(Present) \in Nat /\ \A k \in 1 .. Len(Present) : Present[k] \in Paths
    BY ClientAssumption
  <2>2. inode \in [INums -> Inodes]
    <3>1. NewInode \in Inodes  BY LimitsAssumption DEF NewInode, Inodes
    <3>2. [NewInode EXCEPT !.i_size = BlockSize, !.i_data_block = 0] \in Inodes
      <4>1. 0 \in BlockNumbers /\ BlockSize \in 0 .. BlockSize
        BY LimitsAssumption DEF BlockNumbers
      <4> QED  BY <3>1, <4>1 DEF Inodes
    <3>3. ASSUME NEW i \in INums, i <= Len(Present), i # 0
          PROVE  [NewInode EXCEPT !.i_size = 1, !.i_data_block = i] \in Inodes
      <4>1. i \in BlockNumbers /\ 1 \in 0 .. BlockSize
        BY <2>1, <3>3, LimitsAssumption, ClientAssumption DEF INums, BlockNumbers
      <4> QED  BY <3>1, <4>1 DEF Inodes
    <3> QED  BY <3>1, <3>2, <3>3 DEF Init
  <2>3. dir \in [Slots -> [d_name : Paths \cup {NoName},
                           d_inumber : INums \cup {-1}]]
    <3>1. ASSUME NEW s \in Slots, s < Len(Present)
          PROVE  Present[s + 1] \in Paths /\ s + 1 \in INums
      BY <2>1, <3>1, LimitsAssumption, ClientAssumption DEF Slots, INums
    <3> QED  BY <3>1 DEF Init
  <2>4. me \in [Threads -> Locals]
    <3>1. FileCall("close", 0) \in Call  BY DEF FileCall, Call, Modes
    <3>2. "idle" \in Labels /\ 0 \in INums
      BY LimitsAssumption DEF Labels, INums
    <3>3. [pc |-> "idle", call |-> FileCall("close", 0), ret |-> 0,
           fh |-> NoHandle, inum |-> 0, pos |-> 0, amount |-> 0, left |-> 0]
              \in Locals
      BY <3>1, <3>2 DEF Locals
    <3> QED  BY <3>3 DEF Init
  <2>5. /\ freeinode_ts \in [INums -> {"FREE", "TAKEN"}]
        /\ free_blocks \in [BlockNumbers -> {"FREE", "TAKEN"}]
        /\ free_open_file_entries \in [Handles -> {"FREE", "TAKEN"}]
    BY DEF Init
  <2>6. open_file_table \in [Handles -> [of_inumber : INums, of_offset : Nat]]
    <3>1. 0 \in INums  BY LimitsAssumption DEF INums
    <3> QED  BY <3>1 DEF Init
  <2> QED  BY <2>2, <2>3, <2>4, <2>5, <2>6 DEF Init, TypeOK, Inodes
<1>2. \A t \in Threads : /\ me[t].pc = "idle" /\ me[t].call = FileCall("close", 0)
                         /\ me[t].amount = 0 /\ me[t].fh = NoHandle
  BY DEF Init
<1>3. ASSUME NEW t \in Threads
      PROVE  LocalFits(me[t]) /\ OffsetFits(me[t], open_file_table)
  <2>1. me[t].call.op = "close" /\ me[t].call.len = 0
    BY <1>2 DEF FileCall
  <2>2. me[t].call.op \in OpsAt("idle")  BY <2>1 DEF OpsAt
  <2> QED  BY <1>2, <2>1, <2>2, LimitsAssumption
       DEF LocalFits, OffsetFits, WithHandle, Writes, Blockless
<1>4. HandlesExclusive  BY <1>2 DEF HandlesExclusive
<1>5. LockDiscipline
  BY <1>2, NamesAssumption DEF Init, LockDiscipline, Holding
<1>6. WriterPast  BY DEF Init, WriterPast
<1> QED  BY <1>1, <1>3, <1>4, <1>5, <1>6 DEF IInv

\* Every step keeps IInv.
LEMMA StepInv == ASSUME IInv, [Next]_vars PROVE IInv'
<1>1. CASE UNCHANGED vars
  <2> USE DEF vars, tables, locks
  <2>1. TypeOK'  BY <1>1 DEF IInv, TypeOK
  <2>2. LockDiscipline' /\ WriterPast' /\ HandlesExclusive'
    BY <1>1
    DEF IInv, LockDiscipline, WriterPast, HandlesExclusive, Holding, Op
  <2> QED  BY <1>1, <2>1, <2>2 DEF IInv, OffsetFits
<1>2. ASSUME NEW t \in Threads, Start(t), UNCHANGED races PROVE IInv'
  BY <1>2, StartInv
<1>3. ASSUME NEW t \in Threads, Step(t) PROVE IInv'
  <2>1. races' \subseteq RaceKinds
    BY <1>3 DEF Step, Races, IInv, TypeOK
  <2>2. CASE Root(t) \/ Lookup(t) \/ LookupLink(t)
    BY <2>1, <2>2, RootInv, LookupInv, LookupLinkInv
  <2>3. CASE Creating(t)
    BY <2>1, <2>3, ScanInodesInv, TakeInodeInv, LockTableInv, InitInodeInv,
       ScanBlocksInv, TakeBlockInv, SetBlockInv, AddEntryInv DEF Creating
  <2>4. CASE Opened(t)
    BY <2>1, <2>4, GetInodeInv, DerefInv, FollowInv, GetTargetInv, TruncateInv,
       ResetSizeInv, TruncatedInv, AppendOffsetInv, AddHandleInv DEF Opened
  <2>5. CASE Transfer(t)
    BY <2>1, <2>5, CloseInv, CopyNextInv, GetFileInv, CountInv, MoveBytesInv,
       GrowInv, SetSizeInv DEF Transfer
  <2>6. CASE Linking(t)
    BY <2>1, <2>6, LinkCheckInv, LinkEntryInv, IncrementInv, MakeShortcutInv,
       FillTargetInv DEF Linking
  <2>7. CASE Unlinking(t)
    BY <2>1, <2>7, UnlinkCheckInv, DecrementInv, LastLinkInv, ClearEntryInv,
       DeleteInodeInv DEF Unlinking
  <2> QED  BY <1>3, <2>2, <2>3, <2>4, <2>5, <2>6, <2>7 DEF Step
<1> QED  BY <1>1, <1>2, <1>3 DEF Next

\* IInv is an invariant.
LEMMA Inductive == Spec => []IInv
<1>1. Init => IInv  BY InitInv
<1>2. IInv /\ [Next]_vars => IInv'  BY StepInv
<1> QED  BY <1>1, <1>2, PTL DEF Spec

\* The tables and the locals of the threads keep their types: no size is ever
\* more than a block, no index out of its table (operations.c and state.c), how
\* ever the threads interleave.
THEOREM TypeCorrect == Spec => []TypeOK
<1>1. IInv => TypeOK  BY DEF IInv
<1> QED  BY <1>1, Inductive, PTL

\* inode_table_lock and the inodes' locks are held by whom LockDiscipline says:
\* every way out of inode_create, tfs_link and tfs_unlink releases what it
\* acquired, but for those it names.
THEOREM LocksDisciplined == Spec => []LockDiscipline
<1>1. IInv => LockDiscipline  BY DEF IInv
<1> QED  BY <1>1, Inductive, PTL

\* A handle of tfs_open belongs to one thread until its tfs_close.
THEOREM HandlesNotShared == Spec => []HandlesExclusive
<1>1. IInv => HandlesExclusive  BY DEF IInv
<1> QED  BY <1>1, Inductive, PTL

\* Calls that all wait for each other do so for one of the three reasons.
LEMMA HangCause == ASSUME IInv PROVE HangHasCause
<1> DEFINE busy == {t \in Threads : me[t].pc # "idle"}
<1> SUFFICES ASSUME busy # {}, \A t \in busy : Waiting(t),
                    ~SelfLocked, ~LockLeaked, ~CreateUnlinkCycle
             PROVE  FALSE
  BY DEF HangHasCause
<1>1. ASSUME NEW u \in Threads, NEW i \in INums, readers[i][u] > 0
      PROVE  /\ Holding(u, i) /\ me[u].pc = "delete" /\ u \in busy
  <2>1. Holding(u, i)  BY <1>1 DEF LockLeaked
  <2>2. me[u].pc \in {"link_entry", "delete"} /\ u \in busy
    BY <2>1 DEF Holding
  <2>3. me[u].pc # "link_entry"  BY <2>2 DEF Waiting
  <2> QED  BY <2>1, <2>2, <2>3
<1>2. \A t \in Threads : me[t].inum \in INums /\ me[t] \in Locals
  BY MeTyped DEF Locals
<1>3. CASE TableFree
  <2>1. \A i \in INums : writer[i] = Nobody  BY <1>3, NoWriter
  <2>2. ASSUME NEW t \in busy PROVE ~CanWrite(me[t].inum)
    BY <1>2, <1>3, <2>1, <2>2 DEF Waiting, CanRead
  <2>3. PICK t \in busy : TRUE  OBVIOUS
  <2>4. PICK u \in Threads : readers[me[t].inum][u] # 0
    BY <1>2, <2>1, <2>2, <2>3 DEF CanWrite
  <2>5. readers[me[t].inum][u] > 0
    BY <1>2, <2>4 DEF IInv, TypeOK
  <2>6. me[u].pc = "delete" /\ u \in busy  BY <1>1, <1>2, <2>5
  <2> QED  BY <1>2, <1>3, <2>1, <2>6 DEF Waiting, CanRead
<1>4. CASE ~TableFree
  <2> DEFINE u == inode_table_lock
             i == me[u].inum
  <2>1. u \in Threads  BY <1>4 DEF TableFree, IInv, TypeOK
  <2>2. HoldsTable(me[u])  BY <2>1, TableHolder
  <2>3. u \in busy  BY <2>1, <2>2 DEF HoldsTable, Blockless
  <2>4. me[u].pc # "delete"  BY <2>1 DEF SelfLocked
  <2>5. me[u].pc = "init"
    BY <2>2, <2>3, <2>4 DEF HoldsTable, Blockless, Waiting
  <2>6. ~CanWrite(i)  BY <2>3, <2>5 DEF Waiting
  <2>7. writer[i] = Nobody  BY <1>2, <2>1, <2>5, NoWriter
  <2>8. PICK v \in Threads : readers[i][v] # 0  BY <2>6, <2>7 DEF CanWrite
  <2>9. readers[i][v] > 0  BY <1>2, <2>1, <2>8 DEF IInv, TypeOK
  <2>10. Holding(v, i) /\ me[v].pc = "delete"  BY <1>1, <1>2, <2>1, <2>9
  <2> QED  BY <1>2, <2>1, <2>5, <2>10 DEF CreateUnlinkCycle
<1> QED  BY <1>3, <1>4

\* The order in which operations.c and state.c take their locks leaves three
\* ways to hang, and no other, for any number of threads and any calls.
THEOREM HangsHaveCause == Spec => []HangHasCause
BY Inductive, HangCause, PTL

=============================================================================

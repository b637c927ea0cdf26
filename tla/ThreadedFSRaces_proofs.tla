------------------------- MODULE ThreadedFSRaces_proofs -------------------------
(***************************************************************************)
(* TLAPS proofs about ThreadedFS as long as none of the races of RaceKinds *)
(* has happened: names, link counts and blocks agree, for any number of    *)
(* threads, any calls and any limits; and about clients that complete none *)
(* of these races.                                                         *)
(***************************************************************************)
EXTENDS ThreadedFS_proofs

-----------------------------------------------------------------------------
(* What a thread is about, by its locals *)

\* In tfs_link or tfs_unlink, after the first lookup, with the name it found.
Renames(l) == /\ l.call.op \in {"link", "unlink"}
              /\ l.pc \notin {"idle", "root", "lookup"}
First(l) == l.pc \in {"lookup_link", "unlink_check"}
Found(l) == IF l.call.op = "link" THEN l.call.target ELSE l.call.path

\* Two such calls, one of them tfs_unlink, have a name in common.
Overlap(l, m) ==
    /\ Renames(l) /\ Renames(m)
    /\ l.call.op = "unlink" \/ m.call.op = "unlink"
    /\ \/ l.call.path = m.call.path \/ l.call.path = m.call.target
       \/ l.call.target = m.call.path \/ l.call.target = m.call.target

\* With a new inode that has no name yet; and before that is set up.
Creates(l) ==
    \/ l.pc \in {"table_lock", "init", "entry"}
    \/ l.call.op = "symlink" /\ l.pc \in Blockless \cup {"node"}
    \/ l.call.op # "unlink" /\ l.pc = "delete"
Unset(l) == l.pc \in {"table_lock", "init"}

\* Between the updates of n_links and of the directory.
Unlinks(l) == l.call.op = "unlink" /\ l.pc \in {"gone", "delete"}
Pends(l) == l.pc = "inc" \/ Unlinks(l)

-----------------------------------------------------------------------------
(* What holds until the first race *)

\* The names of an inode that no call is about to count or has discounted.
Settled(i) ==
    {s \in Named(i) : ~\E t \in Threads : /\ Pends(me[t]) /\ me[t].inum = i
                                          /\ me[t].call.path = dir[s].d_name}

\* Calls of names have one.
Called(l) == l.call.op \notin {"close", "write", "read"} => l.call.path \in Paths

\* A name has one entry, and only entries have names.
NamesUnique ==
    /\ \A s \in Slots : dir[s].d_inumber = -1 <=> dir[s].d_name = NoName
    /\ \A r, s \in Slots : dir[r].d_name = dir[s].d_name /\ dir[r].d_name # NoName
                               => r = s

\* Of two calls that overlap one has only just looked its name up.
NoOverlap ==
    \A t, u \in Threads : t # u /\ Overlap(me[t], me[u])
                              => First(me[t]) \/ First(me[u])

\* The names that tfs_link and tfs_unlink have found still lead there.
NamesFound ==
    \A t \in Threads : Renames(me[t]) =>
        \E s \in Slots : dir[s].d_name = Found(me[t]) /\ dir[s].d_inumber = me[t].inum

\* The names that tfs_links have added lead there, and are different.
NamesNew ==
    /\ \A t \in Threads : me[t].pc = "inc" =>
           \E s \in Slots : /\ dir[s].d_name = me[t].call.path
                            /\ dir[s].d_inumber = me[t].inum
    /\ \A t, u \in Threads : t # u /\ me[t].pc = "inc" /\ me[u].pc = "inc" =>
           me[t].call.path # me[u].call.path

\* Of the tfs_links that have added a name and not yet counted it, the one that
\* was first had its target from before all of them.
Incs == {t \in Threads : me[t].pc = "inc"}
SomeOld ==
    \A S \in SUBSET Incs : S # {} =>
        \E u \in S : \A v \in S : me[u].call.target # me[v].call.path

NamesFit ==
    /\ \A t \in Threads : Called(me[t])
    /\ NamesUnique /\ NoOverlap /\ NamesFound /\ NamesNew /\ SomeOld

\* An inode that is being created is one thread's.
CreatorAlone(i) ==
    \A t \in Threads : Creates(me[t]) /\ me[t].inum = i =>
        /\ freeinode_ts[i] = "TAKEN" /\ Named(i) = {}
        /\ ~Unset(me[t]) => inode[i].n_links = 1
        /\ \A u \in Threads : u # t /\ me[u].inum = i =>
               ~Creates(me[u]) /\ me[u].pc # "shortcut"

\* A free inode has no names.
FreeUnnamed(i) ==
    freeinode_ts[i] = "FREE" =>
        /\ Named(i) = {}
        /\ \A t \in Threads : me[t].pc = "shortcut" => me[t].inum # i

\* An inode that is a symbolic link, or will be next, has one name.
Shortcut(i) == \/ inode[i].is_shortcut
               \/ \E t \in Threads : me[t].pc = "shortcut" /\ me[t].inum = i
OneName(i) ==
    Shortcut(i) =>
        /\ \A r, s \in Named(i) : r = s
        /\ \A t \in Threads : me[t].pc \in {"link_entry", "inc"} => me[t].inum # i

\* n_links counts the settled names.
Counted(i) ==
    Named(i) # {} =>
        inode[i].is_shortcut \/ inode[i].n_links = Cardinality(Settled(i))

\* What tfs_unlink deletes is a symbolic link, or nothing counts it any more and
\* nobody else is unlinking it.
LastGone(i) ==
    \A t \in Threads : Unlinks(me[t]) /\ me[t].pc = "delete" /\ me[t].inum = i =>
        \/ inode[i].is_shortcut
        \/ /\ inode[i].n_links = 0
           /\ \A u \in Threads : u # t /\ Unlinks(me[u]) => me[u].inum # i

CountsFit(i) == /\ CreatorAlone(i) /\ FreeUnnamed(i) /\ OneName(i) /\ Counted(i)
                /\ LastGone(i)

LinksFit == NamesFit /\ \A i \in INums : CountsFit(i)

\* The step completes no race.
Calm(t) == /\ ~TakenTwice(t) /\ ~NamedTwice(t) /\ ~NameLost(t) /\ ~DeletedTwice(t)
           /\ ~FreedInUse(t) /\ ~UsedDeleted(t) /\ ~NotYetLink(t)

-----------------------------------------------------------------------------
(* Names *)

\* A step without a race overlaps no other call.
LEMMA Apart ==
    ASSUME NEW t \in Threads, Calm(t), NEW u \in Threads, u # t
    PROVE  ~Overlap(me[t], me[u]) /\ ~Overlap(me[u], me[t])
<1> SUFFICES ASSUME Overlap(me[t], me[u]) \/ Overlap(me[u], me[t]) PROVE FALSE
  OBVIOUS
<1>1. Renaming(t) /\ Renaming(u) /\ "unlink" \in {Op(t), Op(u)}
  BY DEF Overlap, Renames, Renaming, Op
<1>2. Names(t) \cap Names(u) # {}  BY DEF Overlap, Names
<1>3. NameLost(t)  BY <1>1, <1>2 DEF NameLost
<1> QED  BY <1>3 DEF Calm

\* find_in_dir finds a name if and only if it has an entry.
LEMMA FoundMeans ==
    ASSUME IInv, NEW name
    PROVE  /\ find_in_dir(name) = -1 <=>
                  \A s \in Slots : dir[s].d_inumber = -1 \/ dir[s].d_name # name
           /\ tfs_lookup(name) # -1 =>
                  \E s \in Slots : /\ dir[s].d_name = name
                                   /\ dir[s].d_inumber = tfs_lookup(name)
<1> DEFINE hits == {s \in Slots : dir[s].d_inumber # -1 /\ dir[s].d_name = name}
<1>1. hits \in SUBSET Nat  BY LimitsAssumption DEF Slots
<1>2. hits # {} => Min(hits) \in hits  BY <1>1, MinIn
<1>3. hits = {} => find_in_dir(name) = -1  BY DEF find_in_dir
<1>4. hits # {} => /\ Min(hits) \in Slots
                   /\ dir[Min(hits)].d_name = name
                   /\ dir[Min(hits)].d_inumber = find_in_dir(name)
                   /\ find_in_dir(name) # -1
  BY <1>2 DEF find_in_dir
<1> QED  BY <1>3, <1>4 DEF tfs_lookup

\* The name that tfs_link or tfs_unlink has found is not being cleared, unless
\* by itself.
LEMMA LiveName ==
    ASSUME IInv, LinksFit, NEW t \in Threads, Renames(me[t]), me[t].pc # "clear",
           ~First(me[t]) \/ Calm(t)
    PROVE  \E s \in Named(me[t].inum) : dir[s].d_name = Found(me[t])
<1>1. PICK s \in Slots : dir[s].d_name = Found(me[t]) /\ dir[s].d_inumber = me[t].inum
  BY DEF LinksFit, NamesFit, NamesFound
<1>2. ASSUME NEW u \in Threads, me[u].pc = "clear", me[u].inum = me[t].inum,
             me[u].call.path = dir[s].d_name
      PROVE  FALSE
  <2>1. me[u].call.op = "unlink"  BY <1>2, OpAt DEF OpsAt, Op
  <2>2. Overlap(me[t], me[u])
    BY <1>1, <1>2, <2>1 DEF Overlap, Renames, Found
  <2>3. u # t /\ ~First(me[u])  BY <1>2 DEF First
  <2>4. First(me[t])  BY <2>2, <2>3 DEF LinksFit, NamesFit, NoOverlap
  <2> QED  BY <2>2, <2>3, <2>4, Apart
<1>3. s \in Named(me[t].inum)  BY <1>1, <1>2 DEF Named
<1> QED  BY <1>1, <1>3

\* Nor is the name that tfs_link has added.
LEMMA LiveNew ==
    ASSUME IInv, LinksFit, NEW t \in Threads, me[t].pc = "inc"
    PROVE  \E s \in Named(me[t].inum) : dir[s].d_name = me[t].call.path
<1>1. PICK s \in Slots : /\ dir[s].d_name = me[t].call.path
                         /\ dir[s].d_inumber = me[t].inum
  BY DEF LinksFit, NamesFit, NamesNew
<1>2. ASSUME NEW u \in Threads, me[u].pc = "clear", me[u].inum = me[t].inum,
             me[u].call.path = dir[s].d_name
      PROVE  FALSE
  <2>1. me[u].call.op = "unlink" /\ me[t].call.op = "link"
    BY <1>2, OpAt DEF OpsAt, Op
  <2>2. Overlap(me[t], me[u])
    BY <1>1, <1>2, <2>1 DEF Overlap, Renames
  <2> QED  BY <1>2, <2>2 DEF LinksFit, NamesFit, NoOverlap, First
<1>3. s \in Named(me[t].inum)  BY <1>1, <1>2 DEF Named
<1> QED  BY <1>1, <1>3

-----------------------------------------------------------------------------
(* Steps that leave names and counts alone *)

LinkTables ==
    /\ UNCHANGED <<dir, freeinode_ts>>
    /\ \A i \in INums : /\ inode'[i].n_links = inode[i].n_links
                        /\ inode'[i].is_shortcut = inode[i].is_shortcut

\* Thread t goes from m to l, with the name and the inode it had or with a name
\* it has just found.
Milder(t, l) ==
    /\ Called(l)
    /\ ~Pends(l) /\ l.pc # "clear" /\ ~Pends(me[t]) /\ me[t].pc # "clear"
    /\ Renames(l) =>
           \/ Renames(me[t]) /\ l.call = me[t].call /\ l.inum = me[t].inum
           \/ First(l) /\ \E s \in Slots : /\ dir[s].d_name = Found(l)
                                         /\ dir[s].d_inumber = l.inum
    /\ Creates(l) =>
           Creates(me[t]) /\ l.inum = me[t].inum /\ (Unset(me[t]) => Unset(l))
    /\ l.pc # "shortcut"
    /\ l.pc = "link_entry" => ~Shortcut(l.inum)

\* The overlaps of the others' calls are what they were, and so are those of t.
LEMMA NoOverlapNext ==
    ASSUME IInv, LinksFit, NEW t \in Threads, Calm(t), NEW l \in Locals,
           me' = [me EXCEPT ![t] = l],
           Renames(l) => First(l) \/ (Renames(me[t]) /\ l.call = me[t].call)
    PROVE  NoOverlap'
<1>1. /\ me'[t] = l /\ \A u \in Threads : u # t => me'[u] = me[u]
  BY DEF IInv, TypeOK
<1>2. ASSUME NEW u \in Threads, u # t, Overlap(l, me[u]) \/ Overlap(me[u], l)
      PROVE  First(l)
  <2>1. CASE Renames(me[t]) /\ l.call = me[t].call
    <3>1. Overlap(me[t], me[u]) \/ Overlap(me[u], me[t])
      BY <1>2, <2>1 DEF Overlap, Renames
    <3> QED  BY <1>2, <3>1, Apart
  <2> QED  BY <1>2, <2>1 DEF Overlap
<1> SUFFICES ASSUME NEW r \in Threads, NEW u \in Threads, r # u,
                    Overlap(me'[r], me'[u])
             PROVE  First(me'[r]) \/ First(me'[u])
  BY DEF NoOverlap
<1>3. CASE r = t  BY <1>1, <1>2, <1>3
<1>4. CASE u = t  BY <1>1, <1>2, <1>4
<1>5. CASE r # t /\ u # t
  <2>1. me'[r] = me[r] /\ me'[u] = me[u]  BY <1>1, <1>5
  <2> QED  BY <2>1 DEF LinksFit, NamesFit, NoOverlap
<1> QED  BY <1>3, <1>4, <1>5

\* Names stay in the directory, and nobody begins or ends to clear one.
LEMMA NamedSame ==
    ASSUME NEW t \in Threads, NEW l, me \in [Threads -> Locals],
           me' = [me EXCEPT ![t] = l], UNCHANGED dir,
           l.pc # "clear", me[t].pc # "clear", NEW i
    PROVE  Named(i)' = Named(i)
<1>1. /\ me'[t] = l /\ \A u \in Threads : u # t => me'[u] = me[u]
  OBVIOUS
<1>2. ASSUME NEW s \in Slots
      PROVE  (\E u \in Threads : /\ me'[u].pc = "clear" /\ me'[u].inum = i
                                 /\ me'[u].call.path = dir[s].d_name)
             <=> \E u \in Threads : /\ me[u].pc = "clear" /\ me[u].inum = i
                                    /\ me[u].call.path = dir[s].d_name
  BY <1>1
<1> QED  BY <1>2 DEF Named

\* The same for the names that are settled.
LEMMA SettledSame ==
    ASSUME NEW t \in Threads, NEW l, me \in [Threads -> Locals],
           me' = [me EXCEPT ![t] = l], UNCHANGED dir,
           Pends(l) <=> Pends(me[t]),
           Pends(l) => l.inum = me[t].inum /\ l.call = me[t].call,
           NEW i, Named(i)' = Named(i)
    PROVE  Settled(i)' = Settled(i)
<1>1. /\ me'[t] = l /\ \A u \in Threads : u # t => me'[u] = me[u]
  OBVIOUS
<1>2. ASSUME NEW s \in Slots
      PROVE  (\E u \in Threads : /\ Pends(me'[u]) /\ me'[u].inum = i
                                 /\ me'[u].call.path = dir[s].d_name)
             <=> \E u \in Threads : /\ Pends(me[u]) /\ me[u].inum = i
                                    /\ me[u].call.path = dir[s].d_name
  BY <1>1
<1>3. Named(i) \subseteq Slots  BY DEF Named
<1> QED  BY <1>2, <1>3 DEF Settled

\* Names are where they were, and t has found one or keeps its own.
LEMMA NamesKept ==
    ASSUME IInv, LinksFit, NEW t \in Threads, Calm(t), NEW l \in Locals,
           me' = [me EXCEPT ![t] = l], UNCHANGED dir, Called(l), l.pc # "inc",
           Renames(l) =>
               \/ Renames(me[t]) /\ l.call = me[t].call /\ l.inum = me[t].inum
               \/ First(l) /\ \E s \in Slots : /\ dir[s].d_name = Found(l)
                                             /\ dir[s].d_inumber = l.inum
    PROVE  NamesFit'
<1>1. /\ me'[t] = l /\ \A u \in Threads : u # t => me'[u] = me[u]
  BY DEF IInv, TypeOK
<1>2. \A u \in Threads : Called(me'[u])
  BY <1>1 DEF LinksFit, NamesFit
<1>3. NamesUnique'  BY DEF LinksFit, NamesFit, NamesUnique
<1>4. NoOverlap'
  <2>1. Renames(l) => First(l) \/ (Renames(me[t]) /\ l.call = me[t].call)
    OBVIOUS
  <2> QED  BY <2>1, NoOverlapNext
<1>5. NamesFound'
  <2>1. ASSUME NEW u \in Threads, Renames(me'[u])
        PROVE  \E s \in Slots : /\ dir[s].d_name = Found(me'[u])
                                /\ dir[s].d_inumber = me'[u].inum
    <3>1. CASE u # t  BY <1>1, <2>1, <3>1 DEF LinksFit, NamesFit, NamesFound
    <3>2. CASE u = t /\ Renames(me[t]) /\ l.call = me[t].call /\ l.inum = me[t].inum
      BY <1>1, <3>2 DEF LinksFit, NamesFit, NamesFound, Found
    <3> QED  BY <1>1, <2>1, <3>1, <3>2
  <2> QED  BY <2>1 DEF NamesFound
<1>6. \A u \in Threads : me'[u].pc = "inc" => me'[u] = me[u] /\ me[u].pc = "inc"
  BY <1>1
<1>7. NamesNew'  BY <1>6 DEF LinksFit, NamesFit, NamesNew
<1>8. SomeOld'
  <2> SUFFICES ASSUME NEW S \in SUBSET Incs', S # {}
               PROVE  \E u \in S : \A v \in S : me'[u].call.target # me'[v].call.path
    BY DEF SomeOld
  <2>1. S \in SUBSET Incs /\ \A u \in S : me'[u] = me[u]  BY <1>6 DEF Incs
  <2>2. PICK u \in S : \A v \in S : me[u].call.target # me[v].call.path
    BY <2>1 DEF LinksFit, NamesFit, SomeOld
  <2> QED  BY <2>1, <2>2
<1> QED  BY <1>2, <1>3, <1>4, <1>5, <1>7, <1>8 DEF NamesFit

LEMMA MildInv ==
    ASSUME IInv, LinksFit, NEW t \in Threads, Calm(t), NEW l \in Locals,
           me' = [me EXCEPT ![t] = l], LinkTables, Milder(t, l)
    PROVE  LinksFit'
<1>1. /\ me'[t] = l /\ \A u \in Threads : u # t => me'[u] = me[u]
      /\ me \in [Threads -> Locals]
  BY DEF IInv, TypeOK
<1>2. ASSUME NEW i PROVE Named(i)' = Named(i) /\ Settled(i)' = Settled(i)
  <2>1. /\ ~Pends(l) /\ ~Pends(me[t]) /\ l.pc # "clear" /\ me[t].pc # "clear"
        /\ UNCHANGED dir
    BY DEF LinkTables, Milder
  <2>2. Named(i)' = Named(i)  BY <1>1, <2>1, NamedSame
  <2> QED  BY <1>1, <2>1, <2>2, SettledSame
<1>3. NamesFit'  BY NamesKept DEF Milder, LinkTables, Pends
<1> SUFFICES ASSUME NEW i \in INums PROVE CountsFit(i)'
  BY <1>3 DEF LinksFit
<1>4. CountsFit(i)  BY DEF LinksFit
<1>5. CreatorAlone(i)'
  <2> SUFFICES ASSUME NEW u \in Threads, Creates(me'[u]), me'[u].inum = i
               PROVE  /\ freeinode_ts[i] = "TAKEN" /\ Named(i) = {}
                      /\ ~Unset(me'[u]) => inode[i].n_links = 1
                      /\ \A v \in Threads : v # u /\ me'[v].inum = i =>
                             ~Creates(me'[v]) /\ me'[v].pc # "shortcut"
    BY <1>2 DEF CreatorAlone, LinkTables
  <2>1. /\ Creates(me[u]) /\ me[u].inum = i
        /\ Unset(me[u]) => Unset(me'[u])
    BY <1>1 DEF Milder
  <2>2. ASSUME NEW v \in Threads, v # u, me'[v].inum = i
        PROVE  ~Creates(me'[v]) /\ me'[v].pc # "shortcut"
    <3>1. CASE v # t  BY <1>1, <1>4, <2>1, <2>2, <3>1 DEF CountsFit, CreatorAlone
    <3>2. CASE v = t
      BY <1>1, <1>4, <2>1, <2>2, <3>2 DEF CountsFit, CreatorAlone, Milder
    <3> QED  BY <3>1, <3>2
  <2> QED  BY <1>4, <2>1, <2>2 DEF CountsFit, CreatorAlone
<1>6. \A u \in Threads : me'[u].pc = "shortcut" => me'[u] = me[u]
  BY <1>1 DEF Milder
<1>7. FreeUnnamed(i)'
  BY <1>2, <1>4, <1>6 DEF CountsFit, FreeUnnamed, LinkTables
<1>8. OneName(i)'
  <2> SUFFICES ASSUME Shortcut(i)'
               PROVE  /\ \A r, s \in Named(i)' : r = s
                      /\ \A u \in Threads : me'[u].pc \in {"link_entry", "inc"}
                                                => me'[u].inum # i
    BY DEF OneName
  <2>1. Shortcut(i)  BY <1>6 DEF Shortcut, LinkTables
  <2>2. ASSUME NEW u \in Threads, me'[u].pc \in {"link_entry", "inc"},
               me'[u].inum = i
        PROVE  FALSE
    <3>1. CASE u # t  BY <1>1, <1>4, <2>1, <2>2, <3>1 DEF CountsFit, OneName
    <3>2. CASE u = t  BY <1>1, <2>1, <2>2, <3>2 DEF Milder, Pends
    <3> QED  BY <3>1, <3>2
  <2> QED  BY <1>2, <1>4, <2>1, <2>2 DEF CountsFit, OneName
<1>9. Counted(i)'
  BY <1>2, <1>4 DEF CountsFit, Counted, LinkTables
<1>10. LastGone(i)'
  <2>1. \A u \in Threads : Unlinks(me'[u]) => me'[u] = me[u]
    BY <1>1 DEF Milder, Pends
  <2> QED  BY <1>4, <2>1 DEF CountsFit, LastGone, LinkTables
<1> QED  BY <1>5, <1>7, <1>8, <1>9, <1>10 DEF CountsFit

-----------------------------------------------------------------------------
(* The steps: those that leave names and counts alone *)

\* Thread t alone goes on, in the same call, to one of these positions.
Goes(t, labels) ==
    /\ me' = [me EXCEPT ![t] = me'[t]]
    /\ me'[t].call = me[t].call /\ me'[t].pc \in labels
    /\ LinkTables

\* The process ends as it is, or nothing happens.
LEMMA StillLinks ==
    ASSUME IInv, LinksFit, UNCHANGED <<me, dir, inode, freeinode_ts>>
    PROVE  LinksFit'
<1>1. ASSUME NEW i PROVE Named(i)' = Named(i)  BY DEF Named
<1>2. ASSUME NEW i PROVE Settled(i)' = Settled(i)  BY <1>1 DEF Settled
<1>3. NamesFit'
  BY DEF LinksFit, NamesFit, NamesUnique, NoOverlap, NamesFound, NamesNew, SomeOld,
         Incs
<1>4. ASSUME NEW i \in INums PROVE CountsFit(i)'
  <2>1. CountsFit(i)  BY DEF LinksFit
  <2>2. CreatorAlone(i)' /\ FreeUnnamed(i)'
    BY <1>1, <2>1 DEF CountsFit, CreatorAlone, FreeUnnamed
  <2>3. OneName(i)' /\ Counted(i)' /\ LastGone(i)'
    BY <1>1, <1>2, <2>1 DEF CountsFit, OneName, Shortcut, Counted, LastGone
  <2> QED  BY <2>2, <2>3 DEF CountsFit
<1> QED  BY <1>3, <1>4 DEF LinksFit

\* A thread comes to a position that is about no name and no new inode.
LEMMA AsideInv ==
    ASSUME IInv, IInv', LinksFit, NEW t \in Threads, Calm(t), NEW labels,
           Goes(t, labels), ~Pends(me[t]), me[t].pc # "clear",
           ~Renames(me'[t]), ~Creates(me'[t]), "shortcut" \notin labels
    PROVE  LinksFit'
<1>1. me'[t] \in Locals /\ LocalFits(me'[t])  BY DEF IInv, TypeOK
<1>2. PICK l \in Locals : l = me'[t]  BY <1>1
<1>3. l.call.op \in OpsAt(l.pc)  BY <1>1, <1>2 DEF LocalFits
<1>4. ~Pends(l) /\ l.pc # "clear" /\ l.pc # "link_entry"
  BY <1>2, <1>3 DEF Renames, Pends, Unlinks, OpsAt
<1>5. Called(l)  BY <1>2 DEF Goes, LinksFit, NamesFit, Called
<1>6. Milder(t, l)  BY <1>2, <1>4, <1>5 DEF Milder, Goes
<1>7. me' = [me EXCEPT ![t] = l] /\ LinkTables  BY <1>2 DEF Goes
<1> QED  BY <1>6, <1>7, MildInv

\* The same for tfs_open past its creation, and for tfs_write and tfs_read.
Besides == {"idle", "root", "lookup", "deref", "follow", "target_node", "trunc",
            "trunc_zero", "trunc_again", "append", "add", "scan", "take", "file",
            "fill", "close", "count", "bytes", "grow", "set_size", "copy_next"}
LEMMA BesidesInv ==
    ASSUME IInv, IInv', LinksFit, NEW t \in Threads, Calm(t), NEW labels,
           Goes(t, labels), ~Pends(me[t]), me[t].pc # "clear",
           labels \subseteq Besides
    PROVE  LinksFit'
<1>1. me'[t].pc \in Besides /\ "shortcut" \notin labels
  BY DEF Goes, Besides
<1>2. LocalFits(me'[t])  BY DEF IInv
<1>3. me'[t].call.op \in OpsAt(me'[t].pc)  BY <1>2 DEF LocalFits
<1>4. ~Renames(me'[t]) /\ ~Creates(me'[t])
  BY <1>1, <1>3 DEF Besides, OpsAt, Renames, Creates, Blockless, Opens, Writes
<1> QED  BY <1>1, <1>4, AsideInv

\* Where a call returns, and where tfs_write does.
LEMMA Returned ==
    ASSUME IInv, NEW t \in Threads, NEW val, LinkTables
    PROVE  /\ Return(t, val) => Goes(t, {"idle"})
           /\ WriteReturns(t, val) => Goes(t, {"idle", "copy_next"})
<1>1. me \in [Threads -> Locals]  BY DEF IInv, TypeOK
<1> QED  BY <1>1 DEF Return, WriteReturns, Idle, Goes, Locals

\* Where a thread goes, its inode and its call as they were.
LEMMA Gone ==
    ASSUME IInv, NEW t \in Threads, NEW label, Goto(t, label), LinkTables
    PROVE  Goes(t, {label}) /\ me'[t].inum = me[t].inum
<1>1. me \in [Threads -> Locals]  BY DEF IInv, TypeOK
<1> QED  BY <1>1 DEF Goto, Goes, Locals

\* A thread that is counting nothing and clearing nothing.
LEMMA NotPending ==
    ASSUME IInv, NEW t \in Threads,
           me[t].pc \notin {"inc", "gone", "clear", "delete"}
    PROVE  ~Pends(me[t]) /\ me[t].pc # "clear"
BY DEF Pends, Unlinks

LEMMA TablesSame ==
    ASSUME UNCHANGED <<inode, dir, freeinode_ts>> PROVE LinkTables
BY DEF LinkTables

\* tfs_open past the look up and the creation.
LEMMA OpenedLinks ==
    ASSUME IInv, IInv', LinksFit, NEW t \in Threads, Calm(t),
           \/ Deref(t) \/ Follow(t) \/ GetTarget(t) \/ Truncate(t) \/ ResetSize(t)
           \/ Truncated(t) \/ AppendOffset(t) \/ AddHandle(t)
    PROVE  LinksFit'
<1> DEFINE Ended == UNCHANGED <<me, dir, inode, freeinode_ts>>
           Ahead == {"idle", "follow", "target_node", "trunc", "trunc_zero",
                     "trunc_again", "append", "add", "copy_next"}
<1>1. me \in [Threads -> Locals] /\ inode \in [INums -> Inodes]
  BY DEF IInv, TypeOK, Inodes
<1>2. AfterTrunc(t) \in Ahead /\ AfterResolve(t) \in Ahead
  BY DEF AfterTrunc, AfterResolve
<1>3. me[t].pc \in Besides
  BY DEF Deref, Follow, GetTarget, InodeGet, Truncate, ResetSize, Truncated,
         AppendOffset, AddHandle, At, Besides
<1>4. ASSUME NEW label \in Ahead, Goto(t, label), LinkTables PROVE Goes(t, Ahead)
  BY <1>4, Gone DEF Goes
<1>5. ASSUME NEW val, Return(t, val), LinkTables PROVE Goes(t, Ahead)
  BY <1>5, Returned DEF Goes
<1> HIDE DEF Ended, Ahead
<1>6. Goes(t, Ahead) \/ Ended
  <2>1. CASE Deref(t)
    <3>1. LinkTables  BY <2>1, TablesSame DEF Deref, tables
    <3>2. "follow" \in Ahead  BY DEF Ahead
    <3> QED  BY <1>2, <1>4, <2>1, <3>1, <3>2 DEF Deref
  <2>2. CASE Follow(t)
    <3>1. LinkTables  BY <2>2, TablesSame DEF Follow, tables
    <3>2. ASSUME NEW p, me' = [me EXCEPT ![t].pc = "target_node",
                                         ![t].inum = tfs_lookup(p)]
          PROVE  Goes(t, Ahead)
      BY <1>1, <3>1, <3>2 DEF Goes, Ahead, Locals
    <3> QED  BY <1>5, <2>2, <3>1, <3>2 DEF Follow
  <2>3. CASE GetTarget(t)
    <3>1. LinkTables  BY <2>3, TablesSame DEF GetTarget, InodeGet, tables
    <3> QED  BY <1>2, <1>4, <2>3, <3>1 DEF GetTarget, InodeGet
  <2>4. CASE Truncate(t)
    <3>1. Panic => Ended  BY DEF Panic, Ended, tables
    <3>2. ~Panic => LinkTables
      BY <2>4, TablesSame DEF Truncate, tables
    <3>3. "trunc_zero" \in Ahead  BY DEF Ahead
    <3> QED  BY <1>2, <1>4, <2>4, <3>1, <3>2, <3>3 DEF Truncate
  <2>5. CASE ResetSize(t)
    <3>1. LinkTables
      BY <1>1, <2>5 DEF ResetSize, LinkTables, Inodes
    <3>2. "trunc_again" \in Ahead  BY DEF Ahead
    <3> QED  BY <1>4, <2>5, <3>1, <3>2 DEF ResetSize
  <2>6. CASE Truncated(t)
    <3>1. LinkTables  BY <2>6, TablesSame DEF Truncated, tables
    <3> QED  BY <1>2, <1>4, <2>6, <3>1 DEF Truncated
  <2>7. CASE AppendOffset(t)
    <3>1. LinkTables  BY <2>7, TablesSame DEF AppendOffset, tables
    <3> QED  BY <1>1, <2>7, <3>1 DEF AppendOffset, Goes, Ahead, Locals
  <2>8. CASE AddHandle(t)
    <3>1. LinkTables  BY <2>8, TablesSame DEF AddHandle
    <3>2. CASE FreeHandles = {}
      BY <1>5, <2>8, <3>1, <3>2 DEF AddHandle
    <3>3. CASE FreeHandles # {}
      <4> DEFINE h == Min(FreeHandles)
      <4>1. me' = [me EXCEPT ![t] = IF Op(t) = "copy"
                                    THEN [@ EXCEPT !.fh = h, !.pc = "copy_next"]
                                    ELSE [Idle(@, h) EXCEPT !.fh = h]]
        BY <2>8, <3>3 DEF AddHandle
      <4> HIDE DEF h
      <4> QED  BY <1>1, <3>1, <4>1 DEF Goes, Ahead, Locals, Idle
    <3> QED  BY <3>2, <3>3
  <2> QED  BY <2>1, <2>2, <2>3, <2>4, <2>5, <2>6, <2>7, <2>8
<1>7. ~Pends(me[t]) /\ me[t].pc # "clear"
  BY <1>3, NotPending DEF Besides
<1>8. Ahead \subseteq Besides  BY DEF Ahead, Besides
<1>9. CASE Goes(t, Ahead)  BY <1>7, <1>8, <1>9, BesidesInv
<1>10. CASE Ended  BY <1>10, StillLinks DEF Ended
<1> QED  BY <1>6, <1>9, <1>10

\* tfs_close, tfs_write, tfs_read and the copy.
LEMMA TransferLinks ==
    ASSUME IInv, IInv', LinksFit, NEW t \in Threads, Calm(t), Transfer(t)
    PROVE  LinksFit'
<1> DEFINE Ended == UNCHANGED <<me, dir, inode, freeinode_ts>>
           Ahead == {"idle", "copy_next", "file", "count", "block_scan", "bytes",
                     "grow", "set_size"}
<1>1. me \in [Threads -> Locals] /\ inode \in [INums -> Inodes]
  BY DEF IInv, TypeOK, Inodes
<1>2. me[t].pc \in {"close", "copy_next", "file", "count", "bytes", "grow", "set_size"}
  BY DEF Transfer, Close, CopyNext, GetFile, InodeGet, Count, MoveBytes, Grow,
         SetSize, At
<1>3. Op(t) \in {"close", "copy", "write", "read"}
  BY <1>2, OpAt DEF OpsAt, Writes
<1>4. ASSUME NEW label \in Ahead, Goto(t, label), LinkTables PROVE Goes(t, Ahead)
  BY <1>4, Gone DEF Goes
<1>5. ASSUME NEW val, Return(t, val) \/ WriteReturns(t, val), LinkTables
      PROVE  Goes(t, Ahead)
  BY <1>5, Returned DEF Goes
<1>6. ASSUME NEW val, CloseHandle(t, val) PROVE Goes(t, Ahead)
  <2>1. LinkTables  BY <1>6, TablesSame DEF CloseHandle
  <2> QED  BY <1>1, <1>6, <2>1 DEF CloseHandle, Goes, Ahead, Locals, Idle
<1> HIDE DEF Ended, Ahead
<1>7. Panic => Ended  BY DEF Panic, Ended, tables
<1>8. Goes(t, Ahead) \/ Ended
  <2>1. CASE Close(t)  BY <1>6, <2>1 DEF Close
  <2>2. CASE CopyNext(t)
    <3>1. CASE CloseHandle(t, me[t].left)  BY <1>6, <3>1
    <3>2. CASE /\ me' = [me EXCEPT ![t].pc = "file",
                             ![t].inum = open_file_table[me[t].fh].of_inumber]
               /\ UNCHANGED <<tables, locks, calls, status>>
      <4>1. LinkTables  BY <3>2, TablesSame DEF tables
      <4> QED  BY <1>1, <3>2, <4>1 DEF Goes, Ahead, Locals
    <3> QED  BY <2>2, <3>1, <3>2 DEF CopyNext
  <2>3. CASE GetFile(t)
    <3>1. LinkTables  BY <2>3, TablesSame DEF GetFile, InodeGet, tables
    <3>2. "count" \in Ahead  BY DEF Ahead
    <3> QED  BY <1>4, <2>3, <3>1, <3>2 DEF GetFile, InodeGet
  <2>4. CASE Count(t) /\ ~Panic
    <3>1. LinkTables  BY <2>4, TablesSame DEF Count, tables
    <3>2. ASSUME NEW n, me' = [me EXCEPT ![t].amount = n, ![t].pos = 1,
                                   ![t].pc = IF Op(t) # "read" /\
                                                inode[me[t].inum].i_size = 0
                                             THEN "block_scan" ELSE "bytes"]
          PROVE  Goes(t, Ahead)
      BY <1>1, <3>1, <3>2 DEF Goes, Ahead, Locals
    <3> QED  BY <1>5, <2>4, <3>1, <3>2 DEF Count
  <2>5. CASE MoveBytes(t) /\ ~Panic
    <3>1. LinkTables  BY <2>5, TablesSame DEF MoveBytes
    <3>2. "grow" \in Ahead  BY DEF Ahead
    <3> QED  BY <1>4, <1>5, <2>5, <3>1, <3>2 DEF MoveBytes
  <2>6. CASE Grow(t)
    <3>1. LinkTables  BY <2>6, TablesSame DEF Grow, tables
    <3>2. "set_size" \in Ahead  BY DEF Ahead
    <3> QED  BY <1>4, <1>5, <2>6, <3>1, <3>2 DEF Grow
  <2>7. CASE SetSize(t)
    <3>1. LinkTables
      BY <1>1, <2>7 DEF SetSize, LinkTables, Inodes
    <3> QED  BY <1>5, <2>7, <3>1 DEF SetSize
  <2> QED  BY <1>7, <2>1, <2>2, <2>3, <2>4, <2>5, <2>6, <2>7
           DEF Transfer
<1>9. ~Pends(me[t]) /\ me[t].pc # "clear"  BY <1>2, NotPending
<1>10. CASE Goes(t, Ahead)
  <2>1. me'[t].call.op \in {"close", "copy", "write", "read"} /\ me'[t].pc \in Ahead
    BY <1>3, <1>10 DEF Goes, Op
  <2>2. ~Renames(me'[t]) /\ ~Creates(me'[t]) /\ "shortcut" \notin Ahead
    BY <2>1 DEF Ahead, Renames, Creates, Blockless
  <2> QED  BY <1>9, <1>10, <2>2, AsideInv
<1>11. CASE Ended  BY <1>11, StillLinks DEF Ended
<1> QED  BY <1>8, <1>10, <1>11

\* A call begins, or is refused.
LEMMA StartLinks ==
    ASSUME IInv, IInv', LinksFit, NEW t \in Threads, Calm(t), Start(t)
    PROVE  LinksFit'
<1>1. me \in [Threads -> Locals] /\ me[t].pc = "idle"
  BY DEF IInv, TypeOK, Start, At
<1>2. LinkTables  BY TablesSame DEF Start, tables
<1>3. PICK c \in Menu[t][calls[t] + 1] :
          me' = [me EXCEPT ![t] =
                    IF Refused(t, c) THEN [Idle(@, -1) EXCEPT !.call = c]
                    ELSE [@ EXCEPT !.call = c, !.pc = FirstStep(c), !.left = c.len,
                             !.inum = IF c.op \in {"write", "read"}
                                      THEN open_file_table[me[t].fh].of_inumber
                                      ELSE 0]]
  BY DEF Start
<1>4. c \in Call /\ (c.op \notin {"close", "write", "read"} => c.path \in Paths)
  <2>1. calls[t] \in Nat /\ calls[t] < Len(Menu[t])  BY DEF Start, IInv, TypeOK
  <2>2. Menu[t] \in Seq(SUBSET Call)  BY ClientAssumption
  <2>3. calls[t] + 1 \in 1 .. Len(Menu[t])  BY <2>1, <2>2
  <2>4. Menu[t][calls[t] + 1] \in SUBSET Call  BY <2>2, <2>3
  <2> QED  BY <1>3, <2>3, <2>4, ClientAssumption
<1>5. FirstStep(c) \in {"root", "close", "file"}
  BY <1>4 DEF FirstStep, Call
<1> HIDE DEF FirstStep
<1>6. /\ me' = [me EXCEPT ![t] = me'[t]] /\ me'[t].call = c
      /\ me'[t].pc \in {"idle", "root", "close", "file"}
  BY <1>1, <1>3, <1>5 DEF Locals, Idle
<1>7. me'[t] \in Locals /\ Called(me'[t])
  BY <1>4, <1>6 DEF IInv, TypeOK, Called
<1>8. PICK l \in Locals : l = me'[t]  BY <1>7
<1>9. l.call.op \in OpsAt(l.pc)  BY <1>8 DEF IInv, LocalFits
<1>10. ~Renames(l) /\ ~Creates(l) /\ ~Pends(l)
  BY <1>6, <1>8, <1>9
  DEF Renames, Creates, Pends, Unlinks, OpsAt, Writes, Blockless
<1>11. ~Pends(me[t])  BY <1>1 DEF Pends, Unlinks
<1>12. Milder(t, l)  BY <1>1, <1>6, <1>7, <1>8, <1>10, <1>11 DEF Milder
<1> QED  BY <1>2, <1>6, <1>8, <1>12, MildInv

\* Thread t goes on in its call and with its inode.
LEMMA OnwardInv ==
    ASSUME IInv, IInv', LinksFit, NEW t \in Threads, Calm(t), NEW label,
           Goto(t, label), LinkTables, ~Pends(me[t]), me[t].pc # "clear",
           label \notin {"clear", "inc", "shortcut"}, ~Unlinks(me'[t]),
           Renames(me'[t]) => Renames(me[t]),
           Creates(me'[t]) => Creates(me[t]) /\ (Unset(me[t]) => label = "init"),
           label = "link_entry" => ~Shortcut(me[t].inum)
    PROVE  LinksFit'
<1>1. Goes(t, {label}) /\ me'[t].inum = me[t].inum  BY Gone
<1>2. PICK l \in Locals : l = me'[t]  BY DEF IInv, TypeOK
<1>3. l.pc = label /\ l.call = me[t].call  BY <1>1, <1>2 DEF Goes
<1>4. ~Pends(l)  BY <1>2, <1>3 DEF Pends
<1>5. Called(l)  BY <1>3 DEF LinksFit, NamesFit, Called
<1>6. Milder(t, l)
  BY <1>1, <1>2, <1>3, <1>4, <1>5 DEF Milder, Unset
<1> QED  BY <1>1, <1>2, <1>6, MildInv DEF Goes

\* The look-ups: the name that tfs_link or tfs_unlink finds has an entry.
LEMMA LookupLinks ==
    ASSUME IInv, IInv', LinksFit, NEW t \in Threads, Calm(t),
           Root(t) \/ Lookup(t) \/ LookupLink(t)
    PROVE  LinksFit'
<1>1. me \in [Threads -> Locals] /\ LinkTables
  BY TablesSame DEF IInv, TypeOK, Root, InodeGet, Lookup, LookupLink, tables
<1>2. me[t].pc \in {"root", "lookup", "lookup_link"}
  BY DEF Root, InodeGet, Lookup, LookupLink, At
<1>3. ~Pends(me[t]) /\ me[t].pc # "clear"  BY <1>2, NotPending
<1>4. ASSUME NEW val, Return(t, val) PROVE LinksFit'
  <2>1. Goes(t, {"idle"}) /\ {"idle"} \subseteq Besides
    BY <1>1, <1>4, Returned DEF Besides
  <2> QED  BY <1>3, <2>1, BesidesInv
<1>5. ASSUME me' = [me EXCEPT ![t].pc = "scan", ![t].pos = 1] PROVE LinksFit'
  <2>1. Goes(t, {"scan"}) /\ {"scan"} \subseteq Besides
    BY <1>1, <1>5 DEF Besides, Goes, Locals
  <2> QED  BY <1>3, <2>1, BesidesInv
<1>6. CASE Root(t)
  <2>1. Goes(t, {"lookup"}) /\ {"lookup"} \subseteq Besides
    BY <1>1, <1>6, Gone DEF Root, InodeGet, Besides
  <2> QED  BY <1>3, <2>1, BesidesInv
<1>7. ASSUME NEW label \in {"node", "lookup_link", "unlink_check"}, NEW name,
             me' = [me EXCEPT ![t].pc = label, ![t].inum = tfs_lookup(name)],
             tfs_lookup(name) # -1,
             Opening(t) => label = "node",
             Op(t) = "symlink" => label = "lookup_link",
             Op(t) = "link" => label = "lookup_link" /\ name = me[t].call.target,
             Op(t) = "unlink" => label = "unlink_check" /\ name = me[t].call.path
      PROVE  LinksFit'
  <2>1. PICK l \in Locals : l = me'[t]  BY DEF IInv, TypeOK
  <2>2. /\ l.pc = label /\ l.call = me[t].call /\ l.inum = tfs_lookup(name)
        /\ me' = [me EXCEPT ![t] = l]
    BY <1>1, <1>7, <2>1 DEF Locals
  <2>3. l.call.op \in OpsAt(label)  BY <2>1, <2>2 DEF IInv, LocalFits
  <2>4. ~Pends(l) /\ l.pc \notin {"clear", "shortcut", "link_entry"}
    BY <1>7, <2>2 DEF Pends, Unlinks
  <2>5. ~Creates(l)
    <3>1. l.call.op = "symlink" => label = "lookup_link"  BY <1>7, <2>2 DEF Op
    <3> QED  BY <1>7, <2>2, <3>1 DEF Creates, Blockless
  <2>6. Renames(l) => First(l) /\ name = Found(l)
    BY <1>7, <2>2, <2>3 DEF Renames, First, Found, Op, OpsAt, Opening
  <2>7. \E s \in Slots : dir[s].d_name = name /\ dir[s].d_inumber = l.inum
    BY <1>7, <2>2, FoundMeans
  <2>8. Called(l)  BY <2>2 DEF LinksFit, NamesFit, Called
  <2>9. Milder(t, l)  BY <1>3, <2>4, <2>5, <2>6, <2>7, <2>8 DEF Milder
  <2> QED  BY <1>1, <2>2, <2>9, MildInv
<1>8. CASE Lookup(t)
  <2>1. CASE Opening(t)
    <3>1. Op(t) \notin {"symlink", "link", "unlink"}  BY <2>1 DEF Opening
    <3> QED  BY <1>4, <1>5, <1>7, <1>8, <2>1, <3>1 DEF Lookup
  <2>2. CASE Op(t) \in {"link", "symlink"}
    BY <1>4, <1>7, <1>8, <2>2 DEF Lookup, Opening
  <2>3. CASE Op(t) = "unlink"
    BY <1>4, <1>7, <1>8, <2>3 DEF Lookup, Opening
  <2> QED  BY <1>8, <2>1, <2>2, <2>3 DEF Lookup
<1>9. CASE LookupLink(t)
  <2>1. CASE Op(t) = "link" /\ Goto(t, "link_check")
    <3>1. me'[t].call = me[t].call /\ me'[t].pc = "link_check"
      BY <1>1, <2>1, Gone DEF Goes
    <3>2. /\ ~Unlinks(me'[t]) /\ ~Creates(me'[t])
          /\ Renames(me'[t]) => Renames(me[t])
      BY <1>9, <3>1 DEF Unlinks, Creates, Renames, Blockless, LookupLink, At
    <3> QED  BY <1>1, <1>3, <2>1, <3>2, OnwardInv
  <2> QED  BY <1>4, <1>5, <1>9, <2>1 DEF LookupLink
<1> QED  BY <1>6, <1>8, <1>9

\* inode_create, between taking its inode and giving it a name, and where it
\* finds none or has no room for the name.
LEMMA CreatingLinks ==
    ASSUME IInv, IInv', LinksFit, NEW t \in Threads, Calm(t),
           \/ ScanInodes(t) \/ LockTable(t) \/ ScanBlocks(t) \/ TakeBlock(t)
           \/ SetBlock(t) \/ GetInode(t)
           \/ AddEntry(t) /\ ~CanAddEntry(me[t].call.path)
    PROVE  LinksFit'
<1>1. me \in [Threads -> Locals] /\ inode \in [INums -> Inodes]
  BY DEF IInv, TypeOK, Inodes
<1>2. /\ me[t].pc \in {"scan", "table_lock", "block_scan", "block_take", "block_set",
                       "node", "entry"}
      /\ Op(t) \in Opens \cup {"write", "symlink"}
  <2>1. me[t].pc \in {"scan", "table_lock", "block_scan", "block_take", "block_set",
                      "node", "entry"}
    BY DEF ScanInodes, LockTable, ScanBlocks, TakeBlock, SetBlock, GetInode,
           InodeGet, AddEntry, At
  <2> QED  BY <2>1, OpAt DEF OpsAt, Opens, Writes
<1>3. ~Pends(me[t]) /\ me[t].pc # "clear"  BY <1>2, NotPending
<1>4. LinkTables
  <2>1. CASE UNCHANGED <<inode, dir, freeinode_ts>>  BY <2>1, TablesSame
  <2>2. CASE ScanBlocks(t)  BY <1>1, <2>2 DEF ScanBlocks, LinkTables, Inodes
  <2>3. CASE SetBlock(t)  BY <1>1, <2>3 DEF SetBlock, LinkTables, Inodes
  <2>4. CASE ScanInodes(t)  BY <2>1, <2>4 DEF ScanInodes, tables
  <2>5. CASE LockTable(t)  BY <2>1, <2>5 DEF LockTable, tables
  <2>6. CASE TakeBlock(t)  BY <2>1, <2>6 DEF TakeBlock
  <2>7. CASE GetInode(t)  BY <2>1, <2>7 DEF GetInode, InodeGet, tables
  <2>8. CASE AddEntry(t) /\ ~CanAddEntry(me[t].call.path)
    BY <2>1, <2>8 DEF AddEntry
  <2> QED  BY <2>2, <2>3, <2>4, <2>5, <2>6, <2>7, <2>8
<1>5. ASSUME NEW labels, Goes(t, labels), labels \subseteq Besides PROVE LinksFit'
  BY <1>3, <1>5, BesidesInv
<1>6. ASSUME NEW val, Return(t, val) \/ WriteReturns(t, val) PROVE LinksFit'
  <2>1. {"idle"} \subseteq Besides /\ {"idle", "copy_next"} \subseteq Besides
    BY DEF Besides
  <2> QED  BY <1>4, <1>5, <1>6, <2>1, Returned
\* A creator goes on with its inode.
<1>7. ASSUME NEW label \in {"init", "block_scan", "block_take", "block_set", "delete",
                            "node", "entry", "bytes", "deref", "take"},
             Goto(t, label),
             Creates(me'[t]) => Creates(me[t]),
             label = "init" <=> me[t].pc = "table_lock"
      PROVE  LinksFit'
  <2>1. me'[t].call = me[t].call /\ me'[t].pc = label
    BY <1>4, <1>7, Gone DEF Goes
  <2>2. ~Unlinks(me'[t]) /\ ~Renames(me'[t])
    BY <1>2, <2>1 DEF Unlinks, Renames, Op, Opens
  <2>3. label \notin {"clear", "inc", "shortcut", "link_entry"}  BY <1>7
  <2>4. Unset(me[t]) => label = "init"  BY <1>2, <1>7 DEF Unset
  <2> QED  BY <1>3, <1>4, <1>7, <2>2, <2>3, <2>4, OnwardInv
\* The next index of a table is looked at.
<1>8. ASSUME me' = [me EXCEPT ![t].pos = @ + 1], me[t].pc \in {"scan", "block_scan"}
      PROVE  LinksFit'
  <2>1. PICK l \in Locals : l = me'[t]  BY DEF IInv, TypeOK
  <2>2. /\ l.pc = me[t].pc /\ l.call = me[t].call /\ l.inum = me[t].inum
        /\ me' = [me EXCEPT ![t] = l]
    BY <1>1, <1>8, <2>1 DEF Locals
  <2>3. ~Renames(l) /\ ~Pends(l)
    BY <1>2, <1>8, <2>2 DEF Renames, Pends, Unlinks, Op, Opens
  <2>4. Creates(l) => Creates(me[t])  BY <2>2 DEF Creates
  <2>5. ~Unset(me[t]) /\ l.pc \notin {"clear", "shortcut", "link_entry"}
    BY <1>8, <2>2 DEF Unset
  <2>6. Called(l)  BY <2>2 DEF LinksFit, NamesFit, Called
  <2>7. Milder(t, l)  BY <1>3, <2>2, <2>3, <2>4, <2>5, <2>6 DEF Milder
  <2> QED  BY <1>4, <2>2, <2>7, MildInv
<1>9. ASSUME NEW label, Goto(t, label)
      PROVE  me'[t].pc = label /\ me'[t].call.op = Op(t)
  BY <1>4, <1>9, Gone DEF Goes, Op
<1>10. CASE ScanInodes(t)
  <2>1. CASE Goto(t, "take")
    <3>1. ~Creates(me'[t])  BY <1>9, <2>1 DEF Creates, Blockless
    <3> QED  BY <1>7, <1>10, <2>1, <3>1 DEF ScanInodes, At
  <2> QED  BY <1>6, <1>8, <1>10, <2>1 DEF ScanInodes, At
<1>11. CASE LockTable(t)
  <2>1. Creates(me[t])  BY <1>11 DEF LockTable, At, Creates
  <2> QED  BY <1>7, <1>11, <2>1 DEF LockTable, At
<1>12. CASE ScanBlocks(t)
  <2>1. CASE Goto(t, "block_take") \/ (Goto(t, "delete") /\ Op(t) = "symlink")
    <3>1. Creates(me'[t]) => Creates(me[t])
      BY <1>9, <1>12, <2>1 DEF ScanBlocks, At, Creates, Blockless, Op
    <3> QED  BY <1>7, <1>12, <2>1, <3>1 DEF ScanBlocks, At
  <2> QED  BY <1>6, <1>8, <1>12, <2>1 DEF ScanBlocks, At
<1>13. CASE TakeBlock(t)
  <2>1. Creates(me'[t]) => Creates(me[t])
    BY <1>9, <1>13 DEF TakeBlock, At, Creates, Blockless, Op
  <2> QED  BY <1>7, <1>13, <2>1 DEF TakeBlock, At
<1>14. CASE SetBlock(t)
  <2>1. Creates(me'[t]) => Creates(me[t])
    BY <1>9, <1>14 DEF SetBlock, At, Creates, Blockless, Op
  <2> QED  BY <1>7, <1>14, <2>1 DEF SetBlock, At
<1>15. CASE GetInode(t)
  <2>1. Opening(t) \/ Op(t) = "symlink"
    BY <1>15, OpAt DEF GetInode, InodeGet, At, OpsAt, Opens, Opening
  <2>2. PICK label \in {"deref", "entry"} :
            Goto(t, label) /\ (label = "entry" => Op(t) = "symlink")
    BY <1>15, <2>1 DEF GetInode, InodeGet
  <2>3. Creates(me'[t]) => Creates(me[t])
    BY <1>9, <1>15, <2>2 DEF GetInode, InodeGet, At, Creates, Blockless, Op
  <2> QED  BY <1>7, <1>15, <2>2, <2>3 DEF GetInode, InodeGet, At
<1>16. CASE AddEntry(t) /\ ~CanAddEntry(me[t].call.path)
  <2>1. CASE Goto(t, "delete")
    <3>1. Creates(me[t])  BY <1>16 DEF AddEntry, At, Creates
    <3> QED  BY <1>7, <1>16, <2>1, <3>1 DEF AddEntry, At
  <2> QED  BY <1>6, <1>16, <2>1 DEF AddEntry
<1> QED  BY <1>10, <1>11, <1>12, <1>13, <1>14, <1>15, <1>16

\* tfs_link finds a file, or no room for the name; tfs_sym_link is done;
\* tfs_unlink finds a file.
LEMMA LinkingLinks ==
    ASSUME IInv, IInv', LinksFit, NEW t \in Threads, Calm(t),
           \/ LinkCheck(t) \/ FillTarget(t)
           \/ LinkEntry(t) /\ ~CanAddEntry(me[t].call.path)
           \/ UnlinkCheck(t) /\ ~inode[me[t].inum].is_shortcut
    PROVE  LinksFit'
<1>1. inode \in [INums -> Inodes] /\ me[t].inum \in INums
  BY MeTyped DEF IInv, TypeOK, Inodes, Locals
<1>2. me[t].pc \in {"link_check", "fill", "link_entry", "unlink_check"}
  BY DEF LinkCheck, FillTarget, LinkEntry, UnlinkCheck, At
<1>3. ~Pends(me[t]) /\ me[t].pc # "clear"  BY <1>2, NotPending
<1>4. LinkTables
  <2>1. CASE FillTarget(t)  BY <1>1, <2>1 DEF FillTarget, LinkTables, Inodes
  <2>2. CASE LinkCheck(t)  BY <2>2, TablesSame DEF LinkCheck, tables
  <2>3. CASE LinkEntry(t) /\ ~CanAddEntry(me[t].call.path)
    BY <2>3, TablesSame DEF LinkEntry
  <2>4. CASE UnlinkCheck(t)  BY <2>4, TablesSame DEF UnlinkCheck, tables
  <2> QED  BY <2>1, <2>2, <2>3, <2>4
<1>5. ASSUME NEW val, Return(t, val) PROVE LinksFit'
  <2>1. {"idle"} \subseteq Besides  BY DEF Besides
  <2> QED  BY <1>3, <1>4, <1>5, <2>1, Returned, BesidesInv
<1>6. ASSUME NEW label \in {"link_entry", "dec"}, Goto(t, label),
             me[t].pc \in {"link_check", "unlink_check"},
             label = "link_entry" => ~Shortcut(me[t].inum)
      PROVE  LinksFit'
  <2>1. me'[t].call = me[t].call /\ me'[t].pc = label
    BY <1>4, <1>6, Gone DEF Goes
  <2>2. Op(t) \in {"link", "unlink"}  BY <1>6, OpAt DEF OpsAt
  <2>3. /\ ~Unlinks(me'[t]) /\ ~Creates(me'[t])
        /\ Renames(me'[t]) => Renames(me[t])
    BY <1>6, <2>1, <2>2 DEF Unlinks, Creates, Renames, Blockless, Op
  <2>4. label \notin {"clear", "inc", "shortcut"}  BY <1>6
  <2> QED  BY <1>3, <1>4, <1>6, <2>3, <2>4, OnwardInv
<1>7. CASE LinkCheck(t)
  <2>1. CASE inode[me[t].inum].is_shortcut  BY <1>5, <1>7, <2>1 DEF LinkCheck
  <2>2. CASE ~inode[me[t].inum].is_shortcut
    <3>1. ~Shortcut(me[t].inum)
      BY <1>7, <2>2 DEF Shortcut, Calm, NotYetLink, LinkCheck, At
    <3>2. Goto(t, "link_entry") /\ me[t].pc = "link_check"
      BY <1>7, <2>2 DEF LinkCheck, At
    <3> QED  BY <1>6, <3>1, <3>2
  <2> QED  BY <2>1, <2>2
<1>8. CASE UnlinkCheck(t) /\ ~inode[me[t].inum].is_shortcut
  BY <1>6, <1>8 DEF UnlinkCheck, At
<1> QED  BY <1>5, <1>7, <1>8 DEF FillTarget, LinkEntry

-----------------------------------------------------------------------------
(* What a step about one inode leaves alone: the others *)

\* The thread is doing something to the names or the count of its inode.
Concerns(l) == \/ Creates(l) \/ Pends(l)
               \/ l.pc \in {"shortcut", "link_entry", "clear"}

\* The entries of inode j are the same.
EntriesKept(j) ==
    \A s \in Slots : /\ dir'[s].d_inumber = j <=> dir[s].d_inumber = j
                     /\ dir[s].d_inumber = j => dir'[s].d_name = dir[s].d_name

LEMMA NamedElsewhere ==
    ASSUME IInv, NEW t \in Threads, NEW l \in Locals, me' = [me EXCEPT ![t] = l],
           NEW j, EntriesKept(j),
           Concerns(me[t]) => me[t].inum # j, Concerns(l) => l.inum # j
    PROVE  Named(j)' = Named(j) /\ Settled(j)' = Settled(j)
<1>1. /\ me'[t] = l /\ \A u \in Threads : u # t => me'[u] = me[u]
  BY DEF IInv, TypeOK
<1>2. ASSUME NEW s \in Slots, dir[s].d_inumber = j
      PROVE  /\ (\E u \in Threads : /\ me'[u].pc = "clear" /\ me'[u].inum = j
                                    /\ me'[u].call.path = dir'[s].d_name)
                <=> \E u \in Threads : /\ me[u].pc = "clear" /\ me[u].inum = j
                                       /\ me[u].call.path = dir[s].d_name
             /\ (\E u \in Threads : /\ Pends(me'[u]) /\ me'[u].inum = j
                                    /\ me'[u].call.path = dir'[s].d_name)
                <=> \E u \in Threads : /\ Pends(me[u]) /\ me[u].inum = j
                                       /\ me[u].call.path = dir[s].d_name
  BY <1>1, <1>2 DEF EntriesKept, Concerns
<1>3. Named(j)' = Named(j)  BY <1>2 DEF EntriesKept, Named
<1>4. \A s \in Named(j) : s \in Slots /\ dir[s].d_inumber = j  BY DEF Named
<1> QED  BY <1>2, <1>3, <1>4 DEF Settled

LEMMA Elsewhere ==
    ASSUME IInv, LinksFit, NEW t \in Threads, NEW l \in Locals,
           me' = [me EXCEPT ![t] = l],
           NEW j \in INums, EntriesKept(j),
           inode'[j].n_links = inode[j].n_links,
           inode'[j].is_shortcut = inode[j].is_shortcut,
           freeinode_ts'[j] = freeinode_ts[j],
           Concerns(me[t]) => me[t].inum # j, Concerns(l) => l.inum # j
    PROVE  CountsFit(j)'
<1>1. /\ me'[t] = l /\ \A u \in Threads : u # t => me'[u] = me[u]
  BY DEF IInv, TypeOK
<1>2. Named(j)' = Named(j) /\ Settled(j)' = Settled(j)  BY NamedElsewhere
<1>3. CountsFit(j)  BY DEF LinksFit
<1>4. \A u \in Threads : Concerns(me'[u]) /\ me'[u].inum = j => me'[u] = me[u]
  BY <1>1
<1>5. CreatorAlone(j)'
  <2> SUFFICES ASSUME NEW u \in Threads, Creates(me'[u]), me'[u].inum = j
               PROVE  /\ freeinode_ts[j] = "TAKEN" /\ Named(j) = {}
                      /\ ~Unset(me'[u]) => inode[j].n_links = 1
                      /\ \A v \in Threads : v # u /\ me'[v].inum = j =>
                             ~Creates(me'[v]) /\ me'[v].pc # "shortcut"
    BY <1>2 DEF CreatorAlone
  <2>1. me'[u] = me[u] /\ Creates(me[u])  BY <1>4 DEF Concerns
  <2>2. ASSUME NEW v \in Threads, v # u, me'[v].inum = j, Concerns(me'[v])
        PROVE  me[v].inum = j /\ ~Creates(me'[v]) /\ me'[v].pc # "shortcut"
    <3>1. me'[v] = me[v]  BY <1>4, <2>2
    <3> QED  BY <1>3, <2>1, <2>2, <3>1 DEF CountsFit, CreatorAlone
  <2> QED  BY <1>3, <2>1, <2>2 DEF CountsFit, CreatorAlone, Concerns
<1>6. FreeUnnamed(j)'
  BY <1>2, <1>3, <1>4 DEF CountsFit, FreeUnnamed, Concerns
<1>7. OneName(j)'
  <2>1. Shortcut(j)' => Shortcut(j)  BY <1>4 DEF Shortcut, Concerns
  <2>2. \A u \in Threads : me'[u].pc \in {"link_entry", "inc"} => Concerns(me'[u])
    BY DEF Concerns, Pends
  <2> QED  BY <1>2, <1>3, <1>4, <2>1, <2>2 DEF CountsFit, OneName
<1>8. Counted(j)'  BY <1>2, <1>3 DEF CountsFit, Counted
<1>9. LastGone(j)'
  <2>1. \A u \in Threads : Unlinks(me'[u]) => Concerns(me'[u])
    BY DEF Concerns, Pends
  <2> QED  BY <1>3, <1>4, <2>1 DEF CountsFit, LastGone
<1> QED  BY <1>5, <1>6, <1>7, <1>8, <1>9 DEF CountsFit

-----------------------------------------------------------------------------
(* The steps: inode_create takes an inode and sets it up *)

\* What a thread's step does to its own inode and the others' is LinksFit.
LEMMA TakeInodeLinks ==
    ASSUME IInv, IInv', LinksFit, NEW t \in Threads, Calm(t), TakeInode(t)
    PROVE  LinksFit'
<1>0. PICK i \in INums : i = me[t].pos
  BY DEF IInv, TakeInode, At, LocalFits
<1>1. /\ me \in [Threads -> Locals] /\ me[t].pc = "take" /\ i = me[t].pos
      /\ freeinode_ts \in [INums -> {"FREE", "TAKEN"}]
  BY <1>0 DEF IInv, TypeOK, TakeInode, At
<1>2. PICK l \in Locals : l = me'[t]  BY DEF IInv, TypeOK
<1>3. /\ me' = [me EXCEPT ![t] = l] /\ l.pc = "table_lock" /\ l.inum = i
      /\ l.call = me[t].call /\ Op(t) \in Opens \cup {"symlink"}
  BY <1>1, <1>2, OpAt DEF TakeInode, Locals, OpsAt
<1>4. /\ me'[t] = l /\ \A u \in Threads : u # t => me'[u] = me[u]
  BY <1>1, <1>3
<1>5. ~Renames(l) /\ ~Pends(l) /\ ~Pends(me[t]) /\ ~Concerns(me[t])
  BY <1>1, <1>3 DEF Renames, Pends, Unlinks, Concerns, Creates, Blockless, Opens, Op
<1>6. NamesFit'
  <2>1. Called(l)  BY <1>3 DEF LinksFit, NamesFit, Called
  <2> QED  BY <1>3, <1>5, <2>1, NamesKept DEF TakeInode
<1>7. ASSUME NEW j \in INums, j # i PROVE CountsFit(j)'
  BY <1>1, <1>3, <1>5, <1>7, Elsewhere DEF TakeInode, EntriesKept
<1>8. CountsFit(i)'
  <2>1. CountsFit(i) /\ freeinode_ts[i] = "FREE" /\ freeinode_ts'[i] = "TAKEN"
    BY <1>1 DEF LinksFit, Calm, TakenTwice, TakeInode
  <2>2. /\ Named(i) = {} /\ \A u \in Threads : me[u].pc = "shortcut" => me[u].inum # i
    BY <2>1 DEF CountsFit, FreeUnnamed
  <2>3. \A u \in Threads : Creates(me[u]) => me[u].inum # i
    BY <2>1 DEF CountsFit, CreatorAlone
  <2>4. Named(i)' = Named(i) /\ Settled(i)' = Settled(i)
    <3>1. UNCHANGED dir /\ l.pc # "clear" /\ me[t].pc # "clear"
      BY <1>1, <1>3 DEF TakeInode
    <3>2. Named(i)' = Named(i)  BY <1>1, <1>3, <3>1, NamedSame
    <3> QED  BY <1>1, <1>3, <1>5, <3>1, <3>2, SettledSame
  <2>5. CreatorAlone(i)'
    <3>1. Unset(l)  BY <1>3 DEF Unset
    <3>2. \A u \in Threads : Creates(me'[u]) /\ me'[u].inum = i => u = t
      BY <1>4, <2>3
    <3>3. \A u \in Threads : u # t /\ me'[u].inum = i =>
              ~Creates(me'[u]) /\ me'[u].pc # "shortcut"
      BY <1>4, <2>2, <2>3
    <3> QED  BY <1>4, <2>1, <2>2, <2>4, <3>1, <3>2, <3>3 DEF CreatorAlone
  <2>6. FreeUnnamed(i)'  BY <2>1 DEF FreeUnnamed
  <2>7. \A u \in Threads : me'[u].pc \in {"shortcut", "link_entry", "inc"}
                               => me'[u] = me[u]
    BY <1>3, <1>4
  <2>8. inode' = inode  BY DEF TakeInode
  <2>9. OneName(i)'
    BY <2>1, <2>2, <2>4, <2>7, <2>8 DEF CountsFit, OneName, Shortcut
  <2>10. Counted(i)'  BY <2>2, <2>4 DEF Counted
  <2>11. \A u \in Threads : Unlinks(me'[u]) => me'[u] = me[u]
    BY <1>4, <1>5 DEF Pends
  <2>12. LastGone(i)'
    BY <2>1, <2>8, <2>11 DEF CountsFit, LastGone
  <2> QED  BY <2>5, <2>6, <2>9, <2>10, <2>12 DEF CountsFit
<1> QED  BY <1>6, <1>7, <1>8 DEF LinksFit

\* While a tfs_unlink deletes an inode, nobody writes it.
LEMMA DeletingReads ==
    ASSUME IInv, NEW i \in INums, CanWrite(i), NEW t \in Threads, me[t].inum = i
    PROVE  ~(Unlinks(me[t]) /\ me[t].pc = "delete") /\ me[t].pc # "link_entry"
<1>1. readers[i][t] = 0  BY DEF CanWrite
<1> QED  BY <1>1 DEF IInv, LockDiscipline, Holding, Unlinks, Op

LEMMA InitInodeLinks ==
    ASSUME IInv, IInv', LinksFit, NEW t \in Threads, Calm(t), InitInode(t)
    PROVE  LinksFit'
<1>0. PICK i \in INums : i = me[t].inum  BY MeTyped DEF Locals
<1>1. /\ me \in [Threads -> Locals] /\ me[t].pc = "init" /\ i = me[t].inum
      /\ inode \in [INums -> Inodes] /\ CanWrite(i)
  BY <1>0 DEF IInv, TypeOK, InitInode, At, Inodes
<1>2. PICK l \in Locals : l = me'[t]  BY DEF IInv, TypeOK
<1>3. /\ me' = [me EXCEPT ![t] = l] /\ l.inum = i /\ l.call = me[t].call
      /\ l.pc \in {"entry", "block_scan"} /\ Op(t) \in Opens \cup {"symlink"}
      /\ l.pc = "block_scan" => Op(t) = "symlink"
  BY <1>1, <1>2, OpAt DEF InitInode, Locals, Goto, OpsAt
<1>4. /\ me'[t] = l /\ \A u \in Threads : u # t => me'[u] = me[u]
  BY <1>1, <1>3
<1>5. /\ ~Renames(l) /\ ~Pends(l) /\ ~Pends(me[t]) /\ ~Unset(l)
      /\ Creates(me[t])
  BY <1>1, <1>3 DEF Renames, Pends, Unlinks, Creates, Unset, Opens, Op
<1>6. /\ inode'[i].n_links = 1 /\ ~inode'[i].is_shortcut
      /\ \A j \in INums : j # i => inode'[j] = inode[j]
      /\ UNCHANGED <<dir, freeinode_ts>>
  BY <1>1 DEF InitInode, Fresh, NewInode, Inodes
<1>7. NamesFit'
  <2>1. Called(l)  BY <1>3 DEF LinksFit, NamesFit, Called
  <2> QED  BY <1>3, <1>5, <1>6, <2>1, NamesKept
<1>8. ASSUME NEW j \in INums, j # i PROVE CountsFit(j)'
  BY <1>1, <1>3, <1>6, <1>8, Elsewhere DEF EntriesKept
<1>9. CountsFit(i)'
  <2>1. CountsFit(i)  BY <1>1 DEF LinksFit
  <2>2. /\ freeinode_ts[i] = "TAKEN" /\ Named(i) = {}
        /\ \A u \in Threads : u # t /\ me[u].inum = i =>
               ~Creates(me[u]) /\ me[u].pc # "shortcut"
    BY <1>1, <1>5, <2>1 DEF CountsFit, CreatorAlone
  <2>3. Named(i)' = Named(i)
    BY <1>1, <1>3, <1>6, NamedSame
  <2>4. CreatorAlone(i)'
    BY <1>4, <1>6, <2>2, <2>3 DEF CreatorAlone
  <2>5. FreeUnnamed(i)'  BY <1>6, <2>2 DEF FreeUnnamed
  <2>6. OneName(i)'
    BY <1>3, <1>4, <1>6, <2>2 DEF OneName, Shortcut
  <2>7. Counted(i)'  BY <2>2, <2>3 DEF Counted
  <2>8. \A u \in Threads : me'[u].inum = i => ~(Unlinks(me'[u]) /\ me'[u].pc = "delete")
    BY <1>1, <1>3, <1>4, DeletingReads
  <2>9. LastGone(i)'  BY <2>8 DEF LastGone
  <2> QED  BY <2>4, <2>5, <2>6, <2>7, <2>9 DEF CountsFit
<1> QED  BY <1>7, <1>8, <1>9 DEF LinksFit

-----------------------------------------------------------------------------
(* The steps: a name is added *)

\* The slot add_dir_entry fills for the thread's inode i, at a step without a
\* race: the name is new.
Adds(t, i, s) == /\ dir[s].d_inumber = -1
                 /\ dir' = [dir EXCEPT ![s] = [d_name |-> me[t].call.path,
                                               d_inumber |-> i]]
                 /\ \A r \in Slots : dir[r].d_inumber # -1 =>
                                         dir[r].d_name # me[t].call.path

LEMMA AddingAt ==
    ASSUME IInv, LinksFit, NEW t \in Threads, Calm(t),
           me[t].pc \in {"entry", "link_entry"}, CanAddEntry(me[t].call.path),
           add_dir_entry(me[t].call.path, me[t].inum)
    PROVE  \E s \in Slots : Adds(t, me[t].inum, s)
<1>1. Min(EmptySlots) \in EmptySlots
  <2>1. EmptySlots \in SUBSET Nat  BY LimitsAssumption DEF EmptySlots, Slots
  <2>2. EmptySlots # {}  BY DEF CanAddEntry
  <2> QED  BY <2>1, <2>2, MinIn
<1>2. PICK s \in Slots : s = Min(EmptySlots)  BY <1>1 DEF EmptySlots
<1>3. dir[s].d_inumber = -1  BY <1>1, <1>2 DEF EmptySlots
<1>4. find_in_dir(me[t].call.path) = -1  BY DEF Calm, NamedTwice
<1>5. \A r \in Slots : dir[r].d_inumber = -1 \/ dir[r].d_name # me[t].call.path
  BY <1>4, FoundMeans
<1>6. Adds(t, me[t].inum, s)  BY <1>2, <1>3, <1>5 DEF Adds, add_dir_entry
<1> QED  BY <1>6

\* The entries before and after.
LEMMA AddedEntries ==
    ASSUME IInv, NEW t \in Threads, NEW i \in INums, NEW s \in Slots, Adds(t, i, s)
    PROVE  /\ dir'[s].d_name = me[t].call.path /\ dir'[s].d_inumber = i
           /\ \A r \in Slots : r # s => dir'[r] = dir[r]
           /\ \A j \in INums : j # i => EntriesKept(j)
           /\ \A r \in Slots : dir[r].d_inumber # -1 => r # s /\ dir'[r] = dir[r]
<1>1. dir \in [Slots -> [d_name : Paths \cup {NoName}, d_inumber : INums \cup {-1}]]
  BY DEF IInv, TypeOK
<1>2. -1 \notin INums  BY DEF INums
<1> QED  BY <1>1, <1>2 DEF Adds, EntriesKept

\* No call is about the new name: one that found it, or added it.
LEMMA NobodyKnows ==
    ASSUME IInv, LinksFit, NEW t \in Threads, NEW i \in INums, NEW s \in Slots,
           Adds(t, i, s), NEW u \in Threads
    PROVE  /\ Renames(me[u]) => Found(me[u]) # me[t].call.path
           /\ me[u].pc = "inc" => me[u].call.path # me[t].call.path
<1>1. me[u].inum \in INums /\ -1 \notin INums  BY MeTyped DEF Locals, INums
<1>2. Renames(me[u]) => \E r \in Slots : /\ dir[r].d_name = Found(me[u])
                                        /\ dir[r].d_inumber # -1
  BY <1>1 DEF LinksFit, NamesFit, NamesFound
<1>3. me[u].pc = "inc" => \E r \in Slots : /\ dir[r].d_name = me[u].call.path
                                          /\ dir[r].d_inumber # -1
  BY <1>1 DEF LinksFit, NamesFit, NamesNew
<1> QED  BY <1>2, <1>3 DEF Adds

\* NamesFit but for what is about threads that count.
LEMMA AddedNames ==
    ASSUME IInv, LinksFit, NEW t \in Threads, Calm(t), NEW i \in INums,
           NEW s \in Slots, Adds(t, i, s), me[t].inum = i,
           me[t].pc \in {"entry", "link_entry"},
           NEW l \in Locals, me' = [me EXCEPT ![t] = l], l.call = me[t].call,
           l.inum = i, Renames(l) => Renames(me[t])
    PROVE  /\ \A u \in Threads : Called(me'[u])
           /\ NamesUnique' /\ NoOverlap' /\ NamesFound'
<1>1. /\ me'[t] = l /\ \A u \in Threads : u # t => me'[u] = me[u]
  BY DEF IInv, TypeOK
<1>2. \A u \in Threads : Called(me'[u])  BY <1>1 DEF LinksFit, NamesFit, Called
<1>3. NamesUnique'
  <2>1. me[t].call.path \in Paths
    <3>1. Op(t) \in Opens \cup {"symlink", "link"}  BY OpAt DEF OpsAt
    <3> QED  BY <3>1 DEF LinksFit, NamesFit, Called, Op, Opens
  <2>2. i # -1 /\ me[t].call.path # NoName  BY <2>1, NamesAssumption DEF INums
  <2>3. NamesUnique  BY DEF LinksFit, NamesFit
  <2>4. \A r \in Slots : dir[r].d_name = me[t].call.path => FALSE
    BY <2>2, <2>3 DEF NamesUnique, Adds
  <2> QED  BY <2>2, <2>3, <2>4, AddedEntries DEF NamesUnique
<1>4. NoOverlap'
  <2>1. Renames(l) => First(l) \/ (Renames(me[t]) /\ l.call = me[t].call)
    OBVIOUS
  <2> QED  BY <2>1, NoOverlapNext
<1>5. NamesFound'
  <2>1. ASSUME NEW u \in Threads, Renames(me'[u])
        PROVE  \E r \in Slots : /\ dir'[r].d_name = Found(me'[u])
                                /\ dir'[r].d_inumber = me'[u].inum
    <3>1. Renames(me[u]) /\ Found(me'[u]) = Found(me[u]) /\ me'[u].inum = me[u].inum
      BY <1>1, <2>1 DEF Found
    <3>2. PICK r \in Slots : /\ dir[r].d_name = Found(me[u])
                             /\ dir[r].d_inumber = me[u].inum
      BY <3>1 DEF LinksFit, NamesFit, NamesFound
    <3>3. dir[r].d_inumber # -1  BY <3>2, MeTyped DEF Locals, INums
    <3>4. dir'[r] = dir[r]  BY <3>3, AddedEntries
    <3> QED  BY <3>1, <3>2, <3>4
  <2> QED  BY <2>1 DEF NamesFound
<1> QED  BY <1>2, <1>3, <1>4, <1>5

\* The inode has one more name, and nobody is clearing or discounting it.
LEMMA OneMoreName ==
    ASSUME IInv, LinksFit, NEW t \in Threads, NEW i \in INums, NEW s \in Slots,
           Adds(t, i, s), me[t].pc # "clear",
           NEW l \in Locals, me' = [me EXCEPT ![t] = l], l.pc # "clear"
    PROVE  Named(i)' = Named(i) \cup {s} /\ s \notin Named(i)
<1>1. /\ me'[t] = l /\ \A u \in Threads : u # t => me'[u] = me[u]
  BY DEF IInv, TypeOK
<1>2. \A u \in Threads : me'[u].pc = "clear" <=> (u # t /\ me[u].pc = "clear")
  BY <1>1
<1>3. \A u \in Threads : me[u].pc = "clear" => me[u].call.path # me[t].call.path
  <2>1. \A u \in Threads : me[u].pc = "clear" => Op(u) = "unlink"
    BY OpAt DEF OpsAt
  <2>2. \A u \in Threads : me[u].pc = "clear" =>
            Renames(me[u]) /\ Found(me[u]) = me[u].call.path
    BY <2>1 DEF Renames, Found, Op
  <2> QED  BY <2>2, NobodyKnows
<1>4. ASSUME NEW r \in Slots
      PROVE  (\E u \in Threads : /\ me'[u].pc = "clear" /\ me'[u].inum = i
                                 /\ me'[u].call.path = dir'[r].d_name)
             <=> r # s /\ \E u \in Threads : /\ me[u].pc = "clear" /\ me[u].inum = i
                                            /\ me[u].call.path = dir[r].d_name
  <2>1. \A u \in Threads : me'[u].pc = "clear" => me'[u] = me[u]  BY <1>1, <1>2
  <2>2. CASE r = s
    BY <1>2, <1>3, <2>1, <2>2, AddedEntries
  <2>3. CASE r # s
    <3>1. dir'[r] = dir[r]  BY <2>3, AddedEntries
    <3>2. \A u \in Threads : me[u].pc = "clear" => me'[u] = me[u]
      BY <1>1, <1>2
    <3> QED  BY <2>1, <2>3, <3>1, <3>2
  <2> QED  BY <2>2, <2>3
<1>5. /\ dir'[s].d_inumber = i
      /\ \A r \in Slots : r # s => dir'[r].d_inumber = dir[r].d_inumber
      /\ dir[s].d_inumber # i
  <2>1. -1 # i  BY DEF INums
  <2>2. dir[s].d_inumber = -1  BY DEF Adds
  <2> QED  BY <2>1, <2>2, AddedEntries
<1>6. Named(i)' = {r \in Slots : /\ dir'[r].d_inumber = i
                                 /\ ~\E u \in Threads :
                                       /\ me'[u].pc = "clear" /\ me'[u].inum = i
                                       /\ me'[u].call.path = dir'[r].d_name}
  BY DEF Named
<1>7. \A r \in Slots : r \in Named(i)' <=> r \in Named(i) \/ r = s
  BY <1>4, <1>5, <1>6 DEF Named
<1>8. Named(i)' \subseteq Slots /\ Named(i) \subseteq Slots  BY <1>6 DEF Named
<1> QED  BY <1>5, <1>7, <1>8 DEF Named

LEMMA AddEntryLinks ==
    ASSUME IInv, IInv', LinksFit, NEW t \in Threads, Calm(t), AddEntry(t),
           CanAddEntry(me[t].call.path)
    PROVE  LinksFit'
<1>0. PICK i \in INums : i = me[t].inum  BY MeTyped DEF Locals
<1>1. /\ me \in [Threads -> Locals] /\ me[t].pc = "entry"
      /\ UNCHANGED <<inode, freeinode_ts>>
      /\ add_dir_entry(me[t].call.path, me[t].inum)
  BY DEF IInv, TypeOK, AddEntry, At
<1>2. PICK l \in Locals : l = me'[t]  BY DEF IInv, TypeOK
<1>3. /\ me' = [me EXCEPT ![t] = l] /\ l.inum = i /\ l.call = me[t].call
      /\ l.pc \in {"add", "shortcut"} /\ Op(t) \in Opens \cup {"symlink"}
  BY <1>0, <1>1, <1>2, OpAt DEF AddEntry, Locals, Goto, OpsAt
<1>4. /\ me'[t] = l /\ \A u \in Threads : u # t => me'[u] = me[u]
  BY <1>1, <1>3
<1>5. /\ ~Renames(l) /\ ~Pends(l) /\ ~Pends(me[t]) /\ ~Creates(l)
      /\ Creates(me[t]) /\ ~Unset(me[t])
  BY <1>1, <1>3
  DEF Renames, Pends, Unlinks, Creates, Unset, Opens, Op, Blockless
<1>6. PICK s \in Slots : Adds(t, i, s)  BY <1>0, <1>1, AddingAt
<1>7. NamesFit'
  <2>1. /\ \A u \in Threads : Called(me'[u])
        /\ NamesUnique' /\ NoOverlap' /\ NamesFound'
    BY <1>0, <1>1, <1>3, <1>5, <1>6, AddedNames
  <2>2. \A u \in Threads : me'[u].pc = "inc" => me'[u] = me[u] /\ me[u].pc = "inc"
    BY <1>3, <1>4
  <2>3. NamesNew'
    <3>1. ASSUME NEW u \in Threads, me'[u].pc = "inc"
          PROVE  \E r \in Slots : /\ dir'[r].d_name = me'[u].call.path
                                  /\ dir'[r].d_inumber = me'[u].inum
      <4>1. PICK r \in Slots : /\ dir[r].d_name = me[u].call.path
                               /\ dir[r].d_inumber = me[u].inum
        BY <2>2, <3>1 DEF LinksFit, NamesFit, NamesNew
      <4>2. dir[r].d_inumber # -1  BY <4>1, MeTyped DEF Locals, INums
      <4>3. dir'[r] = dir[r]  BY <1>6, <4>2, AddedEntries
      <4> QED  BY <2>2, <3>1, <4>1, <4>3
    <3>2. \A u, v \in Threads : u # v /\ me'[u].pc = "inc" /\ me'[v].pc = "inc" =>
              me'[u].call.path # me'[v].call.path
      BY <2>2 DEF LinksFit, NamesFit, NamesNew
    <3> QED  BY <3>1, <3>2 DEF NamesNew
  <2>4. SomeOld'
    <3> SUFFICES ASSUME NEW S \in SUBSET Incs', S # {}
                 PROVE  \E u \in S : \A v \in S :
                            me'[u].call.target # me'[v].call.path
      BY DEF SomeOld
    <3>1. S \in SUBSET Incs /\ \A u \in S : me'[u] = me[u]  BY <2>2 DEF Incs
    <3>2. PICK u \in S : \A v \in S : me[u].call.target # me[v].call.path
      BY <3>1 DEF LinksFit, NamesFit, SomeOld
    <3> QED  BY <3>1, <3>2
  <2> QED  BY <2>1, <2>3, <2>4 DEF NamesFit
<1>8. ASSUME NEW j \in INums, j # i PROVE CountsFit(j)'
  <2>1. EntriesKept(j)  BY <1>6, <1>8, AddedEntries
  <2> QED  BY <1>0, <1>1, <1>3, <1>8, <2>1, Elsewhere
<1>9. CountsFit(i)'
  <2>1. CountsFit(i)  BY DEF LinksFit
  <2>2. /\ freeinode_ts[i] = "TAKEN" /\ Named(i) = {} /\ inode[i].n_links = 1
        /\ \A u \in Threads : u # t /\ me[u].inum = i =>
               ~Creates(me[u]) /\ me[u].pc # "shortcut"
    BY <1>0, <1>5, <2>1 DEF CountsFit, CreatorAlone
  <2>3. Named(i)' = {s}
    <3>1. l.pc # "clear" /\ me[t].pc # "clear"  BY <1>1, <1>3
    <3>2. Named(i)' = Named(i) \cup {s}  BY <1>3, <1>6, <3>1, OneMoreName
    <3> QED  BY <2>2, <3>2
  <2>4. \A u \in Threads : me[u].inum = i /\ Renames(me[u]) =>
            me[u].pc = "clear" \/ First(me[u])
    BY <2>2, LiveName
  <2>5. \A u \in Threads : me[u].inum = i => ~Pends(me[u]) /\ me[u].pc # "link_entry"
    <3>1. \A u \in Threads : Pends(me[u]) \/ me[u].pc = "link_entry" =>
              Renames(me[u]) /\ me[u].pc # "clear" /\ ~First(me[u])
      <4>1. \A u \in Threads : me[u].pc \in {"inc", "link_entry"} => Op(u) = "link"
        BY OpAt DEF OpsAt
      <4> QED  BY <4>1 DEF Pends, Unlinks, Renames, First, Op
    <3> QED  BY <2>4, <3>1
  <2>6. Settled(i)' = {s}
    <3>1. \A u \in Threads : me'[u].inum = i => ~Pends(me'[u])
      BY <1>4, <1>5, <2>5
    <3>2. Settled(i)' = {r \in Named(i)' :
                            ~\E u \in Threads : /\ Pends(me'[u]) /\ me'[u].inum = i
                                                /\ me'[u].call.path = dir'[r].d_name}
      BY DEF Settled
    <3> QED  BY <2>3, <3>1, <3>2
  <2>7. CreatorAlone(i)'
    BY <1>4, <1>5, <2>2 DEF CreatorAlone
  <2>8. FreeUnnamed(i)'  BY <1>1, <2>2 DEF FreeUnnamed
  <2>9. OneName(i)'
    <3>1. \A u \in Threads : me'[u].inum = i => me'[u].pc \notin {"link_entry", "inc"}
      BY <1>3, <1>4, <2>5 DEF Pends
    <3> QED  BY <2>3, <3>1 DEF OneName
  <2>10. Counted(i)'
    <3>1. Cardinality({s}) = 1  BY FS_Singleton
    <3> QED  BY <1>1, <2>2, <2>6, <3>1 DEF Counted
  <2>11. LastGone(i)'
    BY <1>4, <1>5, <2>5 DEF LastGone, Pends
  <2> QED  BY <2>7, <2>8, <2>9, <2>10, <2>11 DEF CountsFit
<1> QED  BY <1>7, <1>8, <1>9 DEF LinksFit

LEMMA LinkEntryLinks ==
    ASSUME IInv, IInv', LinksFit, NEW t \in Threads, Calm(t), LinkEntry(t),
           CanAddEntry(me[t].call.path)
    PROVE  LinksFit'
<1>0. PICK i \in INums : i = me[t].inum  BY MeTyped DEF Locals
<1>1. /\ me \in [Threads -> Locals] /\ me[t].pc = "link_entry"
      /\ UNCHANGED <<inode, freeinode_ts>>
      /\ add_dir_entry(me[t].call.path, me[t].inum) /\ Goto(t, "inc")
  BY DEF IInv, TypeOK, LinkEntry, At
<1>2. PICK l \in Locals : l = me'[t]  BY DEF IInv, TypeOK
<1>3. /\ me' = [me EXCEPT ![t] = l] /\ l.inum = i /\ l.call = me[t].call
      /\ l.pc = "inc" /\ Op(t) = "link"
  BY <1>0, <1>1, <1>2, OpAt DEF Locals, Goto, OpsAt
<1>4. /\ me'[t] = l /\ \A u \in Threads : u # t => me'[u] = me[u]
  BY <1>1, <1>3
<1>5. /\ Renames(me[t]) /\ ~First(me[t]) /\ Found(me[t]) = me[t].call.target
      /\ ~Pends(me[t]) /\ Pends(l) /\ ~Creates(me[t]) /\ ~Creates(l)
      /\ ~Unlinks(l) /\ ~Unlinks(me[t])
  BY <1>1, <1>3
  DEF Renames, First, Found, Pends, Unlinks, Creates, Op, Blockless
<1>6. PICK s \in Slots : Adds(t, i, s)  BY <1>0, <1>1, AddingAt
<1>7. \A u \in Threads : me'[u].pc = "inc" => u = t \/ (me'[u] = me[u] /\ me[u].pc = "inc")
  BY <1>4
<1>8. NamesNew'
  <2>1. ASSUME NEW u \in Threads, me'[u].pc = "inc"
        PROVE  \E r \in Slots : /\ dir'[r].d_name = me'[u].call.path
                                /\ dir'[r].d_inumber = me'[u].inum
    <3>1. CASE u = t  BY <1>3, <1>4, <1>6, <3>1, AddedEntries
    <3>2. CASE u # t
      <4>1. PICK r \in Slots : /\ dir[r].d_name = me[u].call.path
                               /\ dir[r].d_inumber = me[u].inum
        BY <1>7, <2>1, <3>2 DEF LinksFit, NamesFit, NamesNew
      <4>2. dir[r].d_inumber # -1  BY <4>1, MeTyped DEF Locals, INums
      <4>3. dir'[r] = dir[r]  BY <1>6, <4>2, AddedEntries
      <4> QED  BY <1>7, <2>1, <3>2, <4>1, <4>3
    <3> QED  BY <3>1, <3>2
  <2>2. ASSUME NEW u \in Threads, NEW v \in Threads, u # v,
               me'[u].pc = "inc", me'[v].pc = "inc"
        PROVE  me'[u].call.path # me'[v].call.path
    <3>1. CASE u = t
      <4>1. me'[v] = me[v] /\ me[v].pc = "inc"  BY <1>7, <2>2, <3>1
      <4> QED  BY <1>3, <1>4, <1>6, <3>1, <4>1, NobodyKnows
    <3>2. CASE v = t
      <4>1. me'[u] = me[u] /\ me[u].pc = "inc"  BY <1>7, <2>2, <3>2
      <4> QED  BY <1>3, <1>4, <1>6, <3>2, <4>1, NobodyKnows
    <3>3. CASE u # t /\ v # t
      BY <1>7, <2>2, <3>3 DEF LinksFit, NamesFit, NamesNew
    <3> QED  BY <3>1, <3>2, <3>3
  <2> QED  BY <2>1, <2>2 DEF NamesNew
<1>9. SomeOld'
  <2> SUFFICES ASSUME NEW S \in SUBSET Incs', S # {}
               PROVE  \E u \in S : \A v \in S :
                          me'[u].call.target # me'[v].call.path
    BY DEF SomeOld
  <2>1. /\ S \ {t} \in SUBSET Incs
        /\ \A u \in S : u # t => me'[u] = me[u] /\ me[u].pc = "inc"
    BY <1>7 DEF Incs
  <2>2. CASE S = {t}
    <3>1. me[t].call.target # me[t].call.path  BY <1>5, <1>6, NobodyKnows
    <3> QED  BY <1>3, <1>4, <2>2, <3>1
  <2>3. CASE S # {t}
    <3>1. S \ {t} # {}  BY <2>3
    <3>2. PICK u \in S \ {t} : \A v \in S \ {t} : me[u].call.target # me[v].call.path
      BY <2>1, <3>1 DEF LinksFit, NamesFit, SomeOld
    <3>3. u \in Threads /\ Op(u) = "link" /\ me[u].pc = "inc"
      BY <2>1, OpAt DEF OpsAt, Incs
    <3>4. Renames(me[u]) /\ Found(me[u]) = me[u].call.target
      BY <3>3 DEF Renames, Found, Op
    <3>5. me[u].call.target # me[t].call.path
      BY <1>6, <3>3, <3>4, NobodyKnows
    <3>6. ASSUME NEW v \in S PROVE me'[u].call.target # me'[v].call.path
      <4>1. CASE v = t  BY <1>3, <1>4, <2>1, <3>5, <4>1
      <4>2. CASE v # t  BY <2>1, <3>2, <4>2
      <4> QED  BY <4>1, <4>2
    <3> QED  BY <3>6
  <2> QED  BY <2>2, <2>3
<1>10. NamesFit'
  <2>1. /\ \A u \in Threads : Called(me'[u])
        /\ NamesUnique' /\ NoOverlap' /\ NamesFound'
    BY <1>0, <1>1, <1>3, <1>5, <1>6, AddedNames
  <2> QED  BY <1>8, <1>9, <2>1 DEF NamesFit
<1>11. ASSUME NEW j \in INums, j # i PROVE CountsFit(j)'
  <2>1. EntriesKept(j)  BY <1>6, <1>11, AddedEntries
  <2> QED  BY <1>0, <1>1, <1>3, <1>11, <2>1, Elsewhere
<1>12. CountsFit(i)'
  <2>1. CountsFit(i)  BY DEF LinksFit
  <2>2. Named(i)' = Named(i) \cup {s} /\ s \notin Named(i)
    BY <1>1, <1>3, <1>6, OneMoreName
  <2>3. Named(i) # {}  BY <1>0, <1>1, <1>5, LiveName
  <2>4. ~Shortcut(i)  BY <1>0, <1>1, <2>1 DEF CountsFit, OneName
  <2>5. Settled(i)' = Settled(i)
    <3>1. dir'[s].d_name = l.call.path  BY <1>3, <1>6, AddedEntries
    <3>2. ASSUME NEW r \in Named(i)
          PROVE  /\ r \in Slots /\ r # s /\ dir'[r] = dir[r]
                 /\ dir[r].d_name # l.call.path
      <4>1. r \in Slots /\ dir[r].d_inumber = i  BY DEF Named
      <4>2. dir[r].d_inumber # -1  BY <4>1 DEF INums
      <4> QED  BY <1>3, <1>6, <4>1, <4>2, AddedEntries DEF Adds
    <3>3. ASSUME NEW r \in Named(i)
          PROVE  (\E u \in Threads : /\ Pends(me'[u]) /\ me'[u].inum = i
                                     /\ me'[u].call.path = dir'[r].d_name)
                 <=> \E u \in Threads : /\ Pends(me[u]) /\ me[u].inum = i
                                        /\ me[u].call.path = dir[r].d_name
      BY <1>4, <1>5, <3>2
    <3>4. \E u \in Threads : /\ Pends(me'[u]) /\ me'[u].inum = i
                             /\ me'[u].call.path = dir'[s].d_name
      BY <1>3, <1>4, <1>5, <3>1
    <3>5. Settled(i)' = {r \in Named(i)' :
                            ~\E u \in Threads : /\ Pends(me'[u]) /\ me'[u].inum = i
                                                /\ me'[u].call.path = dir'[r].d_name}
      BY DEF Settled
    <3> QED  BY <2>2, <3>3, <3>4, <3>5 DEF Settled
  <2>6. \A u \in Threads : Creates(me[u]) => me[u].inum # i
    BY <2>1, <2>3 DEF CountsFit, CreatorAlone
  <2>7. CreatorAlone(i)'  BY <1>4, <1>5, <2>6 DEF CreatorAlone
  <2>8. FreeUnnamed(i)'
    BY <1>1, <2>1, <2>3 DEF CountsFit, FreeUnnamed
  <2>9. OneName(i)'
    <3>1. ~Shortcut(i)'  BY <1>1, <1>3, <1>4, <2>4 DEF Shortcut
    <3> QED  BY <3>1 DEF OneName
  <2>10. Counted(i)'
    BY <1>1, <2>1, <2>3, <2>5 DEF CountsFit, Counted
  <2>11. LastGone(i)'
    <3>1. \A u \in Threads : Unlinks(me'[u]) => me'[u] = me[u] /\ u # t
      BY <1>4, <1>5
    <3> QED  BY <1>1, <2>1, <3>1 DEF CountsFit, LastGone
  <2> QED  BY <2>7, <2>8, <2>9, <2>10, <2>11 DEF CountsFit
<1> QED  BY <1>10, <1>11, <1>12 DEF LinksFit

-----------------------------------------------------------------------------
(* The steps: names are counted *)

\* Settled names can be counted.
LEMMA SettledFinite ==
    ASSUME NEW i
    PROVE  IsFiniteSet(Settled(i)) /\ Cardinality(Settled(i)) \in Nat
<1>1. IsFiniteSet(Slots)  BY LimitsAssumption, FS_Interval DEF Slots
<1>2. Settled(i) \subseteq Slots  BY DEF Settled, Named
<1>3. IsFiniteSet(Settled(i))  BY <1>1, <1>2, FS_Subset
<1> QED  BY <1>3, FS_CardinalityType

\* The name of t's call is nobody else's to count or to discount.
LEMMA MyName ==
    ASSUME IInv, LinksFit, NEW t \in Threads, Calm(t), me[t].pc \in {"inc", "dec"},
           NEW u \in Threads, u # t, Pends(me[u])
    PROVE  me[u].call.path # me[t].call.path
<1>1. CASE me[t].pc = "inc" /\ me[u].pc = "inc"
  BY <1>1 DEF LinksFit, NamesFit, NamesNew
<1>2. CASE me[t].pc = "dec" \/ Unlinks(me[u])
  <2>1. /\ me[t].pc = "dec" => Op(t) = "unlink"
        /\ me[t].pc = "inc" => Op(t) = "link"
        /\ me[u].pc = "inc" => Op(u) = "link"
    BY OpAt DEF OpsAt
  <2>2. Renames(me[t]) /\ Renames(me[u]) /\ "unlink" \in {Op(t), Op(u)}
    BY <1>2, <2>1 DEF Renames, Pends, Unlinks, Op
  <2>3. ~Overlap(me[t], me[u])  BY Apart
  <2> QED  BY <2>2, <2>3 DEF Overlap, Op
<1> QED  BY <1>1, <1>2 DEF Pends

\* A slot with the name is that of the thread's inode.
LEMMA OneSlot ==
    ASSUME LinksFit, NEW r \in Slots, NEW s \in Slots,
           dir[r].d_name = dir[s].d_name, dir[s].d_inumber # -1
    PROVE  r = s
BY DEF LinksFit, NamesFit, NamesUnique

LEMMA IncrementLinks ==
    ASSUME IInv, IInv', LinksFit, NEW t \in Threads, Calm(t), Increment(t)
    PROVE  LinksFit'
<1>0. PICK i \in INums : i = me[t].inum  BY MeTyped DEF Locals
<1>1. /\ me \in [Threads -> Locals] /\ inode \in [INums -> Inodes]
      /\ me[t].pc = "inc" /\ CanWrite(i) /\ Op(t) = "link"
      /\ UNCHANGED <<dir, freeinode_ts>>
  BY <1>0, OpAt DEF IInv, TypeOK, Inodes, Increment, At, OpsAt
<1>2. PICK l \in Locals : l = me'[t]  BY DEF IInv, TypeOK
<1>3. me' = [me EXCEPT ![t] = l] /\ l.pc = "idle" /\ l.call = me[t].call
  BY <1>1, <1>2 DEF Increment, Return, Idle, Locals
<1>4. /\ me'[t] = l /\ \A u \in Threads : u # t => me'[u] = me[u]
  BY <1>1, <1>3
<1>5. /\ ~Renames(l) /\ ~Pends(l) /\ ~Creates(l) /\ ~Concerns(l) /\ Pends(me[t])
      /\ Called(l)
  BY <1>3
  DEF Renames, Pends, Unlinks, Creates, Concerns, Blockless, LinksFit, NamesFit,
      Called, Increment, At
<1>6. /\ inode'[i].n_links = inode[i].n_links + 1
      /\ inode'[i].is_shortcut = inode[i].is_shortcut
      /\ \A j \in INums : j # i => inode'[j] = inode[j]
  BY <1>0, <1>1 DEF Increment, Inodes
<1>7. NamesFit'
  BY <1>1, <1>3, <1>5, NamesKept
<1>8. ASSUME NEW j \in INums, j # i PROVE CountsFit(j)'
  <2>1. EntriesKept(j)  BY <1>1 DEF EntriesKept
  <2> QED  BY <1>0, <1>1, <1>3, <1>5, <1>6, <1>8, <2>1, Elsewhere
<1>9. CountsFit(i)'
  <2>1. CountsFit(i)  BY DEF LinksFit
  <2>2. PICK s \in Named(i) : dir[s].d_name = me[t].call.path
    BY <1>0, <1>1, LiveNew
  <2>3. s \in Slots /\ dir[s].d_inumber = i /\ i # -1  BY DEF Named, INums
  <2>4. ~Shortcut(i)  BY <1>0, <1>1, <2>1 DEF CountsFit, OneName
  <2>5. Named(i)' = Named(i)
    BY <1>1, <1>3, NamedSame
  <2>6. Settled(i)' = Settled(i) \cup {s} /\ s \notin Settled(i)
    <3>1. s \notin Settled(i)  BY <1>0, <1>5, <2>2 DEF Settled
    <3>2. ASSUME NEW r \in Named(i)
          PROVE  /\ r \in Slots
                 /\ dir[r].d_name = me[t].call.path <=> r = s
      <4>1. r \in Slots  BY DEF Named
      <4> QED  BY <2>2, <2>3, <4>1, OneSlot
    <3>3. ASSUME NEW r \in Named(i)
          PROVE  (\E u \in Threads : /\ Pends(me'[u]) /\ me'[u].inum = i
                                     /\ me'[u].call.path = dir[r].d_name)
                 <=> r # s /\ \E u \in Threads : /\ Pends(me[u]) /\ me[u].inum = i
                                                /\ me[u].call.path = dir[r].d_name
      <4>1. CASE r = s
        <5>1. \A u \in Threads : u # t /\ Pends(me[u]) =>
                  me[u].call.path # dir[r].d_name
          BY <1>1, <2>2, <4>1, MyName
        <5> QED  BY <1>4, <1>5, <4>1, <5>1
      <4>2. CASE r # s
        <5>1. me[t].call.path # dir[r].d_name  BY <3>2, <4>2
        <5> QED  BY <1>4, <1>5, <4>2, <5>1
      <4> QED  BY <4>1, <4>2
    <3>4. Settled(i)' = {r \in Named(i) :
                            ~\E u \in Threads : /\ Pends(me'[u]) /\ me'[u].inum = i
                                                /\ me'[u].call.path = dir[r].d_name}
      BY <1>1, <2>5 DEF Settled
    <3> QED  BY <3>1, <3>3, <3>4 DEF Settled
  <2>7. \A u \in Threads : Creates(me[u]) => me[u].inum # i
    BY <2>1, <2>2 DEF CountsFit, CreatorAlone
  <2>8. CreatorAlone(i)'  BY <1>4, <1>5, <2>7 DEF CreatorAlone
  <2>9. FreeUnnamed(i)'
    BY <1>1, <2>1, <2>2 DEF CountsFit, FreeUnnamed
  <2>10. OneName(i)'
    <3>1. ~Shortcut(i)'  BY <1>3, <1>4, <1>6, <2>4 DEF Shortcut
    <3> QED  BY <3>1 DEF OneName
  <2>11. Counted(i)'
    <3>1. Cardinality(Settled(i)') = Cardinality(Settled(i)) + 1
      BY <2>6, SettledFinite, FS_AddElement
    <3>2. inode[i].n_links = Cardinality(Settled(i))
      BY <2>1, <2>2, <2>4 DEF CountsFit, Counted, Shortcut
    <3> QED  BY <1>6, <3>1, <3>2 DEF Counted
  <2>12. LastGone(i)'
    <3>1. \A u \in Threads : me'[u].inum = i =>
              ~(Unlinks(me'[u]) /\ me'[u].pc = "delete")
      BY <1>1, <1>3, <1>4, DeletingReads
    <3> QED  BY <3>1 DEF LastGone
  <2> QED  BY <2>8, <2>9, <2>10, <2>11, <2>12 DEF CountsFit
<1> QED  BY <1>7, <1>8, <1>9 DEF LinksFit

LEMMA DecrementLinks ==
    ASSUME IInv, IInv', LinksFit, NEW t \in Threads, Calm(t), Decrement(t)
    PROVE  LinksFit'
<1>0. PICK i \in INums : i = me[t].inum  BY MeTyped DEF Locals
<1>1. /\ me \in [Threads -> Locals] /\ inode \in [INums -> Inodes]
      /\ me[t].pc = "dec" /\ CanWrite(i) /\ Op(t) = "unlink"
      /\ UNCHANGED <<dir, freeinode_ts>>
  BY <1>0, OpAt DEF IInv, TypeOK, Inodes, Decrement, At, OpsAt
<1>2. PICK l \in Locals : l = me'[t]  BY DEF IInv, TypeOK
<1>3. /\ me' = [me EXCEPT ![t] = l] /\ l.pc = "gone" /\ l.call = me[t].call
      /\ l.inum = i
  BY <1>0, <1>1, <1>2 DEF Decrement, Goto, Locals
<1>4. /\ me'[t] = l /\ \A u \in Threads : u # t => me'[u] = me[u]
  BY <1>1, <1>3
<1>5. /\ Renames(me[t]) /\ ~First(me[t]) /\ Found(me[t]) = me[t].call.path
      /\ ~Pends(me[t]) /\ Pends(l) /\ ~Creates(l) /\ ~Concerns(me[t]) /\ Called(l)
  BY <1>1, <1>3
  DEF Renames, First, Found, Pends, Unlinks, Creates, Concerns, Blockless, LinksFit,
      NamesFit, Called, Op
<1>6. /\ inode'[i].n_links = inode[i].n_links - 1
      /\ inode'[i].is_shortcut = inode[i].is_shortcut
      /\ \A j \in INums : j # i => inode'[j] = inode[j]
  BY <1>0, <1>1 DEF Decrement, Inodes
<1>7. NamesFit'
  BY <1>0, <1>1, <1>3, <1>5, NamesKept
<1>8. ASSUME NEW j \in INums, j # i PROVE CountsFit(j)'
  <2>1. EntriesKept(j)  BY <1>1 DEF EntriesKept
  <2> QED  BY <1>0, <1>1, <1>3, <1>5, <1>6, <1>8, <2>1, Elsewhere
<1>9. CountsFit(i)'
  <2>1. CountsFit(i)  BY DEF LinksFit
  <2>2. PICK s \in Named(i) : dir[s].d_name = me[t].call.path
    BY <1>0, <1>1, <1>5, LiveName
  <2>3. s \in Slots /\ dir[s].d_inumber = i /\ i # -1  BY DEF Named, INums
  <2>4. Named(i)' = Named(i)
    BY <1>1, <1>3, NamedSame
  <2>5. Settled(i)' = Settled(i) \ {s} /\ s \in Settled(i)
    <3>1. ASSUME NEW r \in Named(i)
          PROVE  /\ r \in Slots
                 /\ dir[r].d_name = me[t].call.path <=> r = s
      <4>1. r \in Slots  BY DEF Named
      <4> QED  BY <2>2, <2>3, <4>1, OneSlot
    <3>2. \A u \in Threads : Pends(me[u]) => me[u].call.path # dir[s].d_name
      BY <1>1, <1>5, <2>2, MyName
    <3>3. ASSUME NEW r \in Named(i)
          PROVE  (\E u \in Threads : /\ Pends(me'[u]) /\ me'[u].inum = i
                                     /\ me'[u].call.path = dir[r].d_name)
                 <=> r = s \/ \E u \in Threads : /\ Pends(me[u]) /\ me[u].inum = i
                                                /\ me[u].call.path = dir[r].d_name
      BY <1>3, <1>4, <1>5, <3>1
    <3>4. Settled(i)' = {r \in Named(i) :
                            ~\E u \in Threads : /\ Pends(me'[u]) /\ me'[u].inum = i
                                                /\ me'[u].call.path = dir[r].d_name}
      BY <1>1, <2>4 DEF Settled
    <3> QED  BY <3>2, <3>3, <3>4 DEF Settled
  <2>6. \A u \in Threads : Creates(me[u]) => me[u].inum # i
    BY <2>1, <2>2 DEF CountsFit, CreatorAlone
  <2>7. CreatorAlone(i)'  BY <1>4, <1>5, <2>6 DEF CreatorAlone
  <2>8. FreeUnnamed(i)'
    BY <1>1, <2>1, <2>2 DEF CountsFit, FreeUnnamed
  <2>9. OneName(i)'
    <3>1. Shortcut(i)' => Shortcut(i)  BY <1>3, <1>4, <1>6 DEF Shortcut
    <3> QED  BY <1>3, <1>4, <2>1, <2>4, <3>1 DEF CountsFit, OneName
  <2>10. Counted(i)'
    <3>1. Cardinality(Settled(i)') = Cardinality(Settled(i)) - 1
      BY <2>5, SettledFinite, FS_RemoveElement
    <3>2. inode[i].is_shortcut \/ inode[i].n_links = Cardinality(Settled(i))
      BY <2>1, <2>2 DEF CountsFit, Counted
    <3> QED  BY <1>6, <3>1, <3>2 DEF Counted
  <2>11. LastGone(i)'
    <3>1. \A u \in Threads : me'[u].inum = i =>
              ~(Unlinks(me'[u]) /\ me'[u].pc = "delete")
      BY <1>1, <1>3, <1>4, DeletingReads
    <3> QED  BY <3>1 DEF LastGone
  <2> QED  BY <2>7, <2>8, <2>9, <2>10, <2>11 DEF CountsFit
<1> QED  BY <1>7, <1>8, <1>9 DEF LinksFit

LEMMA MakeShortcutLinks ==
    ASSUME IInv, IInv', LinksFit, NEW t \in Threads, Calm(t), MakeShortcut(t)
    PROVE  LinksFit'
<1>0. PICK i \in INums : i = me[t].inum  BY MeTyped DEF Locals
<1>1. /\ me \in [Threads -> Locals] /\ inode \in [INums -> Inodes]
      /\ me[t].pc = "shortcut" /\ Op(t) = "symlink"
      /\ UNCHANGED <<dir, freeinode_ts>>
  BY OpAt DEF IInv, TypeOK, Inodes, MakeShortcut, At, OpsAt
<1>2. PICK l \in Locals : l = me'[t]  BY DEF IInv, TypeOK
<1>3. me' = [me EXCEPT ![t] = l] /\ l.pc = "fill" /\ l.call = me[t].call
  BY <1>1, <1>2 DEF MakeShortcut, Goto, Locals
<1>4. /\ me'[t] = l /\ \A u \in Threads : u # t => me'[u] = me[u]
  BY <1>1, <1>3
<1>5. /\ ~Renames(l) /\ ~Pends(l) /\ ~Creates(l) /\ ~Concerns(l) /\ ~Pends(me[t])
      /\ Called(l)
  BY <1>1, <1>3
  DEF Renames, Pends, Unlinks, Creates, Concerns, Blockless, LinksFit, NamesFit,
      Called, Op
<1>6. /\ inode'[i].n_links = inode[i].n_links /\ inode'[i].is_shortcut
      /\ \A j \in INums : j # i => inode'[j] = inode[j]
  BY <1>0, <1>1 DEF MakeShortcut, Inodes
<1>7. NamesFit'
  BY <1>1, <1>3, <1>5, NamesKept
<1>8. ASSUME NEW j \in INums, j # i PROVE CountsFit(j)'
  <2>1. EntriesKept(j)  BY <1>1 DEF EntriesKept
  <2> QED  BY <1>0, <1>1, <1>3, <1>5, <1>6, <1>8, <2>1, Elsewhere
<1>9. CountsFit(i)'
  <2>1. CountsFit(i) /\ Shortcut(i)  BY <1>0, <1>1 DEF LinksFit, Shortcut
  <2>2. Named(i)' = Named(i)  BY <1>1, <1>3, NamedSame
  <2>3. \A u \in Threads : Creates(me[u]) => me[u].inum # i
    <3>1. ~Creates(me[t])  BY <1>1 DEF Creates, Blockless
    <3> QED  BY <1>0, <1>1, <2>1, <3>1 DEF CountsFit, CreatorAlone
  <2>4. CreatorAlone(i)'  BY <1>4, <1>5, <2>3 DEF CreatorAlone
  <2>5. FreeUnnamed(i)'
    BY <1>0, <1>1, <2>1 DEF CountsFit, FreeUnnamed
  <2>6. OneName(i)'
    BY <1>3, <1>4, <2>1, <2>2 DEF CountsFit, OneName
  <2>7. Counted(i)' /\ LastGone(i)'  BY <1>6 DEF Counted, LastGone
  <2> QED  BY <2>4, <2>5, <2>6, <2>7 DEF CountsFit
<1> QED  BY <1>7, <1>8, <1>9 DEF LinksFit

\* tfs_unlink finds a symbolic link: it will delete it.
LEMMA UnlinkShortcutLinks ==
    ASSUME IInv, IInv', LinksFit, NEW t \in Threads, Calm(t), UnlinkCheck(t),
           inode[me[t].inum].is_shortcut
    PROVE  LinksFit'
<1>0. PICK i \in INums : i = me[t].inum  BY MeTyped DEF Locals
<1>1. /\ me \in [Threads -> Locals] /\ me[t].pc = "unlink_check" /\ Op(t) = "unlink"
      /\ UNCHANGED <<inode, dir, freeinode_ts>> /\ Goto(t, "delete")
  BY OpAt DEF IInv, TypeOK, UnlinkCheck, At, OpsAt, tables
<1>2. PICK l \in Locals : l = me'[t]  BY DEF IInv, TypeOK
<1>3. /\ me' = [me EXCEPT ![t] = l] /\ l.pc = "delete" /\ l.call = me[t].call
      /\ l.inum = i
  BY <1>0, <1>1, <1>2 DEF Goto, Locals
<1>4. /\ me'[t] = l /\ \A u \in Threads : u # t => me'[u] = me[u]
  BY <1>1, <1>3
<1>5. Renames(me[t]) /\ ~Concerns(me[t]) /\ ~Creates(l) /\ Called(l)
  BY <1>1, <1>3
  DEF Renames, Pends, Unlinks, Creates, Concerns, Blockless, LinksFit, NamesFit,
      Called, Op
<1>6. NamesFit'
  BY <1>0, <1>1, <1>3, <1>5, NamesKept
<1>7. ASSUME NEW j \in INums, j # i PROVE CountsFit(j)'
  <2>1. EntriesKept(j)  BY <1>1 DEF EntriesKept
  <2> QED  BY <1>0, <1>1, <1>3, <1>5, <1>7, <2>1, Elsewhere
<1>8. CountsFit(i)'
  <2>1. CountsFit(i) /\ Shortcut(i) /\ inode'[i].is_shortcut
    BY <1>0, <1>1 DEF LinksFit, Shortcut
  <2>2. Named(i)' = Named(i)  BY <1>1, <1>3, NamedSame
  <2>3. CreatorAlone(i)'
    BY <1>1, <1>3, <1>4, <1>5, <2>1, <2>2 DEF CountsFit, CreatorAlone
  <2>4. FreeUnnamed(i)'
    BY <1>1, <1>3, <1>4, <2>1, <2>2 DEF CountsFit, FreeUnnamed
  <2>5. OneName(i)'
    BY <1>3, <1>4, <2>1, <2>2 DEF CountsFit, OneName
  <2>6. Counted(i)' /\ LastGone(i)'  BY <2>1 DEF Counted, LastGone
  <2> QED  BY <2>3, <2>4, <2>5, <2>6 DEF CountsFit
<1> QED  BY <1>6, <1>7, <1>8 DEF LinksFit

\* tfs_unlink has discounted a name: it deletes the inode, or has only to clear
\* the name.
LEMMA LastLinkLinks ==
    ASSUME IInv, IInv', LinksFit, NEW t \in Threads, Calm(t), LastLink(t)
    PROVE  LinksFit'
<1>0. PICK i \in INums : i = me[t].inum  BY MeTyped DEF Locals
<1>1. /\ me \in [Threads -> Locals] /\ me[t].pc = "gone" /\ Op(t) = "unlink"
      /\ UNCHANGED <<inode, dir, freeinode_ts>>
  BY OpAt DEF IInv, TypeOK, LastLink, At, OpsAt, tables
<1>2. PICK l \in Locals : l = me'[t]  BY DEF IInv, TypeOK
<1>3. /\ me' = [me EXCEPT ![t] = l] /\ l.call = me[t].call /\ l.inum = i
      /\ l.pc = (IF IsLast(i) THEN "delete" ELSE "clear")
  BY <1>0, <1>1, <1>2 DEF LastLink, Goto, Locals
<1>4. /\ me'[t] = l /\ \A u \in Threads : u # t => me'[u] = me[u]
  BY <1>1, <1>3
<1>5. /\ Renames(me[t]) /\ ~First(me[t]) /\ Found(me[t]) = me[t].call.path
      /\ Pends(me[t]) /\ ~Creates(l) /\ Called(l)
  BY <1>1, <1>3
  DEF Renames, First, Found, Pends, Unlinks, Creates, Blockless, LinksFit,
      NamesFit, Called, Op
<1>6. NamesFit'
  <2>1. l.pc # "inc"  BY <1>3
  <2> QED  BY <1>0, <1>1, <1>3, <1>5, <2>1, NamesKept
<1>7. ASSUME NEW j \in INums, j # i PROVE CountsFit(j)'
  <2>1. EntriesKept(j)  BY <1>1 DEF EntriesKept
  <2> QED  BY <1>0, <1>1, <1>3, <1>7, <2>1, Elsewhere
<1>8. CountsFit(i)'
  <2>1. CountsFit(i)  BY DEF LinksFit
  <2>2. PICK s \in Named(i) : dir[s].d_name = me[t].call.path
    BY <1>0, <1>1, <1>5, LiveName
  <2>3. s \in Slots /\ dir[s].d_inumber = i /\ i # -1  BY DEF Named, INums
  <2>4. Named(i)' \subseteq Named(i) /\ Settled(i)' = Settled(i)
    <3>1. CASE IsLast(i)
      <4>1. l.pc = "delete"  BY <1>3, <3>1
      <4>2. Named(i)' = Named(i)  BY <1>1, <1>3, <4>1, NamedSame
      <4>3. Pends(l)  BY <1>1, <1>3, <4>1 DEF Pends, Unlinks, Op
      <4>4. Settled(i)' = Settled(i)
        BY <1>0, <1>1, <1>3, <1>5, <4>2, <4>3, SettledSame
      <4> QED  BY <4>2, <4>4
    <3>2. CASE ~IsLast(i)
      <4>1. l.pc = "clear" /\ ~Pends(l)
        BY <1>3, <3>2 DEF Pends, Unlinks
      <4>2. ASSUME NEW r \in Slots, dir[r].d_inumber = i
            PROVE  /\ (\E u \in Threads : /\ me'[u].pc = "clear" /\ me'[u].inum = i
                                          /\ me'[u].call.path = dir[r].d_name)
                      <=> r = s \/ \E u \in Threads :
                                       /\ me[u].pc = "clear" /\ me[u].inum = i
                                       /\ me[u].call.path = dir[r].d_name
                   /\ r # s =>
                      ((\E u \in Threads : /\ Pends(me'[u]) /\ me'[u].inum = i
                                           /\ me'[u].call.path = dir[r].d_name)
                       <=> \E u \in Threads : /\ Pends(me[u]) /\ me[u].inum = i
                                              /\ me[u].call.path = dir[r].d_name)
        <5>1. dir[r].d_name = me[t].call.path <=> r = s
          BY <2>2, <2>3, <4>2, OneSlot
        <5> QED  BY <1>1, <1>3, <1>4, <4>1, <5>1
      <4>3. Named(i)' = Named(i) \ {s}  BY <1>1, <4>2 DEF Named
      <4>4. s \notin Settled(i)  BY <1>0, <1>5, <2>2 DEF Settled
      <4>5. \A r \in Named(i) : r \in Slots /\ dir[r].d_inumber = i  BY DEF Named
      <4>6. Settled(i)' = {r \in Named(i)' :
                              ~\E u \in Threads :
                                    /\ Pends(me'[u]) /\ me'[u].inum = i
                                    /\ me'[u].call.path = dir[r].d_name}
        BY <1>1 DEF Settled
      <4>7. Settled(i)' = Settled(i)
        BY <4>2, <4>3, <4>4, <4>5, <4>6 DEF Settled
      <4> QED  BY <4>3, <4>7
    <3> QED  BY <3>1, <3>2
  <2>5. \A u \in Threads : Creates(me[u]) => me[u].inum # i
    BY <2>1, <2>2 DEF CountsFit, CreatorAlone
  <2>6. CreatorAlone(i)'  BY <1>4, <1>5, <2>5 DEF CreatorAlone
  <2>7. FreeUnnamed(i)'
    BY <1>1, <2>1, <2>2 DEF CountsFit, FreeUnnamed
  <2>8. OneName(i)'
    <3>1. Shortcut(i)' => Shortcut(i)  BY <1>1, <1>3, <1>4 DEF Shortcut
    <3> QED  BY <1>3, <1>4, <2>1, <2>4, <3>1 DEF CountsFit, OneName
  <2>9. Counted(i)'
    BY <1>1, <2>1, <2>2, <2>4 DEF CountsFit, Counted
  <2>10. LastGone(i)'
    <3> SUFFICES ASSUME NEW u \in Threads, Unlinks(me'[u]), me'[u].pc = "delete",
                        me'[u].inum = i, ~inode[i].is_shortcut
                 PROVE  /\ inode[i].n_links = 0
                        /\ \A v \in Threads : v # u /\ Unlinks(me'[v]) =>
                               me'[v].inum # i
      BY <1>1 DEF LastGone
    <3>1. CASE u = t
      <4>1. IsLast(i)  BY <1>3, <1>4, <3>1
      <4>2. \A v \in Threads : v # t /\ Unlinks(me[v]) => me[v].inum # i
        BY <1>0, <1>1, <4>1 DEF Calm, DeletedTwice, Unlinks, Op
      <4> QED  BY <1>4, <3>1, <4>1, <4>2 DEF IsLast
    <3>2. CASE u # t
      <4>1. me'[u] = me[u]  BY <1>4, <3>2
      <4>2. Unlinks(me[t]) /\ me[t].inum = i  BY <1>0, <1>1 DEF Unlinks, Op
      <4>3. FALSE  BY <2>1, <3>2, <4>1, <4>2 DEF CountsFit, LastGone
      <4> QED  BY <4>3
    <3> QED  BY <3>1, <3>2
  <2> QED  BY <2>6, <2>7, <2>8, <2>9, <2>10 DEF CountsFit
<1> QED  BY <1>6, <1>7, <1>8 DEF LinksFit

-----------------------------------------------------------------------------
(* The steps: an inode is deleted, a name is cleared *)

\* The inode tfs_unlink deletes has no other name: a link has one, and with
\* nothing settled, of the tfs_links that have added a name to it the first
\* would have its target from a settled one.
LEMMA LastName ==
    ASSUME IInv, LinksFit, NEW t \in Threads, Calm(t), me[t].pc = "delete",
           Op(t) = "unlink", NEW i \in INums, i = me[t].inum
    PROVE  \A r \in Named(i) : dir[r].d_name = me[t].call.path
<1>1. CountsFit(i)  BY DEF LinksFit
<1>2. Renames(me[t]) /\ ~First(me[t]) /\ Found(me[t]) = me[t].call.path /\ Unlinks(me[t])
  BY DEF Renames, First, Found, Unlinks, Op
<1>3. PICK s \in Named(i) : dir[s].d_name = me[t].call.path
  BY <1>2, LiveName
<1>4. CASE inode[i].is_shortcut
  BY <1>1, <1>3, <1>4 DEF CountsFit, OneName, Shortcut
<1>5. CASE ~inode[i].is_shortcut
  <2> DEFINE S == {u \in Incs : me[u].inum = i}
  <2>1. inode[i].n_links = 0
    BY <1>1, <1>2, <1>5 DEF CountsFit, LastGone
  <2>2. \A u \in Threads : Unlinks(me[u]) /\ me[u].inum = i => u = t
    BY <1>1, <1>2, <1>5 DEF CountsFit, LastGone
  <2>3. Settled(i) = {}
    <3>1. Cardinality(Settled(i)) = 0
      BY <1>1, <1>3, <1>5, <2>1 DEF CountsFit, Counted
    <3> QED  BY <3>1, SettledFinite, FS_EmptySet
  <2>4. ASSUME NEW r \in Named(i), dir[r].d_name # me[t].call.path
        PROVE  \E u \in S : me[u].call.path = dir[r].d_name
    <3>1. PICK u \in Threads : /\ Pends(me[u]) /\ me[u].inum = i
                               /\ me[u].call.path = dir[r].d_name
      BY <2>3 DEF Settled
    <3>2. me[u].pc = "inc"  BY <2>2, <2>4, <3>1 DEF Pends
    <3> QED  BY <3>1, <3>2 DEF Incs
  <2>5. S = {}
    <3> SUFFICES ASSUME S # {} PROVE FALSE  OBVIOUS
    <3>1. PICK u \in S : \A v \in S : me[u].call.target # me[v].call.path
      <4>1. S \in SUBSET Incs  OBVIOUS
      <4> HIDE DEF S
      <4> QED  BY <4>1 DEF LinksFit, NamesFit, SomeOld
    <3>2. u \in Threads /\ me[u].pc = "inc" /\ me[u].inum = i  BY DEF Incs
    <3>3. Op(u) = "link"  BY <3>2, OpAt DEF OpsAt
    <3>4. Renames(me[u]) /\ ~First(me[u]) /\ Found(me[u]) = me[u].call.target
      BY <3>2, <3>3 DEF Renames, First, Found, Op
    <3>5. PICK r \in Named(i) : dir[r].d_name = me[u].call.target
      BY <3>2, <3>4, LiveName
    <3>6. ~Overlap(me[t], me[u]) /\ u # t  BY <3>2, Apart
    <3>7. me[u].call.target # me[t].call.path
      BY <1>2, <3>4, <3>6 DEF Overlap, Op
    <3>8. PICK v \in S : me[v].call.path = dir[r].d_name
      BY <2>4, <3>5, <3>7
    <3> QED  BY <3>1, <3>5, <3>8
  <2> QED  BY <2>4, <2>5
<1> QED  BY <1>4, <1>5

LEMMA DeleteInodeLinks ==
    ASSUME IInv, IInv', LinksFit, NEW t \in Threads, Calm(t), DeleteInode(t)
    PROVE  LinksFit'
<1>0. PICK i \in INums : i = me[t].inum  BY MeTyped DEF Locals
<1>1. /\ me \in [Threads -> Locals] /\ me[t].pc = "delete" /\ TableFree
      /\ freeinode_ts \in [INums -> {"FREE", "TAKEN"}]
      /\ UNCHANGED <<inode, dir>>
  BY DEF IInv, TypeOK, DeleteInode, At, Panic, tables
<1>2. CASE Panic
  BY <1>2, StillLinks DEF Panic, tables
<1>3. CASE ~Panic
  <2>1. /\ freeinode_ts' = [freeinode_ts EXCEPT ![i] = "FREE"]
        /\ Op(t) = "unlink" => Goto(t, "clear")
        /\ Op(t) # "unlink" => Return(t, -1)
    BY <1>0, <1>3 DEF DeleteInode
  <2>2. PICK l \in Locals : l = me'[t]  BY DEF IInv, TypeOK
  <2>3. /\ me' = [me EXCEPT ![t] = l] /\ l.call = me[t].call
        /\ Op(t) = "unlink" => l.pc = "clear" /\ l.inum = i
        /\ Op(t) # "unlink" => l.pc = "idle"
    <3>1. CASE Op(t) = "unlink"
      BY <1>0, <1>1, <2>1, <2>2, <3>1 DEF Goto, Locals
    <3>2. CASE Op(t) # "unlink"
      <4>1. PICK val : Return(t, val)  BY <2>1, <3>2
      <4>2. me' = [me EXCEPT ![t] = l] /\ l.pc = "idle" /\ l.call = me[t].call
        BY <1>1, <2>2, <4>1 DEF Return, Idle, Locals
      <4> QED  BY <3>2, <4>2
    <3> QED  BY <3>1, <3>2
  <2>4. /\ me'[t] = l /\ \A u \in Threads : u # t => me'[u] = me[u]
    BY <1>1, <2>3
  <2>5. ~Pends(l) /\ ~Creates(l) /\ Called(l) /\ l.pc # "inc" /\ Concerns(me[t])
    BY <1>1, <2>3
    DEF Pends, Unlinks, Creates, Blockless, Concerns, LinksFit, NamesFit, Called, Op
  <2>6. NamesFit'
    <3>1. Renames(l) => Renames(me[t]) /\ l.inum = me[t].inum
      BY <1>0, <1>1, <2>3 DEF Renames, Op
    <3> QED  BY <1>1, <2>3, <2>5, <3>1, NamesKept
  <2>7. ASSUME NEW j \in INums, j # i PROVE CountsFit(j)'
    <3>1. EntriesKept(j) /\ inode' = inode /\ freeinode_ts'[j] = freeinode_ts[j]
      BY <1>1, <2>1, <2>7 DEF EntriesKept
    <3>2. Concerns(l) => l.inum = i
      BY <2>3, <2>5 DEF Concerns
    <3> QED  BY <1>0, <2>3, <2>7, <3>1, <3>2, Elsewhere
  <2>8. CountsFit(i)'
    <3>1. CountsFit(i)  BY DEF LinksFit
    <3>2. CASE Op(t) = "unlink"
      <4>1. /\ Renames(me[t]) /\ ~First(me[t]) /\ Unlinks(me[t])
        BY <1>1, <3>2 DEF Renames, First, Unlinks, Op
      <4>2. Named(i) # {}  BY <1>0, <1>1, <4>1, LiveName
      <4>3. \A r \in Named(i) : dir[r].d_name = l.call.path
        BY <1>0, <1>1, <2>3, <3>2, LastName
      <4>4. Named(i)' = {}
        <5>1. \A u \in Threads : me[u].pc = "clear" => me'[u] = me[u]
          BY <1>1, <2>4
        <5>2. \A r \in Named(i)' : r \in Named(i)
          BY <1>1, <5>1 DEF Named
        <5>3. \A r \in Named(i)' : dir[r].d_name # l.call.path
          BY <1>1, <2>3, <2>4, <3>2 DEF Named
        <5> QED  BY <4>3, <5>2, <5>3
      <4>5. \A u \in Threads : Creates(me[u]) => me[u].inum # i
        BY <3>1, <4>2 DEF CountsFit, CreatorAlone
      <4>6. CreatorAlone(i)'  BY <2>4, <2>5, <4>5 DEF CreatorAlone
      <4>7. FreeUnnamed(i)'
        <5>1. \A u \in Threads : me'[u].pc = "shortcut" => me'[u].inum # i
          BY <1>0, <1>1, <2>3, <2>4, <3>2 DEF Calm, NotYetLink
        <5> QED  BY <4>4, <5>1 DEF FreeUnnamed
      <4>8. OneName(i)'
        <5>1. Shortcut(i)' => Shortcut(i)
          BY <1>1, <2>3, <2>4, <3>2 DEF Shortcut
        <5> QED  BY <2>3, <2>4, <3>1, <3>2, <4>4, <5>1 DEF CountsFit, OneName
      <4>9. Counted(i)'  BY <4>4 DEF Counted
      <4>10. LastGone(i)'
        <5>1. \A u \in Threads : Unlinks(me'[u]) => u # t /\ me'[u] = me[u]
          BY <2>4, <2>5 DEF Pends
        <5>2. \A u \in Threads : u # t /\ Unlinks(me[u]) /\ me[u].pc = "delete"
                  /\ me[u].inum = i => inode[i].is_shortcut
          BY <1>0, <3>1, <4>1 DEF CountsFit, LastGone
        <5> QED  BY <1>1, <5>1, <5>2 DEF LastGone
      <4> QED  BY <4>6, <4>7, <4>8, <4>9, <4>10 DEF CountsFit
    <3>3. CASE Op(t) # "unlink"
      <4>1. Creates(me[t]) /\ ~Pends(me[t]) /\ l.pc = "idle"
        BY <1>1, <2>3, <3>3 DEF Creates, Pends, Unlinks, Op
      <4>2. /\ Named(i) = {}
            /\ \A u \in Threads : u # t /\ me[u].inum = i =>
                   ~Creates(me[u]) /\ me[u].pc # "shortcut"
        BY <1>0, <3>1, <4>1 DEF CountsFit, CreatorAlone
      <4>3. Named(i)' = Named(i)
        BY <1>1, <2>3, <4>1, NamedSame
      <4>4. CreatorAlone(i)'  BY <2>4, <2>5, <4>2 DEF CreatorAlone
      <4>5. FreeUnnamed(i)'
        BY <2>4, <4>1, <4>2, <4>3 DEF FreeUnnamed
      <4>6. OneName(i)'
        <5>1. Shortcut(i)' => Shortcut(i)
          BY <1>1, <2>4, <4>1 DEF Shortcut
        <5> QED  BY <2>4, <3>1, <4>1, <4>2, <4>3, <5>1 DEF CountsFit, OneName
      <4>7. Counted(i)'  BY <4>2, <4>3 DEF Counted
      <4>8. LastGone(i)'
        <5>1. \A u \in Threads : Unlinks(me'[u]) => me'[u] = me[u]
          BY <2>4, <2>5 DEF Pends
        <5> QED  BY <1>1, <3>1, <5>1 DEF CountsFit, LastGone
      <4> QED  BY <4>4, <4>5, <4>6, <4>7, <4>8 DEF CountsFit
    <3> QED  BY <3>2, <3>3
  <2> QED  BY <2>6, <2>7, <2>8 DEF LinksFit
<1> QED  BY <1>2, <1>3

LEMMA ClearEntryLinks ==
    ASSUME IInv, IInv', LinksFit, NEW t \in Threads, Calm(t), ClearEntry(t)
    PROVE  LinksFit'
<1>0. PICK i \in INums : i = me[t].inum  BY MeTyped DEF Locals
<1>1. /\ me \in [Threads -> Locals] /\ me[t].pc = "clear" /\ Op(t) = "unlink"
      /\ UNCHANGED <<inode, freeinode_ts>>
      /\ dir \in [Slots -> [d_name : Paths \cup {NoName}, d_inumber : INums \cup {-1}]]
  BY OpAt DEF IInv, TypeOK, ClearEntry, At, OpsAt
<1>2. PICK l \in Locals : l = me'[t]  BY DEF IInv, TypeOK
<1>3. me' = [me EXCEPT ![t] = l] /\ l.pc = "idle" /\ l.call = me[t].call
  <2>1. PICK val : Return(t, val)  BY DEF ClearEntry
  <2> QED  BY <1>1, <1>2, <2>1 DEF Return, Idle, Locals
<1>4. /\ me'[t] = l /\ \A u \in Threads : u # t => me'[u] = me[u]
  BY <1>1, <1>3
<1>5. /\ Renames(me[t]) /\ ~First(me[t]) /\ Found(me[t]) = me[t].call.path
      /\ ~Pends(me[t]) /\ ~Renames(l) /\ ~Pends(l) /\ ~Creates(l) /\ ~Concerns(l)
      /\ Called(l)
  BY <1>1, <1>3
  DEF Renames, First, Found, Pends, Unlinks, Creates, Concerns, Blockless, LinksFit,
      NamesFit, Called, Op
<1>6. PICK s \in Slots : dir[s].d_name = me[t].call.path /\ dir[s].d_inumber = i
  BY <1>0, <1>5 DEF LinksFit, NamesFit, NamesFound
<1>7. i # -1  BY DEF INums
<1>8. \A r \in Slots : dir[r].d_name = me[t].call.path <=> r = s
  BY <1>6, <1>7, OneSlot
<1>9. dir' = [dir EXCEPT ![s] = [d_name |-> NoName, d_inumber |-> -1]]
  <2> DEFINE hits == {r \in Slots : dir[r].d_name = me[t].call.path}
  <2>1. hits = {s}  BY <1>8
  <2>2. hits \in SUBSET Nat  BY LimitsAssumption DEF Slots
  <2>3. Min(hits) \in hits  BY <2>1, <2>2, MinIn
  <2>4. Min(hits) = s  BY <2>1, <2>3
  <2>5. dir' = [dir EXCEPT ![Min(hits)] = [d_name |-> NoName, d_inumber |-> -1]]
    BY <2>1 DEF ClearEntry
  <2> QED  BY <2>4, <2>5
<1>10. /\ dir'[s].d_name = NoName /\ dir'[s].d_inumber = -1
       /\ \A r \in Slots : r # s => dir'[r] = dir[r]
  BY <1>1, <1>9
\* No other call is about the name.
<1>11. ASSUME NEW u \in Threads, u # t
       PROVE  /\ Renames(me[u]) => Found(me[u]) # me[t].call.path
              /\ me[u].pc = "inc" => me[u].call.path # me[t].call.path
  <2>1. ~Overlap(me[t], me[u])  BY <1>11, Apart
  <2>2. me[u].pc = "inc" => Renames(me[u])
    <3>1. me[u].pc = "inc" => Op(u) = "link"  BY OpAt DEF OpsAt
    <3> QED  BY <3>1 DEF Renames, Op
  <2> QED  BY <1>1, <1>5, <2>1, <2>2 DEF Overlap, Found, Op
<1>12. NamesFit'
  <2>1. \A u \in Threads : Called(me'[u])
    BY <1>4, <1>5 DEF LinksFit, NamesFit, Called
  <2>2. NamesUnique'
    BY <1>10 DEF LinksFit, NamesFit, NamesUnique
  <2>3. NoOverlap'  BY <1>3, <1>5, NoOverlapNext
  <2>4. NamesFound'
    <3>1. ASSUME NEW u \in Threads, Renames(me'[u])
          PROVE  \E r \in Slots : /\ dir'[r].d_name = Found(me'[u])
                                  /\ dir'[r].d_inumber = me'[u].inum
      <4>1. u # t /\ me'[u] = me[u]  BY <1>4, <1>5, <3>1
      <4>2. PICK r \in Slots : /\ dir[r].d_name = Found(me[u])
                               /\ dir[r].d_inumber = me[u].inum
        BY <3>1, <4>1 DEF LinksFit, NamesFit, NamesFound
      <4>3. r # s  BY <1>6, <1>11, <3>1, <4>1, <4>2
      <4> QED  BY <1>10, <4>1, <4>2, <4>3
    <3> QED  BY <3>1 DEF NamesFound
  <2>5. \A u \in Threads : me'[u].pc = "inc" =>
            u # t /\ me'[u] = me[u] /\ me[u].pc = "inc"
    BY <1>3, <1>4
  <2>6. NamesNew'
    <3>1. ASSUME NEW u \in Threads, me'[u].pc = "inc"
          PROVE  \E r \in Slots : /\ dir'[r].d_name = me'[u].call.path
                                  /\ dir'[r].d_inumber = me'[u].inum
      <4>1. PICK r \in Slots : /\ dir[r].d_name = me[u].call.path
                               /\ dir[r].d_inumber = me[u].inum
        BY <2>5, <3>1 DEF LinksFit, NamesFit, NamesNew
      <4>2. r # s  BY <1>6, <1>11, <2>5, <3>1, <4>1
      <4> QED  BY <1>10, <2>5, <3>1, <4>1, <4>2
    <3>2. \A u, v \in Threads : u # v /\ me'[u].pc = "inc" /\ me'[v].pc = "inc" =>
              me'[u].call.path # me'[v].call.path
      BY <2>5 DEF LinksFit, NamesFit, NamesNew
    <3> QED  BY <3>1, <3>2 DEF NamesNew
  <2>7. SomeOld'
    <3> SUFFICES ASSUME NEW S \in SUBSET Incs', S # {}
                 PROVE  \E u \in S : \A v \in S :
                            me'[u].call.target # me'[v].call.path
      BY DEF SomeOld
    <3>1. S \in SUBSET Incs /\ \A u \in S : me'[u] = me[u]  BY <2>5 DEF Incs
    <3>2. PICK u \in S : \A v \in S : me[u].call.target # me[v].call.path
      BY <3>1 DEF LinksFit, NamesFit, SomeOld
    <3> QED  BY <3>1, <3>2
  <2> QED  BY <2>1, <2>2, <2>3, <2>4, <2>6, <2>7 DEF NamesFit
<1>13. ASSUME NEW j \in INums, j # i PROVE CountsFit(j)'
  <2>1. EntriesKept(j)
    <3>1. j # -1 /\ dir[s].d_inumber # j  BY <1>6, <1>13 DEF INums
    <3> QED  BY <1>10, <3>1 DEF EntriesKept
  <2> QED  BY <1>0, <1>1, <1>3, <1>5, <1>13, <2>1, Elsewhere
<1>14. CountsFit(i)'
  <2>1. CountsFit(i)  BY DEF LinksFit
  <2>2. \A r \in Slots : r # s => dir[r].d_name # me[t].call.path  BY <1>8
  <2>3. Named(i)' = Named(i)
    <3>1. s \notin Named(i)  BY <1>0, <1>1, <1>6 DEF Named
    <3>2. s \notin Named(i)'  BY <1>7, <1>10 DEF Named
    <3>3. ASSUME NEW r \in Slots, r # s
          PROVE  (\E u \in Threads : /\ me'[u].pc = "clear" /\ me'[u].inum = i
                                     /\ me'[u].call.path = dir'[r].d_name)
                 <=> \E u \in Threads : /\ me[u].pc = "clear" /\ me[u].inum = i
                                        /\ me[u].call.path = dir[r].d_name
      BY <1>3, <1>4, <1>10, <2>2, <3>3
    <3>4. \A r \in Slots : r # s => (r \in Named(i)' <=> r \in Named(i))
      BY <1>10, <3>3 DEF Named
    <3>5. Named(i)' \subseteq Slots /\ Named(i) \subseteq Slots  BY DEF Named
    <3> QED  BY <3>1, <3>2, <3>4, <3>5
  <2>4. Settled(i)' = Settled(i)
    <3>1. ASSUME NEW r \in Named(i) PROVE dir'[r] = dir[r]
      <4>1. r \in Slots /\ r # s  BY <1>0, <1>1, <1>6 DEF Named
      <4> QED  BY <1>10, <4>1
    <3>2. \A u \in Threads : (Pends(me'[u]) <=> Pends(me[u])) /\
                             (Pends(me[u]) => me'[u] = me[u])
      BY <1>4, <1>5
    <3> QED  BY <2>3, <3>1, <3>2 DEF Settled
  <2>5. \A u \in Threads : Concerns(me'[u]) => me'[u] = me[u]
    BY <1>4, <1>5
  <2>6. CreatorAlone(i)'
    <3>1. \A u \in Threads : Creates(me'[u]) \/ me'[u].pc = "shortcut" =>
              Concerns(me'[u])
      BY DEF Concerns
    <3> QED  BY <1>1, <2>1, <2>3, <2>5, <3>1, <1>4, <1>5 DEF CountsFit, CreatorAlone
  <2>7. FreeUnnamed(i)'
    BY <1>1, <2>1, <2>3, <2>5 DEF CountsFit, FreeUnnamed, Concerns
  <2>8. OneName(i)'
    <3>1. Shortcut(i)' => Shortcut(i)  BY <1>1, <2>5 DEF Shortcut, Concerns
    <3> QED  BY <2>1, <2>3, <2>5, <3>1 DEF CountsFit, OneName, Concerns, Pends
  <2>9. Counted(i)'  BY <1>1, <2>1, <2>3, <2>4 DEF CountsFit, Counted
  <2>10. LastGone(i)'
    BY <1>1, <2>1, <2>5 DEF CountsFit, LastGone, Concerns, Pends
  <2> QED  BY <2>6, <2>7, <2>8, <2>9, <2>10 DEF CountsFit
<1> QED  BY <1>12, <1>13, <1>14 DEF LinksFit

-----------------------------------------------------------------------------
(* What n_links means *)

\* As many calls are between their two updates as names are not settled.
Pending(i) == {t \in Threads : me[t].inum = i /\ Pends(me[t])}

LEMMA PendingName ==
    ASSUME IInv, LinksFit, NEW i, NEW t \in Pending(i)
    PROVE  \E s \in Named(i) \ Settled(i) : dir[s].d_name = me[t].call.path
<1>1. t \in Threads /\ me[t].inum = i /\ Pends(me[t])  BY DEF Pending
<1>2. \E s \in Named(i) : dir[s].d_name = me[t].call.path
  <2>1. CASE me[t].pc = "inc"  BY <1>1, <2>1, LiveNew
  <2>2. CASE Unlinks(me[t])
    <3>1. /\ Renames(me[t]) /\ ~First(me[t]) /\ me[t].pc # "clear"
          /\ Found(me[t]) = me[t].call.path
      BY <2>2 DEF Unlinks, Renames, First, Found
    <3> QED  BY <1>1, <3>1, LiveName
  <2> QED  BY <1>1, <2>1, <2>2 DEF Pends
<1> QED  BY <1>1, <1>2 DEF Settled

LEMMA PendingApart ==
    ASSUME IInv, LinksFit, NEW i, NEW t \in Pending(i), NEW u \in Pending(i), t # u
    PROVE  me[t].call.path # me[u].call.path
<1>1. /\ t \in Threads /\ Pends(me[t]) /\ u \in Threads /\ Pends(me[u])
  BY DEF Pending
<1>2. CASE me[t].pc = "inc" /\ me[u].pc = "inc"
  BY <1>1, <1>2 DEF LinksFit, NamesFit, NamesNew
<1>3. CASE Unlinks(me[t]) \/ Unlinks(me[u])
  <2>1. /\ me[t].pc = "inc" => Op(t) = "link"
        /\ me[u].pc = "inc" => Op(u) = "link"
    BY <1>1, OpAt DEF OpsAt
  <2>2. /\ Renames(me[t]) /\ ~First(me[t]) /\ Renames(me[u]) /\ ~First(me[u])
        /\ "unlink" \in {Op(t), Op(u)}
    BY <1>1, <1>3, <2>1 DEF Pends, Unlinks, Renames, First, Op
  <2>3. ~Overlap(me[t], me[u])
    BY <1>1, <2>2 DEF LinksFit, NamesFit, NoOverlap
  <2> QED  BY <2>2, <2>3 DEF Overlap, Op
<1> QED  BY <1>1, <1>2, <1>3 DEF Pends

\* The size of a set in two parts.
LEMMA TwoParts ==
    ASSUME NEW S, NEW A, NEW B, IsFiniteSet(A), IsFiniteSet(B),
           S = A \cup B, A \cap B = {}
    PROVE  Cardinality(S) = Cardinality(A) + Cardinality(B)
<1>1. Cardinality(A \cup B) = Cardinality(A) + Cardinality(B) - Cardinality(A \cap B)
  BY FS_Union
<1>2. Cardinality(A \cap B) = 0  BY FS_EmptySet, Zenon
<1>3. Cardinality(A) \in Nat /\ Cardinality(B) \in Nat  BY FS_CardinalityType
<1>4. Cardinality(S) = Cardinality(A \cup B)  BY Zenon
<1> QED  BY <1>1, <1>2, <1>3, <1>4

LEMMA PendingCount ==
    ASSUME IInv, LinksFit, NEW i \in INums
    PROVE  /\ IsFiniteSet(Pending(i))
           /\ Cardinality(Named(i)) = Cardinality(Settled(i)) + Cardinality(Pending(i))
<1> DEFINE W == Named(i) \ Settled(i)
           f == [t \in Pending(i) |-> CHOOSE s \in W : dir[s].d_name = me[t].call.path]
<1>1. \A s \in Named(i) : s \in Slots /\ dir[s].d_inumber # -1
  BY DEF Named, INums
<1>2. \A t \in Pending(i) : f[t] \in W /\ dir[f[t]].d_name = me[t].call.path
  BY PendingName
<1>3. f \in [Pending(i) -> W]  BY <1>2
<1> HIDE DEF f
<1>4. f \in Injection(Pending(i), W)
  <2>1. \A t, u \in Pending(i) : f[t] = f[u] => t = u
    BY <1>2, PendingApart
  <2> QED  BY <1>3, <2>1 DEF Injection, IsInjective
<1>5. \A s \in W : \E t \in Pending(i) : f[t] = s
  <2> SUFFICES ASSUME NEW s \in W PROVE \E t \in Pending(i) : f[t] = s
    OBVIOUS
  <2>1. PICK t \in Pending(i) : me[t].call.path = dir[s].d_name
    BY DEF Settled, Pending
  <2>2. f[t] = s  BY <1>1, <1>2, <2>1, OneSlot
  <2> QED  BY <2>2
<1>6. f \in Surjection(Pending(i), W)  BY <1>3, <1>5 DEF Surjection
<1>7. IsFiniteSet(Named(i))
  <2>1. IsFiniteSet(Slots)  BY LimitsAssumption, FS_Interval DEF Slots
  <2> QED  BY <1>1, <2>1, FS_Subset
<1>8. IsFiniteSet(W)  BY <1>7, FS_Subset
<1>9. IsFiniteSet(Pending(i)) /\ Cardinality(Pending(i)) = Cardinality(W)
  BY <1>4, <1>6, <1>8, FS_Injection
<1>10. Cardinality(Named(i)) = Cardinality(Settled(i)) + Cardinality(W)
  <2>1. Settled(i) \cup W = Named(i) /\ Settled(i) \cap W = {}  BY DEF Settled
  <2>2. IsFiniteSet(Settled(i))  BY SettledFinite
  <2> HIDE DEF W
  <2> QED  BY <1>8, <2>1, <2>2, TwoParts
<1> QED  BY <1>9, <1>10

LEMMA CountsHold == ASSUME IInv, LinksFit PROVE LinksCounted
<1> SUFFICES ASSUME NEW i \in INums, Named(i) # {}, ~inode[i].is_shortcut
             PROVE  inode[i].n_links + On(i, CountPending) + On(i, ClearPending)
                        = Cardinality(Named(i))
  <2>1. \A i \in INums : Named(i) # {} => freeinode_ts[i] = "TAKEN"
    BY DEF LinksFit, CountsFit, FreeUnnamed, IInv, TypeOK
  <2> QED  BY <2>1 DEF LinksCounted
<1> DEFINE A == {t \in Threads : me[t].inum = i /\ CountPending(t)}
           B == {t \in Threads : me[t].inum = i /\ ClearPending(t)}
<1>1. Pending(i) = A \cup B /\ A \cap B = {}
  BY DEF Pending, Pends, Unlinks, CountPending, ClearPending, Op
<1>2. IsFiniteSet(Pending(i))  BY PendingCount
<1>3. IsFiniteSet(A) /\ IsFiniteSet(B)
  <2>1. A \subseteq Pending(i) /\ B \subseteq Pending(i)  BY <1>1
  <2> HIDE DEF A, B
  <2> QED  BY <1>2, <2>1, FS_Subset
<1>4. On(i, CountPending) = Cardinality(A) /\ On(i, ClearPending) = Cardinality(B)
  BY DEF On
<1>5. inode[i].n_links = Cardinality(Settled(i))
  BY DEF LinksFit, CountsFit, Counted
<1> HIDE DEF A, B
<1>6. Cardinality(Pending(i)) = Cardinality(A) + Cardinality(B)
  BY <1>1, <1>3, TwoParts
<1>7. /\ Cardinality(A) \in Nat /\ Cardinality(B) \in Nat
      /\ Cardinality(Settled(i)) \in Nat
  BY <1>3, FS_CardinalityType, SettledFinite
<1> QED  BY <1>4, <1>5, <1>6, <1>7, PendingCount

-----------------------------------------------------------------------------
(* Names and counts agree until the first race *)

LinksInv == races = {} => LinksFit

LEMMA LinksInit == ASSUME Init PROVE LinksFit
<1>1. \A t \in Threads : me[t].pc = "idle" /\ me[t].call.op = "close"
  BY DEF Init, FileCall
<1>2. \A t \in Threads : /\ Called(me[t]) /\ ~Renames(me[t]) /\ ~Pends(me[t])
                         /\ ~Creates(me[t]) /\ ~Unlinks(me[t])
  BY <1>1 DEF Called, Renames, Pends, Creates, Unlinks, Blockless
<1>3. ASSUME NEW s \in Slots
      PROVE  /\ s \in Nat
             /\ s < Len(Present) => /\ dir[s].d_name = Present[s + 1]
                                    /\ dir[s].d_inumber = s + 1
                                    /\ s + 1 \in 1 .. Len(Present)
                                    /\ Present[s + 1] # NoName
             /\ ~(s < Len(Present)) => dir[s].d_name = NoName /\ dir[s].d_inumber = -1
  <2>1. s \in Nat  BY LimitsAssumption DEF Slots
  <2>2. Len(Present) \in Nat  BY ClientAssumption
  <2>3. dir[s] = IF s < Len(Present)
                 THEN [d_name |-> Present[s + 1], d_inumber |-> s + 1]
                 ELSE [d_name |-> NoName, d_inumber |-> -1]
    BY DEF Init
  <2>4. CASE s < Len(Present)
    <3>1. s + 1 \in 1 .. Len(Present)  BY <2>1, <2>2, <2>4
    <3>2. Present[s + 1] \in Paths  BY <3>1, ClientAssumption
    <3> QED  BY <2>1, <2>3, <2>4, <3>1, <3>2, NamesAssumption
  <2> QED  BY <2>1, <2>3, <2>4
<1>4. NamesUnique
  <2>1. \A s \in Slots : dir[s].d_inumber = -1 <=> dir[s].d_name = NoName
    BY <1>3
  <2>2. ASSUME NEW r \in Slots, NEW s \in Slots, dir[r].d_name = dir[s].d_name,
               dir[r].d_name # NoName
        PROVE  r = s
    <3>1. r < Len(Present) /\ s < Len(Present)  BY <1>3, <2>2
    <3>2. r + 1 = s + 1  BY <1>3, <2>2, <3>1, ClientAssumption
    <3> QED  BY <1>3, <3>2
  <2> QED  BY <2>1, <2>2 DEF NamesUnique
<1>5. NamesFit
  BY <1>1, <1>2, <1>4
  DEF NamesFit, NoOverlap, Overlap, NamesFound, NamesNew, SomeOld, Incs
<1>6. ASSUME NEW i \in INums PROVE CountsFit(i)
  <2>1. Named(i) = {s \in Slots : dir[s].d_inumber = i}  BY <1>1 DEF Named
  <2>2. Settled(i) = Named(i)  BY <1>2 DEF Settled
  <2>3. ASSUME NEW s \in Named(i) PROVE s = i - 1 /\ i <= Len(Present) /\ i # 0
    <3>1. s \in Slots /\ dir[s].d_inumber = i  BY <2>1
    <3>2. i \in Int /\ i # -1 /\ Len(Present) \in Nat
      BY ClientAssumption, LimitsAssumption DEF INums
    <3>3. s < Len(Present)  BY <1>3, <3>1, <3>2
    <3> QED  BY <1>3, <3>1, <3>2, <3>3
  <2>4. CreatorAlone(i) /\ LastGone(i)  BY <1>2 DEF CreatorAlone, LastGone
  <2>5. FreeUnnamed(i)
    BY <1>1, <2>3 DEF Init, FreeUnnamed
  <2>6. OneName(i)
    BY <1>1, <2>3 DEF OneName
  <2>7. Counted(i)
    <3> SUFFICES ASSUME Named(i) # {} PROVE inode[i].n_links = Cardinality(Settled(i))
      BY DEF Counted
    <3>1. Settled(i) = {i - 1}  BY <2>2, <2>3
    <3>2. Cardinality({i - 1}) = 1  BY FS_Singleton
    <3>3. inode[i].n_links = 1  BY DEF Init, NewInode
    <3> QED  BY <3>1, <3>2, <3>3
  <2> QED  BY <2>4, <2>5, <2>6, <2>7 DEF CountsFit
<1> QED  BY <1>5, <1>6 DEF LinksFit

LEMMA StepLinks ==
    ASSUME IInv, IInv', LinksFit, NEW t \in Threads, Calm(t), Step(t)
    PROVE  LinksFit'
<1>1. CASE Root(t) \/ Lookup(t) \/ LookupLink(t)  BY <1>1, LookupLinks
<1>2. CASE Creating(t)
  <2>1. CASE AddEntry(t)  BY <2>1, CreatingLinks, AddEntryLinks
  <2> QED  BY <1>2, <2>1, CreatingLinks, TakeInodeLinks, InitInodeLinks DEF Creating
<1>3. CASE Opened(t)  BY <1>3, CreatingLinks, OpenedLinks DEF Opened
<1>4. CASE Transfer(t)  BY <1>4, TransferLinks
<1>5. CASE Linking(t)
  BY <1>5, LinkingLinks, LinkEntryLinks, IncrementLinks, MakeShortcutLinks
  DEF Linking
<1>6. CASE Unlinking(t)
  <2>1. CASE UnlinkCheck(t)  BY <2>1, LinkingLinks, UnlinkShortcutLinks
  <2> QED  BY <1>6, <2>1, DecrementLinks, LastLinkLinks, ClearEntryLinks,
              DeleteInodeLinks DEF Unlinking
<1> QED  BY <1>1, <1>2, <1>3, <1>4, <1>5, <1>6 DEF Step

\* A step that completes no race is calm, and so is the beginning of a call.
LEMMA CalmStep ==
    ASSUME NEW t \in Threads, Step(t), races' = {}
    PROVE  races = {} /\ Calm(t)
<1>1. races = {} /\ Races(t) = {}  BY DEF Step
<1> QED  BY <1>1 DEF Races, RaceKinds, Calm

LEMMA CalmStart == ASSUME NEW t \in Threads, Start(t) PROVE Calm(t)
<1>1. me[t].pc = "idle"  BY DEF Start, At
<1> QED
  BY <1>1
  DEF Calm, TakenTwice, NamedTwice, NameLost, Renaming, DeletedTwice, FreedInUse,
      UsedDeleted, NotYetLink

LEMMA NextLinks == ASSUME IInv, IInv', LinksInv, [Next]_vars PROVE LinksInv'
<1> SUFFICES ASSUME races' = {} PROVE LinksFit'  BY DEF LinksInv
<1>1. CASE UNCHANGED vars
  BY <1>1, StillLinks DEF LinksInv, vars, tables
<1>2. ASSUME NEW t \in Threads, Start(t), UNCHANGED races PROVE LinksFit'
  BY <1>2, CalmStart, StartLinks DEF LinksInv
<1>3. ASSUME NEW t \in Threads, Step(t) PROVE LinksFit'
  BY <1>3, CalmStep, StepLinks DEF LinksInv
<1> QED  BY <1>1, <1>2, <1>3 DEF Next

LEMMA LinksInductive == Spec => []LinksInv
<1>1. Init => LinksInv  BY LinksInit DEF LinksInv
<1>2. IInv /\ IInv' /\ LinksInv /\ [Next]_vars => LinksInv'  BY NextLinks
<1> QED  BY <1>1, <1>2, Inductive, PTL DEF Spec

\* Names and link counts agree, whatever threads call at the same time on the
\* same names, unless one of the races of RaceKinds has happened: there is no
\* other way to lose a name or a count (operations.c and state.c).
THEOREM LinksRight == Spec => []LinksWrongHasCause
<1>1. IInv /\ LinksInv => LinksWrongHasCause
  BY CountsHold DEF LinksInv, LinksWrongHasCause
<1> QED  BY <1>1, Inductive, LinksInductive, PTL

-----------------------------------------------------------------------------
(* Blocks: what holds until the first race *)

\* With an inode that is not a file yet.
SetsUp(l) == \/ l.pc \in {"table_lock", "init"}
             \/ l.call.op = "symlink" /\ l.pc \in Blockless \cup {"delete"}

\* In tfs_write, past the look at the size; and with a block.
Fills(l) == l.call.op \notin {"symlink", "read"} /\ l.pc \in {"bytes", "grow", "set_size"}
Writer(l) == Fills(l) \/ (l.call.op \notin {"symlink", "read"} /\ l.pc \in Blockless)

\* The inode of a file; one that has a block.
InUse(i) == freeinode_ts[i] = "TAKEN" /\ ~SettingUp(i) /\ ~Truncating(i)
Owner(i) == /\ InUse(i)
            /\ \/ inode[i].i_size > 0
               \/ \E t \in Threads : me[t].inum = i /\ Fills(me[t])

OwnersTaken ==
    \A i \in INums : Owner(i) => /\ inode[i].i_data_block \in BlockNumbers
                                 /\ free_blocks[inode[i].i_data_block] = "TAKEN"
OwnersApart ==
    \A i, j \in INums : Owner(i) /\ Owner(j) /\ i # j =>
        inode[i].i_data_block # inode[j].i_data_block

\* A block that a thread has taken and not set yet is its own.
SettersApart ==
    \A t \in Threads : me[t].pc = "block_set" =>
        /\ free_blocks[me[t].pos] = "TAKEN"
        /\ \A u \in Threads : u # t /\ me[u].pc = "block_set" =>
               me[u].pos # me[t].pos
        /\ \A i \in INums : Owner(i) => inode[i].i_data_block # me[t].pos

\* What is written is a file, and so is what is truncated, by one thread.
WritersIn(i) == \A t \in Threads : Writer(me[t]) /\ me[t].inum = i => InUse(i)
TruncatesAlone(i) ==
    \A t \in Threads : me[t].pc = "trunc_zero" /\ me[t].inum = i =>
        /\ freeinode_ts[i] = "TAKEN" /\ ~SettingUp(i)
        /\ \A u \in Threads : u # t /\ me[u].pc = "trunc_zero" => me[u].inum # i

UsesFit == \A i \in INums : WritersIn(i) /\ TruncatesAlone(i)
BlocksFit == OwnersTaken /\ OwnersApart /\ SettersApart /\ UsesFit

-----------------------------------------------------------------------------
(* Steps that give nobody a block *)

\* No inode gets another block, no thread takes one.
LEMMA BlocksKept ==
    ASSUME BlocksFit, UsesFit', UNCHANGED free_blocks,
           \A i \in INums : Owner(i)' =>
               Owner(i) /\ inode'[i].i_data_block = inode[i].i_data_block,
           \A t \in Threads : me'[t].pc = "block_set" =>
               me[t].pc = "block_set" /\ me'[t].pos = me[t].pos
    PROVE  BlocksFit'
<1>1. OwnersTaken' /\ OwnersApart'
  BY DEF BlocksFit, OwnersTaken, OwnersApart
<1>2. SettersApart'  BY DEF BlocksFit, SettersApart
<1> QED  BY <1>1, <1>2 DEF BlocksFit

\* Thread t goes from m to l: it is setting up and truncating what it was, and
\* does not begin to write what is no file, or has no block.
Quiet(t, l) ==
    /\ SetsUp(l) <=> SetsUp(me[t])
    /\ SetsUp(l) => l.inum = me[t].inum
    /\ l.pc = "trunc_zero" <=> me[t].pc = "trunc_zero"
    /\ l.pc = "trunc_zero" => l.inum = me[t].inum
    /\ Writer(l) => (Writer(me[t]) /\ l.inum = me[t].inum) \/ InUse(l.inum)
    /\ Fills(l) => \/ Fills(me[t]) /\ l.inum = me[t].inum
                   \/ inode[l.inum].i_size > 0
    /\ l.pc = "block_set" => me[t].pc = "block_set" /\ l.pos = me[t].pos

BlockTables ==
    /\ UNCHANGED <<freeinode_ts, free_blocks>>
    /\ \A i \in INums : \/ SettingUp(i)
                        \/ /\ inode'[i].i_size = inode[i].i_size
                           /\ inode'[i].i_data_block = inode[i].i_data_block

LEMMA QuietInv ==
    ASSUME IInv, BlocksFit, NEW t \in Threads, NEW l \in Locals,
           me' = [me EXCEPT ![t] = l], BlockTables, Quiet(t, l)
    PROVE  BlocksFit'
<1>1. /\ me'[t] = l /\ \A u \in Threads : u # t => me'[u] = me[u]
  BY DEF IInv, TypeOK
<1>2. ASSUME NEW i
      PROVE  /\ SettingUp(i)' <=> SettingUp(i)
             /\ Truncating(i)' <=> Truncating(i)
  <2>1. \A u \in Threads : (me'[u].inum = i /\ SetsUp(me'[u]))
                               <=> (me[u].inum = i /\ SetsUp(me[u]))
    BY <1>1 DEF Quiet
  <2>2. \A u \in Threads : (me'[u].inum = i /\ me'[u].pc = "trunc_zero")
                               <=> (me[u].inum = i /\ me[u].pc = "trunc_zero")
    BY <1>1 DEF Quiet
  <2>3. SettingUp(i) <=> \E u \in Threads : me[u].inum = i /\ SetsUp(me[u])
    BY DEF SettingUp, SetsUp, Blockless, Op
  <2>4. SettingUp(i)' <=> \E u \in Threads : me'[u].inum = i /\ SetsUp(me'[u])
    BY DEF SettingUp, SetsUp, Blockless, Op
  <2> QED  BY <2>1, <2>2, <2>3, <2>4 DEF Truncating
<1>3. ASSUME NEW i PROVE InUse(i)' <=> InUse(i)
  BY <1>2 DEF InUse, BlockTables
<1>4. ASSUME NEW i \in INums PROVE WritersIn(i)'
  <2> SUFFICES ASSUME NEW u \in Threads, Writer(me'[u]), me'[u].inum = i PROVE InUse(i)
    BY <1>3 DEF WritersIn
  <2>1. CASE u # t  BY <1>1, <2>1 DEF BlocksFit, UsesFit, WritersIn
  <2>2. CASE u = t  BY <1>1, <2>2 DEF BlocksFit, UsesFit, WritersIn, Quiet
  <2> QED  BY <2>1, <2>2
<1>5. ASSUME NEW i \in INums PROVE TruncatesAlone(i)'
  <2>1. \A u \in Threads : me'[u].pc = "trunc_zero" =>
            me[u].pc = "trunc_zero" /\ me'[u].inum = me[u].inum
    BY <1>1 DEF Quiet
  <2> QED  BY <1>2, <2>1 DEF BlocksFit, UsesFit, TruncatesAlone, BlockTables
<1>6. ASSUME NEW i \in INums, Owner(i)'
      PROVE  Owner(i) /\ inode'[i].i_data_block = inode[i].i_data_block
  <2>1. InUse(i)  BY <1>3, <1>6 DEF Owner
  <2>2. /\ inode'[i].i_size = inode[i].i_size
        /\ inode'[i].i_data_block = inode[i].i_data_block
    BY <2>1 DEF BlockTables, InUse
  <2>3. ASSUME NEW u \in Threads, me'[u].inum = i, Fills(me'[u])
        PROVE  inode[i].i_size > 0 \/ (me[u].inum = i /\ Fills(me[u]))
    BY <1>1, <2>3 DEF Quiet
  <2> QED  BY <1>6, <2>1, <2>2, <2>3 DEF Owner
<1>7. \A u \in Threads : me'[u].pc = "block_set" =>
          me[u].pc = "block_set" /\ me'[u].pos = me[u].pos
  BY <1>1 DEF Quiet
<1>8. UNCHANGED free_blocks /\ UsesFit'
  BY <1>4, <1>5 DEF BlockTables, UsesFit
<1> QED  BY <1>6, <1>7, <1>8, BlocksKept

\* Nothing changes.
LEMMA StillBlocks ==
    ASSUME BlocksFit, UNCHANGED <<me, inode, freeinode_ts, free_blocks>>
    PROVE  BlocksFit'
<1>1. \A i \in INums : InUse(i)' <=> InUse(i)
  BY DEF InUse, SettingUp, Truncating, Op
<1>2. \A i \in INums : Owner(i)' => Owner(i)  BY <1>1 DEF Owner
<1>3. UsesFit'
  <2>1. \A i \in INums : WritersIn(i)'  BY <1>1 DEF BlocksFit, UsesFit, WritersIn
  <2>2. \A i \in INums : TruncatesAlone(i)'
    BY DEF BlocksFit, UsesFit, TruncatesAlone, SettingUp, Op
  <2> QED  BY <2>1, <2>2 DEF UsesFit
<1> QED  BY <1>2, <1>3, BlocksKept

\* A thread comes to a position that is about no block, in the same call or in
\* a new one.
Away == Labels \ ({"table_lock", "init", "trunc_zero", "delete", "bytes", "grow",
                   "set_size"} \cup Blockless)
Moves(t, labels) == /\ me' = [me EXCEPT ![t] = me'[t]] /\ me'[t].pc \in labels
                    /\ me'[t].call = me[t].call

LEMMA AwayInv ==
    ASSUME IInv, IInv', BlocksFit, NEW t \in Threads,
           me' = [me EXCEPT ![t] = me'[t]], BlockTables,
           ~SetsUp(me[t]), me[t].pc # "trunc_zero",
           \/ me'[t].pc \in Away
           \/ me'[t].pc = "delete" /\ me'[t].call.op # "symlink"
    PROVE  BlocksFit'
<1>1. PICK l \in Locals : l = me'[t]  BY DEF IInv, TypeOK
<1>2. ~SetsUp(l) /\ ~Writer(l) /\ ~Fills(l) /\ l.pc \notin {"trunc_zero", "block_set"}
  BY <1>1 DEF SetsUp, Writer, Fills, Away, Blockless
<1>3. Quiet(t, l)  BY <1>2 DEF Quiet
<1> QED  BY <1>1, <1>3, QuietInv

LEMMA MovesTo ==
    ASSUME IInv, NEW t \in Threads
    PROVE  /\ \A label \in Labels : Goto(t, label) => Moves(t, {label})
           /\ \A val : Return(t, val) => Moves(t, {"idle"})
           /\ \A val : WriteReturns(t, val) => Moves(t, {"idle", "copy_next"})
<1>1. me \in [Threads -> Locals]  BY DEF IInv, TypeOK
<1>2. ASSUME NEW label, Goto(t, label) PROVE Moves(t, {label})
  BY <1>1, <1>2 DEF Goto, Moves, Locals
<1>3. ASSUME NEW val, Return(t, val) PROVE Moves(t, {"idle"})
  BY <1>1, <1>3 DEF Return, Idle, Moves, Locals
<1>4. ASSUME NEW val, WriteReturns(t, val) PROVE Moves(t, {"idle", "copy_next"})
  <2>1. CASE Op(t) = "copy"
    BY <1>1, <1>4, <2>1 DEF WriteReturns, Moves, Locals
  <2>2. CASE Op(t) # "copy"
    BY <1>3, <1>4, <2>2 DEF WriteReturns, Moves
  <2> QED  BY <2>1, <2>2
<1> QED  BY <1>2, <1>3, <1>4

\* The look-ups, the beginning of a call, and tfs_open past its creation, where
\* they truncate nothing.
LEMMA SearchBlocks ==
    ASSUME IInv, IInv', BlocksFit, NEW t \in Threads,
           \/ Start(t) \/ Root(t) \/ Lookup(t) \/ LookupLink(t) \/ ScanInodes(t)
           \/ GetInode(t) \/ Deref(t) \/ Follow(t) \/ GetTarget(t) \/ Truncated(t)
           \/ AppendOffset(t) \/ AddHandle(t) \/ Close(t) \/ CopyNext(t) \/ GetFile(t)
    PROVE  BlocksFit'
<1> DEFINE Aside == me' = [me EXCEPT ![t] = me'[t]] /\ me'[t].pc \in Away
<1>1. me \in [Threads -> Locals]  BY DEF IInv, TypeOK
<1>2. me[t].pc \in Away
  BY DEF Start, Root, InodeGet, Lookup, LookupLink, ScanInodes, GetInode, Deref,
         Follow, GetTarget, Truncated, AppendOffset, AddHandle, Close, CopyNext,
         GetFile, At, Away, Blockless, Labels
<1>3. ~SetsUp(me[t]) /\ me[t].pc # "trunc_zero"
  BY <1>2 DEF SetsUp, Away, Blockless
<1>4. BlockTables
  BY DEF BlockTables, Start, Root, InodeGet, Lookup, LookupLink, ScanInodes,
         GetInode, Deref, Follow, GetTarget, Truncated, AppendOffset, AddHandle,
         Close, CopyNext, CloseHandle, GetFile, tables
<1>5. ASSUME NEW label \in Away, Goto(t, label) PROVE Aside
  <2>1. label \in Labels  BY DEF Away
  <2> QED  BY <1>5, <2>1, MovesTo DEF Moves
<1>6. ASSUME NEW val, Return(t, val) PROVE Aside
  BY <1>6, MovesTo DEF Moves, Away, Labels, Blockless
<1>7. ASSUME NEW label \in Away, NEW i,
             me' = [me EXCEPT ![t].pc = label, ![t].inum = i]
      PROVE  Aside
  BY <1>1, <1>7 DEF Locals
<1>8. ASSUME NEW n, me' = [me EXCEPT ![t].pc = "scan", ![t].pos = n]
      PROVE  Aside
  BY <1>1, <1>8 DEF Locals, Away, Labels, Blockless
<1>9. /\ {"idle", "lookup", "node", "scan", "take", "lookup_link", "unlink_check",
          "link_check", "deref", "follow", "entry", "target_node", "trunc", "append",
          "add", "file", "count", "copy_next", "root", "close"} \subseteq Away
      /\ AfterTrunc(t) \in Away /\ AfterResolve(t) \in Away
  BY DEF Away, Labels, Blockless, AfterTrunc, AfterResolve
<1> HIDE DEF Aside
<1>10. Aside
  <2>1. CASE Start(t)
    <3>1. PICK c \in Menu[t][calls[t] + 1] :
              me' = [me EXCEPT ![t] =
                    IF Refused(t, c) THEN [Idle(@, -1) EXCEPT !.call = c]
                    ELSE [@ EXCEPT !.call = c, !.pc = FirstStep(c), !.left = c.len,
                             !.inum = IF c.op \in {"write", "read"}
                                      THEN open_file_table[me[t].fh].of_inumber
                                      ELSE 0]]
      BY <2>1 DEF Start
    <3>2. c \in Call
      <4>1. calls[t] \in Nat /\ calls[t] < Len(Menu[t])
        BY <2>1 DEF Start, IInv, TypeOK
      <4>2. Menu[t] \in Seq(SUBSET Call)  BY ClientAssumption
      <4>3. calls[t] + 1 \in 1 .. Len(Menu[t])  BY <4>1, <4>2
      <4>4. Menu[t][calls[t] + 1] \in SUBSET Call  BY <4>2, <4>3
      <4> QED  BY <4>4
    <3>3. FirstStep(c) \in {"root", "close", "file"}
      BY <3>2 DEF FirstStep, Call
    <3> HIDE DEF FirstStep
    <3>4. /\ me' = [me EXCEPT ![t] = me'[t]]
          /\ me'[t].pc \in {"idle", "root", "close", "file"}
      BY <1>1, <3>1, <3>3 DEF Locals, Idle
    <3> QED  BY <1>9, <3>4 DEF Aside
  <2>2. CASE Root(t)  BY <1>5, <1>9, <2>2 DEF Root, InodeGet
  <2>3. CASE Lookup(t)
    BY <1>6, <1>7, <1>8, <1>9, <2>3 DEF Lookup
  <2>4. CASE LookupLink(t)
    BY <1>5, <1>6, <1>8, <1>9, <2>4 DEF LookupLink
  <2>5. CASE ScanInodes(t)
    <3>1. CASE me' = [me EXCEPT ![t].pos = @ + 1]
      BY <1>1, <1>2, <3>1 DEF Locals, Aside
    <3> QED  BY <1>5, <1>6, <1>9, <2>5, <3>1 DEF ScanInodes
  <2>6. CASE GetInode(t)  BY <1>5, <1>9, <2>6 DEF GetInode, InodeGet
  <2>7. CASE Deref(t)  BY <1>5, <1>9, <2>7 DEF Deref
  <2>8. CASE Follow(t)  BY <1>6, <1>7, <1>9, <2>8 DEF Follow
  <2>9. CASE GetTarget(t)  BY <1>5, <1>9, <2>9 DEF GetTarget, InodeGet
  <2>10. CASE Truncated(t)  BY <1>5, <1>9, <2>10 DEF Truncated
  <2>11. CASE AppendOffset(t)
    BY <1>1, <1>9, <2>11 DEF AppendOffset, Locals, Aside
  <2>12. CASE AddHandle(t)
    <3>1. CASE FreeHandles = {}  BY <1>6, <2>12, <3>1 DEF AddHandle
    <3>2. CASE FreeHandles # {}
      <4> DEFINE h == Min(FreeHandles)
      <4>1. me' = [me EXCEPT ![t] = IF Op(t) = "copy"
                                    THEN [@ EXCEPT !.fh = h, !.pc = "copy_next"]
                                    ELSE [Idle(@, h) EXCEPT !.fh = h]]
        BY <2>12, <3>2 DEF AddHandle
      <4> HIDE DEF h
      <4>2. /\ me' = [me EXCEPT ![t] = me'[t]]
            /\ me'[t].pc \in {"idle", "copy_next"}
        BY <1>1, <4>1 DEF Locals, Idle
      <4> QED  BY <1>9, <4>2 DEF Aside
    <3> QED  BY <3>1, <3>2
  <2>13. ASSUME NEW val, CloseHandle(t, val) PROVE Aside
    <3>1. me' = [me EXCEPT ![t] = me'[t]] /\ me'[t].pc = "idle"
      BY <1>1, <2>13 DEF CloseHandle, Locals, Idle
    <3> QED  BY <1>9, <3>1 DEF Aside
  <2>14. CASE Close(t)  BY <2>13, <2>14 DEF Close
  <2>15. CASE CopyNext(t)  BY <1>7, <1>9, <2>13, <2>15 DEF CopyNext
  <2>16. CASE GetFile(t)  BY <1>5, <1>9, <2>16 DEF GetFile, InodeGet
  <2> QED  BY <2>1, <2>2, <2>3, <2>4, <2>5, <2>6, <2>7, <2>8, <2>9, <2>10, <2>11,
              <2>12, <2>14, <2>15, <2>16
<1> QED  BY <1>3, <1>4, <1>10, AwayInv DEF Aside

\* The calls of names, where they delete nothing.
LEMMA NamesBlocks ==
    ASSUME IInv, IInv', BlocksFit, NEW t \in Threads,
           \/ AddEntry(t) \/ LinkCheck(t) \/ LinkEntry(t) \/ Increment(t)
           \/ MakeShortcut(t) \/ FillTarget(t) \/ UnlinkCheck(t) \/ Decrement(t)
           \/ LastLink(t) \/ ClearEntry(t)
    PROVE  BlocksFit'
<1>1. me \in [Threads -> Locals] /\ inode \in [INums -> Inodes]
  BY DEF IInv, TypeOK, Inodes
<1>2. me[t].pc \in {"entry", "link_check", "link_entry", "inc", "shortcut", "fill",
                    "unlink_check", "dec", "gone", "clear"}
  BY DEF AddEntry, LinkCheck, LinkEntry, Increment, MakeShortcut, FillTarget,
         UnlinkCheck, Decrement, LastLink, ClearEntry, At
<1>3. ~SetsUp(me[t]) /\ me[t].pc # "trunc_zero"
  BY <1>2 DEF SetsUp, Blockless
<1>4. BlockTables
  <2>1. CASE Increment(t)  BY <1>1, <2>1 DEF Increment, BlockTables, Inodes
  <2>2. CASE MakeShortcut(t)  BY <1>1, <2>2 DEF MakeShortcut, BlockTables, Inodes
  <2>3. CASE FillTarget(t)  BY <1>1, <2>3 DEF FillTarget, BlockTables, Inodes
  <2>4. CASE Decrement(t)  BY <1>1, <2>4 DEF Decrement, BlockTables, Inodes
  <2>5. CASE AddEntry(t) \/ LinkCheck(t) \/ LinkEntry(t) \/ UnlinkCheck(t)
             \/ LastLink(t) \/ ClearEntry(t)
    BY <2>5 DEF AddEntry, LinkCheck, LinkEntry, UnlinkCheck, LastLink, ClearEntry,
                tables, BlockTables
  <2> QED  BY <2>1, <2>2, <2>3, <2>4, <2>5
<1>5. /\ {"idle", "add", "shortcut", "link_entry", "inc", "fill", "dec", "gone",
          "clear"} \subseteq Away
      /\ Away \cup {"delete"} \subseteq Labels
  BY DEF Away, Labels, Blockless
<1>6. ASSUME NEW label \in Away, Goto(t, label) PROVE BlocksFit'
  BY <1>3, <1>4, <1>5, <1>6, MovesTo, AwayInv DEF Moves
<1>7. ASSUME NEW val, Return(t, val) PROVE BlocksFit'
  BY <1>3, <1>4, <1>5, <1>7, MovesTo, AwayInv DEF Moves
<1>8. ASSUME Goto(t, "delete"), Op(t) # "symlink" PROVE BlocksFit'
  BY <1>3, <1>4, <1>5, <1>8, MovesTo, AwayInv DEF Moves, Op
<1>9. CASE AddEntry(t)
  <2>1. Opening(t) => Op(t) # "symlink"  BY DEF Opening
  <2> QED  BY <1>5, <1>6, <1>7, <1>8, <1>9, <2>1 DEF AddEntry
<1>10. CASE UnlinkCheck(t) \/ LastLink(t)
  <2>1. Op(t) = "unlink"  BY <1>10, OpAt DEF UnlinkCheck, LastLink, At, OpsAt
  <2> QED  BY <1>5, <1>6, <1>8, <1>10, <2>1 DEF UnlinkCheck, LastLink
<1>11. CASE LinkCheck(t)  BY <1>5, <1>6, <1>7, <1>11 DEF LinkCheck
<1>12. CASE LinkEntry(t)  BY <1>5, <1>6, <1>7, <1>12 DEF LinkEntry
<1>13. CASE ClearEntry(t)  BY <1>7, <1>13 DEF ClearEntry
<1>14. CASE Increment(t) \/ MakeShortcut(t) \/ FillTarget(t) \/ Decrement(t)
  BY <1>5, <1>6, <1>7, <1>14 DEF Increment, MakeShortcut, FillTarget, Decrement
<1> QED  BY <1>9, <1>10, <1>11, <1>12, <1>13, <1>14

\* tfs_write and inode_create while they look for a block, and tfs_write past
\* its block, up to the size.
LEMMA WriteBlocks ==
    ASSUME IInv, IInv', BlocksFit, NEW t \in Threads, Calm(t),
           \/ LockTable(t) \/ (InitInode(t) /\ Op(t) = "symlink")
           \/ ScanBlocks(t) \/ Count(t) \/ MoveBytes(t) \/ Grow(t)
    PROVE  BlocksFit'
<1>0. PICK i \in INums : i = me[t].inum  BY MeTyped DEF Locals
<1>1. me \in [Threads -> Locals] /\ inode \in [INums -> Inodes]
  BY DEF IInv, TypeOK, Inodes
<1>2. me[t].pc # "trunc_zero"
  BY DEF LockTable, InitInode, ScanBlocks, Count, MoveBytes, Grow, At
<1>3. me[t].pc \in {"table_lock", "init", "block_scan", "count", "bytes", "grow"}
  BY DEF LockTable, InitInode, ScanBlocks, Count, MoveBytes, Grow, At
<1>4. CASE Panic
  BY <1>4, StillBlocks DEF Panic, tables
<1>5. PICK l \in Locals : l = me'[t]  BY DEF IInv, TypeOK
<1>6. CASE LockTable(t)
  <2>1. /\ me' = [me EXCEPT ![t] = l] /\ l.pc = "init" /\ l.call = me[t].call
        /\ l.inum = i
    BY <1>0, <1>1, <1>5, <1>6 DEF LockTable, Goto, Locals
  <2>2. me[t].pc = "table_lock" /\ BlockTables
    BY <1>6 DEF LockTable, At, tables, BlockTables
  <2>3. Quiet(t, l)
    BY <1>0, <2>1, <2>2 DEF Quiet, SetsUp, Writer, Fills, Blockless
  <2> QED  BY <2>1, <2>2, <2>3, QuietInv
<1>7. CASE InitInode(t) /\ Op(t) = "symlink"
  <2>1. /\ me' = [me EXCEPT ![t] = l] /\ l.pc = "block_scan" /\ l.call = me[t].call
        /\ l.inum = i
    BY <1>0, <1>1, <1>5, <1>7 DEF InitInode, Locals, Opening
  <2>2. me[t].pc = "init" /\ BlockTables
    BY <1>1, <1>7 DEF InitInode, At, Opening, Inodes, BlockTables
  <2>3. Quiet(t, l)
    BY <1>0, <1>7, <2>1, <2>2 DEF Quiet, SetsUp, Writer, Fills, Blockless, Op
  <2> QED  BY <2>1, <2>2, <2>3, QuietInv
<1>8. CASE ScanBlocks(t)
  <2>1. me[t].pc = "block_scan"  BY <1>8 DEF ScanBlocks, At
  <2>2. BlockTables
    <3>1. CASE UNCHANGED inode  BY <1>8, <3>1 DEF ScanBlocks, BlockTables
    <3>2. CASE Op(t) = "symlink" /\ ~UNCHANGED inode
      <4>1. SettingUp(i)  BY <1>0, <2>1, <3>2 DEF SettingUp
      <4>2. \A j \in INums : j # i => inode'[j] = inode[j]
        BY <1>0, <1>1, <1>8, <3>2 DEF ScanBlocks, Inodes
      <4> QED  BY <1>8, <4>1, <4>2 DEF ScanBlocks, BlockTables
    <3> QED  BY <1>8, <3>1, <3>2 DEF ScanBlocks
  <2>3. CASE WriteReturns(t, -1) /\ Op(t) # "symlink"
    <3>1. ~SetsUp(me[t])  BY <2>1, <2>3 DEF SetsUp, Op
    <3>2. {"idle", "copy_next"} \subseteq Away  BY DEF Away, Labels, Blockless
    <3> QED  BY <1>2, <2>2, <2>3, <3>1, <3>2, MovesTo, AwayInv DEF Moves
  <2>4. CASE ~(WriteReturns(t, -1) /\ Op(t) # "symlink")
    <3>1. /\ me' = [me EXCEPT ![t] = l] /\ l.call = me[t].call /\ l.inum = i
          /\ l.pc \in {"block_take", "block_scan", "delete"}
          /\ l.pc = "delete" => Op(t) = "symlink"
      <4>1. CASE Goto(t, "block_take")
        BY <1>0, <1>1, <1>5, <4>1 DEF Goto, Locals
      <4>2. CASE me' = [me EXCEPT ![t].pos = @ + 1]
        BY <1>0, <1>1, <1>5, <2>1, <4>2 DEF Locals
      <4>3. CASE Goto(t, "delete") /\ Op(t) = "symlink"
        BY <1>0, <1>1, <1>5, <4>3 DEF Goto, Locals
      <4> QED  BY <1>8, <2>4, <4>1, <4>2, <4>3 DEF ScanBlocks
    <3>2. Quiet(t, l)
      BY <1>0, <2>1, <3>1 DEF Quiet, SetsUp, Writer, Fills, Blockless, Op
    <3> QED  BY <2>2, <3>1, <3>2, QuietInv
  <2> QED  BY <2>3, <2>4
<1>9. CASE Count(t) /\ ~Panic
  <2>1. me[t].pc = "count" /\ BlockTables /\ ~SetsUp(me[t])
    BY <1>9 DEF Count, At, tables, BlockTables, SetsUp, Blockless
  <2>2. InUse(i)
    <3>1. freeinode_ts[i] # "FREE" /\ ~SettingUp(i)
      BY <1>0, <2>1 DEF Calm, UsedDeleted
    <3>2. ~Truncating(i)  BY <1>0, <2>1 DEF Calm, FreedInUse
    <3> QED  BY <3>1, <3>2 DEF InUse, IInv, TypeOK
  <2>3. CASE \E n : me' = [me EXCEPT ![t].amount = n, ![t].pos = 1,
                              ![t].pc = IF Op(t) # "read" /\ inode[me[t].inum].i_size = 0
                                        THEN "block_scan" ELSE "bytes"]
    <3>1. PICK n : me' = [me EXCEPT ![t].amount = n, ![t].pos = 1,
                              ![t].pc = IF Op(t) # "read" /\ inode[me[t].inum].i_size = 0
                                        THEN "block_scan" ELSE "bytes"]
      BY <2>3
    <3>2. /\ me' = [me EXCEPT ![t] = l] /\ l.call = me[t].call /\ l.inum = i
          /\ l.pc = IF Op(t) # "read" /\ inode[i].i_size = 0
                    THEN "block_scan" ELSE "bytes"
      BY <1>0, <1>1, <1>5, <3>1 DEF Locals
    <3>3. Op(t) # "symlink"  BY <2>1, OpAt DEF OpsAt, Writes
    <3>4. inode[i].i_size \in Nat
      BY <1>1, LimitsAssumption DEF Inodes
    <3>5. Fills(l) => inode[i].i_size > 0  BY <3>2, <3>4 DEF Fills, Op
    <3>6. Quiet(t, l)
      BY <1>0, <2>1, <2>2, <3>2, <3>3, <3>5 DEF Quiet, SetsUp, Blockless, Op
    <3> QED  BY <2>1, <3>2, <3>6, QuietInv
  <2>4. CASE Return(t, 0) \/ WriteReturns(t, 0)
    <3>1. {"idle", "copy_next"} \subseteq Away  BY DEF Away, Labels, Blockless
    <3> QED  BY <2>1, <2>4, <3>1, MovesTo, AwayInv DEF Moves
  <2> QED  BY <1>9, <2>3, <2>4 DEF Count
<1>10. CASE (MoveBytes(t) /\ ~Panic) \/ Grow(t)
  <2>1. me[t].pc \in {"bytes", "grow"} /\ BlockTables /\ ~SetsUp(me[t])
    BY <1>10
    DEF MoveBytes, Grow, At, tables, BlockTables, SetsUp, Blockless
  <2>2. CASE \E val : Return(t, val) \/ WriteReturns(t, val)
    <3>1. {"idle", "copy_next"} \subseteq Away  BY DEF Away, Labels, Blockless
    <3> QED  BY <1>3, <2>1, <2>2, <3>1, MovesTo, AwayInv DEF Moves
  <2>3. CASE /\ Goto(t, "grow") \/ Goto(t, "set_size")
             /\ Op(t) # "read"
    <3>1. /\ me' = [me EXCEPT ![t] = l] /\ l.call = me[t].call /\ l.inum = i
          /\ l.pc \in {"grow", "set_size"}
      BY <1>0, <1>1, <1>5, <2>3 DEF Goto, Locals
    <3>2. Op(t) # "symlink"  BY <2>1, OpAt DEF OpsAt, Writes
    <3>3. Fills(me[t])  BY <2>1, <2>3, <3>2 DEF Fills, Op
    <3>4. Quiet(t, l)
      BY <1>0, <2>1, <3>1, <3>2, <3>3 DEF Quiet, SetsUp, Writer, Blockless, Op
    <3> QED  BY <2>1, <3>1, <3>4, QuietInv
  <2>4. Grow(t) => Op(t) # "read"
    BY OpAt DEF Grow, At, OpsAt, Writes
  <2> QED  BY <1>10, <2>2, <2>3, <2>4 DEF MoveBytes, Grow
<1> QED  BY <1>4, <1>6, <1>7, <1>8, <1>9, <1>10 DEF MoveBytes

-----------------------------------------------------------------------------
(* Steps that take, give or free a block *)

\* Thread t sets up and truncates what it did, and begins to write only a file.
LEMMA UsesSame ==
    ASSUME IInv, BlocksFit, NEW t \in Threads, NEW l \in Locals,
           me' = [me EXCEPT ![t] = l], UNCHANGED freeinode_ts,
           SetsUp(l) <=> SetsUp(me[t]), l.inum = me[t].inum,
           l.pc # "trunc_zero", me[t].pc # "trunc_zero",
           Writer(l) => Writer(me[t])
    PROVE  UsesFit' /\ \A i \in INums : InUse(i)' <=> InUse(i)
<1>1. /\ me'[t] = l /\ \A u \in Threads : u # t => me'[u] = me[u]
  BY DEF IInv, TypeOK
<1>2. ASSUME NEW i
      PROVE  /\ SettingUp(i)' <=> SettingUp(i)
             /\ Truncating(i)' <=> Truncating(i)
  <2>1. \A u \in Threads : (me'[u].inum = i /\ SetsUp(me'[u]))
                               <=> (me[u].inum = i /\ SetsUp(me[u]))
    BY <1>1
  <2>2. SettingUp(i) <=> \E u \in Threads : me[u].inum = i /\ SetsUp(me[u])
    BY DEF SettingUp, SetsUp, Blockless, Op
  <2>3. SettingUp(i)' <=> \E u \in Threads : me'[u].inum = i /\ SetsUp(me'[u])
    BY DEF SettingUp, SetsUp, Blockless, Op
  <2> QED  BY <1>1, <2>1, <2>2, <2>3 DEF Truncating
<1>3. ASSUME NEW i PROVE InUse(i)' <=> InUse(i)  BY <1>2 DEF InUse
<1>4. \A i \in INums : WritersIn(i)'
  BY <1>1, <1>3 DEF BlocksFit, UsesFit, WritersIn
<1>5. \A i \in INums : TruncatesAlone(i)'
  <2>1. \A u \in Threads : me'[u].pc = "trunc_zero" => me'[u] = me[u]  BY <1>1
  <2> QED  BY <1>2, <2>1 DEF BlocksFit, UsesFit, TruncatesAlone
<1> QED  BY <1>3, <1>4, <1>5 DEF UsesFit

\* What t does with one inode is nothing to the others.
About(l, i) == l.inum = i \/ (~SetsUp(l) /\ ~Writer(l) /\ l.pc # "trunc_zero")

LEMMA OthersSame ==
    ASSUME IInv, BlocksFit, NEW t \in Threads, NEW l \in Locals,
           me' = [me EXCEPT ![t] = l], NEW i \in INums, About(l, i), About(me[t], i),
           NEW j \in INums, j # i, freeinode_ts'[j] = freeinode_ts[j],
           inode'[j] = inode[j]
    PROVE  /\ Owner(j)' => Owner(j) /\ inode'[j].i_data_block = inode[j].i_data_block
           /\ WritersIn(j)' /\ TruncatesAlone(j)'
<1>1. /\ me'[t] = l /\ \A u \in Threads : u # t => me'[u] = me[u]
  BY DEF IInv, TypeOK
<1>2. /\ \A u \in Threads : (me'[u].inum = j /\ SetsUp(me'[u]))
                                <=> (me[u].inum = j /\ SetsUp(me[u]))
      /\ \A u \in Threads : (me'[u].inum = j /\ me'[u].pc = "trunc_zero")
                                <=> (me[u].inum = j /\ me[u].pc = "trunc_zero")
      /\ \A u \in Threads : (me'[u].inum = j /\ Writer(me'[u]))
                                => u # t /\ me'[u] = me[u]
  BY <1>1 DEF About
<1>3. SettingUp(j)' <=> SettingUp(j)
  <2>1. SettingUp(j) <=> \E u \in Threads : me[u].inum = j /\ SetsUp(me[u])
    BY DEF SettingUp, SetsUp, Blockless, Op
  <2>2. SettingUp(j)' <=> \E u \in Threads : me'[u].inum = j /\ SetsUp(me'[u])
    BY DEF SettingUp, SetsUp, Blockless, Op
  <2> QED  BY <1>2, <2>1, <2>2
<1>4. InUse(j)' <=> InUse(j)
  BY <1>2, <1>3 DEF InUse, Truncating
<1>5. WritersIn(j)'
  <2>1. WritersIn(j)  BY DEF BlocksFit, UsesFit
  <2> QED  BY <1>2, <1>4, <2>1 DEF WritersIn
<1>6. TruncatesAlone(j)'
  <2>1. TruncatesAlone(j)  BY DEF BlocksFit, UsesFit
  <2> QED  BY <1>2, <1>3, <2>1 DEF TruncatesAlone
<1>7. Owner(j)' => Owner(j)
  <2>1. \A u \in Threads : Fills(me'[u]) => Writer(me'[u])  BY DEF Writer
  <2> QED  BY <1>2, <1>4, <2>1 DEF Owner
<1> QED  BY <1>5, <1>6, <1>7

\* An inode that is no file yet, or is being truncated, is nobody's to write,
\* and not before it is one to truncate.
LEMMA NobodyWrites ==
    ASSUME BlocksFit, NEW i \in INums, NEW u \in Threads, me[u].inum = i
    PROVE  /\ SettingUp(i) \/ freeinode_ts[i] = "FREE" =>
                  ~Writer(me[u]) /\ me[u].pc # "trunc_zero"
           /\ Truncating(i) => ~Writer(me[u])
BY DEF BlocksFit, UsesFit, WritersIn, TruncatesAlone, InUse

\* inode_alloc, and the set-up of a file's inode.
LEMMA TakeInodeBlocks ==
    ASSUME IInv, IInv', BlocksFit, NEW t \in Threads, Calm(t), TakeInode(t)
    PROVE  BlocksFit'
<1>1. /\ me \in [Threads -> Locals] /\ me[t].pc = "take"
      /\ freeinode_ts \in [INums -> {"FREE", "TAKEN"}]
      /\ UNCHANGED <<inode, free_blocks>>
  BY DEF IInv, TypeOK, TakeInode, At
<1>0. PICK i \in INums : i = me[t].pos  BY <1>1 DEF IInv, LocalFits
<1>2. PICK l \in Locals : l = me'[t]  BY DEF IInv, TypeOK
<1>3. /\ me' = [me EXCEPT ![t] = l] /\ l.pc = "table_lock" /\ l.inum = i
      /\ freeinode_ts' = [freeinode_ts EXCEPT ![i] = "TAKEN"]
  BY <1>0, <1>1, <1>2 DEF TakeInode, Locals
<1>4. /\ me'[t] = l /\ \A u \in Threads : u # t => me'[u] = me[u]
  BY <1>1, <1>3
<1>5. freeinode_ts[i] = "FREE"  BY <1>0, <1>1 DEF Calm, TakenTwice
<1>6. ~Writer(l) /\ About(l, i) /\ About(me[t], i)
  BY <1>1, <1>3 DEF Writer, Fills, Blockless, About, SetsUp
<1>7. \A u \in Threads : me'[u].inum = i =>
          ~Writer(me'[u]) /\ me'[u].pc # "trunc_zero"
  BY <1>3, <1>4, <1>5, <1>6, NobodyWrites
<1>8. SettingUp(i)'  BY <1>3, <1>4 DEF SettingUp
<1>9. WritersIn(i)' /\ TruncatesAlone(i)' /\ ~Owner(i)'
  BY <1>7, <1>8 DEF WritersIn, TruncatesAlone, Owner, InUse
<1>10. ASSUME NEW j \in INums, j # i
       PROVE  /\ Owner(j)' => Owner(j) /\ inode'[j].i_data_block = inode[j].i_data_block
              /\ WritersIn(j)' /\ TruncatesAlone(j)'
  BY <1>1, <1>3, <1>6, <1>10, OthersSame
<1>11. UsesFit'  BY <1>9, <1>10 DEF UsesFit
<1>12. \A u \in Threads : me'[u].pc = "block_set" => me'[u] = me[u]
  BY <1>3, <1>4
<1> QED  BY <1>1, <1>9, <1>10, <1>11, <1>12, BlocksKept

LEMMA EmptyBlocks ==
    ASSUME IInv, IInv', BlocksFit, NEW t \in Threads, Calm(t),
           (InitInode(t) /\ Opening(t)) \/ ResetSize(t)
    PROVE  BlocksFit'
<1>0. PICK i \in INums : i = me[t].inum  BY MeTyped DEF Locals
<1>1. /\ me \in [Threads -> Locals] /\ inode \in [INums -> Inodes]
      /\ UNCHANGED <<freeinode_ts, free_blocks>>
      /\ me[t].pc \in {"init", "trunc_zero"}
  BY DEF IInv, TypeOK, InitInode, ResetSize, At, Inodes
<1>2. PICK l \in Locals : l = me'[t]  BY DEF IInv, TypeOK
<1>3. /\ me' = [me EXCEPT ![t] = l] /\ l.pc \in {"entry", "trunc_again"}
      /\ l.inum = i
  <2>1. CASE InitInode(t) /\ Opening(t)
    <3>1. Goto(t, "entry")  BY <2>1 DEF InitInode, Opening
    <3> QED  BY <1>0, <1>1, <1>2, <3>1 DEF Goto, Locals
  <2>2. CASE ResetSize(t)
    BY <1>0, <1>1, <1>2, <2>2 DEF ResetSize, Goto, Locals
  <2> QED  BY <2>1, <2>2
<1>4. /\ inode'[i].i_size = 0 /\ \A j \in INums : j # i => inode'[j] = inode[j]
  <2>1. CASE InitInode(t) /\ Opening(t)
    <3>1. inode' = [inode EXCEPT ![i] = Fresh(@)]
      BY <1>0, <2>1 DEF InitInode, Opening
    <3> QED  BY <1>1, <3>1 DEF Fresh, NewInode
  <2>2. CASE ResetSize(t)
    BY <1>0, <1>1, <2>2 DEF ResetSize, Inodes
  <2> QED  BY <2>1, <2>2
<1>5. /\ me'[t] = l /\ \A u \in Threads : u # t => me'[u] = me[u]
  BY <1>1, <1>3
<1>6. ~Writer(l) /\ About(l, i) /\ About(me[t], i)
  BY <1>0, <1>3 DEF Writer, Fills, Blockless, About
<1>7. \A u \in Threads : me'[u].inum = i =>
          ~Writer(me'[u]) /\ me'[u].pc # "trunc_zero"
  <2>1. CASE me[t].pc = "init"
    <3>1. SettingUp(i)  BY <1>0, <2>1 DEF SettingUp
    <3> QED  BY <1>3, <1>5, <1>6, <3>1, NobodyWrites
  <2>2. CASE me[t].pc = "trunc_zero"
    <3>1. Truncating(i)  BY <1>0, <2>2 DEF Truncating
    <3>2. \A u \in Threads : u # t /\ me[u].pc = "trunc_zero" => me[u].inum # i
      BY <1>0, <2>2 DEF BlocksFit, UsesFit, TruncatesAlone
    <3> QED  BY <1>3, <1>5, <1>6, <3>1, <3>2, NobodyWrites
  <2> QED  BY <1>1, <2>1, <2>2
<1>8. ~(inode'[i].i_size > 0)  BY <1>4
<1>9. WritersIn(i)' /\ TruncatesAlone(i)' /\ ~Owner(i)'
  BY <1>7, <1>8 DEF WritersIn, TruncatesAlone, Owner, Writer
<1>10. ASSUME NEW j \in INums, j # i
       PROVE  /\ Owner(j)' => Owner(j) /\ inode'[j].i_data_block = inode[j].i_data_block
              /\ WritersIn(j)' /\ TruncatesAlone(j)'
  BY <1>1, <1>3, <1>4, <1>6, <1>10, OthersSame
<1>11. UsesFit'  BY <1>9, <1>10 DEF UsesFit
<1>12. \A u \in Threads : me'[u].pc = "block_set" => me'[u] = me[u]
  BY <1>3, <1>5
<1> QED  BY <1>1, <1>9, <1>10, <1>11, <1>12, BlocksKept

\* tfs_write ends with the file's size.
LEMMA SetSizeBlocks ==
    ASSUME IInv, IInv', BlocksFit, NEW t \in Threads, SetSize(t)
    PROVE  BlocksFit'
<1>0. PICK i \in INums : i = me[t].inum  BY MeTyped DEF Locals
<1>1. /\ me \in [Threads -> Locals] /\ inode \in [INums -> Inodes]
      /\ me[t].pc = "set_size" /\ Op(t) \in {"write", "copy"}
      /\ UNCHANGED <<freeinode_ts, free_blocks>>
  BY OpAt DEF IInv, TypeOK, SetSize, At, Inodes, OpsAt, Writes
<1>2. Fills(me[t]) /\ Writer(me[t]) /\ ~SetsUp(me[t])
  BY <1>1 DEF Fills, Writer, SetsUp, Blockless, Op
<1>3. Owner(i)
  BY <1>0, <1>2 DEF Owner, BlocksFit, UsesFit, WritersIn
<1>4. PICK l \in Locals : l = me'[t]  BY DEF IInv, TypeOK
<1>5. /\ me' = [me EXCEPT ![t] = l] /\ l.pc \in {"idle", "copy_next"}
      /\ ~SetsUp(l) /\ ~Writer(l)
  <2>1. WriteReturns(t, me[t].amount)  BY DEF SetSize
  <2>2. /\ me' = [me EXCEPT ![t] = l] /\ l.pc \in {"idle", "copy_next"}
    BY <1>4, <2>1, MovesTo DEF Moves
  <2> QED  BY <2>2 DEF SetsUp, Writer, Fills, Blockless
<1>6. /\ me'[t] = l /\ \A u \in Threads : u # t => me'[u] = me[u]
  BY <1>1, <1>5
<1>7. About(l, i) /\ About(me[t], i)  BY <1>0, <1>5 DEF About
<1>8. /\ inode'[i].i_data_block = inode[i].i_data_block
      /\ \A j \in INums : j # i => inode'[j] = inode[j]
  BY <1>0, <1>1 DEF SetSize, Inodes
<1>9. SettingUp(i)' => SettingUp(i)
  <2>1. SettingUp(i) <=> \E u \in Threads : me[u].inum = i /\ SetsUp(me[u])
    BY DEF SettingUp, SetsUp, Blockless, Op
  <2>2. SettingUp(i)' <=> \E u \in Threads : me'[u].inum = i /\ SetsUp(me'[u])
    BY DEF SettingUp, SetsUp, Blockless, Op
  <2> QED  BY <1>5, <1>6, <2>1, <2>2
<1>10. InUse(i) /\ InUse(i)'
  BY <1>1, <1>3, <1>5, <1>6, <1>9 DEF Owner, InUse, Truncating
<1>11. WritersIn(i)' /\ TruncatesAlone(i)'
  <2>1. \A u \in Threads : me'[u].pc = "trunc_zero" => me'[u].inum # i
    BY <1>10 DEF InUse, Truncating
  <2> QED  BY <1>10, <2>1 DEF WritersIn, TruncatesAlone
<1>12. ASSUME NEW j \in INums, j # i
       PROVE  /\ Owner(j)' => Owner(j) /\ inode'[j].i_data_block = inode[j].i_data_block
              /\ WritersIn(j)' /\ TruncatesAlone(j)'
  BY <1>1, <1>5, <1>7, <1>8, <1>12, OthersSame
<1>13. UsesFit'  BY <1>11, <1>12 DEF UsesFit
<1>14. \A u \in Threads : me'[u].pc = "block_set" => me'[u] = me[u]
  BY <1>5, <1>6
<1> QED  BY <1>1, <1>3, <1>8, <1>12, <1>13, <1>14, BlocksKept

\* data_block_alloc takes a block that is free, so nobody else's.
LEMMA TakeBlockBlocks ==
    ASSUME IInv, IInv', BlocksFit, NEW t \in Threads, Calm(t), TakeBlock(t)
    PROVE  BlocksFit'
<1>1. /\ me \in [Threads -> Locals] /\ me[t].pc = "block_take"
      /\ free_blocks \in [BlockNumbers -> {"FREE", "TAKEN"}]
      /\ UNCHANGED <<inode, freeinode_ts>>
  BY DEF IInv, TypeOK, TakeBlock, At
<1>2. PICK b \in BlockNumbers : b = me[t].pos  BY <1>1 DEF IInv, LocalFits
<1>3. PICK l \in Locals : l = me'[t]  BY DEF IInv, TypeOK
<1>4. /\ me' = [me EXCEPT ![t] = l] /\ l.pc = "block_set" /\ l.inum = me[t].inum
      /\ l.call = me[t].call /\ l.pos = b
      /\ free_blocks' = [free_blocks EXCEPT ![b] = "TAKEN"]
  BY <1>1, <1>2, <1>3 DEF TakeBlock, Goto, Locals
<1>5. /\ me'[t] = l /\ \A u \in Threads : u # t => me'[u] = me[u]
  BY <1>1, <1>4
<1>6. free_blocks[b] = "FREE"  BY <1>1, <1>2 DEF Calm, TakenTwice
<1>7. UsesFit' /\ \A i \in INums : InUse(i)' <=> InUse(i)
  <2>1. (SetsUp(l) <=> SetsUp(me[t])) /\ (Writer(l) => Writer(me[t]))
    BY <1>1, <1>4 DEF SetsUp, Writer, Fills, Blockless
  <2> QED  BY <1>1, <1>4, <2>1, UsesSame
<1>8. \A i \in INums : Owner(i)' => Owner(i)
  <2>1. ~Fills(l)  BY <1>4 DEF Fills
  <2> QED  BY <1>1, <1>5, <1>7, <2>1 DEF Owner
<1>9. \A i \in INums : Owner(i) => inode[i].i_data_block # b
  BY <1>6 DEF BlocksFit, OwnersTaken
<1>10. OwnersTaken' /\ OwnersApart'
  BY <1>1, <1>4, <1>8 DEF BlocksFit, OwnersTaken, OwnersApart
<1>11. SettersApart'
  <2>1. ASSUME NEW u \in Threads, u # t, me[u].pc = "block_set"
        PROVE  me[u].pos # b /\ free_blocks'[me[u].pos] = "TAKEN"
    <3>1. free_blocks[me[u].pos] = "TAKEN" /\ me[u].pos \in BlockNumbers
      BY <2>1 DEF BlocksFit, SettersApart, IInv, LocalFits
    <3> QED  BY <1>1, <1>4, <1>6, <3>1
  <2>2. free_blocks'[b] = "TAKEN"  BY <1>1, <1>4
  <2> SUFFICES ASSUME NEW r \in Threads, me'[r].pc = "block_set"
               PROVE  /\ free_blocks'[me'[r].pos] = "TAKEN"
                      /\ \A u \in Threads : u # r /\ me'[u].pc = "block_set" =>
                             me'[u].pos # me'[r].pos
                      /\ \A i \in INums : Owner(i)' =>
                             inode'[i].i_data_block # me'[r].pos
    BY DEF SettersApart
  <2>3. CASE r = t
    BY <1>1, <1>4, <1>5, <1>8, <1>9, <2>1, <2>2, <2>3
  <2>4. CASE r # t
    <3>1. me'[r] = me[r] /\ me[r].pc = "block_set"  BY <1>5, <2>4
    <3>2. \A u \in Threads : u # r /\ me'[u].pc = "block_set" =>
              me'[u].pos # me'[r].pos
      BY <1>4, <1>5, <2>1, <2>4, <3>1 DEF BlocksFit, SettersApart
    <3>3. \A i \in INums : Owner(i)' => inode'[i].i_data_block # me'[r].pos
      BY <1>1, <1>8, <3>1 DEF BlocksFit, SettersApart
    <3> QED  BY <2>1, <2>4, <3>1, <3>2, <3>3
  <2> QED  BY <2>3, <2>4
<1> QED  BY <1>7, <1>10, <1>11 DEF BlocksFit

\* The block is the inode's own, in tfs_write and for a symbolic link.
LEMMA SetBlockBlocks ==
    ASSUME IInv, IInv', BlocksFit, NEW t \in Threads, Calm(t), SetBlock(t)
    PROVE  BlocksFit'
<1>0. PICK i \in INums : i = me[t].inum  BY MeTyped DEF Locals
<1>1. /\ me \in [Threads -> Locals] /\ inode \in [INums -> Inodes]
      /\ me[t].pc = "block_set" /\ UNCHANGED <<freeinode_ts, free_blocks>>
  BY DEF IInv, TypeOK, SetBlock, At, Inodes
<1>2. PICK b \in BlockNumbers : b = me[t].pos  BY <1>1 DEF IInv, LocalFits
<1>3. PICK l \in Locals : l = me'[t]  BY DEF IInv, TypeOK
<1>4. /\ me' = [me EXCEPT ![t] = l] /\ l.inum = i /\ l.call = me[t].call
      /\ l.pc = IF Op(t) = "symlink" THEN "node" ELSE "bytes"
  BY <1>0, <1>1, <1>3 DEF SetBlock, Goto, Locals
<1>5. /\ me'[t] = l /\ \A u \in Threads : u # t => me'[u] = me[u]
  BY <1>1, <1>4
<1>6. /\ inode'[i].i_data_block = b
      /\ \A j \in INums : j # i => inode'[j] = inode[j]
  BY <1>0, <1>1, <1>2 DEF SetBlock, Inodes
<1>7. About(l, i) /\ About(me[t], i)  BY <1>0, <1>4 DEF About
<1>8. ASSUME NEW j \in INums, j # i
      PROVE  /\ Owner(j)' => Owner(j) /\ inode'[j].i_data_block = inode[j].i_data_block
             /\ WritersIn(j)' /\ TruncatesAlone(j)'
  BY <1>1, <1>4, <1>6, <1>7, <1>8, OthersSame
<1>9. WritersIn(i)' /\ TruncatesAlone(i)'
  <2>1. CASE Op(t) = "symlink"
    <3>1. SettingUp(i)  BY <1>0, <1>1, <2>1 DEF SettingUp
    <3>2. ~Writer(l)  BY <1>4, <2>1 DEF Writer, Fills, Op
    <3>3. \A u \in Threads : me'[u].inum = i =>
              ~Writer(me'[u]) /\ me'[u].pc # "trunc_zero"
      BY <1>4, <1>5, <2>1, <3>1, <3>2, NobodyWrites
    <3> QED  BY <3>3 DEF WritersIn, TruncatesAlone
  <2>2. CASE Op(t) # "symlink"
    <3>1. Op(t) # "read"  BY <1>1, OpAt DEF OpsAt, Writes
    <3>2. SetsUp(l) <=> SetsUp(me[t])
      BY <1>1, <1>4, <2>2 DEF SetsUp, Op
    <3>3. Writer(me[t])  BY <1>1, <2>2, <3>1 DEF Writer, Blockless, Op
    <3>4. UsesFit'  BY <1>0, <1>1, <1>4, <2>2, <3>2, <3>3, UsesSame
    <3> QED  BY <3>4 DEF UsesFit
  <2> QED  BY <2>1, <2>2
<1>10. UsesFit'  BY <1>8, <1>9 DEF UsesFit
<1>11. /\ free_blocks[b] = "TAKEN"
       /\ \A u \in Threads : u # t /\ me[u].pc = "block_set" => me[u].pos # b
       /\ \A j \in INums : Owner(j) => inode[j].i_data_block # b
  BY <1>1, <1>2 DEF BlocksFit, SettersApart
<1>12. OwnersTaken'
  <2>1. ASSUME NEW j \in INums, Owner(j)'
        PROVE  /\ inode'[j].i_data_block \in BlockNumbers
               /\ free_blocks'[inode'[j].i_data_block] = "TAKEN"
    <3>1. CASE j = i  BY <1>1, <1>6, <1>11, <3>1
    <3>2. CASE j # i  BY <1>1, <1>8, <2>1, <3>2 DEF BlocksFit, OwnersTaken
    <3> QED  BY <3>1, <3>2
  <2> QED  BY <2>1 DEF OwnersTaken
<1>13. OwnersApart'
  <2>1. ASSUME NEW j \in INums, NEW k \in INums, Owner(j)', Owner(k)', j # k
        PROVE  inode'[j].i_data_block # inode'[k].i_data_block
    <3>1. CASE j = i  BY <1>6, <1>8, <1>11, <2>1, <3>1
    <3>2. CASE k = i  BY <1>6, <1>8, <1>11, <2>1, <3>2
    <3>3. CASE j # i /\ k # i  BY <1>8, <2>1, <3>3 DEF BlocksFit, OwnersApart
    <3> QED  BY <3>1, <3>2, <3>3
  <2> QED  BY <2>1 DEF OwnersApart
<1>14. SettersApart'
  <2>1. ASSUME NEW r \in Threads, me'[r].pc = "block_set"
        PROVE  r # t /\ me'[r] = me[r]
    BY <1>4, <1>5, <2>1
  <2>2. ASSUME NEW r \in Threads, me'[r].pc = "block_set", NEW j \in INums, Owner(j)'
        PROVE  inode'[j].i_data_block # me'[r].pos
    <3>1. r # t /\ me'[r] = me[r]  BY <2>1, <2>2
    <3>2. CASE j = i  BY <1>6, <1>11, <2>2, <3>1, <3>2
    <3>3. CASE j # i  BY <1>8, <2>2, <3>1, <3>3 DEF BlocksFit, SettersApart
    <3> QED  BY <3>2, <3>3
  <2> QED  BY <1>1, <2>1, <2>2 DEF BlocksFit, SettersApart
<1> QED  BY <1>10, <1>12, <1>13, <1>14 DEF BlocksFit

\* A file in use, with contents, gives up its block.
LEMMA FreesBlock ==
    ASSUME IInv, BlocksFit, UsesFit', NEW i \in INums, Owner(i), ~Owner(i)',
           free_blocks' = [free_blocks EXCEPT ![inode[i].i_data_block] = "FREE"],
           UNCHANGED inode,
           \A j \in INums : j # i /\ Owner(j)' => Owner(j),
           \A u \in Threads : me'[u].pc = "block_set" => me'[u] = me[u]
    PROVE  BlocksFit'
<1>1. PICK b \in BlockNumbers : b = inode[i].i_data_block
  BY DEF BlocksFit, OwnersTaken
<1>2. \A c \in BlockNumbers : c # b => free_blocks'[c] = free_blocks[c]
  BY <1>1 DEF IInv, TypeOK
<1>3. ASSUME NEW j \in INums, Owner(j)'
      PROVE  Owner(j) /\ inode[j].i_data_block # b
  BY <1>1, <1>3 DEF BlocksFit, OwnersApart
<1>4. OwnersTaken' /\ OwnersApart'
  BY <1>2, <1>3 DEF BlocksFit, OwnersTaken, OwnersApart
<1>5. ASSUME NEW u \in Threads, me'[u].pc = "block_set"
      PROVE  free_blocks'[me'[u].pos] = "TAKEN"
  <2>1. me'[u] = me[u] /\ me[u].pc = "block_set"  BY <1>5
  <2>2. me[u].pos \in BlockNumbers  BY <2>1 DEF IInv, LocalFits
  <2>3. me[u].pos # b /\ free_blocks[me[u].pos] = "TAKEN"
    BY <1>1, <2>1 DEF BlocksFit, SettersApart
  <2> QED  BY <1>2, <2>1, <2>2, <2>3
<1>6. SettersApart'
  BY <1>3, <1>5 DEF BlocksFit, SettersApart
<1> QED  BY <1>4, <1>6 DEF BlocksFit

\* tfs_open frees the block of a file it truncates; the size says otherwise until
\* it is reset.
LEMMA TruncateBlocks ==
    ASSUME IInv, IInv', BlocksFit, NEW t \in Threads, Calm(t), Truncate(t)
    PROVE  BlocksFit'
<1>0. PICK i \in INums : i = me[t].inum  BY MeTyped DEF Locals
<1>1. /\ me \in [Threads -> Locals] /\ inode \in [INums -> Inodes]
      /\ me[t].pc = "trunc" /\ ~SetsUp(me[t])
  BY DEF IInv, TypeOK, Truncate, At, Inodes, SetsUp, Blockless
<1>2. CASE Panic  BY <1>2, StillBlocks DEF Panic, tables
<1>3. CASE inode[i].i_size = 0
  <2>1. AfterTrunc(t) \in Away /\ AfterTrunc(t) \in Labels
    BY DEF AfterTrunc, Away, Labels, Blockless
  <2>2. BlockTables /\ Goto(t, AfterTrunc(t))
    BY <1>0, <1>3 DEF Truncate, tables, BlockTables
  <2>3. Moves(t, {AfterTrunc(t)})  BY <2>1, <2>2, MovesTo
  <2> QED  BY <1>1, <2>1, <2>2, <2>3, AwayInv DEF Moves
<1>4. CASE ~Panic /\ inode[i].i_size # 0
  <2>1. /\ free_blocks' = [free_blocks EXCEPT ![inode[i].i_data_block] = "FREE"]
        /\ Goto(t, "trunc_zero") /\ UNCHANGED <<inode, freeinode_ts>>
    BY <1>0, <1>4 DEF Truncate
  <2>2. PICK l \in Locals : l = me'[t]  BY DEF IInv, TypeOK
  <2>3. /\ me' = [me EXCEPT ![t] = l] /\ l.pc = "trunc_zero" /\ l.inum = i
    BY <1>0, <1>1, <2>1, <2>2 DEF Goto, Locals
  <2>4. /\ me'[t] = l /\ \A u \in Threads : u # t => me'[u] = me[u]
    BY <1>1, <2>3
  <2>5. /\ freeinode_ts[i] = "TAKEN" /\ ~SettingUp(i)
    BY <1>0, <1>1 DEF Calm, UsedDeleted, IInv, TypeOK
  <2>6. \A u \in Threads : u # t /\ me[u].inum = i =>
            ~Writer(me[u]) /\ me[u].pc # "trunc_zero"
    BY <1>0, <1>1
    DEF Calm, FreedInUse, Writing, Writer, Fills, Blockless, Op
  <2>7. ~SetsUp(l) /\ ~Writer(l) /\ About(l, i) /\ About(me[t], i)
    BY <1>0, <2>3 DEF SetsUp, Writer, Fills, Blockless, About
  <2>8. Owner(i)
    <3>1. ~Truncating(i)  BY <1>1, <2>6 DEF Truncating
    <3>2. inode[i].i_size > 0
      BY <1>1, <1>4, LimitsAssumption DEF Inodes
    <3> QED  BY <2>5, <3>1, <3>2 DEF Owner, InUse
  <2>9. ~Owner(i)'
    BY <2>3, <2>4 DEF Owner, InUse, Truncating
  <2>10. ~SettingUp(i)'
    <3>1. SettingUp(i) <=> \E u \in Threads : me[u].inum = i /\ SetsUp(me[u])
      BY DEF SettingUp, SetsUp, Blockless, Op
    <3>2. SettingUp(i)' <=> \E u \in Threads : me'[u].inum = i /\ SetsUp(me'[u])
      BY DEF SettingUp, SetsUp, Blockless, Op
    <3> QED  BY <2>4, <2>5, <2>7, <3>1, <3>2
  <2>11. WritersIn(i)' /\ TruncatesAlone(i)'
    BY <2>1, <2>4, <2>5, <2>6, <2>7, <2>10 DEF WritersIn, TruncatesAlone
  <2>12. ASSUME NEW j \in INums, j # i
         PROVE  (Owner(j)' => Owner(j)) /\ WritersIn(j)' /\ TruncatesAlone(j)'
    BY <2>1, <2>3, <2>7, <2>12, OthersSame
  <2>13. UsesFit'  BY <2>11, <2>12 DEF UsesFit
  <2>14. \A u \in Threads : me'[u].pc = "block_set" => me'[u] = me[u]
    BY <2>3, <2>4
  <2> QED  BY <2>1, <2>8, <2>9, <2>12, <2>13, <2>14, FreesBlock
<1> QED  BY <1>2, <1>3, <1>4

\* inode_delete: of a file in use, or of a new one that got no name.
LEMMA DeleteInodeBlocks ==
    ASSUME IInv, IInv', LinksFit, BlocksFit, NEW t \in Threads, Calm(t),
           DeleteInode(t)
    PROVE  BlocksFit'
<1>0. PICK i \in INums : i = me[t].inum  BY MeTyped DEF Locals
<1>1. /\ me \in [Threads -> Locals] /\ inode \in [INums -> Inodes]
      /\ freeinode_ts \in [INums -> {"FREE", "TAKEN"}]
      /\ me[t].pc = "delete" /\ TableFree /\ UNCHANGED inode
  BY DEF IInv, TypeOK, DeleteInode, At, Inodes, Panic, tables
<1>2. CASE Panic  BY <1>2, StillBlocks DEF Panic, tables
<1>3. CASE ~Panic
  <2>1. /\ freeinode_ts' = [freeinode_ts EXCEPT ![i] = "FREE"]
        /\ freeinode_ts[i] = "TAKEN"
        /\ Op(t) = "unlink" => Goto(t, "clear")
        /\ Op(t) # "unlink" => Return(t, -1)
        /\ free_blocks' = IF inode[i].i_size = 0 THEN free_blocks
                          ELSE [free_blocks EXCEPT ![inode[i].i_data_block] = "FREE"]
    BY <1>0, <1>1, <1>3 DEF DeleteInode
  <2>2. PICK l \in Locals : l = me'[t]  BY DEF IInv, TypeOK
  <2>3. me' = [me EXCEPT ![t] = l] /\ l.pc \in {"clear", "idle"}
    <3>1. CASE Op(t) = "unlink"
      BY <1>1, <2>1, <2>2, <3>1 DEF Goto, Locals
    <3>2. CASE Op(t) # "unlink"
      <4>1. PICK val : Return(t, val)  BY <2>1, <3>2
      <4>2. me' = [me EXCEPT ![t] = l] /\ l.pc = "idle"
        BY <1>1, <2>2, <4>1 DEF Return, Idle, Locals
      <4> QED  BY <4>2
    <3> QED  BY <3>1, <3>2
  <2>4. /\ me'[t] = l /\ \A u \in Threads : u # t => me'[u] = me[u]
    BY <1>1, <2>3
  <2>5. ~SetsUp(me[t])
    <3>1. inode_table_lock # t  BY <1>1, NamesAssumption DEF TableFree
    <3> QED  BY <1>1, <3>1 DEF IInv, LockDiscipline, SetsUp, Op
  <2>6. \A u \in Threads : me[u].inum = i => ~SetsUp(me[u])
    <3> SUFFICES ASSUME NEW u \in Threads, me[u].inum = i, SetsUp(me[u]) PROVE FALSE
      OBVIOUS
    <3>1. Creates(me[u]) /\ u # t
      BY <2>5 DEF SetsUp, Creates, Blockless
    <3>2. CreatorAlone(i)  BY DEF LinksFit, CountsFit
    <3>3. CASE Op(t) = "unlink"
      <4>1. Renames(me[t]) /\ ~First(me[t])
        BY <1>1, <3>3 DEF Renames, First, Op
      <4>2. Named(i) # {}  BY <1>0, <1>1, <4>1, LiveName
      <4> QED  BY <3>1, <3>2, <4>2 DEF CreatorAlone
    <3>4. CASE Op(t) # "unlink"
      <4>1. Creates(me[t])  BY <1>1, <3>4 DEF Creates, Op
      <4> QED  BY <1>0, <3>1, <3>2, <4>1 DEF CreatorAlone
    <3> QED  BY <3>3, <3>4
  <2>7. \A u \in Threads : u # t /\ me[u].inum = i =>
            ~Writer(me[u]) /\ me[u].pc # "trunc_zero"
    BY <1>0, <1>1
    DEF Calm, FreedInUse, Writing, Writer, Fills, Blockless, Op
  <2>8. ~SetsUp(l) /\ ~Writer(l) /\ About(l, i) /\ About(me[t], i)
    BY <1>0, <2>3 DEF SetsUp, Writer, Fills, Blockless, About
  <2>9. ~Owner(i)'
    BY <1>1, <2>1 DEF Owner, InUse
  <2>10. WritersIn(i)' /\ TruncatesAlone(i)'
    BY <2>3, <2>4, <2>7, <2>8 DEF WritersIn, TruncatesAlone
  <2>11. ASSUME NEW j \in INums, j # i
         PROVE  /\ Owner(j)' => Owner(j) /\ inode'[j].i_data_block = inode[j].i_data_block
                /\ WritersIn(j)' /\ TruncatesAlone(j)'
    <3>1. freeinode_ts'[j] = freeinode_ts[j] /\ inode'[j] = inode[j]
      BY <1>1, <2>1, <2>11
    <3> QED  BY <2>3, <2>8, <2>11, <3>1, OthersSame
  <2>12. UsesFit'  BY <2>10, <2>11 DEF UsesFit
  <2>13. \A u \in Threads : me'[u].pc = "block_set" => me'[u] = me[u]
    BY <2>3, <2>4
  <2>14. CASE inode[i].i_size = 0
    <3>1. UNCHANGED free_blocks  BY <2>1, <2>14
    <3> QED  BY <2>9, <2>11, <2>12, <2>13, <3>1, BlocksKept
  <2>15. CASE inode[i].i_size # 0
    <3>1. inode[i].i_size > 0
      BY <1>1, <2>15, LimitsAssumption DEF Inodes
    <3>2. ~SettingUp(i)
      BY <2>6 DEF SettingUp, SetsUp, Blockless, Op
    <3>3. ~Truncating(i)  BY <1>1, <2>7 DEF Truncating
    <3>4. Owner(i)  BY <2>1, <3>1, <3>2, <3>3 DEF Owner, InUse
    <3> QED  BY <1>1, <2>1, <2>9, <2>11, <2>12, <2>13, <2>15, <3>4, FreesBlock
  <2> QED  BY <2>14, <2>15
<1> QED  BY <1>2, <1>3

-----------------------------------------------------------------------------
(* Files have their own blocks until the first race *)

BlocksInv == races = {} => BlocksFit

LEMMA BlocksInit == ASSUME Init PROVE BlocksFit
<1>1. \A t \in Threads : me[t].pc = "idle" /\ me[t].call.op = "close"
  BY DEF Init, FileCall
<1>2. \A t \in Threads : ~Writer(me[t]) /\ ~Fills(me[t])
  BY <1>1 DEF Writer, Fills, Blockless
<1>3. ASSUME NEW i \in INums, Owner(i)
      PROVE  i <= Len(Present) /\ inode[i].i_data_block = i
  <2>1. i <= Len(Present)  BY <1>3 DEF Init, Owner, InUse
  <2>2. i \in Int  BY DEF INums
  <2> QED  BY <2>1, <2>2 DEF Init, NewInode
<1>4. OwnersTaken
  <2>1. Len(Present) \in Nat /\ Len(Present) < MaxBlockCount /\ MaxBlockCount \in Nat
    BY ClientAssumption, LimitsAssumption
  <2>2. ASSUME NEW i \in INums, Owner(i) PROVE i \in BlockNumbers
    <3>1. i \in Nat /\ i <= Len(Present)  BY <1>3, <2>2, LimitsAssumption DEF INums
    <3> QED  BY <2>1, <3>1 DEF BlockNumbers
  <2> QED  BY <1>3, <2>2 DEF OwnersTaken, Init
<1>5. OwnersApart  BY <1>3 DEF OwnersApart
<1>6. SettersApart /\ UsesFit
  BY <1>1, <1>2 DEF SettersApart, UsesFit, WritersIn, TruncatesAlone
<1> QED  BY <1>4, <1>5, <1>6 DEF BlocksFit

LEMMA StepBlocks ==
    ASSUME IInv, IInv', LinksFit, BlocksFit, NEW t \in Threads, Calm(t), Step(t)
    PROVE  BlocksFit'
<1>1. CASE Root(t) \/ Lookup(t) \/ LookupLink(t)  BY <1>1, SearchBlocks
<1>2. CASE Creating(t)
  <2>1. CASE InitInode(t)
    <3>1. Opening(t) \/ Op(t) = "symlink"  BY <2>1 DEF InitInode
    <3> QED  BY <2>1, <3>1, EmptyBlocks, WriteBlocks
  <2>2. CASE ScanInodes(t) \/ AddEntry(t)  BY <2>2, SearchBlocks, NamesBlocks
  <2>3. CASE TakeInode(t) \/ LockTable(t) \/ ScanBlocks(t)
    BY <2>3, TakeInodeBlocks, WriteBlocks
  <2>4. CASE TakeBlock(t) \/ SetBlock(t)  BY <2>4, TakeBlockBlocks, SetBlockBlocks
  <2> QED  BY <1>2, <2>1, <2>2, <2>3, <2>4 DEF Creating
<1>3. CASE Opened(t)
  <2>1. CASE Truncate(t) \/ ResetSize(t)  BY <2>1, TruncateBlocks, EmptyBlocks
  <2> QED  BY <1>3, <2>1, SearchBlocks DEF Opened
<1>4. CASE Transfer(t)
  <2>1. CASE Close(t) \/ CopyNext(t) \/ GetFile(t)  BY <2>1, SearchBlocks
  <2>2. CASE Count(t) \/ MoveBytes(t) \/ Grow(t)  BY <2>2, WriteBlocks
  <2> QED  BY <1>4, <2>1, <2>2, SetSizeBlocks DEF Transfer
<1>5. CASE Linking(t)  BY <1>5, NamesBlocks DEF Linking
<1>6. CASE Unlinking(t)
  BY <1>6, NamesBlocks, DeleteInodeBlocks DEF Unlinking
<1> QED  BY <1>1, <1>2, <1>3, <1>4, <1>5, <1>6 DEF Step

LEMMA NextBlocks ==
    ASSUME IInv, IInv', LinksInv, BlocksInv, [Next]_vars
    PROVE  BlocksInv'
<1> SUFFICES ASSUME races' = {} PROVE BlocksFit'  BY DEF BlocksInv
<1>1. CASE UNCHANGED vars
  BY <1>1, StillBlocks DEF BlocksInv, vars, tables
<1>2. ASSUME NEW t \in Threads, Start(t), UNCHANGED races PROVE BlocksFit'
  BY <1>2, SearchBlocks DEF BlocksInv
<1>3. ASSUME NEW t \in Threads, Step(t) PROVE BlocksFit'
  BY <1>3, CalmStep, StepBlocks DEF LinksInv, BlocksInv
<1> QED  BY <1>1, <1>2, <1>3 DEF Next

LEMMA BlocksInductive == Spec => []BlocksInv
<1>1. Init => BlocksInv  BY BlocksInit DEF BlocksInv
<1>2. IInv /\ IInv' /\ LinksInv /\ BlocksInv /\ [Next]_vars => BlocksInv'
  BY NextBlocks
<1> QED  BY <1>1, <1>2, Inductive, LinksInductive, PTL DEF Spec

\* A file with a name is set up.
LEMMA NamedInUse ==
    ASSUME IInv, LinksFit, NEW i \in INums, Named(i) # {}, ~Truncating(i)
    PROVE  InUse(i)
<1>1. FreeUnnamed(i) /\ CreatorAlone(i)  BY DEF LinksFit, CountsFit
<1>2. freeinode_ts[i] = "TAKEN"  BY <1>1 DEF FreeUnnamed, IInv, TypeOK
<1>3. ~SettingUp(i)
  BY <1>1 DEF CreatorAlone, Creates, Blockless, SettingUp, Op
<1> QED  BY <1>2, <1>3 DEF InUse

\* No two files with a name have the same block, although truncation, deletion
\* and re-creation leave i_data_block behind (tfs_open, inode_delete), unless
\* one of the races of RaceKinds has happened; a file whose truncation has freed
\* the block and not yet reset the size still points to it.
THEOREM BlocksApart == Spec => []SharedBlockHasCause
<1>1. ASSUME IInv, LinksInv, BlocksInv PROVE SharedBlockHasCause
  <2>1. ASSUME races = {}, NEW i \in INums, Named(i) # {}, inode[i].i_size > 0,
               ~Truncating(i)
        PROVE  Owner(i)
    BY <1>1, <2>1, NamedInUse DEF LinksInv, Owner
  <2> QED
    BY <1>1, <2>1 DEF SharedBlockHasCause, BlocksInv, BlocksFit, OwnersApart
<1> QED  BY <1>1, Inductive, LinksInductive, BlocksInductive, PTL

-----------------------------------------------------------------------------
(* Clients that complete no race *)

Files == {Present[k] : k \in 1 .. Len(Present)}
CallsOf(t) == UNION {Menu[t][k] : k \in 1 .. Len(Menu[t])}
OwnNames(t) == {c.path : c \in {d \in CallsOf(t) : d.op \in {"link", "unlink"}}}
Edits(t) == \E c \in CallsOf(t) : c.op \in {"open", "write"}

\* Threads give the files they find names of their own and take them away again;
\* they create nothing; one of them may truncate and write the files.
KeepApart ==
    /\ \A t \in Threads : \A c \in CallsOf(t) :
           \/ c.op = "link" /\ c.target \in Files /\ c.path \notin Files
           \/ c.op = "unlink" /\ c.target = c.path /\ c.path \notin Files
           \/ c.op = "open" /\ "CREAT" \notin c.mode
           \/ c.op \in {"close", "write"}
    /\ \A t, u \in Threads : t # u =>
           /\ OwnNames(t) \cap OwnNames(u) = {}
           /\ ~Edits(t) \/ ~Edits(u)

\* Such a client's calls lead nowhere else.
Kept == {"idle", "root", "lookup", "lookup_link", "node", "deref", "trunc",
         "trunc_zero", "trunc_again", "append", "add", "file", "block_scan",
         "block_take", "block_set", "link_check", "link_entry", "inc",
         "unlink_check", "dec", "gone", "clear", "close", "count", "bytes", "grow",
         "set_size"}
LocalKept(t) == /\ me[t].pc \in Kept
                /\ me[t].pc # "idle" =>
                       /\ me[t].call \in CallsOf(t)
                       /\ Op(t) = "link" => valid_pathname(me[t].call.path)
                /\ freeinode_ts[me[t].inum] = "TAKEN"

\* Every name leads to a file that keeps the name it had at first.
Lasting ==
    \A s \in Slots : dir[s].d_inumber # -1 =>
        /\ freeinode_ts[dir[s].d_inumber] = "TAKEN"
        /\ \E r \in Slots : /\ dir[r].d_inumber = dir[s].d_inumber
                            /\ dir[r].d_name \in Files

\* What a thread has looked up is still so: no entry for a name of its own, a
\* block that only it could take.
LooksKept ==
    \A t \in Threads :
        /\ me[t].pc \in {"link_check", "link_entry"} =>
               \A s \in Slots : dir[s].d_name # me[t].call.path
        /\ me[t].pc = "block_take" => free_blocks[me[t].pos] = "FREE"

FilesKept ==
    /\ freeinode_ts[0] = "TAKEN" /\ \A i \in INums : ~inode[i].is_shortcut
    /\ \A h \in Handles : /\ freeinode_ts[open_file_table[h].of_inumber] = "TAKEN"
                          /\ open_file_table[h].of_offset <= BlockSize

ApartInv == /\ status = "running" /\ races = {}
            /\ \A t \in Threads : LocalKept(t)
            /\ Lasting /\ LooksKept /\ FilesKept

\* What such a thread is calling, with what names.
LEMMA CallKept ==
    ASSUME KeepApart, ApartInv, NEW t \in Threads, me[t].pc # "idle"
    PROVE  /\ Op(t) \in {"link", "unlink", "open", "close", "write"}
           /\ Op(t) = "link" => me[t].call.target \in Files
           /\ Op(t) = "unlink" => me[t].call.target = me[t].call.path
           /\ Op(t) \in {"link", "unlink"} => /\ me[t].call.path \in OwnNames(t)
                                              /\ me[t].call.path \notin Files
           /\ Op(t) = "open" => "CREAT" \notin me[t].call.mode
           /\ Op(t) \in {"open", "write"} => Edits(t)
<1>1. me[t].call \in CallsOf(t)  BY DEF ApartInv, LocalKept
<1> QED  BY <1>1 DEF KeepApart, OwnNames, Edits, Op

\* A file that has a name has its first one, which n_links counts.
LEMMA NeverLast ==
    ASSUME IInv, LinksFit, KeepApart, ApartInv, NEW s \in Slots,
           NEW i \in INums, dir[s].d_inumber = i
    PROVE  ~IsLast(i)
<1>1. i # -1  BY DEF INums
<1>2. PICK r \in Slots : dir[r].d_inumber = i /\ dir[r].d_name \in Files
  BY <1>1 DEF ApartInv, Lasting
<1>3. \A u \in Threads : me[u].pc = "clear" \/ Pends(me[u]) =>
          me[u].call.path \notin Files
  <2> SUFFICES ASSUME NEW u \in Threads, me[u].pc = "clear" \/ Pends(me[u])
               PROVE  me[u].call.path \notin Files
    OBVIOUS
  <2>1. me[u].pc # "idle" /\ Op(u) \in {"link", "unlink"}
    BY OpAt DEF Pends, Unlinks, OpsAt, Op
  <2> QED  BY <2>1, CallKept
<1>4. r \in Named(i)  BY <1>2, <1>3 DEF Named
<1>5. r \in Settled(i)  BY <1>2, <1>3, <1>4 DEF Settled
<1>6. inode[i].n_links = Cardinality(Settled(i))
  BY <1>4 DEF LinksFit, CountsFit, Counted, ApartInv, FilesKept
<1>7. IsFiniteSet(Settled(i))  BY SettledFinite
<1>8. Cardinality(Settled(i)) # 0  BY <1>5, <1>7, FS_EmptySet
<1> QED  BY <1>6, <1>8 DEF IsLast

\* Only one thread works on contents.
LEMMA OneEditor ==
    ASSUME IInv, KeepApart, ApartInv, NEW t \in Threads, NEW u \in Threads, t # u,
           me[t].pc # "idle", Op(t) \in {"open", "write"}
    PROVE  /\ ~Writing(u) /\ me[u].pc \notin {"trunc", "trunc_zero", "count"}
<1> SUFFICES ASSUME Writing(u) \/ me[u].pc \in {"trunc", "trunc_zero", "count"}
             PROVE  FALSE
  OBVIOUS
<1>1. me[u].pc # "idle" /\ Op(u) \in Opens \cup Writes \cup {"symlink", "read"}
  <2>1. Op(u) \in OpsAt(me[u].pc)  BY OpAt
  <2> QED  BY <2>1 DEF OpsAt, Writing
<1>2. Op(u) \in {"open", "write"}  BY <1>1, CallKept DEF Opens, Writes
<1>3. Edits(t) /\ Edits(u)  BY <1>1, <1>2, CallKept
<1> QED  BY <1>3 DEF KeepApart

LEMMA ApartCalm ==
    ASSUME IInv, LinksFit, KeepApart, ApartInv, NEW t \in Threads
    PROVE  Calm(t)
<1>1. me[t].pc \in Kept /\ \A u \in Threads : me[u].pc \in Kept
  BY DEF ApartInv, LocalKept
<1>2. ~TakenTwice(t)  BY <1>1 DEF TakenTwice, Kept, ApartInv, LooksKept
<1>3. ~NamedTwice(t)
  BY <1>1, FoundMeans DEF NamedTwice, Kept, ApartInv, LooksKept
<1>4. ~NameLost(t)
  <2> SUFFICES ASSUME NEW u \in Threads \ {t}, Renaming(t), Renaming(u),
                      "unlink" \in {Op(t), Op(u)}
               PROVE  Names(t) \cap Names(u) = {}
    BY DEF NameLost
  <2>1. me[t].pc # "idle" /\ me[u].pc # "idle" /\ u # t  BY DEF Renaming
  <2>2. Op(t) \in {"link", "unlink"} /\ Op(u) \in {"link", "unlink"}
    BY DEF Renaming
  <2>3. OwnNames(t) \cap OwnNames(u) = {}  BY <2>1 DEF KeepApart
  <2>4. me[t].call.path # me[u].call.path
    BY <2>1, <2>2, <2>3, CallKept
  <2>5. CASE Op(t) = "unlink" /\ Op(u) = "unlink"
    BY <2>1, <2>4, <2>5, CallKept DEF Names
  <2>6. CASE Op(t) = "unlink" /\ Op(u) = "link"
    <3>1. me[t].call.target = me[t].call.path /\ me[t].call.path \notin Files
      BY <2>1, <2>6, CallKept
    <3>2. me[u].call.target \in Files  BY <2>1, <2>6, CallKept
    <3> QED  BY <2>4, <3>1, <3>2 DEF Names
  <2>7. CASE Op(t) = "link" /\ Op(u) = "unlink"
    <3>1. me[u].call.target = me[u].call.path /\ me[u].call.path \notin Files
      BY <2>1, <2>7, CallKept
    <3>2. me[t].call.target \in Files  BY <2>1, <2>7, CallKept
    <3> QED  BY <2>4, <3>1, <3>2 DEF Names
  <2> QED  BY <2>2, <2>5, <2>6, <2>7
<1>5. ~DeletedTwice(t)
  <2> SUFFICES ASSUME me[t].pc = "gone" PROVE ~IsLast(me[t].inum)
    BY DEF DeletedTwice
  <2>1. Renames(me[t])  BY OpAt DEF OpsAt, Renames, Op
  <2>2. \E s \in Slots : dir[s].d_inumber = me[t].inum
    BY <2>1 DEF LinksFit, NamesFit, NamesFound
  <2>3. PICK i \in INums : i = me[t].inum  BY MeTyped DEF Locals
  <2> QED  BY <2>2, <2>3, NeverLast
<1>6. ~FreedInUse(t)
  <2>1. me[t].pc # "delete"  BY <1>1 DEF Kept
  <2>2. me[t].pc \in {"trunc", "count"} =>
            me[t].pc # "idle" /\ Op(t) \in {"open", "write"}
    BY OpAt, CallKept DEF OpsAt, Opens, Writes
  <2> QED  BY <2>1, <2>2, OneEditor DEF FreedInUse, Truncating
<1>7. \A i : ~SettingUp(i)
  <2> SUFFICES ASSUME NEW u \in Threads, me[u].pc \notin {"table_lock", "init"}
               PROVE  ~(Op(u) = "symlink" /\ me[u].pc \in {"block_scan", "block_take",
                                                          "block_set", "delete"})
    BY <1>1 DEF SettingUp, Kept
  <2> QED  BY CallKept
<1>8. ~UsedDeleted(t)  BY <1>7 DEF UsedDeleted, ApartInv, LocalKept
<1>9. ~NotYetLink(t)  BY <1>1 DEF NotYetLink, Kept
<1> QED  BY <1>2, <1>3, <1>4, <1>5, <1>6, <1>8, <1>9 DEF Calm

\* The actions that are left.
LEMMA KeptSteps ==
    ASSUME ApartInv, NEW t \in Threads, Step(t)
    PROVE  \/ Root(t) \/ Lookup(t) \/ LookupLink(t) \/ GetInode(t) \/ Deref(t)
           \/ Truncate(t) \/ ResetSize(t) \/ Truncated(t) \/ AppendOffset(t)
           \/ AddHandle(t) \/ Close(t) \/ GetFile(t) \/ ScanBlocks(t) \/ TakeBlock(t)
           \/ SetBlock(t) \/ Count(t) \/ MoveBytes(t) \/ Grow(t) \/ SetSize(t)
           \/ LinkCheck(t) \/ LinkEntry(t) \/ Increment(t) \/ UnlinkCheck(t)
           \/ Decrement(t) \/ LastLink(t) \/ ClearEntry(t)
<1>1. me[t].pc \in Kept  BY DEF ApartInv, LocalKept
<1>2. /\ ~ScanInodes(t) /\ ~TakeInode(t) /\ ~LockTable(t) /\ ~InitInode(t)
      /\ ~AddEntry(t) /\ ~Follow(t) /\ ~GetTarget(t) /\ ~CopyNext(t)
      /\ ~MakeShortcut(t) /\ ~FillTarget(t) /\ ~DeleteInode(t)
  BY <1>1 DEF Kept, ScanInodes, TakeInode, LockTable, InitInode, AddEntry, Follow,
              GetTarget, InodeGet, CopyNext, MakeShortcut, FillTarget, DeleteInode, At
<1> QED  BY <1>2 DEF Step, Creating, Opened, Transfer, Linking, Unlinking

\* None of them fails an assertion.
LEMMA ApartRuns ==
    ASSUME IInv, LinksFit, BlocksFit, KeepApart, ApartInv, NEW t \in Threads, Step(t)
    PROVE  status' = "running"
<1>0. PICK i \in INums : i = me[t].inum  BY MeTyped DEF Locals
<1>1. /\ status = "running" /\ inode \in [INums -> Inodes]
      /\ open_file_table \in [Handles -> [of_inumber : INums, of_offset : Nat]]
  BY DEF ApartInv, IInv, TypeOK, Inodes
<1>2. freeinode_ts[i] = "TAKEN"  BY <1>0 DEF ApartInv, LocalKept
<1>3. Calm(t)  BY ApartCalm
<1>4. Owner(i) => inode[i].i_data_block # -1
  BY LimitsAssumption DEF BlocksFit, OwnersTaken, BlockNumbers
<1>5. CASE Truncate(t)
  <2>1. me[t].pc = "trunc"  BY <1>5 DEF Truncate, At
  <2>2. ~SettingUp(i)  BY <1>0, <1>3, <2>1 DEF Calm, UsedDeleted
  <2>3. ~Truncating(i)
    <3>1. \A u \in Threads : me[u].pc = "trunc_zero" => u # t  BY <2>1
    <3> QED  BY <1>0, <1>3, <2>1, <3>1 DEF Calm, FreedInUse, Truncating
  <2>4. inode[i].i_size # 0 => Owner(i)
    BY <1>1, <1>2, <2>2, <2>3, LimitsAssumption DEF Owner, InUse, Inodes
  <2> QED  BY <1>0, <1>1, <1>4, <1>5, <2>4 DEF Truncate
<1>6. CASE Count(t)
  <2>1. me[t].fh \in Handles
    <3>1. me[t].pc = "count"  BY <1>6 DEF Count, At
    <3>2. me[t].fh # NoHandle  BY <3>1 DEF IInv, LocalFits, WithHandle
    <3> QED  BY <3>2, MeTyped DEF Locals
  <2>2. offset(t) \in Nat /\ offset(t) <= BlockSize /\ BlockSize \in Nat
    BY <1>1, <2>1, LimitsAssumption DEF offset, ApartInv, FilesKept
  <2>3. ~(BlockSize - offset(t) < 0)  BY <2>2
  <2> QED  BY <1>1, <1>6, <2>3 DEF Count
<1>7. CASE MoveBytes(t)
  <2>1. me[t].pc = "bytes"  BY <1>7 DEF MoveBytes, At
  <2>2. Op(t) = "write"
    <3>1. Op(t) \in Writes \cup {"read"}  BY <2>1, OpAt DEF OpsAt
    <3> QED  BY <2>1, <3>1, CallKept DEF Writes
  <2>3. Fills(me[t]) /\ Writer(me[t])  BY <2>1, <2>2 DEF Fills, Writer, Op
  <2>4. Owner(i)
    BY <1>0, <2>3 DEF Owner, BlocksFit, UsesFit, WritersIn
  <2> QED  BY <1>0, <1>1, <1>4, <1>7, <2>4 DEF MoveBytes
<1>8. CASE Root(t) \/ Lookup(t) \/ LookupLink(t) \/ GetInode(t) \/ Deref(t)
           \/ ResetSize(t) \/ Truncated(t) \/ AppendOffset(t) \/ AddHandle(t)
           \/ Close(t) \/ GetFile(t) \/ ScanBlocks(t) \/ TakeBlock(t) \/ SetBlock(t)
  BY <1>1, <1>8
  DEF Root, InodeGet, Lookup, LookupLink, GetInode, Deref, ResetSize, Truncated,
      AppendOffset, AddHandle, Close, CloseHandle, GetFile, ScanBlocks, TakeBlock,
      SetBlock
<1>9. CASE Grow(t) \/ SetSize(t) \/ LinkCheck(t) \/ LinkEntry(t) \/ Increment(t)
           \/ UnlinkCheck(t) \/ Decrement(t) \/ LastLink(t) \/ ClearEntry(t)
  BY <1>1, <1>9
  DEF Grow, SetSize, LinkCheck, LinkEntry, Increment, UnlinkCheck, Decrement, LastLink,
      ClearEntry
<1> QED  BY <1>5, <1>6, <1>7, <1>8, <1>9, KeptSteps

\* Thread t goes on among those actions.
Onward(t) == /\ me' = [me EXCEPT ![t] = me'[t]]
             /\ UNCHANGED freeinode_ts /\ LocalKept(t)'

LEMMA OnwardTo ==
    ASSUME IInv, ApartInv, NEW t \in Threads, me[t].pc # "idle",
           UNCHANGED freeinode_ts
    PROVE  /\ \A label \in Kept : Goto(t, label) => Onward(t)
           /\ \A val : Return(t, val) => Onward(t)
           /\ \A label \in Kept, i \in INums : freeinode_ts[i] = "TAKEN" /\
                  me' = [me EXCEPT ![t].pc = label, ![t].inum = i] => Onward(t)
           /\ \A label \in Kept, n \in Nat :
                  me' = [me EXCEPT ![t].pc = label, ![t].amount = n] => Onward(t)
           /\ \A n \in Nat : me' = [me EXCEPT ![t].pos = n] => Onward(t)
           /\ \A label \in Kept, m, n \in Nat :
                  me' = [me EXCEPT ![t].amount = m, ![t].pos = n, ![t].pc = label]
                      => Onward(t)
<1>1. me \in [Threads -> Locals]  BY DEF IInv, TypeOK
<1>2. LocalKept(t) /\ freeinode_ts[0] = "TAKEN"  BY DEF ApartInv, FilesKept
<1>3. ASSUME NEW label \in Kept, Goto(t, label) PROVE Onward(t)
  BY <1>1, <1>2, <1>3 DEF Goto, Onward, LocalKept, Locals, Op
<1>4. ASSUME NEW val, Return(t, val) PROVE Onward(t)
  BY <1>1, <1>2, <1>4 DEF Return, Idle, Onward, LocalKept, Locals, Op, Kept
<1>5. ASSUME NEW label \in Kept, NEW i \in INums, freeinode_ts[i] = "TAKEN",
             me' = [me EXCEPT ![t].pc = label, ![t].inum = i]
      PROVE  Onward(t)
  BY <1>1, <1>2, <1>5 DEF Onward, LocalKept, Locals, Op
<1>6. ASSUME NEW label \in Kept, NEW n \in Nat,
             me' = [me EXCEPT ![t].pc = label, ![t].amount = n]
      PROVE  Onward(t)
  BY <1>1, <1>2, <1>6 DEF Onward, LocalKept, Locals, Op
<1>7. ASSUME NEW n \in Nat, me' = [me EXCEPT ![t].pos = n]
      PROVE  Onward(t)
  BY <1>1, <1>2, <1>7 DEF Onward, LocalKept, Locals, Op
<1>8. ASSUME NEW label \in Kept, NEW m \in Nat, NEW n \in Nat,
             me' = [me EXCEPT ![t].amount = m, ![t].pos = n, ![t].pc = label]
      PROVE  Onward(t)
  BY <1>1, <1>2, <1>8 DEF Onward, LocalKept, Locals, Op
<1> QED  BY <1>3, <1>4, <1>5, <1>6, <1>7, <1>8

\* What a lookup finds is a file in use.
LEMMA FoundTaken ==
    ASSUME IInv, ApartInv, NEW name, tfs_lookup(name) # -1
    PROVE  tfs_lookup(name) \in INums /\ freeinode_ts[tfs_lookup(name)] = "TAKEN"
<1>1. PICK s \in Slots : dir[s].d_inumber = tfs_lookup(name)  BY FoundMeans
<1>2. dir[s].d_inumber \in INums \cup {-1}  BY DEF IInv, TypeOK
<1> QED  BY <1>1, <1>2 DEF ApartInv, Lasting

LEMMA StartOnward ==
    ASSUME IInv, ApartInv, NEW t \in Threads, Start(t)
    PROVE  Onward(t)
<1>1. me \in [Threads -> Locals]  BY DEF IInv, TypeOK
<1>2. PICK c \in Menu[t][calls[t] + 1] :
          me' = [me EXCEPT ![t] =
                IF Refused(t, c) THEN [Idle(@, -1) EXCEPT !.call = c]
                ELSE [@ EXCEPT !.call = c, !.pc = FirstStep(c), !.left = c.len,
                         !.inum = IF c.op \in {"write", "read"}
                                  THEN open_file_table[me[t].fh].of_inumber
                                  ELSE 0]]
  BY DEF Start
<1>3. c \in CallsOf(t) /\ c \in Call
  <2>1. calls[t] \in Nat /\ calls[t] < Len(Menu[t])
    BY DEF Start, IInv, TypeOK
  <2>2. Menu[t] \in Seq(SUBSET Call)  BY ClientAssumption
  <2>3. calls[t] + 1 \in 1 .. Len(Menu[t])  BY <2>1, <2>2
  <2>4. Menu[t][calls[t] + 1] \in SUBSET Call  BY <2>2, <2>3
  <2> QED  BY <2>3, <2>4 DEF CallsOf
<1>4. UNCHANGED freeinode_ts /\ freeinode_ts[0] = "TAKEN"
  BY DEF Start, tables, ApartInv, FilesKept
<1>5. CASE Refused(t, c)
  BY <1>1, <1>2, <1>4, <1>5 DEF Onward, LocalKept, Idle, Locals, Kept
<1>6. CASE ~Refused(t, c)
  <2>1. PICK first \in {"root", "close", "file"} : first = FirstStep(c)
    BY <1>3 DEF FirstStep, Call
  <2>2. PICK i : i = IF c.op \in {"write", "read"}
                     THEN open_file_table[me[t].fh].of_inumber ELSE 0
    OBVIOUS
  <2>3. freeinode_ts[i] = "TAKEN"
    <3>1. CASE c.op \in {"write", "read"}
      <4>1. me[t].fh # NoHandle  BY <1>6, <3>1 DEF Refused
      <4>2. me[t].fh \in Handles  BY <4>1, MeTyped DEF Locals
      <4> QED  BY <2>2, <3>1, <4>2 DEF ApartInv, FilesKept
    <3> QED  BY <1>4, <2>2, <3>1
  <2>4. c.op = "link" => valid_pathname(c.path)  BY <1>6 DEF Refused
  <2>5. me' = [me EXCEPT ![t] = [@ EXCEPT !.call = c, !.pc = first, !.left = c.len,
                                          !.inum = i]]
    BY <1>2, <1>6, <2>1, <2>2
  <2>6. me'[t].pc = first /\ me'[t].call = c /\ me'[t].inum = i
    BY <1>1, <2>5 DEF Locals
  <2> QED
    BY <1>1, <1>3, <1>4, <2>3, <2>4, <2>5, <2>6
    DEF Onward, LocalKept, Kept, Op, valid_pathname
<1> QED  BY <1>5, <1>6

LEMMA StepOnward ==
    ASSUME IInv, LinksFit, BlocksFit, KeepApart, ApartInv, NEW t \in Threads, Step(t)
    PROVE  Onward(t)
<1>0. PICK i \in INums : i = me[t].inum  BY MeTyped DEF Locals
<1>1. /\ me \in [Threads -> Locals] /\ inode \in [INums -> Inodes]
      /\ me[t].pc \in Kept /\ freeinode_ts[i] = "TAKEN"
  BY <1>0 DEF IInv, TypeOK, Inodes, ApartInv, LocalKept
<1>2. status' = "running"  BY ApartRuns
<1>3. ~Panic  BY <1>2 DEF Panic
<1>4. UNCHANGED freeinode_ts /\ me[t].pc # "idle"
  <2>1. CASE Root(t) \/ Lookup(t) \/ LookupLink(t) \/ GetInode(t) \/ Deref(t)
             \/ ResetSize(t) \/ Truncated(t) \/ AppendOffset(t) \/ AddHandle(t)
             \/ Close(t) \/ GetFile(t) \/ ScanBlocks(t) \/ TakeBlock(t) \/ SetBlock(t)
    BY <2>1
    DEF Root, InodeGet, Lookup, LookupLink, GetInode, Deref, ResetSize, Truncated,
        AppendOffset, AddHandle, Close, CloseHandle, GetFile, ScanBlocks, TakeBlock,
        SetBlock, At, tables
  <2>2. CASE Grow(t) \/ SetSize(t) \/ LinkCheck(t) \/ LinkEntry(t) \/ Increment(t)
             \/ UnlinkCheck(t) \/ Decrement(t) \/ LastLink(t) \/ ClearEntry(t)
    BY <2>2
    DEF Grow, SetSize, LinkCheck, LinkEntry, Increment, UnlinkCheck, Decrement,
        LastLink, ClearEntry, At, tables
  <2>3. CASE Truncate(t) \/ Count(t) \/ MoveBytes(t)
    BY <1>3, <2>3 DEF Truncate, Count, MoveBytes, At, tables
  <2> QED  BY <2>1, <2>2, <2>3, KeptSteps
<1>5. Op(t) \in {"link", "unlink", "open", "close", "write"}  BY <1>4, CallKept
<1>6. AfterTrunc(t) \in Kept /\ AfterResolve(t) \in Kept
  BY DEF Kept, AfterTrunc, AfterResolve
<1>7. ASSUME NEW val, WriteReturns(t, val) PROVE Onward(t)
  BY <1>4, <1>5, <1>7, OnwardTo DEF WriteReturns
<1>8. CASE Root(t)  BY <1>4, <1>8, OnwardTo DEF Root, InodeGet, Kept
<1>9. CASE Lookup(t)
  <2>1. CASE Opening(t)
    <3>1. "CREAT" \notin me[t].call.mode
      BY <1>4, <1>5, <2>1, CallKept DEF Opening
    <3> QED  BY <1>4, <1>5, <1>9, <2>1, <3>1, OnwardTo, FoundTaken DEF Lookup, Kept, Opening
  <2>2. CASE ~Opening(t)
    BY <1>4, <1>9, <2>2, OnwardTo, FoundTaken DEF Lookup, Kept
  <2> QED  BY <2>1, <2>2
<1>10. CASE LookupLink(t)
  <2>1. Op(t) = "link"
    <3>1. me[t].pc = "lookup_link"  BY <1>10 DEF LookupLink, At
    <3>2. Op(t) \in {"link", "symlink"}  BY <3>1, OpAt DEF OpsAt
    <3> QED  BY <1>5, <3>2
  <2> QED  BY <1>4, <1>10, <2>1, OnwardTo DEF LookupLink, Kept
<1>11. CASE GetInode(t)
  <2>1. Op(t) = "open"
    <3>1. me[t].pc = "node"  BY <1>11 DEF GetInode, InodeGet, At
    <3>2. Op(t) \in Opens \cup {"symlink"}  BY <3>1, OpAt DEF OpsAt
    <3> QED  BY <1>5, <3>2 DEF Opens
  <2> QED  BY <1>4, <1>11, <2>1, OnwardTo DEF GetInode, InodeGet, Opening, Kept
<1>12. CASE Deref(t)
  <2>1. ~inode[me[t].inum].is_shortcut  BY <1>0 DEF ApartInv, FilesKept
  <2> QED  BY <1>4, <1>6, <1>12, <2>1, OnwardTo DEF Deref
<1>13. CASE Truncate(t)
  BY <1>3, <1>4, <1>6, <1>13, OnwardTo DEF Truncate, Kept
<1>14. CASE ResetSize(t) \/ Truncated(t)
  BY <1>4, <1>6, <1>14, OnwardTo DEF ResetSize, Truncated, Kept
<1>15. CASE AppendOffset(t)
  <2>1. inode[me[t].inum].i_size \in Nat
    BY <1>0, <1>1, LimitsAssumption DEF Inodes
  <2> QED  BY <1>4, <1>15, <2>1, OnwardTo DEF AppendOffset, Kept
<1>16. CASE AddHandle(t)
  <2>1. CASE FreeHandles = {}  BY <1>4, <1>16, <2>1, OnwardTo DEF AddHandle
  <2>2. CASE FreeHandles # {}
    <3> DEFINE h == Min(FreeHandles)
    <3>1. me' = [me EXCEPT ![t] = [Idle(@, h) EXCEPT !.fh = h]]
      <4>1. Op(t) # "copy"  BY <1>5
      <4> QED  BY <1>16, <2>2, <4>1 DEF AddHandle
    <3> HIDE DEF h
    <3>2. me' = [me EXCEPT ![t] = me'[t]] /\ me'[t].pc = "idle" /\ me'[t].inum = 0
      BY <1>1, <3>1 DEF Idle, Locals
    <3> QED  BY <1>4, <3>2 DEF Onward, LocalKept, ApartInv, FilesKept, Kept
  <2> QED  BY <2>1, <2>2
<1>17. CASE Close(t)
  <2>1. me' = [me EXCEPT ![t] = [Idle(@, 0) EXCEPT !.fh = NoHandle]]
    BY <1>17 DEF Close, CloseHandle
  <2>2. me' = [me EXCEPT ![t] = me'[t]] /\ me'[t].pc = "idle" /\ me'[t].inum = 0
    BY <1>1, <2>1 DEF Idle, Locals
  <2> QED  BY <1>4, <2>2 DEF Onward, LocalKept, ApartInv, FilesKept, Kept
<1>18. CASE GetFile(t)  BY <1>4, <1>18, OnwardTo DEF GetFile, InodeGet, Kept
<1>19. CASE ScanBlocks(t)
  <2>1. me[t].pos + 1 \in Nat  BY <1>1 DEF Locals
  <2> QED  BY <1>4, <1>5, <1>7, <1>19, <2>1, OnwardTo DEF ScanBlocks, Kept
<1>20. CASE TakeBlock(t)  BY <1>4, <1>20, OnwardTo DEF TakeBlock, Kept
<1>21. CASE SetBlock(t)  BY <1>4, <1>5, <1>21, OnwardTo DEF SetBlock, Kept
<1>22. CASE Count(t)
  <2> DEFINE size == inode[me[t].inum].i_size
             room == (IF Op(t) = "read" THEN size ELSE BlockSize) - offset(t)
             n == IF room < 0 THEN Length(t) ELSE Min({room, Length(t)})
  <2>1. CASE n = 0
    BY <1>3, <1>4, <1>7, <1>22, <2>1, OnwardTo DEF Count
  <2>2. CASE n # 0
    <3>1. me' = [me EXCEPT ![t].amount = n, ![t].pos = 1,
                     ![t].pc = IF Op(t) # "read" /\ size = 0
                               THEN "block_scan" ELSE "bytes"]
      BY <1>3, <1>22, <2>2 DEF Count
    <3>2. /\ me' = [me EXCEPT ![t] = me'[t]]
          /\ me'[t].pc \in {"block_scan", "bytes"}
          /\ me'[t].call = me[t].call /\ me'[t].inum = i
      <4> HIDE DEF n, size
      <4> QED  BY <1>0, <1>1, <3>1 DEF Locals
    <3> QED
      BY <1>0, <1>1, <1>4, <3>2 DEF Onward, LocalKept, ApartInv, Op, Kept
  <2> QED  BY <2>1, <2>2
<1>23. CASE MoveBytes(t)
  <2>1. CASE Op(t) = "read"  BY <1>5, <2>1
  <2>2. CASE Op(t) # "read"
    <3>1. Goto(t, "grow")  BY <1>3, <1>23, <2>2 DEF MoveBytes
    <3> QED  BY <1>4, <3>1, OnwardTo DEF Kept
  <2> QED  BY <2>1, <2>2
<1>24. CASE Grow(t) \/ SetSize(t)
  BY <1>4, <1>7, <1>24, OnwardTo DEF Grow, SetSize, Kept
<1>25. CASE LinkCheck(t) \/ LinkEntry(t) \/ Increment(t)
  BY <1>4, <1>25, OnwardTo DEF LinkCheck, LinkEntry, Increment, Kept
<1>26. CASE UnlinkCheck(t)
  <2>1. ~inode[me[t].inum].is_shortcut  BY <1>0 DEF ApartInv, FilesKept
  <2> QED  BY <1>4, <1>26, <2>1, OnwardTo DEF UnlinkCheck, Kept
<1>27. CASE LastLink(t)
  <2>1. ~IsLast(i)
    <3>1. me[t].pc = "gone"  BY <1>27 DEF LastLink, At
    <3>2. Renames(me[t])  BY <3>1, OpAt DEF OpsAt, Renames, Op
    <3>3. \E s \in Slots : dir[s].d_inumber = i
      BY <1>0, <3>2 DEF LinksFit, NamesFit, NamesFound
    <3> QED  BY <3>3, NeverLast
  <2> QED  BY <1>0, <1>4, <1>27, <2>1, OnwardTo DEF LastLink, Kept
<1>28. CASE Decrement(t) \/ ClearEntry(t)
  BY <1>4, <1>28, OnwardTo DEF Decrement, ClearEntry, Kept
<1> QED
  BY <1>8, <1>9, <1>10, <1>11, <1>12, <1>13, <1>14, <1>15, <1>16, <1>17, <1>18, <1>19,
     <1>20, <1>21, <1>22, <1>23, <1>24, <1>25, <1>26, <1>27, <1>28, KeptSteps

\* The directory changes with one entry: a name of t's own is added, to a file
\* that has one, or taken away.
LEMMA StepLasting ==
    ASSUME IInv, IInv', LinksFit, KeepApart, ApartInv, NEW t \in Threads, Onward(t),
           Step(t)
    PROVE  /\ Lasting'
           /\ \A s \in Slots : \/ dir'[s] = dir[s]
                               \/ dir'[s].d_name = NoName
                               \/ /\ dir'[s].d_name = me[t].call.path
                                  /\ me[t].pc = "link_entry"
<1>1. /\ dir \in [Slots -> [d_name : Paths \cup {NoName}, d_inumber : INums \cup {-1}]]
      /\ UNCHANGED freeinode_ts
  BY DEF IInv, TypeOK, Onward
<1>0. PICK i \in INums : i = me[t].inum  BY MeTyped DEF Locals
<1>2. CASE UNCHANGED dir
  BY <1>1, <1>2 DEF ApartInv, Lasting
<1>3. CASE LinkEntry(t) /\ ~UNCHANGED dir
  <2>1. me[t].pc = "link_entry" /\ Op(t) = "link"
    BY <1>3, OpAt DEF LinkEntry, At, OpsAt
  <2>2. PICK e \in EmptySlots : e = Min(EmptySlots)
    <3>1. EmptySlots # {}  BY <1>3 DEF LinkEntry, CanAddEntry
    <3>2. EmptySlots \in SUBSET Nat  BY LimitsAssumption DEF EmptySlots, Slots
    <3> QED  BY <3>1, <3>2, MinIn
  <2>3. dir' = [dir EXCEPT ![e] = [d_name |-> me[t].call.path, d_inumber |-> i]]
    BY <1>0, <1>3, <2>2 DEF LinkEntry, add_dir_entry
  <2>4. e \in Slots /\ dir[e].d_inumber = -1  BY <2>2 DEF EmptySlots
  <2>5. \A s \in Slots : s # e => dir'[s] = dir[s]  BY <1>1, <2>3
  <2>6. dir'[e].d_name = me[t].call.path /\ dir'[e].d_inumber = i
    BY <1>1, <2>3, <2>4
  <2>7. freeinode_ts[i] = "TAKEN"  BY <1>0 DEF ApartInv, LocalKept
  <2>8. PICK r \in Slots : dir[r].d_inumber = i /\ dir[r].d_name \in Files
    <3>1. PICK s \in Slots : /\ dir[s].d_name = me[t].call.target
                             /\ dir[s].d_inumber = i
      BY <1>0, <2>1 DEF LinksFit, NamesFit, NamesFound, Renames, Found, Op
    <3>2. me[t].call.target \in Files  BY <2>1, CallKept
    <3> QED  BY <3>1, <3>2
  <2>9. ASSUME NEW s \in Slots, dir'[s].d_inumber # -1
        PROVE  /\ freeinode_ts[dir'[s].d_inumber] = "TAKEN"
               /\ \E q \in Slots : /\ dir'[q].d_inumber = dir'[s].d_inumber
                                   /\ dir'[q].d_name \in Files
    <3>1. CASE s = e
      <4>1. r # e  BY <2>4, <2>8 DEF INums
      <4> QED  BY <2>5, <2>6, <2>7, <2>8, <3>1, <4>1
    <3>2. CASE s # e
      <4>1. dir'[s] = dir[s]  BY <2>5, <3>2
      <4>2. PICK q \in Slots : /\ dir[q].d_inumber = dir[s].d_inumber
                               /\ dir[q].d_name \in Files
        BY <2>9, <4>1 DEF ApartInv, Lasting
      <4>3. q # e  BY <2>4, <2>9, <4>1, <4>2
      <4> QED  BY <2>5, <2>9, <4>1, <4>2, <4>3 DEF ApartInv, Lasting
    <3> QED  BY <3>1, <3>2
  <2> QED  BY <1>1, <2>1, <2>5, <2>6, <2>9 DEF Lasting
<1>4. CASE ClearEntry(t) /\ ~UNCHANGED dir
  <2> DEFINE hits == {s \in Slots : dir[s].d_name = me[t].call.path}
  <2>1. PICK e \in hits : e = Min(hits)
    <3>1. hits # {}  BY <1>4 DEF ClearEntry
    <3>2. hits \in SUBSET Nat  BY LimitsAssumption DEF Slots
    <3> QED  BY <3>1, <3>2, MinIn
  <2>2. dir' = [dir EXCEPT ![e] = [d_name |-> NoName, d_inumber |-> -1]]
    BY <1>4, <2>1 DEF ClearEntry
  <2>3. dir[e].d_name \notin Files
    <3>1. me[t].pc # "idle" /\ Op(t) = "unlink"
      BY <1>4, OpAt DEF ClearEntry, At, OpsAt
    <3> QED  BY <2>1, <3>1, CallKept
  <2>4. \A s \in Slots : dir'[s] = IF s = e THEN [d_name |-> NoName, d_inumber |-> -1]
                                   ELSE dir[s]
    BY <1>1, <2>2
  <2>5. ASSUME NEW s \in Slots, dir'[s].d_inumber # -1
        PROVE  /\ freeinode_ts[dir'[s].d_inumber] = "TAKEN"
               /\ \E q \in Slots : /\ dir'[q].d_inumber = dir'[s].d_inumber
                                   /\ dir'[q].d_name \in Files
    <3>1. s # e /\ dir'[s] = dir[s]  BY <2>4, <2>5
    <3>2. PICK q \in Slots : /\ dir[q].d_inumber = dir[s].d_inumber
                             /\ dir[q].d_name \in Files
      BY <2>5, <3>1 DEF ApartInv, Lasting
    <3>3. q # e /\ dir'[q] = dir[q]  BY <2>3, <2>4, <3>2
    <3> QED  BY <2>5, <3>1, <3>2, <3>3 DEF ApartInv, Lasting
  <2> QED  BY <1>1, <2>4, <2>5 DEF Lasting
<1>5. UNCHANGED dir \/ LinkEntry(t) \/ ClearEntry(t)
  <2>1. CASE Root(t) \/ Lookup(t) \/ LookupLink(t) \/ GetInode(t) \/ Deref(t)
             \/ ResetSize(t) \/ Truncated(t) \/ AppendOffset(t) \/ AddHandle(t)
             \/ Close(t) \/ GetFile(t) \/ ScanBlocks(t) \/ TakeBlock(t) \/ SetBlock(t)
    BY <2>1
    DEF Root, InodeGet, Lookup, LookupLink, GetInode, Deref, ResetSize, Truncated,
        AppendOffset, AddHandle, Close, CloseHandle, GetFile, ScanBlocks, TakeBlock,
        SetBlock, tables
  <2>2. CASE Grow(t) \/ SetSize(t) \/ LinkCheck(t) \/ Increment(t) \/ UnlinkCheck(t)
             \/ Decrement(t) \/ LastLink(t)
    BY <2>2
    DEF Grow, SetSize, LinkCheck, Increment, UnlinkCheck, Decrement, LastLink, tables
  <2>3. CASE Truncate(t) \/ Count(t) \/ MoveBytes(t)
    BY <2>3 DEF Truncate, Count, MoveBytes, Panic, tables
  <2> QED  BY <2>1, <2>2, <2>3, KeptSteps
<1> QED  BY <1>2, <1>3, <1>4, <1>5

\* The other tables: no block is taken but by TakeBlock, no file becomes a link,
\* handles stay on files and inside the block.
LEMMA StepFiles ==
    ASSUME IInv, IInv', KeepApart, ApartInv, NEW t \in Threads, Onward(t), Step(t)
    PROVE  /\ FilesKept'
           /\ me[t].pc = "block_take" \/ \A b \in BlockNumbers :
                  free_blocks[b] = "FREE" => free_blocks'[b] = "FREE"
<1>0. PICK i \in INums : i = me[t].inum  BY MeTyped DEF Locals
<1>1. /\ inode \in [INums -> Inodes] /\ me[t] \in Locals
      /\ open_file_table \in [Handles -> [of_inumber : INums, of_offset : Nat]]
      /\ free_blocks \in [BlockNumbers -> {"FREE", "TAKEN"}]
      /\ freeinode_ts[i] = "TAKEN" /\ UNCHANGED freeinode_ts
  BY <1>0, MeTyped DEF IInv, TypeOK, Inodes, ApartInv, LocalKept, Onward
<1>2. CASE Root(t) \/ Lookup(t) \/ LookupLink(t) \/ GetInode(t) \/ Deref(t)
           \/ Truncated(t) \/ AppendOffset(t) \/ Close(t) \/ GetFile(t) \/ Count(t)
  <2>1. UNCHANGED <<inode, open_file_table, free_blocks>>
    BY <1>2
    DEF Root, InodeGet, Lookup, LookupLink, GetInode, Deref, Truncated, AppendOffset,
        Close, CloseHandle, GetFile, Count, Panic, tables
  <2> QED  BY <1>1, <2>1 DEF ApartInv, FilesKept
<1>3. CASE Grow(t) \/ LinkCheck(t) \/ LinkEntry(t) \/ UnlinkCheck(t) \/ LastLink(t)
           \/ ClearEntry(t)
  <2>1. UNCHANGED <<inode, open_file_table, free_blocks>>
    BY <1>3
    DEF Grow, LinkCheck, LinkEntry, UnlinkCheck, LastLink, ClearEntry, tables
  <2> QED  BY <1>1, <2>1 DEF ApartInv, FilesKept
<1>4. CASE ResetSize(t) \/ ScanBlocks(t) \/ SetBlock(t) \/ SetSize(t) \/ Increment(t)
           \/ Decrement(t)
  <2>1. UNCHANGED <<open_file_table, free_blocks>>
    BY <1>4 DEF ResetSize, ScanBlocks, SetBlock, SetSize, Increment, Decrement
  <2>2. \A j \in INums : inode'[j].is_shortcut = inode[j].is_shortcut
    <3>1. CASE ResetSize(t)  BY <1>1, <3>1 DEF ResetSize, Inodes
    <3>2. CASE ScanBlocks(t)
      <4>1. me[t].pc # "idle"  BY <3>2 DEF ScanBlocks, At
      <4>2. Op(t) # "symlink"  BY <4>1, CallKept
      <4> QED  BY <3>2, <4>2 DEF ScanBlocks
    <3>3. CASE SetBlock(t)  BY <1>1, <3>3 DEF SetBlock, Inodes
    <3>4. CASE SetSize(t)  BY <1>1, <3>4 DEF SetSize, Inodes
    <3>5. CASE Increment(t)  BY <1>1, <3>5 DEF Increment, Inodes
    <3>6. CASE Decrement(t)  BY <1>1, <3>6 DEF Decrement, Inodes
    <3> QED  BY <1>4, <3>1, <3>2, <3>3, <3>4, <3>5, <3>6
  <2> QED  BY <1>1, <2>1, <2>2 DEF ApartInv, FilesKept
<1>5. CASE Truncate(t)
  <2>1. UNCHANGED <<inode, open_file_table>>
    BY <1>5 DEF Truncate, Panic, tables
  <2>2. \/ UNCHANGED free_blocks
        \/ \E b : free_blocks' = [free_blocks EXCEPT ![b] = "FREE"]
    BY <1>5 DEF Truncate, Panic, tables
  <2> QED  BY <1>1, <2>1, <2>2 DEF ApartInv, FilesKept
<1>6. CASE TakeBlock(t)
  <2>1. UNCHANGED <<inode, open_file_table>> /\ me[t].pc = "block_take"
    BY <1>6 DEF TakeBlock, At
  <2> QED  BY <1>1, <2>1 DEF ApartInv, FilesKept
<1>7. CASE AddHandle(t)
  <2>1. UNCHANGED <<inode, free_blocks>>  BY <1>7 DEF AddHandle
  <2>2. \/ UNCHANGED open_file_table
        \/ \E h : open_file_table' = [open_file_table EXCEPT ![h] =
                      [of_inumber |-> i, of_offset |-> me[t].amount]]
    BY <1>0, <1>7 DEF AddHandle
  <2>3. me[t].amount <= BlockSize
    <3>1. me[t].pc = "add"  BY <1>7 DEF AddHandle, At
    <3>2. Op(t) # "read"  BY <3>1, CallKept
    <3> QED  BY <3>2 DEF IInv, LocalFits, Op
  <2> QED  BY <1>1, <2>1, <2>2, <2>3 DEF ApartInv, FilesKept, Locals
<1>8. CASE MoveBytes(t)
  <2>1. UNCHANGED <<inode, free_blocks>>  BY <1>8 DEF MoveBytes, Panic, tables
  <2>2. \/ UNCHANGED open_file_table
        \/ open_file_table' = [open_file_table EXCEPT
                                   ![me[t].fh].of_offset = @ + me[t].amount]
    BY <1>8 DEF MoveBytes, Panic, tables
  <2>3. me[t].pc = "bytes" /\ Op(t) = "write"
    <3>1. me[t].pc = "bytes"  BY <1>8 DEF MoveBytes, At
    <3>2. Op(t) \in Writes \cup {"read"}  BY <3>1, OpAt DEF OpsAt
    <3> QED  BY <3>1, <3>2, CallKept DEF Writes
  <2>4. open_file_table[me[t].fh].of_offset + me[t].amount <= BlockSize
    BY <2>3 DEF IInv, OffsetFits, Moving, Writes, Op
  <2>5. \A h \in Handles : /\ open_file_table'[h].of_inumber = open_file_table[h].of_inumber
                           /\ open_file_table'[h].of_offset <= BlockSize
    BY <1>1, <2>2, <2>4 DEF ApartInv, FilesKept
  <2> QED  BY <1>1, <2>1, <2>5 DEF ApartInv, FilesKept
<1> QED  BY <1>2, <1>3, <1>4, <1>5, <1>6, <1>7, <1>8, KeptSteps

\* Where the calls that look something up start to rely on it.
LEMMA PcTo ==
    ASSUME IInv, NEW t \in Threads
    PROVE  /\ \A label : Goto(t, label) => me'[t].pc = label
           /\ \A val : Return(t, val) => me'[t].pc = "idle"
           /\ \A label, i : me' = [me EXCEPT ![t].pc = label, ![t].inum = i]
                                => me'[t].pc = label
           /\ \A label, n : me' = [me EXCEPT ![t].pc = label, ![t].amount = n]
                                => me'[t].pc = label
           /\ \A n : me' = [me EXCEPT ![t].pos = n] => me'[t].pc = me[t].pc
<1>1. me \in [Threads -> Locals]  BY DEF IInv, TypeOK
<1> QED  BY <1>1 DEF Goto, Return, Idle, Locals

Relying == {"link_check", "link_entry", "block_take"}

LEMMA StepRelies ==
    ASSUME IInv, KeepApart, ApartInv, NEW t \in Threads, Step(t), status' = "running",
           me'[t].pc \in Relying
    PROVE  \/ LookupLink(t) /\ tfs_lookup(me[t].call.path) = -1 /\ Goto(t, "link_check")
           \/ LinkCheck(t) /\ Goto(t, "link_entry")
           \/ ScanBlocks(t) /\ free_blocks[me[t].pos] = "FREE" /\ Goto(t, "block_take")
<1>0. PICK i \in INums : i = me[t].inum  BY MeTyped DEF Locals
<1>1. me \in [Threads -> Locals] /\ ~Panic  BY DEF IInv, TypeOK, Panic
<1>2. \A val : ~Return(t, val)  BY PcTo DEF Relying
<1>3. ASSUME NEW val PROVE ~WriteReturns(t, val)
  BY <1>2, PcTo DEF WriteReturns, Relying
<1>4. me[t].pc # "idle" => Op(t) \notin {"symlink", "copy", "read"}  BY CallKept
<1>5. CASE Root(t) \/ GetFile(t)  BY <1>2, <1>5, PcTo DEF Root, GetFile, InodeGet, Relying
<1>6. CASE Lookup(t)
  <2>1. CASE Opening(t)
    BY <1>2, <1>6, <2>1, PcTo DEF Lookup, Relying, Opening
  <2>2. CASE ~Opening(t)
    BY <1>2, <1>6, <2>2, PcTo DEF Lookup, Relying
  <2> QED  BY <2>1, <2>2
<1>7. CASE LookupLink(t)
  <2>1. me[t].pc = "lookup_link"  BY <1>7 DEF LookupLink, At
  <2>2. Op(t) = "link"
    <3>1. Op(t) \in {"link", "symlink"}  BY <2>1, OpAt DEF OpsAt
    <3> QED  BY <1>4, <2>1, <3>1
  <2> QED  BY <1>2, <1>7, <2>2 DEF LookupLink
<1>8. CASE GetInode(t)
  BY <1>2, <1>8, PcTo DEF GetInode, InodeGet, Relying
<1>9. CASE Deref(t)
  BY <1>2, <1>9, PcTo DEF Deref, AfterResolve, AfterTrunc, Relying
<1>10. CASE Truncate(t) \/ ResetSize(t) \/ Truncated(t)
  BY <1>1, <1>2, <1>10, PcTo DEF Truncate, ResetSize, Truncated, AfterTrunc, Relying
<1>11. CASE AppendOffset(t)  BY <1>11, PcTo DEF AppendOffset, Relying
<1>12. CASE AddHandle(t)
  <2>1. CASE FreeHandles = {}  BY <1>2, <1>12, <2>1 DEF AddHandle
  <2>2. CASE FreeHandles # {}
    <3> DEFINE h == Min(FreeHandles)
    <3>1. me' = [me EXCEPT ![t] = [Idle(@, h) EXCEPT !.fh = h]]
      <4>1. Op(t) # "copy"  BY <1>4, <1>12 DEF AddHandle, At
      <4> QED  BY <1>12, <2>2, <4>1 DEF AddHandle
    <3> HIDE DEF h
    <3> QED  BY <1>1, <3>1 DEF Idle, Locals, Relying
  <2> QED  BY <2>1, <2>2
<1>13. CASE Close(t)
  <2>1. me' = [me EXCEPT ![t] = [Idle(@, 0) EXCEPT !.fh = NoHandle]]
    BY <1>13 DEF Close, CloseHandle
  <2> QED  BY <1>1, <2>1 DEF Idle, Locals, Relying
<1>14. CASE ScanBlocks(t)
  <2>1. me[t].pc = "block_scan"  BY <1>14 DEF ScanBlocks, At
  <2>2. Op(t) # "symlink"  BY <1>4, <2>1
  <2> QED  BY <1>3, <1>14, <2>1, <2>2, PcTo DEF ScanBlocks, Relying
<1>15. CASE TakeBlock(t) \/ SetBlock(t)
  <2>1. Op(t) # "symlink"  BY <1>4, <1>15 DEF TakeBlock, SetBlock, At
  <2> QED  BY <1>15, <2>1, PcTo DEF TakeBlock, SetBlock, Relying
<1>16. CASE Count(t)
  <2> DEFINE size == inode[me[t].inum].i_size
             room == (IF Op(t) = "read" THEN size ELSE BlockSize) - offset(t)
             n == IF room < 0 THEN Length(t) ELSE Min({room, Length(t)})
  <2>1. CASE n = 0
    BY <1>1, <1>2, <1>3, <1>16, <2>1 DEF Count
  <2>2. CASE n # 0
    <3>1. me' = [me EXCEPT ![t].amount = n, ![t].pos = 1,
                     ![t].pc = IF Op(t) # "read" /\ size = 0
                               THEN "block_scan" ELSE "bytes"]
      BY <1>1, <1>16, <2>2 DEF Count
    <3> HIDE DEF n, size
    <3> QED  BY <1>1, <3>1 DEF Locals, Relying
  <2> QED  BY <2>1, <2>2
<1>17. CASE MoveBytes(t)
  BY <1>1, <1>2, <1>17, PcTo DEF MoveBytes, Relying
<1>18. CASE Grow(t) \/ SetSize(t)
  BY <1>3, <1>18, PcTo DEF Grow, SetSize, Relying
<1>19. CASE LinkCheck(t)  BY <1>2, <1>19 DEF LinkCheck
<1>20. CASE LinkEntry(t) \/ Increment(t) \/ UnlinkCheck(t) \/ Decrement(t)
            \/ LastLink(t) \/ ClearEntry(t)
  BY <1>2, <1>20, PcTo
  DEF LinkEntry, Increment, UnlinkCheck, Decrement, LastLink, ClearEntry, Relying
<1> QED
  BY <1>5, <1>6, <1>7, <1>8, <1>9, <1>10, <1>11, <1>12, <1>13, <1>14, <1>15, <1>16,
     <1>17, <1>18, <1>19, <1>20, KeptSteps

\* A name that a thread has not found does not appear, and a block that it is
\* about to take stays free: both are that thread's alone.
LEMMA StepLooks ==
    ASSUME IInv, IInv', LinksFit, KeepApart, ApartInv, NEW t \in Threads, Onward(t),
           Step(t), status' = "running"
    PROVE  LooksKept'
<1>1. me \in [Threads -> Locals]  BY DEF IInv, TypeOK
<1>2. ASSUME NEW u \in Threads, u # t, me[u].pc \in {"link_check", "link_entry"}
      PROVE  \A s \in Slots : dir'[s].d_name # me[u].call.path
  <2>1. me[u].pc # "idle" /\ Op(u) = "link"
    BY <1>2, OpAt DEF OpsAt
  <2>2. me[u].call.path \in OwnNames(u)  BY <2>1, CallKept
  <2>3. me[u].call.path # NoName
    BY <2>1, NamesAssumption DEF LinksFit, NamesFit, Called, Op
  <2>4. ASSUME me[t].pc = "link_entry" PROVE me[t].call.path # me[u].call.path
    <3>1. me[t].pc # "idle" /\ Op(t) = "link"  BY <2>4, OpAt DEF OpsAt
    <3>2. me[t].call.path \in OwnNames(t)  BY <3>1, CallKept
    <3> QED  BY <1>2, <2>2, <3>2 DEF KeepApart
  <2>5. \A s \in Slots : dir[s].d_name # me[u].call.path
    BY <1>2 DEF ApartInv, LooksKept
  <2> QED  BY <2>3, <2>4, <2>5, StepLasting
<1>3. ASSUME NEW u \in Threads, u # t, me[u].pc = "block_take"
      PROVE  free_blocks'[me[u].pos] = "FREE"
  <2>1. free_blocks[me[u].pos] = "FREE"  BY <1>3 DEF ApartInv, LooksKept
  <2>2. me[u].pos \in BlockNumbers  BY <1>3 DEF IInv, LocalFits
  <2>3. me[t].pc # "block_take"
    <3>1. Op(u) \in OpsAt("block_take")  BY <1>3, OpAt
    <3>2. me[u].pc # "idle" /\ Op(u) \in {"open", "write"}
      BY <1>3, <3>1, CallKept DEF OpsAt, Writes
    <3>3. ~Writing(t)  BY <1>3, <3>2, OneEditor
    <3>4. me[t].pc = "block_take" => Op(t) # "symlink"  BY CallKept
    <3> QED  BY <3>3, <3>4 DEF Writing
  <2> QED  BY <2>1, <2>2, <2>3, StepFiles
<1>4. ASSUME me'[t].pc \in {"link_check", "link_entry"}
      PROVE  \A s \in Slots : dir'[s].d_name # me'[t].call.path
  <2>1. CASE LookupLink(t) /\ tfs_lookup(me[t].call.path) = -1 /\ Goto(t, "link_check")
    <3>1. me'[t].call = me[t].call /\ UNCHANGED dir
      BY <1>1, <2>1 DEF LookupLink, Goto, Locals, tables
    <3>2. me[t].pc # "idle" /\ Op(t) = "link"
      <4>1. me[t].pc = "lookup_link"  BY <2>1 DEF LookupLink, At
      <4>2. Op(t) \in OpsAt("lookup_link")  BY <4>1, OpAt
      <4> QED  BY <4>1, <4>2, CallKept DEF OpsAt
    <3>3. valid_pathname(me[t].call.path) /\ me[t].call.path # NoName
      BY <3>2, NamesAssumption DEF ApartInv, LocalKept, LinksFit, NamesFit, Called, Op
    <3>4. find_in_dir(me[t].call.path) = -1  BY <2>1, <3>3 DEF tfs_lookup
    <3>5. \A s \in Slots : dir[s].d_inumber = -1 \/ dir[s].d_name # me[t].call.path
      BY <3>4, FoundMeans
    <3>6. \A s \in Slots : dir[s].d_inumber = -1 => dir[s].d_name = NoName
      BY DEF LinksFit, NamesFit, NamesUnique
    <3> QED  BY <3>1, <3>3, <3>5, <3>6
  <2>2. CASE LinkCheck(t) /\ Goto(t, "link_entry")
    <3>1. me'[t].call = me[t].call /\ UNCHANGED dir /\ me[t].pc = "link_check"
      BY <1>1, <2>2 DEF LinkCheck, Goto, Locals, tables, At
    <3> QED  BY <3>1 DEF ApartInv, LooksKept
  <2>3. CASE Goto(t, "block_take")  BY <1>4, <2>3, PcTo
  <2> QED  BY <1>4, <2>1, <2>2, <2>3, StepRelies DEF Relying
<1>5. ASSUME me'[t].pc = "block_take"
      PROVE  free_blocks'[me'[t].pos] = "FREE"
  <2>1. ScanBlocks(t) /\ free_blocks[me[t].pos] = "FREE" /\ Goto(t, "block_take")
    BY <1>5, StepRelies, PcTo DEF Relying
  <2>2. UNCHANGED free_blocks /\ me'[t].pos = me[t].pos
    BY <1>1, <2>1 DEF ScanBlocks, Goto, Locals
  <2> QED  BY <2>1, <2>2
<1>6. \A u \in Threads : u # t => me'[u] = me[u]  BY <1>1 DEF Onward
<1> QED  BY <1>2, <1>3, <1>4, <1>5, <1>6 DEF LooksKept

\* The other threads stay where they are.
LEMMA AllKept ==
    ASSUME IInv, ApartInv, NEW t \in Threads, Onward(t)
    PROVE  \A u \in Threads : LocalKept(u)'
<1> SUFFICES ASSUME NEW u \in Threads PROVE LocalKept(u)'  OBVIOUS
<1>1. me \in [Threads -> Locals]  BY DEF IInv, TypeOK
<1>2. CASE u = t  BY <1>2 DEF Onward
<1>3. CASE u # t
  <2>1. me'[u] = me[u] /\ UNCHANGED freeinode_ts  BY <1>1, <1>3 DEF Onward
  <2> QED  BY <2>1 DEF ApartInv, LocalKept, Op
<1> QED  BY <1>2, <1>3

LEMMA StepApart ==
    ASSUME IInv, IInv', LinksFit, BlocksFit, KeepApart, ApartInv, NEW t \in Threads,
           Step(t)
    PROVE  LinksFit' /\ BlocksFit' /\ ApartInv'
<1>1. Calm(t)  BY ApartCalm
<1>2. status' = "running" /\ Onward(t)  BY ApartRuns, StepOnward
<1>3. races' = {}
  <2>1. Races(t) = {}  BY <1>1 DEF Races, RaceKinds, Calm
  <2> QED  BY <2>1 DEF Step, ApartInv
<1>4. \A u \in Threads : LocalKept(u)'  BY <1>2, AllKept
<1>5. Lasting' /\ LooksKept' /\ FilesKept'
  BY <1>2, StepLasting, StepLooks, StepFiles
<1> QED  BY <1>1, <1>2, <1>3, <1>4, <1>5, StepLinks, StepBlocks DEF ApartInv

LEMMA StartApart ==
    ASSUME IInv, IInv', LinksFit, BlocksFit, KeepApart, ApartInv, NEW t \in Threads,
           Start(t), UNCHANGED races
    PROVE  LinksFit' /\ BlocksFit' /\ ApartInv'
<1>1. UNCHANGED <<inode, freeinode_ts, free_blocks, dir, open_file_table, status>>
  BY DEF Start, tables
<1>2. \A u \in Threads : LocalKept(u)'  BY StartOnward, AllKept
<1>3. me' = [me EXCEPT ![t] = me'[t]] /\ me'[t].pc \notin Relying
  <2>1. me \in [Threads -> Locals]  BY DEF IInv, TypeOK
  <2>2. PICK c \in Menu[t][calls[t] + 1] :
            me' = [me EXCEPT ![t] =
                  IF Refused(t, c) THEN [Idle(@, -1) EXCEPT !.call = c]
                  ELSE [@ EXCEPT !.call = c, !.pc = FirstStep(c), !.left = c.len,
                           !.inum = IF c.op \in {"write", "read"}
                                    THEN open_file_table[me[t].fh].of_inumber
                                    ELSE 0]]
    BY DEF Start
  <2>3. c \in Call
    <3>1. calls[t] \in Nat /\ calls[t] < Len(Menu[t])  BY DEF Start, IInv, TypeOK
    <3>2. Menu[t] \in Seq(SUBSET Call)  BY ClientAssumption
    <3>3. calls[t] + 1 \in 1 .. Len(Menu[t])  BY <3>1, <3>2
    <3> QED  BY <3>2, <3>3
  <2>4. PICK first \in {"root", "close", "file"} : first = FirstStep(c)
    BY <2>3 DEF FirstStep, Call
  <2>5. me'[t].pc \in {"idle", first}
    BY <2>1, <2>2, <2>4 DEF Idle, Locals
  <2> QED  BY <2>4, <2>5, StartOnward DEF Onward, Relying
<1>4. Lasting' /\ FilesKept'  BY <1>1 DEF ApartInv, Lasting, FilesKept
<1>5. LooksKept'
  <2>1. me \in [Threads -> Locals]  BY DEF IInv, TypeOK
  <2>2. \A u \in Threads : u # t => me'[u] = me[u]  BY <1>3, <2>1
  <2> QED  BY <1>1, <1>3, <2>2 DEF ApartInv, LooksKept, Relying
<1>6. status' = "running" /\ races' = {}  BY <1>1 DEF ApartInv
<1> QED
  BY <1>2, <1>4, <1>5, <1>6, CalmStart, StartLinks, SearchBlocks DEF ApartInv

LEMMA NextApart ==
    ASSUME IInv, IInv', LinksFit, BlocksFit, KeepApart, ApartInv, [Next]_vars
    PROVE  LinksFit' /\ BlocksFit' /\ ApartInv'
<1>1. CASE UNCHANGED vars
  BY <1>1, StillLinks, StillBlocks
  DEF vars, tables, ApartInv, LocalKept, Lasting, LooksKept, FilesKept, Op
<1>2. CASE Next  BY <1>2, StepApart, StartApart DEF Next
<1> QED  BY <1>1, <1>2

LEMMA InitApart == ASSUME Init PROVE ApartInv
<1>1. \A t \in Threads : me[t].pc = "idle" /\ me[t].inum = 0
  BY DEF Init
<1>2. /\ Len(Present) \in Nat /\ Len(Present) < MaxInodeCount
      /\ MaxInodeCount \in Nat /\ 0 \in INums
  BY ClientAssumption, LimitsAssumption DEF INums
<1>3. freeinode_ts[0] = "TAKEN"
  <2>1. freeinode_ts = [i \in INums |-> IF i <= Len(Present) THEN "TAKEN" ELSE "FREE"]
    BY DEF Init
  <2>2. 0 <= Len(Present)  BY <1>2
  <2> QED  BY <1>2, <2>1, <2>2
<1>4. Lasting
  <2> SUFFICES ASSUME NEW s \in Slots, dir[s].d_inumber # -1
               PROVE  /\ freeinode_ts[dir[s].d_inumber] = "TAKEN"
                      /\ dir[s].d_name \in Files
    BY DEF Lasting
  <2>1. s \in Nat  BY LimitsAssumption DEF Slots
  <2>2. s < Len(Present)  BY DEF Init
  <2>3. dir[s] = [d_name |-> Present[s + 1], d_inumber |-> s + 1]
    BY <2>2 DEF Init
  <2>4. s + 1 \in 1 .. Len(Present)  BY <1>2, <2>1, <2>2
  <2>5. s + 1 \in INums /\ s + 1 <= Len(Present)  BY <1>2, <2>4 DEF INums
  <2>6. freeinode_ts[s + 1] = "TAKEN"  BY <2>5 DEF Init
  <2> QED  BY <2>3, <2>4, <2>6 DEF Files
<1>5. FilesKept
  <2>1. \A i \in INums : ~inode[i].is_shortcut  BY DEF Init, NewInode
  <2>2. \A h \in Handles : open_file_table[h] = [of_inumber |-> 0, of_offset |-> 0]
    BY DEF Init
  <2>3. 0 <= BlockSize  BY LimitsAssumption
  <2> QED  BY <1>3, <2>1, <2>2, <2>3 DEF FilesKept
<1>6. (\A t \in Threads : LocalKept(t)) /\ LooksKept
  BY <1>1, <1>3 DEF LocalKept, LooksKept, Kept
<1> QED  BY <1>4, <1>5, <1>6 DEF ApartInv, Init

LEMMA ApartInductive ==
    ASSUME KeepApart PROVE Spec => [](LinksFit /\ BlocksFit /\ ApartInv)
<1>1. Init => LinksFit /\ BlocksFit /\ ApartInv
  BY LinksInit, BlocksInit, InitApart
<1>2. IInv /\ IInv' /\ (LinksFit /\ BlocksFit /\ ApartInv) /\ [Next]_vars
          => (LinksFit /\ BlocksFit /\ ApartInv)'
  BY NextApart
<1> QED  BY <1>1, <1>2, Inductive, PTL DEF Spec

\* Threads that give files names of their own, and take them away again, lose no
\* name and no count, whoever else truncates and writes the files (tfs_link,
\* tfs_unlink, tfs_open and tfs_write): none of the races of RaceKinds is left.
THEOREM OwnNamesCounted ==
    ASSUME KeepApart PROVE Spec => []LinksCounted
<1>1. IInv /\ LinksFit => LinksCounted  BY CountsHold
<1> QED  BY <1>1, Inductive, ApartInductive, PTL

\* And none of them runs into an assertion of state.c: what they write to and
\* truncate has its block.
THEOREM OwnNamesNeverAbort ==
    ASSUME KeepApart PROVE Spec => []NeverAborts
<1>1. ApartInv => NeverAborts  BY DEF ApartInv, NeverAborts
<1> QED  BY <1>1, ApartInductive, PTL

=============================================================================

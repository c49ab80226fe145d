----------------------- MODULE MultilevelStorageProofs -----------------------
(***************************************************************************)
(* Proofs about MultilevelCkpt: every process is restored from the same    *)
(* checkpoint, whatever fails; and where no failing call can race the one  *)
(* after it, a completed checkpoint stays complete at its level, or a      *)
(* later one does there or above, and keep_last_ckpt leaves it at L4 - for *)
(* every number of nodes, processes and calls, every crash and every loss  *)
(* of nodes.                                                               *)
(***************************************************************************)
EXTENDS MultilevelCkptProofs, FiniteSetTheorems

\* No failed checkpoint is taken for a success, none is cleaned up while the next one
\* is being written, and nothing fails where keep_last_ckpt moves a checkpoint to L4.
NoRace ==
  /\ 0 \notin UninitRes
  /\ Faults \subseteq {"flush"} \/ (K = 1 /\ 4 \notin CallLevels /\ ~KeepLast)
  /\ KeepLast => Faults = {}

(* Names: no directory holds two files of one name.                        *)

NamesOK(S) ==
  /\ \A f \in S : f.call \in 1 .. Len(calls)
  /\ \A f, g \in S : SameName(f, g) => f = g

Names ==
  /\ \A n \in Node : NamesOK(tmp[n])
  /\ \A l \in 1 .. 3, n \in Node : NamesOK(dir[l][n])
  /\ NamesOK(gtmp) /\ NamesOK(gdir)

(* The call a process is in, and what it keeps in memory.                  *)

\* Where FTI_Finalize moves the last checkpoint to L4.
Flushing == {"flush", "flushed", "rmL4", "mvL4", "rmMeta", "mvMeta"}

\* Where nothing has been recovered yet.
Off == {"down"} \cup Recovering

CallAt(r) ==
  /\ pc[r] \in Checkpointing \cup Finishing => call[r] \in 1 .. Len(calls)
  /\ pc[r] \in Checkpointing =>
       calls[call[r]].lvl # Finalize /\ lvel[r] \in {calls[call[r]].lvl, Rejected}
  /\ pc[r] \in {"write", "wrote", "return"} => lvel[r] # Rejected
  /\ pc[r] \in Finishing => calls[call[r]].lvl = Finalize
  /\ pc[r] = "rename" => NodeFlag(r)

MemAt(r) ==
  /\ pc[r] \in Checkpointing => mem[r].id # 0
  /\ pc[r] \in Flushing => mem[r].id # 0 /\ mem[r].last # 4
  /\ pc[r] \in {"finConf", "finClean"} => KeepLast /\ mem[r].id # 0
  /\ pc[r] \in {"dropConf", "drop"} => ~KeepLast \/ mem[r].id = 0
  /\ pc[r] \in {"rmL4", "mvL4", "rmMeta", "mvMeta", "finConf", "dropConf"} => r = Root
  /\ pc[r] \in Off => mem[r].id = 0 /\ lvel[r] = 0
  /\ loaded[r] # NoCall => pc[r] = "run"

CallInv ==
  /\ \A i \in 1 .. Len(calls) : calls[i].lvl \in CallLevels \cup {Finalize}
  /\ \A r \in Rank : CallAt(r) /\ MemAt(r)

(* The files of a checkpoint on their way to their level.                  *)

Kinds(l) == CASE l = 2 -> {"Rank", "Pcof"} [] l = 3 -> {"Rank", "RSed"} [] OTHER -> {"Rank"}

\* The files of process r for call c at level l, where they are written, and
\* where they are kept.
Files(r, c, l) == {Holding(k, r, c) : k \in Kinds(l)}
Aside(l, n) == IF l = 4 THEN gtmp ELSE tmp[n]
Place(l, n) == IF l = 4 THEN gdir ELSE dir[l][n]

Moved(r) ==
  IF lvel[r] = 4 THEN pc[Root] \notin {"clean", "rename", "renameGlobal"}
                 ELSE pc[<<r[1], 0>>] \notin {"clean", "rename"}

WrittenAt(r) ==
  /\ (pc[r] = "wrote" /\ res[r] = 0) \/ (pc[r] \in Exchanging /\ lvel[r] # Rejected)
       => Holding("Rank", r, call[r]) \in Aside(lvel[r], r[1])
  /\ pc[r] = "posted" /\ res[r] = 0 => Files(r, call[r], lvel[r]) \subseteq Aside(lvel[r], r[1])
  /\ pc[r] \in Committing =>
       Files(r, call[r], lvel[r]) \subseteq
         (IF Moved(r) THEN Place(lvel[r], r[1]) ELSE Aside(lvel[r], r[1]))

\* The metadata of the groups is that of one call.
MetaInv ==
  /\ \A l \in 1 .. 4, p, q \in Proc : meta[l][p] = meta[l][q]
  /\ pc[Root] = "renamed" => \A p \in Proc : meta[lvel[Root]][p] = call[Root]

(* Recovery.                                                               *)

LeftOf(r) == <<Left(r[1]), r[2]>>
RightOf(r) == <<Right(r[1]), r[2]>>

\* What the verdict of RecoverSync rests on.
RepairAt(r) ==
  /\ pc[r] \in {"fixOwn", "fixCopy"} => rlevel = 2
  /\ pc[r] \in {"decodeOpen", "decode"} => rlevel = 3
  /\ pc[r] \in {"cleanL1", "cleanedL1"} => \A q \in Rank : pc[q] \in {"cleanL1", "cleanedL1"}
  /\ pc[r] = "fetch" => rlevel = 4 /\ res[r] = 0 /\ Expected("Rank", r, 4) \in gdir
  /\ pc[r] = "recovered" /\ res[r] = 0 =>
       /\ Files(r, meta[rlevel][r[2]], rlevel) \subseteq Place(rlevel, r[1])
       /\ rlevel = 4 => Expected("Rank", r, 4) \in dir[1][r[1]]
  /\ pc[r] = "fixOwn" => Expected("Pcof", RightOf(r), 2) \in dir[2][Right(r[1])]
  /\ pc[r] = "fixCopy" => Expected("Rank", r, 2) \in dir[2][r[1]]
  /\ pc[r] \in {"fixOwn", "fixCopy"} =>
       /\ res[r] = 0
       /\ res[LeftOf(r)] = 0 /\ pc[LeftOf(r)] \in {"fixOwn", "fixCopy", "recovered"}
       /\ Expected("Pcof", r, 2) \notin erased => Expected("Pcof", r, 2) \in dir[2][r[1]]

RepairInv ==
  /\ pc[Root] = "down" => rlevel = 1
  /\ \A r \in Rank : RepairAt(r)

(* Completed checkpoints.                                                  *)

\* The highest level whose directories process r is replacing: that of Replacing, but
\* for FTI_Clean(5) by a process that has nothing to do with L4.
Busy(r) ==
  IF pc[r] = "drop" /\ r # Root THEN IF mem[r].last = 4 THEN 3 ELSE 4
  ELSE Replacing(lvel[r], r)

Calm(l) == \A r \in Rank : Busy(r) < l

\* splitRank 0 has given the checkpoint up.
GivenUp == pc[Root] \in {"drop", "finished"} /\ (~KeepLast \/ mem[Root].id = 0)

\* A recovery has not got beyond level l, and will not fail there.
Awaits(l) ==
  pc[Root] \in Recovering =>
    /\ rlevel <= l
    /\ rlevel = l => \A r \in Rank :
         \/ pc[r] \in {"try", "cleanL1", "cleanedL1", "fetch"}
         \/ pc[r] = "recovered" /\ res[r] = 0

\* A step that leaves level l what it has.
Untouched(l) == meta'[l] = meta[l] /\ \A n \in Node : Place(l, n) \subseteq Place(l, n)'

Unharmed(l) ==
  /\ l = 4 \/ (hurt = {} /\ open = {})
  /\ \A t \in torn : t < l
  /\ Calm(l)

Safe ==
  acked.call # NoCall /\ Unharmed(acked.lvl) =>
    \E c \in acked.call .. Len(calls), l \in acked.lvl .. 4 : Stored(c, l) /\ Awaits(l)

Returning ==
  \A r \in Rank : pc[r] = "return" /\ Calm(lvel[r]) /\ ~GivenUp => Stored(call[r], lvel[r])

History ==
  /\ acked.call # NoCall => acked.lvl \in 1 .. 4
  /\ acked.call # NoCall /\ pc[Root] \notin Off => hurt = {} /\ open = {} /\ torn = {}
  /\ pc[Root] \in {"drop", "finished", "done"} /\ (~KeepLast \/ mem[Root].id = 0)
       => acked.call = NoCall
  /\ (\E r \in Rank : pc[r] = "return") \/ (acked.call # NoCall /\ pc[Root] \notin Off)
       => \A r \in Rank : mem[r].id # 0

(* The checkpoint that keep_last_ckpt moves to L4.                         *)

Settled == {"run", "return", "restore"} \cup Finishing

\* Every process has come back from the last call of FTI_Checkpoint.
AllBack == \A r \in Rank : pc[r] \in Settled /\ pc[r] # "return"

Exact ==
  AllBack /\ acked.call # NoCall /\ Calm(acked.lvl) => Stored(acked.call, acked.lvl)

KeptAt(r) ==
  /\ pc[r] \in Settled \ {"return"} /\ mem[r].id # 0 => mem[r].last = lvel[r] /\ lvel[r] \in 1 .. 4
  /\ \A q \in Rank : pc[q] \in Settled /\ pc[r] \in Settled =>
       lvel[q] = lvel[r] /\ (mem[q].id = 0 <=> mem[r].id = 0)
  /\ pc[r] \in {"flush", "flushed"} =>
       \A q \in Rank : pc[q] \in {"run", "return", "restore", "flush", "flushed"}
  /\ pc[r] = "flushed" => Holding("Rank", r, meta[lvel[r]][r[2]]) \in gtmp

\* splitRank 0 moves the files and the metadata, or has moved them; the others
\* have left that to it.
Moves == {"rmL4", "mvL4", "rmMeta", "mvMeta", "finConf", "finClean", "finished"}
Flushed(q) == pc[q] \in Moves /\ mem[q].id # 0 /\ lvel[q] # 4
Moving == pc[Root] \in {"rmL4", "mvL4", "rmMeta", "mvMeta"}
Moved4 == pc[Root] \in {"finConf", "finClean", "finished"} /\ mem[Root].id # 0 /\ lvel[Root] # 4

KeptRoot ==
  /\ AllBack /\ mem[Root].id # 0 => acked.call # NoCall /\ acked.lvl = lvel[Root]
  /\ (\E q \in Rank : Flushed(q)) =>
       \A q \in Rank : pc[q] \in IF q = Root THEN Moves ELSE {"finClean", "finished"}
  /\ pc[Root] \in {"rmL4", "mvL4"} => \A r \in Rank : Holding("Rank", r, acked.call) \in gtmp
  /\ Moving => \A p \in Proc : meta[lvel[Root]][p] = acked.call
  /\ pc[Root] \in {"rmMeta", "mvMeta"} \/ Moved4 =>
       \A r \in Rank : Holding("Rank", r, acked.call) \in gdir
  /\ Moved4 => \A p \in Proc : meta[4][p] = acked.call
  /\ pc[Root] \in {"finClean", "finished", "done"} /\ mem[Root].id # 0 => conf = 2
  /\ pc[Root] = "done" /\ acked.call # NoCall => Stored(acked.call, 4)

KeptInv == Exact /\ KeptRoot /\ \A r \in Rank : KeptAt(r)

Kept == KeepLast => KeptInv

(* What FTI_Recover reads.                                                 *)

LoadedAt(r) ==
  /\ pc[r] = "restore" \/ loaded[r] # NoCall => \A q \in Rank : pc[q] \notin {"return", "discard"}
  /\ (\A q \in Rank : pc[q] \notin Finishing) =>
       /\ loaded[r] # NoCall => loaded[r] = acked.call
       /\ pc[r] = "restore" =>
            /\ acked.call # NoCall
            /\ lvel[r] = acked.lvl /\ mem[r].id = calls[acked.call].id
            /\ Holding("Rank", r, acked.call) \in dir[IF lvel[r] = 4 THEN 1 ELSE lvel[r]][r[1]]

-----------------------------------------------------------------------------
(***************************************************************************)
(* How a process moves on.                                                 *)
(***************************************************************************)

\* Within FTI_Checkpoint, ...
LEMMA CkptMoves ==
  ASSUME TypeInv, NEW r \in Rank, CkptStep(r)
  PROVE  /\ \/ pc[r] = "write" /\ pc'[r] = "wrote"
            \/ pc[r] = "meta" /\ pc'[r] = "post"
            \/ pc[r] = "post" /\ pc'[r] = "posted"
            \/ pc[r] = "discard" /\ pc'[r] = "run"
            \/ pc[r] = "clean" /\ pc'[r] = (IF NodeFlag(r) THEN "rename" ELSE "renamed")
            \/ pc[r] = "rename" /\ pc'[r] = (IF r = Root THEN "renameGlobal" ELSE "renamed")
            \/ pc[r] = "renameGlobal" /\ pc'[r] = "renameMeta"
            \/ pc[r] = "renameMeta" /\ pc'[r] = "renamed"
            \/ pc[r] = "return" /\ pc'[r] = "run"
         /\ \E l : Goto(r, l)
         /\ \A q \in Rank \ {r} : pc'[q] = pc[q]
<1> USE DEF At, Goto
<1>0. pc \in [Rank -> Where]
  BY DEF TypeInv, ControlOK
<1>1. ASSUME NEW bad \in BOOLEAN, Write(r, bad) PROVE pc[r] = "write" /\ pc'[r] = "wrote" /\ Goto(r, "wrote")
  BY <1>0, <1>1 DEF Write
<1>2. ASSUME NEW bad \in BOOLEAN, CreateMetadata(r, bad) PROVE pc[r] = "meta" /\ pc'[r] = "post" /\ Goto(r, "post")
  BY <1>0, <1>2 DEF CreateMetadata
<1>3. ASSUME NEW v \in {0, 1}, PostLocal(r, v) PROVE pc[r] = "post" /\ pc'[r] = "posted" /\ Goto(r, "posted")
  BY <1>0, <1>3 DEF PostLocal
<1>4. ASSUME Discard(r) PROVE pc[r] = "discard" /\ pc'[r] = "run" /\ Goto(r, "run")
  BY <1>0, <1>4 DEF Discard
<1>5. ASSUME Clean(r)
      PROVE  /\ pc[r] = "clean" /\ pc'[r] = (IF NodeFlag(r) THEN "rename" ELSE "renamed")
             /\ \E l : Goto(r, l)
  BY <1>0, <1>5 DEF Clean
<1>6. ASSUME Rename(r)
      PROVE  /\ pc[r] = "rename" /\ pc'[r] = (IF r = Root THEN "renameGlobal" ELSE "renamed")
             /\ \E l : Goto(r, l)
  BY <1>0, <1>6 DEF Rename
<1>7. ASSUME RenameGlobal(r) PROVE pc[r] = "renameGlobal" /\ pc'[r] = "renameMeta" /\ Goto(r, "renameMeta")
  BY <1>0, <1>7 DEF RenameGlobal
<1>8. ASSUME RenameMeta(r) PROVE pc[r] = "renameMeta" /\ pc'[r] = "renamed" /\ Goto(r, "renamed")
  BY <1>0, <1>8 DEF RenameMeta
<1>9. ASSUME Return(r) PROVE pc[r] = "return" /\ pc'[r] = "run" /\ Goto(r, "run")
  BY <1>0, <1>9 DEF Return
<1>10. \E l : Goto(r, l)
  BY <1>1, <1>2, <1>3, <1>4, <1>5, <1>6, <1>7, <1>8, <1>9 DEF CkptStep
<1>11. \A q \in Rank \ {r} : pc'[q] = pc[q]
  BY <1>0, <1>10
<1> HIDE DEF At, Goto
<1> QED
  BY <1>1, <1>2, <1>3, <1>4, <1>5, <1>6, <1>7, <1>8, <1>9, <1>10, <1>11 DEF CkptStep

\* ... within FTI_Finalize ...
LEMMA FinMoves ==
  ASSUME TypeInv, NEW r \in Rank, FinStep(r)
  PROVE  /\ \/ pc[r] = "flush" /\ pc'[r] = "flushed"
            \/ pc[r] = "rmL4" /\ pc'[r] = "mvL4"
            \/ pc[r] = "mvL4" /\ pc'[r] = "rmMeta"
            \/ pc[r] = "rmMeta" /\ pc'[r] = "mvMeta"
            \/ pc[r] = "mvMeta" /\ pc'[r] = "finConf"
            \/ pc[r] = "finConf" /\ pc'[r] = "finClean"
            \/ pc[r] = "finClean" /\ pc'[r] = "finished"
            \/ pc[r] = "dropConf" /\ pc'[r] = "drop"
            \/ pc[r] = "drop" /\ pc'[r] = "finished"
         /\ \E l : Goto(r, l)
         /\ \A q \in Rank \ {r} : pc'[q] = pc[q]
<1> USE DEF At, Goto
<1>0. pc \in [Rank -> Where]
  BY DEF TypeInv, ControlOK
<1>1. ASSUME NEW bad \in BOOLEAN, Flush(r, bad) PROVE pc[r] = "flush" /\ pc'[r] = "flushed" /\ Goto(r, "flushed")
  BY <1>0, <1>1 DEF Flush
<1>2. ASSUME FinRemoveL4(r) PROVE pc[r] = "rmL4" /\ pc'[r] = "mvL4" /\ Goto(r, "mvL4")
  BY <1>0, <1>2 DEF FinRemoveL4
<1>3. ASSUME FinRenameL4(r) PROVE pc[r] = "mvL4" /\ pc'[r] = "rmMeta" /\ Goto(r, "rmMeta")
  BY <1>0, <1>3 DEF FinRenameL4
<1>4. ASSUME FinRemoveMeta(r) PROVE pc[r] = "rmMeta" /\ pc'[r] = "mvMeta" /\ Goto(r, "mvMeta")
  BY <1>0, <1>4 DEF FinRemoveMeta
<1>5. ASSUME FinRenameMeta(r) PROVE pc[r] = "mvMeta" /\ pc'[r] = "finConf" /\ Goto(r, "finConf")
  BY <1>0, <1>5 DEF FinRenameMeta
<1>6. ASSUME FinUpdateConf(r) PROVE pc[r] = "finConf" /\ pc'[r] = "finClean" /\ Goto(r, "finClean")
  BY <1>0, <1>6 DEF FinUpdateConf
<1>7. ASSUME FinClean(r) PROVE pc[r] = "finClean" /\ pc'[r] = "finished" /\ Goto(r, "finished")
  BY <1>0, <1>7 DEF FinClean
<1>8. ASSUME DropConf(r) PROVE pc[r] = "dropConf" /\ pc'[r] = "drop" /\ Goto(r, "drop")
  BY <1>0, <1>8 DEF DropConf
<1>9. ASSUME Drop(r) PROVE pc[r] = "drop" /\ pc'[r] = "finished" /\ Goto(r, "finished")
  BY <1>0, <1>9 DEF Drop
<1>10. \E l : Goto(r, l)
  BY <1>1, <1>2, <1>3, <1>4, <1>5, <1>6, <1>7, <1>8, <1>9 DEF FinStep
<1>11. \A q \in Rank \ {r} : pc'[q] = pc[q]
  BY <1>0, <1>10
<1> HIDE DEF At, Goto
<1> QED
  BY <1>1, <1>2, <1>3, <1>4, <1>5, <1>6, <1>7, <1>8, <1>9, <1>10, <1>11 DEF FinStep

\* ... and while it recovers.
LEMMA RecoverMoves ==
  ASSUME TypeInv, NEW r \in Rank, RecoverStep(r)
  PROVE  /\ \/ pc[r] = "cleanL1" /\ pc'[r] = "cleanedL1"
            \/ pc[r] = "fixOwn" /\ pc'[r] = "fixCopy"
            \/ pc[r] = "decodeOpen" /\ pc'[r] = "decode"
            \/ pc[r] \in {"fixCopy", "decode", "fetch"} /\ pc'[r] = "recovered"
            \/ pc[r] = "restore" /\ pc'[r] = "run"
         /\ \E l : Goto(r, l)
         /\ \A q \in Rank \ {r} : pc'[q] = pc[q]
<1> USE DEF At, Goto
<1>0. pc \in [Rank -> Where]
  BY DEF TypeInv, ControlOK
<1>1. ASSUME CleanL1(r) PROVE pc[r] = "cleanL1" /\ pc'[r] = "cleanedL1" /\ Goto(r, "cleanedL1")
  BY <1>0, <1>1 DEF CleanL1
<1>2. ASSUME FixOwn(r) PROVE pc[r] = "fixOwn" /\ pc'[r] = "fixCopy" /\ Goto(r, "fixCopy")
  BY <1>0, <1>2 DEF FixOwn
<1>3. ASSUME FixCopy(r) PROVE pc[r] = "fixCopy" /\ pc'[r] = "recovered" /\ Goto(r, "recovered")
  BY <1>0, <1>3 DEF FixCopy
<1>4. ASSUME DecodeOpen(r) PROVE pc[r] = "decodeOpen" /\ pc'[r] = "decode" /\ Goto(r, "decode")
  BY <1>0, <1>4 DEF DecodeOpen
<1>5. ASSUME Decode(r) PROVE pc[r] = "decode" /\ pc'[r] = "recovered" /\ Goto(r, "recovered")
  BY <1>0, <1>5 DEF Decode
<1>6. ASSUME Fetch(r) PROVE pc[r] = "fetch" /\ pc'[r] = "recovered" /\ Goto(r, "recovered")
  BY <1>0, <1>6 DEF Fetch
<1>7. ASSUME Recover(r) PROVE pc[r] = "restore" /\ pc'[r] = "run" /\ Goto(r, "run")
  BY <1>0, <1>7 DEF Recover
<1>8. \E l : Goto(r, l)
  BY <1>1, <1>2, <1>3, <1>4, <1>5, <1>6, <1>7 DEF RecoverStep
<1>9. \A q \in Rank \ {r} : pc'[q] = pc[q]
  BY <1>0, <1>8
<1> HIDE DEF At, Goto
<1> QED
  BY <1>1, <1>2, <1>3, <1>4, <1>5, <1>6, <1>7, <1>8, <1>9 DEF RecoverStep

(***************************************************************************)
(* Names.                                                                  *)
(***************************************************************************)

\* What writing and failing to write leaves of the other files.
LEMMA PutFiles ==
  ASSUME NEW S, NEW f
  PROVE  /\ f \in Put(S, f)
         /\ \A g \in S : g.kind # f.kind \/ g.rank # f.rank => g \in Put(S, f) /\ g \in Without(S, f)
BY DEF Put, Without, SameName

LEMMA HoldingParts ==
  ASSUME NEW k, NEW r, NEW c
  PROVE  Holding(k, r, c).kind = k /\ Holding(k, r, c).rank = r /\ Holding(k, r, c).call = c
BY DEF Holding

\* Writing a file leaves no two of one name.
LEMMA NamesPut ==
  ASSUME NEW S, NamesOK(S)
  PROVE  /\ NamesOK({})
         /\ \A f : NamesOK(Without(S, f))
         /\ \A f : f.call \in 1 .. Len(calls) => NamesOK(Put(S, f))
<1>1. NamesOK({}) /\ \A f : NamesOK(Without(S, f))
  BY DEF NamesOK, Without
<1>2. ASSUME NEW f, f.call \in 1 .. Len(calls) PROVE NamesOK(Put(S, f))
  BY <1>2 DEF NamesOK, Put, Without, SameName
<1> QED
  BY <1>1, <1>2

\* The file that a name leads to.
LEMMA ContentFound ==
  ASSUME NEW S, NamesOK(S), NEW k, NEW r, NEW id, Content(S, k, r, id) # Lost
  PROVE  Content(S, k, r, id) \in 1 .. Len(calls)
<1> DEFINE found == {f \in S : f.kind = k /\ f.rank = r /\ calls[f.call].id = id}
<1>1. found # {}
  BY DEF Content
<1>2. (CHOOSE f \in found : TRUE) \in found
  BY <1>1
<1>3. Content(S, k, r, id) = (CHOOSE f \in found : TRUE).call
  BY <1>1 DEF Content
<1> QED
  BY <1>2, <1>3 DEF NamesOK

LEMMA ContentIs ==
  ASSUME NEW S, NamesOK(S), NEW k, NEW r, NEW c, Holding(k, r, c) \in S
  PROVE  Content(S, k, r, calls[c].id) = c
<1> DEFINE id == calls[c].id
           found == {f \in S : f.kind = k /\ f.rank = r /\ calls[f.call].id = id}
<1>1. Holding(k, r, c) \in found
  BY HoldingParts
<1>2. (CHOOSE f \in found : TRUE) \in found
  BY <1>1
<1>3. Content(S, k, r, id) = (CHOOSE f \in found : TRUE).call
  BY <1>1 DEF Content
<1>4. (CHOOSE f \in found : TRUE) = Holding(k, r, c)
  BY <1>1, <1>2 DEF NamesOK, SameName
<1>5. Holding(k, r, c).call = c
  BY HoldingParts
<1> HIDE DEF found
<1> QED
  BY <1>3, <1>4, <1>5 DEF id

\* A new call renames nothing.
LEMMA NamesAppend ==
  ASSUME ControlOK, Names, UNCHANGED disk, NEW c, calls' = Append(calls, c)
  PROVE  Names'
<1>1. Len(calls') = Len(calls) + 1 /\ \A i \in 1 .. Len(calls) : calls'[i] = calls[i]
  BY DEF ControlOK
<1>2. 1 .. Len(calls) \subseteq 1 .. Len(calls')
  BY <1>1, IndexType
<1>3. ASSUME NEW S, NamesOK(S) PROVE NamesOK(S)'
  BY <1>1, <1>2, <1>3 DEF NamesOK, SameName
<1> QED
  BY <1>3 DEF Names, disk

\* Otherwise names have to be looked at where a directory changes.
LEMMA NamesFrame ==
  ASSUME Names, calls' = calls,
         \A n \in Node : NamesOK(tmp'[n]),
         \A l \in 1 .. 3, n \in Node : NamesOK(dir'[l][n]),
         NamesOK(gtmp'), NamesOK(gdir')
  PROVE  Names'
<1>1. ASSUME NEW S PROVE NamesOK(S)' <=> NamesOK(S)
  BY DEF NamesOK, SameName
<1> QED
  BY <1>1 DEF Names

\* FTI_Clean.
LEMMA NamesClean ==
  ASSUME Names, NEW r \in Rank, NEW L, CleanLevels(r, L), UNCHANGED <<calls, tmp, gtmp>>
  PROVE  Names'
<1>1. NamesOK({})
  BY NamesPut DEF Names
<1> QED
  BY <1>1, NamesFrame DEF Names, CleanLevels

\* Names within FTI_Checkpoint.
LEMMA NamesCkpt ==
  ASSUME TypeInv, Names, CallInv, NEW r \in Rank, CkptStep(r)
  PROVE  Names'
<1> USE RankParts
<1>1. ASSUME NEW bad \in BOOLEAN, Write(r, bad) PROVE Names'
  <2> DEFINE f == Holding("Rank", r, call[r])
             New(S) == IF bad THEN Without(S, f) ELSE Put(S, f)
  <2>1. f.call \in 1 .. Len(calls)
    BY <1>1, HoldingParts DEF Write, At, CallInv, CallAt, Checkpointing
  <2>2. \A S : NamesOK(S) => NamesOK(New(S))
    BY <2>1, NamesPut
  <2>3. UNCHANGED <<calls, dir, gdir>>
    BY <1>1 DEF Write
  <2>4. /\ gtmp' = gtmp \/ gtmp' = New(gtmp)
        /\ tmp' = tmp \/ tmp' = [tmp EXCEPT ![r[1]] = New(tmp[r[1]])]
    BY <1>1 DEF Write
  <2> HIDE DEF New
  <2>5. NamesOK(gtmp') /\ \A n \in Node : NamesOK(tmp'[n])
    BY <2>2, <2>4 DEF Names, TypeInv, FilesOK
  <2> QED
    BY <2>3, <2>5, NamesFrame DEF Names
<1>2. ASSUME NEW bad \in BOOLEAN, CreateMetadata(r, bad) PROVE Names'
  BY <1>2, NamesFrame DEF CreateMetadata, disk, Names
<1>3. ASSUME NEW v \in {0, 1}, PostLocal(r, v) PROVE Names'
  BY <1>3, NamesFrame DEF PostLocal, disk, Names
<1>4. ASSUME Discard(r) PROVE Names'
  BY <1>4, NamesFrame, NamesPut DEF Discard, Names, TypeInv, FilesOK
<1>5. ASSUME Clean(r) PROVE Names'
  BY <1>5, NamesClean DEF Clean
<1>6. ASSUME Rename(r) PROVE Names'
  <2>1. /\ UNCHANGED <<calls, gtmp, gdir>>
        /\ \/ UNCHANGED <<tmp, dir>>
           \/ lvel[r] \in 1 .. 3 /\ dir' = [dir EXCEPT ![lvel[r]][r[1]] = tmp[r[1]]]
                                 /\ tmp' = [tmp EXCEPT ![r[1]] = {}]
    BY <1>6 DEF Rename
  <2>2. NamesOK({}) /\ \A n \in Node : NamesOK(tmp[n])
    BY NamesPut DEF Names
  <2>3. \A n \in Node : NamesOK(tmp'[n])
    BY <2>1, <2>2 DEF TypeInv, FilesOK
  <2>4. \A l \in 1 .. 3, n \in Node : NamesOK(dir'[l][n])
    BY <2>1, <2>2 DEF Names, TypeInv, FilesOK
  <2> QED
    BY <2>1, <2>3, <2>4, NamesFrame DEF Names
<1>7. ASSUME RenameGlobal(r) PROVE Names'
  BY <1>7, NamesFrame, NamesPut DEF RenameGlobal, Names
<1>8. ASSUME RenameMeta(r) \/ Return(r) PROVE Names'
  BY <1>8, NamesFrame DEF RenameMeta, Return, disk, Names
<1> QED
  BY <1>1, <1>2, <1>3, <1>4, <1>5, <1>6, <1>7, <1>8 DEF CkptStep

\* Names within FTI_Finalize.
LEMMA NamesFin ==
  ASSUME TypeInv, Names, NEW r \in Rank, FinStep(r)
  PROVE  Names'
<1> USE RankParts
<1>1. ASSUME NEW bad \in BOOLEAN, Flush(r, bad) PROVE Names'
  <2> DEFINE l == mem[r].last
             f == Holding("Rank", r, meta[l][r[2]])
  <2>1. /\ UNCHANGED <<calls, tmp, dir, gdir>>
        /\ \/ gtmp' = gtmp
           \/ l \in 1 .. 3 /\ f \in dir[l][r[1]] /\ gtmp' = Put(gtmp, f)
    BY <1>1 DEF Flush
  <2>2. l \in 1 .. 3 /\ f \in dir[l][r[1]] => f.call \in 1 .. Len(calls)
    BY DEF Names, NamesOK
  <2>3. NamesOK(gtmp')
    BY <2>1, <2>2, NamesPut DEF Names
  <2> QED
    BY <2>1, <2>3, NamesFrame DEF Names
<1>2. ASSUME FinRemoveL4(r) \/ FinRenameL4(r) PROVE Names'
  BY <1>2, NamesFrame, NamesPut DEF FinRemoveL4, FinRenameL4, Names
<1>3. ASSUME FinRemoveMeta(r) \/ FinRenameMeta(r) \/ FinUpdateConf(r) \/ DropConf(r) PROVE Names'
  BY <1>3, NamesFrame DEF FinRemoveMeta, FinRenameMeta, FinUpdateConf, DropConf, disk, Names
<1>4. ASSUME FinClean(r) \/ Drop(r) PROVE Names'
  BY <1>4, NamesClean DEF FinClean, Drop
<1> QED
  BY <1>1, <1>2, <1>3, <1>4 DEF FinStep

LEMMA RightType == \A n \in Node : Right(n) \in Node
BY SizesAssumption DEF Right, Node

\* Writing one file into a directory of a level.
LEMMA NamesPutInto ==
  ASSUME TypeInv, Names, NEW l \in 1 .. 3, NEW n \in Node, NEW S, NamesOK(S),
         dir' = [dir EXCEPT ![l][n] = S], UNCHANGED <<calls, tmp, gtmp, gdir>>
  PROVE  Names'
BY NamesFrame DEF Names, TypeInv, FilesOK

\* Names while a process recovers.
LEMMA NamesRecover ==
  ASSUME TypeInv, RepairInv, Names, NEW r \in Rank, RecoverStep(r)
  PROVE  Names'
<1> USE RankParts
<1>1. ASSUME CleanL1(r) PROVE Names'
  BY <1>1, NamesClean DEF CleanL1
<1>2. ASSUME Recover(r) PROVE Names'
  BY <1>2, NamesFrame DEF Recover, disk, Names
<1>3. /\ r[1] \in Node /\ r[2] \in Proc /\ 1 \in 1 .. 3 /\ 2 \in 1 .. 3 /\ 3 \in 1 .. 3
      /\ Right(r[1]) \in Node /\ Left(r[1]) \in Node
  BY RightType, RingType
<1>4. ASSUME FixOwn(r) PROVE Names'
  <2> DEFINE copy == Content(dir[2][Right(r[1])], "Pcof", <<Right(r[1]), r[2]>>, calls[meta[2][r[2]]].id)
             f == Holding("Rank", r, copy)
  <2>1. /\ UNCHANGED <<calls, tmp, gtmp, gdir>> /\ copy # Lost
        /\ dir' = [dir EXCEPT ![2][r[1]] = Put(dir[2][r[1]], f)]
    BY <1>4 DEF FixOwn
  <2>2. NamesOK(dir[2][r[1]]) /\ NamesOK(dir[2][Right(r[1])])
    BY <1>3 DEF Names
  <2>3. copy \in 1 .. Len(calls)
    BY <2>1, <2>2, ContentFound
  <2>4. f.call \in 1 .. Len(calls)
    BY <2>3, HoldingParts
  <2>5. NamesOK(Put(dir[2][r[1]], f))
    BY <2>2, <2>4, NamesPut
  <2> HIDE DEF f
  <2> QED
    BY <1>3, <2>1, <2>5, NamesPutInto
<1>5. ASSUME FixCopy(r) PROVE Names'
  <2> DEFINE orig == Content(dir[2][Left(r[1])], "Rank", <<Left(r[1]), r[2]>>, calls[meta[2][r[2]]].id)
             f == Holding("Pcof", r, orig)
  <2>1. /\ UNCHANGED <<calls, tmp, gtmp, gdir>> /\ orig # Lost
        /\ \/ dir' = [dir EXCEPT ![2][r[1]] = Put(dir[2][r[1]], f)]
           \/ dir' = dir
    BY <1>5 DEF FixCopy
  <2>2. NamesOK(dir[2][r[1]]) /\ NamesOK(dir[2][Left(r[1])])
    BY <1>3 DEF Names
  <2>3. orig \in 1 .. Len(calls)
    BY <2>1, <2>2, ContentFound
  <2>4. f.call \in 1 .. Len(calls)
    BY <2>3, HoldingParts
  <2>5. NamesOK(Put(dir[2][r[1]], f))
    BY <2>2, <2>4, NamesPut
  <2>6. CASE dir' = dir
    BY <2>1, <2>6, NamesFrame DEF Names
  <2> HIDE DEF f
  <2> QED
    BY <1>3, <2>1, <2>5, <2>6, NamesPutInto
<1>6. ASSUME DecodeOpen(r) PROVE Names'
  <2>1. /\ UNCHANGED <<calls, tmp, gtmp, gdir>>
        /\ \/ dir' = [dir EXCEPT ![3][r[1]] = Without(dir[3][r[1]], Expected("Rank", r, 3))]
           \/ dir' = dir
    BY <1>6 DEF DecodeOpen
  <2>2. NamesOK(Without(dir[3][r[1]], Expected("Rank", r, 3)))
    BY NamesPut DEF Names
  <2>3. CASE dir' = dir
    BY <2>1, <2>3, NamesFrame DEF Names
  <2> QED
    BY <2>1, <2>2, <2>3, NamesPutInto
<1>7. ASSUME NEW l \in 1 .. 4, MetaExists(l), NEW k PROVE Expected(k, r, l).call \in 1 .. Len(calls)
  <2>1. meta[l][r[2]] \in Index /\ meta[l][r[2]] # 0 /\ Len(calls) \in Nat
    <3>1. meta[l] \in [Proc -> Index] /\ Len(calls) \in Nat
      BY IndexType DEF TypeInv, ControlOK
    <3> QED
      BY <1>3, <1>7, <3>1 DEF MetaExists, NoCall
  <2> QED
    BY <2>1, HoldingParts DEF Expected, Index
<1>8. ASSUME Decode(r) PROVE Names'
  <2> DEFINE S == Put(dir[3][r[1]], Expected("Rank", r, 3))
             T == Put(S, Expected("RSed", r, 3))
  <2>1. /\ UNCHANGED <<calls, tmp, gtmp, gdir>>
        /\ dir' = [dir EXCEPT ![3][r[1]] = T]
    BY <1>8 DEF Decode
  <2>2. MetaExists(3)
    BY <1>8 DEF Decode, At, TypeInv, Checked, Recovering, RepairInv, RepairAt
  <2>3. NamesOK(S)
    BY <1>7, <2>2, NamesPut DEF Names
  <2> HIDE DEF S
  <2>4. NamesOK(T)
    BY <1>7, <2>2, <2>3, NamesPut
  <2> HIDE DEF T
  <2> QED
    BY <1>3, <2>1, <2>4, NamesPutInto
<1>9. ASSUME Fetch(r) PROVE Names'
  <2> DEFINE T == Put(dir[1][r[1]], Expected("Rank", r, 4))
  <2>1. /\ UNCHANGED <<calls, tmp, gtmp, gdir>>
        /\ dir' = [dir EXCEPT ![1][r[1]] = T]
    BY <1>9 DEF Fetch
  <2>2. MetaExists(4)
    BY <1>9 DEF Fetch, At, TypeInv, Checked, Recovering, RepairInv, RepairAt
  <2>3. NamesOK(T)
    BY <1>7, <2>2, NamesPut DEF Names
  <2> HIDE DEF T
  <2> QED
    BY <1>3, <2>1, <2>3, NamesPutInto
<1> QED
  BY <1>1, <1>2, <1>4, <1>5, <1>6, <1>8, <1>9 DEF RecoverStep

\* Names in the steps taken together.
LEMMA NamesSync ==
  ASSUME TypeInv, Names, CallInv, Sync
  PROVE  Names'
<1>1. ASSUME NEW p \in Proc, NEW l \in {2, 3}, NEW bad \in SUBSET Node, Exchange(p, l, bad)
      PROVE  Names'
  <2>1. UNCHANGED <<calls, dir, gtmp, gdir>>
    BY <1>1 DEF Exchange
  <2>2. ASSUME NEW n \in Node PROVE NamesOK(tmp'[n])
    <3> DEFINE f == Encoded(n, p, l)
    <3>1. tmp'[n] = Without(tmp[n], f) \/ tmp'[n] = Put(tmp[n], f)
      BY <1>1 DEF Exchange
    <3>2. <<n, p>> \in Rank /\ <<n, p>> \in Group(p)
      BY RankParts DEF Group
    <3>3. pc[<<n, p>>] = "post"
      BY <1>1, <3>2 DEF Exchange, At
    <3>4. f.call \in 1 .. Len(calls)
      BY <3>2, <3>3, HoldingParts DEF Encoded, CallInv, CallAt, Checkpointing, Exchanging
    <3> HIDE DEF f
    <3> QED
      BY <3>1, <3>4, NamesPut DEF Names
  <2> QED
    BY <2>1, <2>2, NamesFrame DEF Names
<1>2. CASE BootFresh
  BY <1>2, NamesFrame, NamesPut DEF BootFresh, NoFiles, Names
<1>3. ASSUME UNCHANGED <<calls, disk>> PROVE Names'
  BY <1>3, NamesFrame DEF disk, Names
<1>4. CASE WriteSync \/ PostSync \/ RenameSync \/ FlushSync \/ FinSync
  BY <1>3, <1>4 DEF WriteSync, PostSync, RenameSync, FlushSync, FinSync
<1>5. CASE BootRecover \/ SkipLevel \/ TryLocal \/ TryGlobal \/ CheckGlobal \/ RecoverSync
  BY <1>3, <1>5 DEF BootRecover, SkipLevel, TryLocal, TryGlobal, CheckGlobal, RecoverSync
<1> QED
  BY <1>1, <1>2, <1>4, <1>5 DEF Sync

\* Names is inductive: no directory ever holds two files of one name.
LEMMA NamesStep ==
  ASSUME TypeInv, CallInv, RepairInv, Names, [Next]_vars
  PROVE  Names'
<1>1. ASSUME UNCHANGED <<calls, disk>> PROVE Names'
  BY <1>1, NamesFrame DEF disk, Names
<1>2. ASSUME NEW r \in Rank, AppStep(r) PROVE Names'
  <2>1. UNCHANGED disk /\ (calls' = calls \/ \E c : calls' = Append(calls, c))
    BY <1>2 DEF AppStep, Follow, Issue, Enter
  <2> QED
    BY <1>1, <2>1, NamesAppend DEF TypeInv
<1>3. ASSUME NEW F \in SUBSET Node, Crash(F) PROVE Names'
  <2>1. NamesOK({})
    BY NamesPut DEF Names
  <2>2. UNCHANGED <<calls, gtmp, gdir>>
    BY <1>3 DEF Crash
  <2>3. /\ \A n \in Node : NamesOK(tmp'[n])
        /\ \A l \in 1 .. 3, n \in Node : NamesOK(dir'[l][n])
    BY <1>3, <2>1 DEF Crash, Names
  <2> QED
    BY <2>2, <2>3, NamesFrame DEF Names
<1>4. CASE Relaunch
  BY <1>1, <1>4 DEF Relaunch
<1>5. CASE UNCHANGED vars
  BY <1>1, <1>5 DEF vars
<1> QED
  BY <1>2, <1>3, <1>4, <1>5, NamesCkpt, NamesFin, NamesRecover, NamesSync DEF Next, Environment, Ended

(***************************************************************************)
(* Calls and memory.                                                       *)
(***************************************************************************)

\* What is known of a process stays when only others move and calls are added.
LEMMA CallKept ==
  ASSUME ControlOK, NEW q \in Rank, CallAt(q), MemAt(q), pc'[q] = pc[q], call'[q] = call[q],
         lvel'[q] = lvel[q], mem'[q] = mem[q], loaded'[q] = loaded[q],
         calls' = calls \/ \E c : calls' = Append(calls, c)
  PROVE  CallAt(q)' /\ MemAt(q)'
<1>1. Len(calls) \in Nat /\ 1 .. Len(calls) \subseteq 1 .. Len(calls')
      /\ \A i \in 1 .. Len(calls) : calls'[i] = calls[i]
  BY DEF ControlOK
<1>2. CallAt(q)'
  BY <1>1 DEF CallAt, Checkpointing, Finishing
<1> QED
  BY <1>2 DEF MemAt

\* The application calls.
LEMMA CallApp ==
  ASSUME TypeInv, IdsInv, CallInv, NEW r \in Rank, AppStep(r)
  PROVE  CallInv'
<1>1. PICK c, id, l : Enter(r, c, id, l) /\ pc[r] = "run" /\ id # 0
                      /\ c \in 1 .. Len(calls') /\ calls'[c].lvl = l
                      /\ (calls' = calls \/ \E x : calls' = Append(calls, x))
                      /\ \A i \in 1 .. Len(calls') : calls'[i].lvl \in CallLevels \cup {Finalize}
  <2>1. CASE Follow(r)
    <3>1. call[r] + 1 \in 1 .. Len(calls)
      BY <2>1, FollowIndex DEF TypeInv
    <3>2. calls[call[r] + 1].id # 0
      BY <3>1 DEF IdsInv
    <3> QED
      BY <2>1, <3>1, <3>2 DEF Follow, At, CallInv
  <2>2. ASSUME NEW l \in CallLevels \cup {Finalize}, Issue(r, l)
        PROVE  \E c, id, k : Enter(r, c, id, k) /\ pc[r] = "run" /\ id # 0
                 /\ c \in 1 .. Len(calls') /\ calls'[c].lvl = k
                 /\ (calls' = calls \/ \E x : calls' = Append(calls, x))
                 /\ \A i \in 1 .. Len(calls') : calls'[i].lvl \in CallLevels \cup {Finalize}
    <3> DEFINE x == [id |-> mem[r].cnt, lvl |-> l]
    <3>1. calls' = Append(calls, x) /\ x.lvl = l
      BY <2>2 DEF Issue
    <3> HIDE DEF x
    <3>2. /\ Len(calls) \in Nat /\ Len(calls') = Len(calls) + 1 /\ calls'[Len(calls) + 1] = x
          /\ \A i \in 1 .. Len(calls) : calls'[i] = calls[i]
      BY <3>1 DEF TypeInv, ControlOK
    <3>3. \A i \in 1 .. Len(calls') : i = Len(calls) + 1 \/ i \in 1 .. Len(calls)
      BY <3>2
    <3>4. \A i \in 1 .. Len(calls') : calls'[i].lvl \in CallLevels \cup {Finalize}
      BY <3>1, <3>2, <3>3 DEF CallInv
    <3>5. mem[r].cnt # 0 /\ Len(calls) + 1 \in 1 .. Len(calls')
      BY <3>2 DEF IdsInv
    <3> QED
      BY <2>2, <3>1, <3>2, <3>4, <3>5 DEF Issue, At
  <2> QED
    BY <1>1, <2>1, <2>2 DEF AppStep
<1>2. \A q \in Rank \ {r} :
        /\ pc'[q] = pc[q] /\ call'[q] = call[q] /\ lvel'[q] = lvel[q]
        /\ mem'[q] = mem[q] /\ loaded'[q] = loaded[q]
  BY <1>1 DEF Enter, Goto, TypeInv, ControlOK, FilesOK
<1>3. \A q \in Rank \ {r} : CallAt(q)' /\ MemAt(q)'
  BY <1>1, <1>2, CallKept DEF CallInv, TypeInv
<1>4. call'[r] = c /\ loaded'[r] = NoCall
  BY <1>1 DEF Enter, TypeInv, ControlOK, FilesOK
<1>5. CASE l = Finalize
  <2>1. pc'[r] = FinalizeEntry(r) /\ mem'[r] = mem[r]
    BY <1>1, <1>5 DEF Enter, Goto, TypeInv, ControlOK
  <2>2. CallAt(r)'
    BY <1>1, <1>4, <1>5, <2>1
    DEF CallAt, FinalizeEntry, Checkpointing, Exchanging, Committing, Finishing
  <2>3. mem[r].id \in Nat
    BY DEF TypeInv, ControlOK
  <2>4. MemAt(r)'
    BY <1>4, <2>1, <2>3
    DEF MemAt, FinalizeEntry, Checkpointing, Exchanging, Committing, Flushing, Off, Recovering
  <2> QED
    BY <1>1, <1>3, <2>2, <2>4 DEF CallInv
<1>6. CASE l # Finalize
  <2> DEFINE fst == (mem[r].id = 0)
             m == [[mem[r] EXCEPT !.first = fst] EXCEPT !.id = id]
  <2>1. pc'[r] = "write" /\ lvel'[r] = l /\ mem'[r] = m
    BY <1>1, <1>6 DEF Enter, Goto, TypeInv, ControlOK
  <2>2. m.id = id
    BY DEF TypeInv, ControlOK
  <2>3. l # Rejected
    BY <1>1, LevelsAssumption DEF Rejected, Finalize
  <2>4. CallAt(r)'
    BY <1>1, <1>4, <1>6, <2>1, <2>3
    DEF CallAt, Checkpointing, Exchanging, Committing, Finishing
  <2>5. MemAt(r)'
    BY <1>1, <1>4, <2>1, <2>2
    DEF MemAt, Checkpointing, Exchanging, Committing, Flushing, Off, Recovering
  <2> QED
    BY <1>1, <1>3, <2>4, <2>5 DEF CallInv
<1> QED
  BY <1>5, <1>6

\* A process in FTI_Checkpoint, FTI_Finalize or FTI_Recover.
LEMMA CallLocal ==
  ASSUME TypeInv, CallInv, NEW r \in Rank, NEW l, Goto(r, l), UNCHANGED <<calls, call>>,
         \A q \in Rank \ {r} : lvel'[q] = lvel[q] /\ mem'[q] = mem[q] /\ loaded'[q] = loaded[q],
         CallAt(r)', MemAt(r)'
  PROVE  CallInv'
<1>1. \A q \in Rank \ {r} : pc'[q] = pc[q]
  BY DEF TypeInv, ControlOK, Goto
<1> QED
  BY <1>1, CallKept DEF CallInv, TypeInv

LEMMA CallCkpt ==
  ASSUME TypeInv, OrderInv, CallInv, NEW r \in Rank, CkptStep(r)
  PROVE  CallInv'
<1>1. /\ CallAt(r) /\ MemAt(r) /\ LevelAt(r)
      /\ pc \in [Rank -> Where] /\ lvel \in [Rank -> Level]
  BY DEF CallInv, OrderInv, TypeInv, ControlOK
<1> DEFINE m == [[mem[r] EXCEPT !.last = lvel[r]] EXCEPT !.cnt = mem[r].cnt + 1]
<1>2. UNCHANGED <<calls, call, loaded>> /\ \E l : Goto(r, l)
  BY DEF CkptStep, Write, CreateMetadata, PostLocal, Discard, Clean, Rename, RenameGlobal,
         RenameMeta, Return, local
<1>3. mem' = mem \/ (pc[r] = "return" /\ mem' = [mem EXCEPT ![r] = m])
  BY DEF CkptStep, Write, CreateMetadata, PostLocal, Discard, Clean, Rename, RenameGlobal,
         RenameMeta, Return, local, At
<1>4. m.id = mem[r].id /\ mem \in [Rank -> [last : Level, id : Nat, cnt : Nat, first : BOOLEAN]]
  BY DEF TypeInv, ControlOK
<1> HIDE DEF m
<1>5. mem'[r].id = mem[r].id /\ \A q \in Rank \ {r} : mem'[q] = mem[q]
  BY <1>3, <1>4
<1>6. lvel' = lvel \/ (pc[r] = "meta" /\ lvel' = [lvel EXCEPT ![r] = Rejected])
  BY DEF CkptStep, Write, CreateMetadata, PostLocal, Discard, Clean, Rename, RenameGlobal,
         RenameMeta, Return, local, At
<1>7. \/ pc[r] = "write" /\ pc'[r] = "wrote"
      \/ pc[r] = "meta" /\ pc'[r] = "post"
      \/ pc[r] = "post" /\ pc'[r] = "posted"
      \/ pc[r] = "discard" /\ pc'[r] = "run"
      \/ pc[r] = "clean" /\ pc'[r] = (IF NodeFlag(r) THEN "rename" ELSE "renamed")
      \/ pc[r] = "rename" /\ pc'[r] = (IF r = Root THEN "renameGlobal" ELSE "renamed")
      \/ pc[r] = "renameGlobal" /\ pc'[r] = "renameMeta"
      \/ pc[r] = "renameMeta" /\ pc'[r] = "renamed"
      \/ pc[r] = "return" /\ pc'[r] = "run"
  BY CkptMoves
<1>8. CallAt(r)'
  BY <1>1, <1>2, <1>6, <1>7 DEF CallAt, Checkpointing, Exchanging, Committing, Finishing, Rejected
<1>9. MemAt(r)'
  BY <1>1, <1>2, <1>5, <1>7
  DEF MemAt, Checkpointing, Exchanging, Committing, Flushing, Off, Recovering
<1>10. \A q \in Rank \ {r} : lvel'[q] = lvel[q]
  BY <1>1, <1>6
<1> QED
  BY <1>2, <1>5, <1>8, <1>9, <1>10, CallLocal

LEMMA CallFinRecover ==
  ASSUME TypeInv, OrderInv, CallInv, NEW r \in Rank, FinStep(r) \/ RecoverStep(r)
  PROVE  CallInv'
<1>1. /\ CallAt(r) /\ MemAt(r) /\ LevelAt(r)
      /\ pc \in [Rank -> Where] /\ loaded \in [Rank -> Nat \cup {Lost}]
  BY DEF CallInv, OrderInv, TypeInv, ControlOK, FilesOK
<1>2. UNCHANGED <<calls, call, lvel, mem>>
  BY DEF FinStep, Flush, FinRemoveL4, FinRenameL4, FinRemoveMeta, FinRenameMeta, FinUpdateConf,
         FinClean, DropConf, Drop, RecoverStep, CleanL1, FixOwn, FixCopy, DecodeOpen, Decode,
         Fetch, Recover, local
<1>3. CASE FinStep(r)
  <2>1. loaded' = loaded /\ \E l : Goto(r, l)
    BY <1>3 DEF FinStep, Flush, FinRemoveL4, FinRenameL4, FinRemoveMeta, FinRenameMeta, FinUpdateConf,
         FinClean, DropConf, Drop, local
  <2>2. \/ pc[r] = "flush" /\ pc'[r] = "flushed"
        \/ pc[r] = "rmL4" /\ pc'[r] = "mvL4"
        \/ pc[r] = "mvL4" /\ pc'[r] = "rmMeta"
        \/ pc[r] = "rmMeta" /\ pc'[r] = "mvMeta"
        \/ pc[r] = "mvMeta" /\ pc'[r] = "finConf"
        \/ pc[r] = "finConf" /\ pc'[r] = "finClean"
        \/ pc[r] = "finClean" /\ pc'[r] = "finished"
        \/ pc[r] = "dropConf" /\ pc'[r] = "drop"
        \/ pc[r] = "drop" /\ pc'[r] = "finished"
    BY <1>3, FinMoves
  <2>3. CallAt(r)' /\ MemAt(r)'
    BY <1>1, <1>2, <2>1, <2>2 DEF CallAt, MemAt, LevelAt, Checkpointing, Exchanging, Committing,
       Finishing, Flushing, Off, Recovering
  <2> QED
    BY <1>2, <2>1, <2>3, CallLocal
<1>4. CASE RecoverStep(r)
  <2>1. \E l : Goto(r, l)
    BY <1>4 DEF RecoverStep, CleanL1, FixOwn, FixCopy, DecodeOpen, Decode, Fetch, Recover
  <2>2. \/ pc[r] \in Recovering /\ pc'[r] \in Recovering /\ loaded' = loaded
        \/ pc[r] = "restore" /\ pc'[r] = "run" /\ \E x : loaded' = [loaded EXCEPT ![r] = x]
    BY <1>1, <1>4 DEF RecoverStep, CleanL1, FixOwn, FixCopy, DecodeOpen, Decode, Fetch, Recover,
       At, Goto, Recovering, local
  <2>3. CallAt(r)' /\ MemAt(r)'
    BY <1>1, <1>2, <2>2 DEF CallAt, MemAt, Checkpointing, Exchanging, Committing, Finishing,
       Flushing, Off, Recovering
  <2>4. \A q \in Rank \ {r} : loaded'[q] = loaded[q]
    BY <1>1, <2>2
  <2> QED
    BY <1>2, <2>1, <2>3, <2>4, CallLocal
<1> QED
  BY <1>3, <1>4

\* The collectives of FTI_Checkpoint and FTI_Finalize ...
LEMMA CallCollective ==
  ASSUME TypeInv, OrderInv, CallInv,
         \/ WriteSync \/ PostSync \/ RenameSync \/ FlushSync \/ FinSync
         \/ \E p \in Proc, l \in {2, 3}, bad \in SUBSET Node : Exchange(p, l, bad)
  PROVE  CallInv'
<1>1. UNCHANGED <<calls, call, mem, loaded>>
  BY DEF WriteSync, PostSync, RenameSync, FlushSync, FinSync, Exchange, local
<1>2. ASSUME NEW r \in Rank PROVE CallAt(r)' /\ MemAt(r)'
  <2>1. CallAt(r) /\ MemAt(r) /\ LevelAt(r) /\ lvel \in [Rank -> Level] /\ pc \in [Rank -> Where]
    BY DEF CallInv, OrderInv, TypeInv, ControlOK
  <2>2. CASE WriteSync
    <3>1. pc[r] = "wrote" /\ \/ pc'[r] = "meta" /\ lvel'[r] = lvel[r]
                             \/ pc'[r] = "post" /\ lvel'[r] = Rejected
      BY <2>2 DEF WriteSync, AllAt, AllGoto
    <3> QED
      BY <1>1, <2>1, <3>1 DEF CallAt, MemAt, Checkpointing, Exchanging, Committing, Finishing,
         Flushing, Off, Recovering
  <2>3. CASE PostSync
    <3>1. pc[r] = "posted" /\ pc'[r] \in {"clean", "discard"} /\ lvel'[r] = lvel[r]
      BY <2>3 DEF PostSync, AllAt, AllGoto, local
    <3> QED
      BY <1>1, <2>1, <3>1 DEF CallAt, MemAt, Checkpointing, Exchanging, Committing, Finishing,
         Flushing, Off, Recovering
  <2>4. CASE RenameSync
    <3>1. pc[r] = "renamed" /\ pc'[r] = "return" /\ lvel'[r] = lvel[r]
      BY <2>4 DEF RenameSync, AllAt, AllGoto, local
    <3> QED
      BY <1>1, <2>1, <3>1 DEF CallAt, MemAt, LevelAt, Rejected, Checkpointing, Exchanging, Committing,
         Finishing, Flushing, Off, Recovering
  <2>5. CASE FlushSync
    <3>1. pc[r] = "flushed" /\ pc'[r] = (IF r = Root THEN "rmL4" ELSE "finClean") /\ lvel'[r] = lvel[r]
      BY <2>5 DEF FlushSync, AllAt, local
    <3> QED
      BY <1>1, <2>1, <3>1 DEF CallAt, MemAt, LevelAt, Checkpointing, Exchanging, Committing,
         Finishing, Flushing, Off, Recovering
  <2>6. CASE FinSync
    <3>1. pc[r] = "finished" /\ pc'[r] = "done" /\ lvel'[r] = lvel[r]
      BY <2>6 DEF FinSync, AllAt, AllGoto, local
    <3> QED
      BY <1>1, <2>1, <3>1 DEF CallAt, MemAt, Checkpointing, Exchanging, Committing, Finishing,
         Flushing, Off, Recovering
  <2>7. ASSUME NEW p \in Proc, NEW l \in {2, 3}, NEW bad \in SUBSET Node, Exchange(p, l, bad)
        PROVE  CallAt(r)' /\ MemAt(r)'
    <3>1. r[2] = p => r \in Group(p)
      BY RankParts DEF Group, Rank
    <3>2. lvel'[r] = lvel[r] /\ \/ pc'[r] = pc[r]
                                \/ pc[r] = "post" /\ pc'[r] = "posted"
      BY <2>7, <3>1 DEF Exchange, At
    <3> QED
      BY <1>1, <2>1, <3>2 DEF CallAt, MemAt, Checkpointing, Exchanging, Committing, Finishing,
         Flushing, Off, Recovering
  <2> QED
    BY <2>2, <2>3, <2>4, <2>5, <2>6, <2>7
<1> QED
  BY <1>1, <1>2 DEF CallInv

\* ... and those of recovery, a crash and a relaunch.
LEMMA CallBoot ==
  ASSUME TypeInv, CallInv,
         \/ BootFresh \/ BootRecover \/ SkipLevel \/ TryLocal \/ TryGlobal \/ CheckGlobal \/ RecoverSync
         \/ Environment
  PROVE  CallInv'
<1>1. calls' = calls
  BY DEF BootFresh, BootRecover, SkipLevel, TryLocal, TryGlobal, CheckGlobal, RecoverSync,
         Environment, Relaunch, Crash
<1>2. ASSUME NEW r \in Rank PROVE CallAt(r)' /\ MemAt(r)'
  <2>1. MemAt(r)
    BY DEF CallInv
  <2>2. ASSUME pc[r] \in Off, pc'[r] \in Off \cup {"run", "restore"}, loaded' = loaded,
               pc'[r] \in Off => mem'[r] = mem[r] /\ lvel'[r] \in {lvel[r], 0}
        PROVE  CallAt(r)' /\ MemAt(r)'
    BY <2>1, <2>2 DEF CallAt, MemAt, Checkpointing, Exchanging, Committing, Finishing, Flushing, Off, Recovering
  <2> USE DEF AllGoto, AllAt, local, Off, Recovering
  <2>3. CASE BootFresh
    BY <2>2, <2>3 DEF BootFresh
  <2>4. CASE BootRecover
    BY <2>2, <2>4 DEF BootRecover
  <2>5. CASE SkipLevel
    BY <2>2, <2>5 DEF SkipLevel, NextLevel, NotRecovered
  <2>6. CASE TryLocal
    BY <2>2, <2>6 DEF TryLocal, Check, RecoverEntry
  <2>7. CASE TryGlobal
    BY <2>2, <2>7 DEF TryGlobal
  <2>8. CASE CheckGlobal
    BY <2>2, <2>8 DEF CheckGlobal, Check, RecoverEntry
  <2>9. CASE RecoverSync
    <3>1. CASE \E q \in Rank : res[q] # 0
      BY <2>2, <2>9, <3>1 DEF RecoverSync, NextLevel, NotRecovered
    <3>2. CASE ~\E q \in Rank : res[q] # 0
      BY <2>2, <2>9, <3>2 DEF RecoverSync
    <3> QED
      BY <3>1, <3>2
  <2>10. CASE Environment
    <3>1. pc'[r] = "down" /\ mem'[r].id = 0 /\ lvel'[r] = 0 /\ loaded'[r] = NoCall
      BY <2>10 DEF Environment, Relaunch, Crash, Reset
    <3> QED
      BY <3>1 DEF CallAt, MemAt, Checkpointing, Exchanging, Committing, Finishing, Flushing
  <2> HIDE DEF AllGoto, AllAt, local, Off, Recovering
  <2> QED
    BY <2>3, <2>4, <2>5, <2>6, <2>7, <2>8, <2>9, <2>10
<1> QED
  BY <1>1, <1>2 DEF CallInv

\* CallInv is inductive, in the presence of the others.
LEMMA CallStep ==
  ASSUME TypeInv, OrderInv, IdsInv, CallInv, [Next]_vars
  PROVE  CallInv'
<1>1. CASE UNCHANGED vars
  BY <1>1 DEF vars, local, CallInv, CallAt, MemAt, NodeFlag
<1> QED
  BY <1>1, CallApp, CallCkpt, CallFinRecover, CallCollective, CallBoot DEF Next, Sync, Ended

(***************************************************************************)
(* The metadata of the groups.                                             *)
(***************************************************************************)

\* Removing a level's metadata removes that of every group.
LEMMA MetaKept ==
  ASSUME MetaInv, \A l \in 1 .. 4 : meta'[l] = meta[l] \/ meta'[l] = NoMeta,
         pc'[Root] = "renamed" => /\ pc[Root] = "renamed" /\ UNCHANGED meta
                                  /\ lvel'[Root] = lvel[Root] /\ call'[Root] = call[Root]
  PROVE  MetaInv'
<1>1. \A l \in 1 .. 4, p, q \in Proc : meta'[l][p] = meta'[l][q]
  BY DEF MetaInv, NoMeta
<1>2. pc'[Root] = "renamed" => \A p \in Proc : meta'[lvel'[Root]][p] = call'[Root]
  BY DEF MetaInv
<1> QED
  BY <1>1, <1>2 DEF MetaInv

LEMMA MetaClean ==
  ASSUME NEW r, NEW L, CleanLevels(r, L)
  PROVE  /\ \A l \in 1 .. 4 : meta'[l] = meta[l] \/ meta'[l] = NoMeta
         /\ TypeInv /\ r # Root => UNCHANGED meta
<1>1. \A l \in 1 .. 4 : meta'[l] = meta[l] \/ meta'[l] = NoMeta
  BY DEF CleanLevels
<1>2. TypeInv /\ r # Root => UNCHANGED meta
  <2> SUFFICES ASSUME TypeInv, r # Root PROVE UNCHANGED meta
    OBVIOUS
  <2>1. meta = [l \in 1 .. 4 |-> meta[l]]
    BY DEF TypeInv, ControlOK
  <2>2. meta' = [l \in 1 .. 4 |-> meta[l]]
    BY DEF CleanLevels
  <2> QED
    BY <2>1, <2>2
<1> QED
  BY <1>1, <1>2

LEMMA MetaCkpt ==
  ASSUME TypeInv, OrderInv, MetaInv, NEW r \in Rank, CkptStep(r)
  PROVE  MetaInv'
<1>1. pc'[Root] = "renamed" => pc[Root] \in {"renamed", "renameMeta"}
  BY RankParts, CkptMoves DEF Root, NodeFlag
<1>2. CASE RenameMeta(r)
  <2>1. r = Root /\ lvel[Root] \in 1 .. 4 /\ pc[Root] = "renameMeta"
    BY <1>2, RankParts DEF OrderInv, LevelAt, RenameMeta, At, Committing
  <2>2. \A p \in Proc : mtmp[p] = call[Root]
    BY <2>1 DEF OrderInv, Staged, Replaceable
  <2>3. meta' = [meta EXCEPT ![lvel[Root]] = mtmp] /\ UNCHANGED <<lvel, call>>
    BY <1>2, <2>1 DEF RenameMeta, local
  <2>4. \A l \in 1 .. 4 : meta'[l] = IF l = lvel[Root] THEN mtmp ELSE meta[l]
    BY <2>1, <2>3 DEF TypeInv, ControlOK
  <2> QED
    BY <2>1, <2>2, <2>3, <2>4 DEF MetaInv
<1>3. CASE Clean(r)
  <2>1. pc'[Root] # "renamed" \/ (pc[Root] = "renamed" /\ r # Root)
    <3>1. CASE r = Root
      <4>1. NodeFlag(Root)
        BY DEF NodeFlag, Root
      <4> QED
        BY <1>3, <3>1, <4>1 DEF Clean, Goto, TypeInv, ControlOK
    <3>2. CASE r # Root
      BY <3>2, CkptMoves, RankParts
    <3> QED
      BY <3>1, <3>2
  <2> QED
    BY <1>3, <2>1, MetaKept, MetaClean DEF Clean, local
<1>4. ASSUME UNCHANGED meta, ~RenameMeta(r), ~Clean(r) PROVE MetaInv'
  <2>1. pc'[Root] = "renamed" => pc[Root] = "renamed"
    <3> SUFFICES ASSUME pc[Root] = "renameMeta", pc'[Root] = "renamed" PROVE FALSE
      BY <1>1
    <3>1. r = Root
      BY RankParts, CkptMoves
    <3> QED
      BY <1>4, <3>1 DEF CkptStep, Write, CreateMetadata, PostLocal, Discard, Rename, RenameGlobal, Return, At
  <2>2. pc[Root] = "renamed" => lvel'[Root] = lvel[Root] /\ call'[Root] = call[Root]
    <3>1. UNCHANGED call
      BY DEF CkptStep, Write, CreateMetadata, PostLocal, Discard, Clean, Rename, RenameGlobal,
             RenameMeta, Return, local
    <3>2. pc[Root] = "renamed" => r # Root
      BY CkptMoves
    <3>3. r # Root => lvel'[Root] = lvel[Root]
      BY RankParts DEF CkptStep, Write, CreateMetadata, PostLocal, Discard, Clean, Rename, RenameGlobal,
             RenameMeta, Return, local, TypeInv, ControlOK
    <3> QED
      BY <3>1, <3>2, <3>3
  <2> QED
    BY <1>4, <2>1, <2>2, MetaKept
<1>5. RenameMeta(r) \/ Clean(r) \/ UNCHANGED meta
  BY DEF CkptStep, Write, CreateMetadata, PostLocal, Discard, Rename, RenameGlobal, Return
<1> QED
  BY <1>2, <1>3, <1>4, <1>5

LEMMA MetaFinRecover ==
  ASSUME TypeInv, OrderInv, MetaInv, NEW r \in Rank, FinStep(r) \/ RecoverStep(r)
  PROVE  MetaInv'
<1>1. /\ pc'[Root] = "renamed" => pc[Root] = "renamed"
      /\ pc[Root] = "renamed" => r # Root
  BY RankParts, FinMoves, RecoverMoves
<1>2. UNCHANGED <<lvel, call>>
  BY DEF FinStep, Flush, FinRemoveL4, FinRenameL4, FinRemoveMeta, FinRenameMeta, FinUpdateConf,
         FinClean, DropConf, Drop, RecoverStep, CleanL1, FixOwn, FixCopy, DecodeOpen, Decode,
         Fetch, Recover, local
<1>3. ASSUME UNCHANGED meta PROVE MetaInv'
  BY <1>1, <1>2, <1>3, MetaKept
<1>4. ASSUME NEW L, CleanLevels(r, L) PROVE MetaInv'
  BY <1>1, <1>2, <1>4, MetaKept, MetaClean
<1>5. ASSUME FinRemoveMeta(r) \/ FinRenameMeta(r) PROVE MetaInv'
  <2>1. pc'[Root] # "renamed"
    <3> SUFFICES ASSUME pc[Root] = "renamed" PROVE FALSE
      BY <1>1
    <3>1. pc[r] \in Ahead /\ pc[Root] \in Committing
      BY <1>5 DEF FinRemoveMeta, FinRenameMeta, At, Ahead, Finishing, Committing
    <3> QED
      BY <3>1, RankParts, WhereAll DEF TypeInv, Together, Ahead, Finishing, Committing
  <2>2. CASE FinRemoveMeta(r)
    <3>1. \A l \in 1 .. 4 : meta'[l] = meta[l] \/ meta'[l] = NoMeta
      BY <2>2 DEF FinRemoveMeta, TypeInv, ControlOK
    <3> QED
      BY <2>1, <3>1, MetaKept
  <2>3. CASE FinRenameMeta(r)
    <3>1. CASE lvel[r] \in 1 .. 3
      <4>1. meta' = [meta EXCEPT ![4] = meta[lvel[r]], ![lvel[r]] = NoMeta]
        BY <2>3, <3>1 DEF FinRenameMeta
      <4>2. \A l \in 1 .. 4 : meta'[l] = IF l = lvel[r] THEN NoMeta
                                         ELSE IF l = 4 THEN meta[lvel[r]] ELSE meta[l]
        BY <3>1, <4>1 DEF TypeInv, ControlOK
      <4>3. lvel[r] \in 1 .. 4
        BY <3>1
      <4>4. \A l \in 1 .. 4, p, q \in Proc : meta'[l][p] = meta'[l][q]
        BY <4>2, <4>3 DEF MetaInv, NoMeta
      <4> QED
        BY <2>1, <4>4 DEF MetaInv
    <3>2. CASE lvel[r] \notin 1 .. 3
      BY <1>3, <2>3, <3>2 DEF FinRenameMeta
    <3> QED
      BY <3>1, <3>2
  <2> QED
    BY <1>5, <2>2, <2>3
<1>6. CASE FinStep(r)
  BY <1>3, <1>4, <1>5, <1>6 DEF FinStep, Flush, FinRemoveL4, FinRenameL4, FinUpdateConf, FinClean, DropConf, Drop
<1>7. CASE RecoverStep(r)
  BY <1>3, <1>4, <1>7 DEF RecoverStep, CleanL1, FixOwn, FixCopy, DecodeOpen, Decode, Fetch, Recover
<1> QED
  BY <1>6, <1>7

\* MetaInv is inductive, in the presence of the others.
LEMMA MetaStep ==
  ASSUME TypeInv, OrderInv, MetaInv, [Next]_vars
  PROVE  MetaInv'
<1>1. CASE UNCHANGED vars
  BY <1>1, MetaKept DEF vars, local
<1>2. ASSUME NEW r \in Rank, AppStep(r) PROVE MetaInv'
  <2>1. PICK c, id, l : Enter(r, c, id, l) /\ pc[r] = "run"
    BY <1>2 DEF AppStep, Follow, Issue, At
  <2>2. /\ \A q \in Rank \ {r} : pc'[q] = pc[q] /\ call'[q] = call[q] /\ lvel'[q] = lvel[q]
        /\ pc'[r] # "renamed" /\ UNCHANGED meta
    BY <2>1 DEF Enter, Goto, TypeInv, ControlOK, FinalizeEntry
  <2> QED
    BY <2>2, MetaKept, RankParts
<1>3. CASE WriteSync \/ PostSync \/ RenameSync \/ FlushSync \/ FinSync
  <2>1. pc'[Root] # "renamed" /\ UNCHANGED meta
    BY <1>3, RankParts DEF WriteSync, PostSync, RenameSync, FlushSync, FinSync, AllGoto
  <2> QED
    BY <2>1, MetaKept
<1>4. ASSUME NEW p \in Proc, NEW l \in {2, 3}, NEW bad \in SUBSET Node, Exchange(p, l, bad)
      PROVE  MetaInv'
  <2>1. (pc'[Root] = "renamed" => pc[Root] = "renamed") /\ UNCHANGED <<meta, lvel, call>>
    BY <1>4, RankParts DEF Exchange
  <2> QED
    BY <2>1, MetaKept
<1>5. CASE BootFresh
  <2>1. pc'[Root] # "renamed" /\ \A l \in 1 .. 4 : meta'[l] = NoMeta
    BY <1>5, RankParts DEF BootFresh, AllGoto
  <2> QED
    BY <2>1, MetaKept
<1>6. CASE BootRecover \/ SkipLevel \/ TryLocal \/ TryGlobal \/ CheckGlobal \/ RecoverSync
  <2>1. pc'[Root] # "renamed" /\ UNCHANGED meta
    BY <1>6, RankParts DEF BootRecover, SkipLevel, TryLocal, TryGlobal, CheckGlobal, RecoverSync, NextLevel,
       NotRecovered, Check, RecoverEntry, AllGoto
  <2> QED
    BY <2>1, MetaKept
<1>7. CASE Environment
  <2>1. pc'[Root] # "renamed" /\ UNCHANGED meta
    BY <1>7, RankParts DEF Environment, Relaunch, Crash, Reset
  <2> QED
    BY <2>1, MetaKept
<1> QED
  BY <1>1, <1>2, <1>3, <1>4, <1>5, <1>6, <1>7, MetaCkpt, MetaFinRecover DEF Next, Sync, Ended

(***************************************************************************)
(* Recovery.                                                               *)
(***************************************************************************)

\* A file expected of a process is missing where FTI_CheckErasures says so.
LEMMA Missing ==
  ASSUME NEW l \in 1 .. 4, NEW r \in Rank, NEW k \in Kinds(l)
  PROVE  Expected(k, r, l) \in Erasures(r[2], l) <=> Expected(k, r, l) \notin Place(l, r[1])
<1>1. r \in Group(r[2])
  BY RankParts DEF Group, Rank
<1>2. Expected(k, r, l).rank = r
  BY HoldingParts DEF Expected
<1>3. CASE l = 1
  BY <1>1, <1>2, <1>3 DEF Erasures, Kinds, Place, Intact
<1>4. CASE l = 2
  BY <1>1, <1>2, <1>4 DEF Erasures, Kinds, Place, Intact
<1>5. CASE l = 3
  BY <1>1, <1>2, <1>5 DEF Erasures, Kinds, Place, Intact
<1>6. CASE l = 4
  BY <1>1, <1>2, <1>6 DEF Erasures, Kinds, Place, Intact
<1> QED
  BY <1>3, <1>4, <1>5, <1>6

\* Nothing is missing of a group exactly where every process has its files.
LEMMA NothingMissing ==
  ASSUME NEW l \in 1 .. 4, NEW p \in Proc
  PROVE  Erasures(p, l) = {} <=>
           \A r \in Group(p) : Files(r, meta[l][p], l) \subseteq Place(l, r[1])
<1>1. \A r \in Group(p) : r \in Rank /\ r[2] = p
  BY DEF Group, Rank
<1>2. \A r \in Group(p), k \in Kinds(l) :
        /\ Expected(k, r, l) = Holding(k, r, meta[l][p])
        /\ Expected(k, r, l) \in Erasures(p, l) <=> Expected(k, r, l) \notin Place(l, r[1])
  BY <1>1, Missing DEF Expected
<1>3. \A f \in Erasures(p, l) : \E r \in Group(p), k \in Kinds(l) : f = Expected(k, r, l)
  <2>1. CASE l = 1
    BY <2>1 DEF Erasures, Kinds
  <2>2. CASE l = 2
    BY <2>2 DEF Erasures, Kinds
  <2>3. CASE l = 3
    BY <2>3 DEF Erasures, Kinds
  <2>4. CASE l = 4
    BY <2>4 DEF Erasures, Kinds
  <2> QED
    BY <2>1, <2>2, <2>3, <2>4
<1>4. Erasures(p, l) = {} <=>
        \A r \in Group(p), k \in Kinds(l) : Expected(k, r, l) \in Place(l, r[1])
  BY <1>2, <1>3
<1>5. \A r \in Group(p) : Files(r, meta[l][p], l) \subseteq Place(l, r[1])
                         <=> \A k \in Kinds(l) : Expected(k, r, l) \in Place(l, r[1])
  BY <1>2 DEF Files
<1> QED
  BY <1>4, <1>5

\* L1 and L4 have nothing to rebuild a file from.
LEMMA RecoverableWhole ==
  ASSUME NEW l \in {1, 4}, NEW E, NEW p, Recoverable(E, p, l)
  PROVE  E = {}
<1>1. CASE l = 1
  BY <1>1 DEF Recoverable
<1>2. CASE l = 4
  BY <1>2 DEF Recoverable
<1> QED
  BY <1>1, <1>2

\* Where nobody recovers, nothing has to be known of recovery.
LEMMA RepairElsewhere ==
  ASSUME \A r \in Rank : pc'[r] \notin Recovering \ {"try"}, pc'[Root] = "down" => rlevel' = 1
  PROVE  RepairInv'
<1>1. \A r \in Rank : RepairAt(r)'
  BY DEF RepairAt, Recovering
<1> QED
  BY <1>1 DEF RepairInv

\* FTI_CheckErasures and the choice of what a group has to do.
LEMMA RepairCheck ==
  ASSUME TypeInv, NEW l \in 1 .. 4, rlevel = l, Check(l), UNCHANGED <<disk, meta, rlevel>>
  PROVE  RepairInv'
<1> DEFINE E(r) == Erasures(r[2], l)
<1>1. /\ \A r \in Rank : pc'[r] = RecoverEntry(r, E(r), l)
      /\ \A r \in Rank : res'[r] = IF Recoverable(E(r), r[2], l) THEN 0 ELSE 1
      /\ \A p \in Proc : Erasures(p, l) \subseteq erased'
  BY DEF Check
<1>2. ASSUME NEW k, NEW r, NEW m PROVE Expected(k, r, m)' = Expected(k, r, m)
  BY DEF Expected
<1>3. UNCHANGED <<dir, gdir>>
  BY DEF disk
<1>4. ASSUME NEW r \in Rank PROVE RepairAt(r)' /\ pc'[r] # "down"
  <2>1. r[1] \in Node /\ r[2] \in Proc /\ LeftOf(r) \in Rank /\ LeftOf(r)[2] = r[2]
        /\ RightOf(r) \in Rank /\ RightOf(r)[1] = Right(r[1]) /\ RightOf(r)[2] = r[2]
    BY RankParts, RingType DEF LeftOf, RightOf
  <2>2. /\ E(LeftOf(r)) = E(r) /\ E(RightOf(r)) = E(r)
        /\ E(r) \subseteq erased'
    BY <1>1, <2>1
  <2>3. ASSUME NEW k \in Kinds(l), Expected(k, r, l) \notin E(r) PROVE Expected(k, r, l) \in Place(l, r[1])
    BY <2>3, Missing
  <2>4. E(r) = {} => Files(r, meta[l][r[2]], l) \subseteq Place(l, r[1])
    BY <2>3 DEF Files, Expected
  <2>5. CASE ~Recoverable(E(r), r[2], l)
    <3>1. pc'[r] = "recovered" /\ res'[r] = 1
      BY <1>1, <2>5 DEF RecoverEntry
    <3> QED
      BY <3>1 DEF RepairAt
  <2>6. CASE Recoverable(E(r), r[2], l) /\ E(r) = {} /\ l # 4
    <3>1. pc'[r] = "recovered" /\ rlevel' = l /\ meta' = meta
      BY <1>1, <2>6 DEF RecoverEntry
    <3>2. Files(r, meta[l][r[2]], l)' = Files(r, meta[l][r[2]], l) /\ Place(l, r[1])' = Place(l, r[1])
      BY <1>3, <2>6 DEF Files, Place
    <3> QED
      BY <2>4, <2>6, <3>1, <3>2 DEF RepairAt
  <2>7. CASE Recoverable(E(r), r[2], l) /\ l = 2 /\ E(r) # {}
    <3>1. pc'[r] \in {"fixOwn", "fixCopy"} /\ (pc'[r] = "fixOwn" <=> Expected("Rank", r, 2) \in E(r))
      BY <1>1, <2>7 DEF RecoverEntry
    <3>2. pc'[LeftOf(r)] \in {"fixOwn", "fixCopy"}
      BY <1>1, <2>1, <2>2, <2>7 DEF RecoverEntry
    <3>3. res'[r] = 0 /\ res'[LeftOf(r)] = 0
      BY <1>1, <2>1, <2>2, <2>7
    <3>4. "Rank" \in Kinds(2) /\ "Pcof" \in Kinds(2) /\ Place(2, r[1]) = dir[2][r[1]]
          /\ Place(2, Right(r[1])) = dir[2][Right(r[1])]
      BY DEF Kinds, Place
    <3>5. pc'[r] = "fixOwn" => Expected("Pcof", RightOf(r), 2) \in dir[2][Right(r[1])]
      <4> SUFFICES ASSUME pc'[r] = "fixOwn" PROVE Expected("Pcof", RightOf(r), 2) \in dir[2][Right(r[1])]
        OBVIOUS
      <4>1. <<r[1], r[2]>> = r
        BY DEF Rank
      <4>2. Expected("Pcof", RightOf(r), 2) \notin E(r)
        BY <2>1, <2>7, <3>1, <4>1 DEF Recoverable, RightOf
      <4>3. Expected("Pcof", RightOf(r), 2) \in Place(2, RightOf(r)[1])
        BY <2>1, <2>2, <2>7, <3>4, <4>2, Missing
      <4> QED
        BY <2>1, <3>4, <4>3
    <3>6. pc'[r] = "fixCopy" => Expected("Rank", r, 2) \in dir[2][r[1]]
      BY <2>3, <2>7, <3>1, <3>4
    <3>7. Expected("Pcof", r, 2) \notin erased' => Expected("Pcof", r, 2) \in dir[2][r[1]]
      BY <2>2, <2>3, <2>7, <3>4
    <3>8. UNCHANGED <<dir, rlevel>>
      BY <1>3
    <3> HIDE DEF E
    <3> QED
      BY <1>2, <2>7, <3>1, <3>2, <3>3, <3>5, <3>6, <3>7, <3>8 DEF RepairAt
  <2>8. CASE Recoverable(E(r), r[2], l) /\ l = 3 /\ E(r) # {}
    <3>1. pc'[r] = "decodeOpen" /\ rlevel' = 3
      BY <1>1, <2>8 DEF RecoverEntry
    <3> QED
      BY <3>1 DEF RepairAt
  <2>9. CASE Recoverable(E(r), r[2], l) /\ l \in {1, 4} /\ (E(r) # {} \/ l = 4)
    <3>1. l = 4 /\ E(r) = {}
      BY <2>9, RecoverableWhole
    <3>2. pc'[r] = "fetch" /\ res'[r] = 0 /\ rlevel' = 4
      BY <1>1, <2>9, <3>1 DEF RecoverEntry
    <3>3. "Rank" \in Kinds(4) /\ Place(4, r[1]) = gdir
      BY DEF Kinds, Place
    <3>4. Expected("Rank", r, 4) \in gdir
      BY <2>3, <3>1, <3>3
    <3> QED
      BY <1>2, <1>3, <3>2, <3>4 DEF RepairAt
  <2> QED
    BY <2>5, <2>6, <2>7, <2>8, <2>9
<1> QED
  BY <1>4, RankParts DEF RepairInv

\* The step of another process leaves a process with what it relies on.
LEMMA RepairKept ==
  ASSUME RepairInv, NEW q \in Rank, NEW r \in Rank \ {q},
         \A x \in Rank \ {r} : pc'[x] = pc[x], UNCHANGED <<res, meta, rlevel, erased, gdir>>,
         \A l \in 1 .. 3, n \in Node : \A f \in dir[l][n] : f.rank # r => f \in dir'[l][n],
         Expected("Pcof", r, 2) \in dir[2][r[1]] => Expected("Pcof", r, 2) \in dir'[2][r[1]],
         pc[r] \in {"fixOwn", "fixCopy"} => pc'[r] \in {"fixCopy", "recovered"},
         pc[r] \in {"cleanL1", "cleanedL1"} => pc'[r] \in {"cleanL1", "cleanedL1"},
         pc[r] # "recovered", TypeInv
  PROVE  RepairAt(q)'
<1>1. /\ pc'[q] = pc[q] /\ RepairAt(q)
      /\ q[1] \in Node /\ q[2] \in Proc /\ LeftOf(q) \in Rank
      /\ LeftOf(q) # r => pc'[LeftOf(q)] = pc[LeftOf(q)]
      /\ RightOf(q) \in Rank /\ RightOf(q)[1] = Right(q[1])
      /\ Right(q[1]) \in Node /\ 1 \in 1 .. 3 /\ 2 \in 1 .. 3 /\ 3 \in 1 .. 3
      /\ rlevel \in 1 .. 4
  <2>1. q[1] \in Node /\ q[2] \in Proc
    BY RankParts
  <2>2. Left(q[1]) \in Node /\ Right(q[1]) \in Node
    BY <2>1, RingType
  <2>3. LeftOf(q) \in Rank /\ RightOf(q) \in Rank /\ RightOf(q)[1] = Right(q[1])
    BY <2>1, <2>2, RankParts DEF LeftOf, RightOf
  <2>4. pc'[q] = pc[q] /\ (LeftOf(q) # r => pc'[LeftOf(q)] = pc[LeftOf(q)])
    BY <2>3
  <2>5. RepairAt(q) /\ rlevel \in 1 .. 4
    BY DEF RepairInv, TypeInv, ControlOK
  <2> QED
    BY <2>1, <2>2, <2>3, <2>4, <2>5
<1>2. ASSUME NEW k, NEW x, NEW m
      PROVE  /\ Expected(k, x, m)' = Expected(k, x, m)
             /\ Expected(k, x, m).kind = k /\ Expected(k, x, m).rank = x
  BY HoldingParts DEF Expected
<1>3. pc[q] = "recovered" /\ res[q] = 0 =>
        (Files(q, meta[rlevel][q[2]], rlevel) \subseteq Place(rlevel, q[1]))'
  <2> SUFFICES ASSUME pc[q] = "recovered", res[q] = 0
               PROVE  (Files(q, meta[rlevel][q[2]], rlevel) \subseteq Place(rlevel, q[1]))'
    OBVIOUS
  <2>1. Files(q, meta[rlevel][q[2]], rlevel) \subseteq Place(rlevel, q[1])
    BY <1>1 DEF RepairAt
  <2>2. \A f \in Files(q, meta[rlevel][q[2]], rlevel) : f.rank = q
    BY HoldingParts DEF Files
  <2>3. Files(q, meta[rlevel][q[2]], rlevel)' = Files(q, meta[rlevel][q[2]], rlevel)
    BY DEF Files
  <2>4. CASE rlevel = 4
    BY <2>1, <2>3, <2>4 DEF Place
  <2>5. CASE rlevel \in 1 .. 3
    <3>1. \A f \in dir[rlevel][q[1]] : f.rank = q => f \in dir'[rlevel][q[1]]
      BY <1>1, <2>5
    <3>2. Place(rlevel, q[1]) = dir[rlevel][q[1]] /\ Place(rlevel, q[1])' = dir'[rlevel][q[1]]
      BY <2>5 DEF Place
    <3> QED
      BY <2>1, <2>2, <2>3, <3>1, <3>2
  <2> QED
    BY <1>1, <2>4, <2>5
<1>4. /\ Expected("Rank", q, 4) \in dir[1][q[1]] => Expected("Rank", q, 4) \in dir'[1][q[1]]
      /\ Expected("Rank", q, 2) \in dir[2][q[1]] => Expected("Rank", q, 2) \in dir'[2][q[1]]
      /\ Expected("Pcof", q, 2) \in dir[2][q[1]] => Expected("Pcof", q, 2) \in dir'[2][q[1]]
      /\ Expected("Pcof", RightOf(q), 2) \in dir[2][Right(q[1])]
           => Expected("Pcof", RightOf(q), 2) \in dir'[2][Right(q[1])]
  BY <1>1, <1>2
<1>5. /\ pc[q] \in {"fixOwn", "fixCopy"} => rlevel' = 2
      /\ pc[q] \in {"decodeOpen", "decode"} => rlevel' = 3
      /\ pc[q] \in {"cleanL1", "cleanedL1"} => \A x \in Rank : pc'[x] \in {"cleanL1", "cleanedL1"}
      /\ pc[q] = "fetch" => rlevel' = 4 /\ res'[q] = 0 /\ Expected("Rank", q, 4)' \in gdir'
  BY <1>1, <1>2 DEF RepairAt
<1>6. pc[q] \in {"fixOwn", "fixCopy"} =>
        /\ res'[q] = 0
        /\ res'[LeftOf(q)] = 0 /\ pc'[LeftOf(q)] \in {"fixOwn", "fixCopy", "recovered"}
        /\ Expected("Pcof", q, 2)' \notin erased' => Expected("Pcof", q, 2)' \in dir'[2][q[1]]
  BY <1>1, <1>2, <1>4 DEF RepairAt
<1> QED
  BY <1>1, <1>2, <1>3, <1>4, <1>5, <1>6 DEF RepairAt

\* The files of one process and one node are replaced.
LEMMA DirAt ==
  ASSUME TypeInv, NEW l \in 1 .. 3, NEW n \in Node, NEW S, dir' = [dir EXCEPT ![l][n] = S]
  PROVE  dir'[l][n] = S
<1>1. dir \in [1 .. 3 -> [Node -> SUBSET File]]
  BY DEF TypeInv, FilesOK
<1> QED
  BY <1>1

LEMMA DirPut ==
  ASSUME TypeInv, NEW l \in 1 .. 3, NEW r \in Rank, NEW S, dir' = [dir EXCEPT ![l][r[1]] = S],
         \A f \in dir[l][r[1]] : f.rank # r \/ f = Expected("Pcof", r, 2) => f \in S
  PROVE  /\ dir'[l][r[1]] = S
         /\ \A m \in 1 .. 3 : m # l => dir'[m] = dir[m]
         /\ \A n \in Node : n # r[1] => dir'[l][n] = dir[l][n]
         /\ \A m \in 1 .. 3, n \in Node : \A f \in dir[m][n] : f.rank # r => f \in dir'[m][n]
         /\ Expected("Pcof", r, 2) \in dir[2][r[1]] => Expected("Pcof", r, 2) \in dir'[2][r[1]]
<1>1. r[1] \in Node /\ dir \in [1 .. 3 -> [Node -> SUBSET File]]
  BY RankParts DEF TypeInv, FilesOK
<1>2. \A m \in 1 .. 3, n \in Node : dir'[m][n] = IF m = l /\ n = r[1] THEN S ELSE dir[m][n]
  BY <1>1
<1>3. \A m \in 1 .. 3 : m # l => dir'[m] = dir[m]
  BY <1>1
<1> QED
  BY <1>1, <1>2, <1>3

\* FTI_RecoverL2, FTI_Decode and FTI_RecoverL4Posix leave a process with its files.
LEMMA RepairRecover ==
  ASSUME TypeInv, Names, RepairInv, NEW r \in Rank, RecoverStep(r), pc[r] # "restore"
  PROVE  RepairInv'
<1>1. /\ RepairAt(r) /\ r[1] \in Node /\ r[2] \in Proc /\ LeftOf(r) \in Rank /\ RightOf(r) \in Rank
      /\ LeftOf(r)[1] = Left(r[1]) /\ LeftOf(r)[2] = r[2]
      /\ RightOf(r)[1] = Right(r[1]) /\ RightOf(r)[2] = r[2]
      /\ Left(r[1]) \in Node /\ Right(r[1]) \in Node
      /\ 1 \in 1 .. 3 /\ 2 \in 1 .. 3 /\ 3 \in 1 .. 3
      /\ pc[r] \in Recovering
  BY RankParts, RingType, RecoverMoves DEF LeftOf, RightOf, RepairInv, Recovering
<1>2. /\ \A q \in Rank \ {r} : pc'[q] = pc[q]
      /\ pc'[Root] # "down"
      /\ \/ pc[r] = "cleanL1" /\ pc'[r] = "cleanedL1"
         \/ pc[r] = "fixOwn" /\ pc'[r] = "fixCopy"
         \/ pc[r] = "decodeOpen" /\ pc'[r] = "decode"
         \/ pc[r] \in {"fixCopy", "decode", "fetch"} /\ pc'[r] = "recovered"
  <2>1. pc[Root] # "down"
    BY <1>1, RankParts, WhereAll DEF TypeInv, Together, Recovering
  <2> QED
    BY <1>1, <2>1, RecoverMoves, RankParts DEF Recovering
<1>3. UNCHANGED <<res, meta, rlevel, erased, gdir>> \/ CleanL1(r)
  BY <1>1 DEF RecoverStep, FixOwn, FixCopy, DecodeOpen, Decode, Fetch, Recover, local, recov, At, Recovering
<1>4. ASSUME NEW k, NEW x, NEW m
      PROVE  /\ Expected(k, x, m).kind = k /\ Expected(k, x, m).rank = x
             /\ Expected(k, x, m) = Holding(k, x, meta[m][x[2]])
             /\ UNCHANGED meta => Expected(k, x, m)' = Expected(k, x, m)
  BY HoldingParts DEF Expected
<1>5. CASE CleanL1(r)
  <2>1. pc[r] = "cleanL1" /\ pc'[r] = "cleanedL1"
    BY <1>2, <1>5 DEF CleanL1, At
  <2>2. \A q \in Rank : pc'[q] \in {"cleanL1", "cleanedL1"}
    BY <1>1, <1>2, <2>1 DEF RepairAt
  <2>3. \A q \in Rank : RepairAt(q)'
    BY <2>2 DEF RepairAt
  <2> QED
    BY <1>2, <2>3 DEF RepairInv
<1>6. ASSUME NEW l \in 1 .. 3, NEW S, dir' = [dir EXCEPT ![l][r[1]] = S], ~CleanL1(r), pc[r] # "cleanL1",
             \A f \in dir[l][r[1]] : f.rank # r \/ f = Expected("Pcof", r, 2) => f \in S,
             RepairAt(r)'
      PROVE  RepairInv'
  <2>1. \A q \in Rank \ {r} : RepairAt(q)'
    BY <1>2, <1>3, <1>6, DirPut, RepairKept
  <2> QED
    BY <1>2, <1>6, <2>1 DEF RepairInv
<1>7. CASE FixOwn(r)
  <2> DEFINE copy == Content(dir[2][Right(r[1])], "Pcof", <<Right(r[1]), r[2]>>, calls[meta[2][r[2]]].id)
             f == Expected("Rank", r, 2)
             S == Put(dir[2][r[1]], f)
  <2>1. pc[r] = "fixOwn" /\ pc'[r] = "fixCopy" /\ rlevel = 2
    BY <1>1, <1>2, <1>7 DEF FixOwn, At, RepairAt
  <2>2. UNCHANGED <<res, meta, rlevel, erased, gdir>>
    BY <1>7 DEF FixOwn, local, recov
  <2>3. copy = meta[2][r[2]]
    <3>1. Holding("Pcof", RightOf(r), meta[2][r[2]]) \in dir[2][Right(r[1])]
      BY <1>1, <1>4, <2>1 DEF RepairAt
    <3>2. NamesOK(dir[2][Right(r[1])])
      BY <1>1 DEF Names
    <3> QED
      BY <3>1, <3>2, ContentIs DEF RightOf
  <2>4. dir' = [dir EXCEPT ![2][r[1]] = S]
    <3>1. dir' = [dir EXCEPT ![2][r[1]] = Put(dir[2][r[1]], Holding("Rank", r, copy))]
      BY <1>7 DEF FixOwn
    <3>2. Holding("Rank", r, copy) = f
      BY <1>4, <2>3
    <3> QED
      BY <3>1, <3>2
  <2>5. /\ f \in S
        /\ \A g \in dir[2][r[1]] : g.rank # r \/ g = Expected("Pcof", r, 2) => g \in S
    BY <1>4, PutFiles
  <2>6. f' = f
    BY <1>4, <2>2
  <2> HIDE DEF f, S, copy
  <2>7. dir'[2][r[1]] = S /\ Expected("Pcof", r, 2)' = Expected("Pcof", r, 2)
    <3>1. dir'[2][r[1]] = S
      BY <1>1, <2>4, DirAt
    <3> QED
      BY <1>4, <2>2, <3>1
  <2>8. /\ pc'[LeftOf(r)] \in {"fixOwn", "fixCopy", "recovered"} /\ res'[r] = 0 /\ res'[LeftOf(r)] = 0
        /\ Expected("Pcof", r, 2) \notin erased' => Expected("Pcof", r, 2) \in dir'[2][r[1]]
    BY <1>1, <1>2, <1>4, <2>1, <2>2, <2>5, <2>7 DEF RepairAt
  <2>9. Expected("Rank", r, 2)' \in dir'[2][r[1]]
    BY <2>5, <2>6, <2>7 DEF f
  <2>10. RepairAt(r)'
    BY <2>1, <2>2, <2>7, <2>8, <2>9 DEF RepairAt
  <2>11. ~CleanL1(r)
    BY <2>1 DEF CleanL1, At
  <2> QED
    BY <1>1, <1>6, <2>1, <2>4, <2>5, <2>10, <2>11
<1>8. CASE FixCopy(r)
  <2> DEFINE orig == Content(dir[2][Left(r[1])], "Rank", <<Left(r[1]), r[2]>>, calls[meta[2][r[2]]].id)
             f == Expected("Pcof", r, 2)
             S == IF f \in erased THEN Put(dir[2][r[1]], f) ELSE dir[2][r[1]]
  <2>1. pc[r] = "fixCopy" /\ pc'[r] = "recovered" /\ rlevel = 2 /\ pc[LeftOf(r)] # "fixOwn"
    BY <1>1, <1>2, <1>8 DEF FixCopy, At, RepairAt, LeftOf
  <2>2. UNCHANGED <<res, meta, rlevel, erased, gdir>>
    BY <1>8 DEF FixCopy, local, recov
  <2>3. orig = meta[2][r[2]]
    <3>1. Holding("Rank", LeftOf(r), meta[2][r[2]]) \in dir[2][Left(r[1])]
      <4>1. RepairAt(LeftOf(r)) /\ res[LeftOf(r)] = 0 /\ pc[LeftOf(r)] \in {"fixCopy", "recovered"}
        BY <1>1, <2>1 DEF RepairInv, RepairAt
      <4>2. "Rank" \in Kinds(2) /\ Place(2, Left(r[1])) = dir[2][Left(r[1])]
        BY DEF Kinds, Place
      <4>3. CASE pc[LeftOf(r)] = "fixCopy"
        BY <1>1, <1>4, <4>1, <4>3 DEF RepairAt
      <4>4. CASE pc[LeftOf(r)] = "recovered"
        BY <1>1, <2>1, <4>1, <4>2, <4>4 DEF RepairAt, Files
      <4> QED
        BY <4>1, <4>3, <4>4
    <3>2. NamesOK(dir[2][Left(r[1])])
      BY <1>1 DEF Names
    <3> QED
      BY <3>1, <3>2, ContentIs DEF LeftOf
  <2>4. dir' = [dir EXCEPT ![2][r[1]] = S]
    <3>1. dir = [dir EXCEPT ![2][r[1]] = dir[2][r[1]]]
      BY <1>1 DEF TypeInv, FilesOK
    <3>2. Holding("Pcof", r, orig) = f
      BY <1>4, <2>3
    <3>3. dir' = IF f \in erased THEN [dir EXCEPT ![2][r[1]] = Put(dir[2][r[1]], Holding("Pcof", r, orig))]
                 ELSE dir
      BY <1>8 DEF FixCopy
    <3> HIDE DEF f, orig
    <3> QED
      BY <3>1, <3>2, <3>3
  <2>5. \A g \in dir[2][r[1]] : g.rank # r \/ g.kind = "Rank" => g \in S
    BY <1>4, PutFiles
  <2>6. f \in S /\ Expected("Rank", r, 2) \in S
    <3>1. f \notin erased => f \in dir[2][r[1]]
      BY <1>1, <2>1 DEF RepairAt
    <3>2. Expected("Rank", r, 2) \in dir[2][r[1]]
      BY <1>1, <2>1 DEF RepairAt
    <3>3. f \in Put(dir[2][r[1]], f)
      BY PutFiles
    <3> QED
      BY <1>4, <2>5, <3>1, <3>2, <3>3
  <2>12. \A g \in dir[2][r[1]] : g.rank # r \/ g = Expected("Pcof", r, 2) => g \in S
    BY <2>5, <2>6
  <2> HIDE DEF S, orig
  <2>7. dir'[2][r[1]] = S
    BY <1>1, <2>4, DirAt
  <2>8. Files(r, meta[2][r[2]], 2) = {Expected("Rank", r, 2), Expected("Pcof", r, 2)}
    BY <1>4 DEF Files, Kinds
  <2>9. /\ Files(r, meta[2][r[2]], 2)' = Files(r, meta[2][r[2]], 2)
        /\ Place(2, r[1])' = dir'[2][r[1]]
    BY <2>2 DEF Files, Place
  <2>10. RepairAt(r)'
    BY <2>1, <2>2, <2>6, <2>7, <2>8, <2>9 DEF RepairAt
  <2>11. ~CleanL1(r)
    BY <2>1 DEF CleanL1, At
  <2> QED
    BY <1>1, <1>6, <2>1, <2>4, <2>12, <2>10, <2>11
<1>9. CASE DecodeOpen(r)
  <2> DEFINE S == IF r \in Short THEN Without(dir[3][r[1]], Expected("Rank", r, 3)) ELSE dir[3][r[1]]
  <2>1. pc[r] = "decodeOpen" /\ pc'[r] = "decode" /\ rlevel = 3 /\ rlevel' = 3
    BY <1>1, <1>2, <1>9 DEF DecodeOpen, At, RepairAt, recov
  <2>2. dir' = [dir EXCEPT ![3][r[1]] = S]
    <3>1. dir = [dir EXCEPT ![3][r[1]] = dir[3][r[1]]]
      BY <1>1 DEF TypeInv, FilesOK
    <3> QED
      BY <1>9, <3>1 DEF DecodeOpen
  <2>3. \A g \in dir[3][r[1]] : g.rank # r \/ g = Expected("Pcof", r, 2) => g \in S
    BY <1>4, PutFiles
  <2>4. RepairAt(r)'
    BY <2>1 DEF RepairAt
  <2>5. ~CleanL1(r)
    BY <2>1 DEF CleanL1, At
  <2> HIDE DEF S
  <2> QED
    BY <1>1, <1>6, <2>1, <2>2, <2>3, <2>4, <2>5
<1>10. CASE Decode(r)
  <2> DEFINE A == Expected("Rank", r, 3)
             B == Expected("RSed", r, 3)
             R == Put(dir[3][r[1]], A)
             S == Put(R, B)
  <2>1. pc[r] = "decode" /\ pc'[r] = "recovered" /\ rlevel = 3
    BY <1>1, <1>2, <1>10 DEF Decode, At, RepairAt
  <2>2. UNCHANGED <<meta, rlevel>> /\ dir' = [dir EXCEPT ![3][r[1]] = S]
    BY <1>10 DEF Decode, recov
  <2>3. A.kind = "Rank" /\ B.kind = "RSed" /\ A.rank = r /\ B.rank = r
    BY <1>4
  <2> HIDE DEF A, B
  <2>4. A \in R /\ B \in S
    BY PutFiles
  <2>5. \A g \in dir[3][r[1]] : g.rank # r \/ g = Expected("Pcof", r, 2) => g \in R
    BY <1>4, <2>3, PutFiles
  <2> HIDE DEF R
  <2>6. A \in S /\ \A g \in dir[3][r[1]] : g.rank # r \/ g = Expected("Pcof", r, 2) => g \in S
    BY <1>4, <2>3, <2>4, <2>5, PutFiles
  <2> HIDE DEF S
  <2>7. dir'[3][r[1]] = S
    BY <1>1, <2>2, DirAt
  <2>8. Files(r, meta[3][r[2]], 3) = {A, B}
    BY <1>4 DEF Files, Kinds, A, B
  <2>9. /\ Files(r, meta[3][r[2]], 3)' = Files(r, meta[3][r[2]], 3)
        /\ Place(3, r[1])' = dir'[3][r[1]]
    BY <2>2 DEF Files, Place
  <2>10. RepairAt(r)'
    BY <2>1, <2>2, <2>4, <2>6, <2>7, <2>8, <2>9 DEF RepairAt
  <2>11. ~CleanL1(r)
    BY <2>1 DEF CleanL1, At
  <2> QED
    BY <1>1, <1>6, <2>1, <2>2, <2>6, <2>10, <2>11
<1>11. CASE Fetch(r)
  <2> DEFINE A == Expected("Rank", r, 4)
             S == Put(dir[1][r[1]], A)
  <2>1. pc[r] = "fetch" /\ pc'[r] = "recovered" /\ rlevel = 4 /\ A \in gdir
    BY <1>1, <1>2, <1>11 DEF Fetch, At, RepairAt
  <2>2. UNCHANGED <<meta, rlevel, gdir>> /\ dir' = [dir EXCEPT ![1][r[1]] = S]
    BY <1>11 DEF Fetch, recov
  <2>3. A' = A /\ A.rank = r /\ A.kind = "Rank"
    BY <1>4, <2>2
  <2> HIDE DEF A
  <2>4. A \in S /\ \A g \in dir[1][r[1]] : g.rank # r \/ g = Expected("Pcof", r, 2) => g \in S
    BY <1>4, <2>3, PutFiles
  <2> HIDE DEF S
  <2>5. dir'[1][r[1]] = S
    BY <1>1, <2>2, DirAt
  <2>6. Files(r, meta[4][r[2]], 4) = {A}
    BY <1>4 DEF Files, Kinds, A
  <2>7. /\ Files(r, meta[4][r[2]], 4)' = Files(r, meta[4][r[2]], 4)
        /\ Place(4, r[1])' = gdir'
        /\ Expected("Rank", r, 4)' = A
    BY <2>2, <2>3 DEF Files, Place, A
  <2>8. RepairAt(r)'
    BY <2>1, <2>2, <2>4, <2>5, <2>6, <2>7 DEF RepairAt
  <2>9. ~CleanL1(r)
    BY <2>1 DEF CleanL1, At
  <2> QED
    BY <1>1, <1>6, <2>1, <2>2, <2>4, <2>8, <2>9
<1> QED
  BY <1>5, <1>7, <1>8, <1>9, <1>10, <1>11 DEF RecoverStep, Recover, At

\* RepairInv is inductive, in the presence of the others.
LEMMA RepairStep ==
  ASSUME TypeInv, Names, RepairInv, [Next]_vars
  PROVE  RepairInv'
<1>1. CASE UNCHANGED vars
  <2>1. \A r \in Rank : RepairAt(r)'
    BY <1>1 DEF vars, local, recov, disk, RepairInv, RepairAt, Expected, Files, Place
  <2> QED
    BY <1>1, <2>1 DEF vars, recov, RepairInv
<1>2. ASSUME NEW r \in Rank, pc[r] \notin Recovering,
             \A q \in Rank \ {r} : pc'[q] = pc[q], pc'[r] \notin Recovering,
             pc'[r] # "down", UNCHANGED rlevel
      PROVE  RepairInv'
  <2>1. \A q \in Rank : pc[q] \notin Recovering
    BY <1>2, WhereAll DEF TypeInv, Together
  <2> QED
    BY <1>2, <2>1, RepairElsewhere, RankParts DEF RepairInv
<1>3. ASSUME NEW r \in Rank, AppStep(r) PROVE RepairInv'
  <2>1. PICK c, id, l : Enter(r, c, id, l) /\ pc[r] = "run"
    BY <1>3 DEF AppStep, Follow, Issue, At
  <2>2. /\ \A q \in Rank \ {r} : pc'[q] = pc[q]
        /\ pc'[r] \notin Recovering /\ pc'[r] # "down" /\ UNCHANGED rlevel
    BY <2>1 DEF Enter, Goto, TypeInv, ControlOK, FinalizeEntry, Recovering, recov
  <2> QED
    BY <1>2, <2>1, <2>2 DEF Recovering
<1>4. ASSUME NEW r \in Rank, CkptStep(r) PROVE RepairInv'
  <2>1. UNCHANGED rlevel
    BY <1>4 DEF CkptStep, Write, CreateMetadata, PostLocal, Discard, Clean, Rename, RenameGlobal,
           RenameMeta, Return, recov
  <2> QED
    BY <1>2, <1>4, <2>1, CkptMoves DEF Recovering
<1>5. ASSUME NEW r \in Rank, FinStep(r) PROVE RepairInv'
  <2>1. UNCHANGED rlevel
    BY <1>5 DEF FinStep, Flush, FinRemoveL4, FinRenameL4, FinRemoveMeta, FinRenameMeta, FinUpdateConf,
         FinClean, DropConf, Drop, recov
  <2> QED
    BY <1>2, <1>5, <2>1, FinMoves DEF Recovering
<1>6. ASSUME NEW r \in Rank, RecoverStep(r), pc[r] = "restore" PROVE RepairInv'
  <2>1. UNCHANGED rlevel
    BY <1>6 DEF RecoverStep, CleanL1, FixOwn, FixCopy, DecodeOpen, Decode, Fetch, Recover, recov
  <2> QED
    BY <1>2, <1>6, <2>1, RecoverMoves DEF Recovering
<1>7. CASE WriteSync \/ PostSync \/ RenameSync \/ FlushSync \/ FinSync
  <2>1. \A r \in Rank : pc'[r] \notin Recovering \cup {"down"}
    BY <1>7 DEF WriteSync, PostSync, RenameSync, FlushSync, FinSync, AllGoto, Recovering
  <2> QED
    BY <2>1, RepairElsewhere, RankParts
<1>8. ASSUME NEW p \in Proc, NEW l \in {2, 3}, NEW bad \in SUBSET Node, Exchange(p, l, bad)
      PROVE  RepairInv'
  <2>1. <<0, p>> \in Group(p) /\ <<0, p>> \in Rank
    BY RankParts, SizesAssumption DEF Group, Node
  <2>2. pc[<<0, p>>] = "post"
    BY <1>8, <2>1 DEF Exchange, At
  <2>3. \A r \in Rank : pc[r] \in Exchanging
    BY <2>1, <2>2, WhereAll DEF TypeInv, Together, Exchanging
  <2>4. \A r \in Rank : pc'[r] \in Exchanging
    BY <1>8, <2>3 DEF Exchange, Exchanging
  <2> QED
    BY <2>4, RepairElsewhere, RankParts DEF Exchanging, Recovering
<1>9. CASE BootFresh
  BY <1>9, RepairElsewhere, RankParts DEF BootFresh, AllGoto, Recovering
<1>10. CASE BootRecover
  BY <1>10, RepairElsewhere, RankParts DEF BootRecover, AllGoto
<1>11. ASSUME NextLevel PROVE RepairInv'
  <2>1. \A r \in Rank : pc'[r] \in {"run", "try"}
    BY <1>11 DEF NextLevel, NotRecovered, AllGoto
  <2> QED
    BY <2>1, RepairElsewhere, RankParts DEF Recovering
<1>12. CASE SkipLevel
  BY <1>11, <1>12 DEF SkipLevel
<1>13. CASE TryLocal
  BY <1>13, RepairCheck DEF TryLocal, TypeInv, ControlOK
<1>14. CASE TryGlobal
  <2>1. \A r \in Rank : RepairAt(r)' /\ pc'[r] # "down"
    BY <1>14 DEF TryGlobal, AllGoto, RepairAt
  <2> QED
    BY <2>1, RankParts DEF RepairInv
<1>15. CASE CheckGlobal
  <2>1. rlevel = 4
    BY <1>15, RankParts DEF CheckGlobal, AllAt, TypeInv, Checked
  <2> QED
    BY <1>15, <2>1, RepairCheck DEF CheckGlobal
<1>16. CASE RecoverSync
  <2>1. CASE \E q \in Rank : res[q] # 0
    BY <1>11, <1>16, <2>1 DEF RecoverSync
  <2>2. CASE ~\E q \in Rank : res[q] # 0
    <3>1. \A r \in Rank : pc'[r] = "restore"
      BY <1>16, <2>2 DEF RecoverSync, AllGoto
    <3> QED
      BY <3>1, RepairElsewhere, RankParts DEF Recovering
  <2> QED
    BY <2>1, <2>2
<1>17. CASE Environment
  <2>1. \A r \in Rank : pc'[r] = "down"
    BY <1>17 DEF Environment, Relaunch, Crash, Reset
  <2>2. rlevel' = 1
    BY <1>17 DEF Environment, Relaunch, Crash, Reset
  <2> QED
    BY <2>1, <2>2, RepairElsewhere DEF Recovering
<1> QED
  BY <1>1, <1>3, <1>4, <1>5, <1>6, <1>7, <1>8, <1>9, <1>10, <1>12, <1>13, <1>14, <1>15, <1>16, <1>17,
     RepairRecover DEF Next, Sync, Ended

(***************************************************************************)
(* The files of a checkpoint on their way to their level.                  *)
(***************************************************************************)

\* Processes that commit do so at the same level.
LEMMA SameLevel ==
  ASSUME TypeInv, OrderInv, CallInv, NEW q \in Rank, pc[q] \in Committing
  PROVE  \A r \in Rank : pc[r] \in Committing /\ lvel[r] = lvel[q] /\ lvel[r] \in 1 .. 4 /\ call[r] = call[q]
<1>1. \A r \in Rank : pc[r] \in Committing /\ call[r] = Len(calls)
  BY WhereAll DEF TypeInv, Together
<1>2. \A r \in Rank : lvel[r] \in 1 .. 4
  BY <1>1 DEF OrderInv, LevelAt
<1>3. \A r \in Rank : lvel[r] = calls[Len(calls)].lvl
  BY <1>1, <1>2 DEF CallInv, CallAt, Checkpointing, Rejected
<1> QED
  BY <1>1, <1>2, <1>3

\* While a process is in FTI_Finalize no other is in FTI_Checkpoint, but to come
\* back from it.
LEMMA FinAlone ==
  ASSUME TypeInv, CallInv, NEW r \in Rank, pc[r] \in Finishing
  PROVE  \A q \in Rank : pc[q] \notin {"write", "wrote"} \cup Exchanging \cup Committing
<1>1. Apart /\ call[r] = Len(calls)
  BY WhereAll DEF TypeInv, Apart, Ahead, Behind, Finishing
<1>2. calls[Len(calls)].lvl = Finalize
  BY <1>1 DEF CallInv, CallAt
<1> SUFFICES ASSUME NEW q \in Rank, pc[q] \in {"write", "wrote"} \cup Exchanging \cup Committing PROVE FALSE
  OBVIOUS
<1>3. pc[q] \in {"write", "wrote"} /\ call[q] = Len(calls)
  BY <1>1 DEF Apart, Behind, Ahead, Finishing, Exchanging, Committing
<1> QED
  BY <1>2, <1>3 DEF CallInv, CallAt, Checkpointing

\* Nothing is known of a process outside FTI_Checkpoint.
LEMMA WrittenOutside ==
  ASSUME NEW q, pc'[q] \notin {"wrote"} \cup Exchanging \cup Committing
  PROVE  WrittenAt(q)'
BY DEF WrittenAt, Exchanging

\* Where nobody commits, a process needs what it has written.
LEMMA WrittenAside ==
  ASSUME NEW q \in Rank, WrittenAt(q), pc'[q] = pc[q], call'[q] = call[q], lvel'[q] = lvel[q], res'[q] = res[q],
         pc[q] \notin Committing,
         \A f \in Aside(lvel[q], q[1]) : f.rank = q => f \in Aside(lvel[q], q[1])'
  PROVE  WrittenAt(q)'
<1>1. Files(q, call[q], lvel[q])' = Files(q, call[q], lvel[q])
  BY DEF Files
<1>2. \A f \in Files(q, call[q], lvel[q]) : f.rank = q
  BY HoldingParts DEF Files
<1>3. Holding("Rank", q, call[q]).rank = q
  BY HoldingParts
<1> QED
  BY <1>1, <1>2, <1>3 DEF WrittenAt

\* A step that leaves the directories alone.
LEMMA WrittenSame ==
  ASSUME NEW q \in Rank, WrittenAt(q), pc'[q] = pc[q], call'[q] = call[q], lvel'[q] = lvel[q], res'[q] = res[q],
         UNCHANGED disk, pc[q] \in Committing => Moved(q)' = Moved(q)
  PROVE  WrittenAt(q)'
BY DEF WrittenAt, Files, Aside, Place, disk

\* The files of others in a directory for temporary files.
LEMMA AsideOthers ==
  ASSUME TypeInv, NEW r \in Rank, NEW q \in Rank \ {r}, NEW l, NEW f, f.rank = r,
         \/ tmp' \in {[tmp EXCEPT ![r[1]] = Put(tmp[r[1]], f)], [tmp EXCEPT ![r[1]] = Without(tmp[r[1]], f)]}
            /\ UNCHANGED gtmp
         \/ gtmp' \in {Put(gtmp, f), Without(gtmp, f)} /\ UNCHANGED tmp
  PROVE  \A g \in Aside(l, q[1]) : g.rank = q => g \in Aside(l, q[1])'
<1>1. /\ \A g \in tmp[r[1]] : g.rank = q => g \in Put(tmp[r[1]], f) /\ g \in Without(tmp[r[1]], f)
      /\ \A g \in gtmp : g.rank = q => g \in Put(gtmp, f) /\ g \in Without(gtmp, f)
  BY PutFiles
<1>2. q[1] \in Node /\ r[1] \in Node /\ tmp \in [Node -> SUBSET File]
  BY RankParts DEF TypeInv, FilesOK
<1>3. (\A g \in tmp[q[1]] : g.rank = q => g \in tmp'[q[1]]) /\ \A g \in gtmp : g.rank = q => g \in gtmp'
  BY <1>1, <1>2
<1> QED
  BY <1>3 DEF Aside

\* The steps of FTI_Checkpoint before the commit.
LEMMA WrittenBefore ==
  ASSUME NoRace, TypeInv, OrderInv, CallInv, Faults \subseteq {"flush"} => \A q \in Rank : Passing(q),
         \A q \in Rank : WrittenAt(q), NEW r \in Rank, CkptStep(r), pc[r] \notin Committing
  PROVE  \A q \in Rank : WrittenAt(q)'
<1>1. \A q \in Rank : pc[q] \notin Committing
  BY WhereAll DEF TypeInv, Together
<1>2. \A q \in Rank \ {r} : pc'[q] = pc[q]
  BY CkptMoves
<1>3. \A q \in Rank \ {r} : call'[q] = call[q] /\ lvel'[q] = lvel[q] /\ res'[q] = res[q]
  BY DEF CkptStep, Write, CreateMetadata, PostLocal, Discard, Clean, Rename, RenameGlobal,
         RenameMeta, Return, local, TypeInv, ControlOK
<1>4. ASSUME UNCHANGED disk PROVE \A q \in Rank \ {r} : WrittenAt(q)'
  BY <1>1, <1>2, <1>3, <1>4, WrittenSame
<1>5. ASSUME NEW bad \in BOOLEAN, Write(r, bad) PROVE \A q \in Rank : WrittenAt(q)'
  <2> DEFINE f == Holding("Rank", r, call[r])
             New(S) == IF bad THEN Without(S, f) ELSE Put(S, f)
  <2>1. /\ pc[r] = "write" /\ pc'[r] = "wrote" /\ res'[r] = (IF bad THEN 1 ELSE 0)
        /\ UNCHANGED <<call, lvel>>
        /\ IF lvel[r] = 4 THEN gtmp' = New(gtmp) /\ UNCHANGED tmp
                          ELSE tmp' = [tmp EXCEPT ![r[1]] = New(tmp[r[1]])] /\ UNCHANGED gtmp
    BY <1>5 DEF Write, At, Goto, TypeInv, ControlOK
  <2>2. f.rank = r
    BY HoldingParts
  <2>3. \A q \in Rank \ {r} : \A l : \A g \in Aside(l, q[1]) : g.rank = q => g \in Aside(l, q[1])'
    <3>1. CASE bad
      BY <2>1, <2>2, <3>1, AsideOthers
    <3>2. CASE ~bad
      BY <2>1, <2>2, <3>2, AsideOthers
    <3> QED
      BY <3>1, <3>2
  <2>4. \A q \in Rank \ {r} : WrittenAt(q)'
    BY <1>1, <1>2, <1>3, <2>3, WrittenAside
  <2>5. ~bad => f \in Aside(lvel[r], r[1])'
    <3>1. \A S : f \in Put(S, f)
      BY PutFiles
    <3>2. r[1] \in Node /\ tmp \in [Node -> SUBSET File]
      BY RankParts DEF TypeInv, FilesOK
    <3> HIDE DEF f
    <3> QED
      BY <2>1, <3>1, <3>2 DEF Aside
  <2>6. WrittenAt(r)'
    BY <2>1, <2>5 DEF WrittenAt, Exchanging, Committing, Aside
  <2> QED
    BY <2>4, <2>6
<1>6. ASSUME NEW bad \in BOOLEAN, CreateMetadata(r, bad) PROVE \A q \in Rank : WrittenAt(q)'
  <2>1. /\ pc[r] = "meta" /\ pc'[r] = "post" /\ UNCHANGED <<call, disk>>
        /\ lvel'[r] = lvel[r] \/ lvel'[r] = Rejected
    BY <1>6 DEF CreateMetadata, At, Goto, TypeInv, ControlOK
  <2>2. WrittenAt(r)'
    BY <2>1 DEF WrittenAt, Exchanging, Committing, Aside, disk
  <2> QED
    BY <1>4, <2>1, <2>2
<1>7. ASSUME NEW v \in {0, 1}, PostLocal(r, v) PROVE \A q \in Rank : WrittenAt(q)'
  <2>1. /\ pc[r] = "post" /\ pc'[r] = "posted" /\ UNCHANGED <<call, disk, lvel>> /\ res'[r] = v
        /\ lvel[r] \in {1, 4, Rejected} /\ (lvel[r] = Rejected => v # 0)
    BY <1>7 DEF PostLocal, At, Goto, TypeInv, ControlOK, NoRace
  <2>2. lvel[r] # Rejected => Files(r, call[r], lvel[r]) = {Holding("Rank", r, call[r])}
    BY <2>1 DEF Files, Kinds
  <2>3. lvel[r] # Rejected => Holding("Rank", r, call[r]) \in Aside(lvel[r], r[1])
    BY <2>1 DEF WrittenAt, Exchanging
  <2>4. /\ Aside(lvel[r], r[1])' = Aside(lvel[r], r[1])
        /\ Files(r, call[r], lvel[r])' = Files(r, call[r], lvel[r])
    BY <2>1 DEF Aside, Files, disk
  <2>5. WrittenAt(r)'
    BY <2>1, <2>2, <2>3, <2>4 DEF WrittenAt, Exchanging, Committing
  <2> QED
    BY <1>4, <2>1, <2>5
<1>8. ASSUME Discard(r) PROVE \A q \in Rank : WrittenAt(q)'
  <2>1. pc[r] = "discard" /\ pc'[r] = "run"
    BY <1>8, CkptMoves DEF Discard, At
  <2>2. K = 1 /\ 4 \notin CallLevels
    BY <2>1 DEF NoRace, Passing
  <2>3. WrittenAt(r)'
    BY <2>1, WrittenOutside DEF Exchanging, Committing
  <2>4. ASSUME NEW q \in Rank \ {r} PROVE WrittenAt(q)'
    <3>1. CASE pc[q] \notin {"wrote"} \cup Exchanging
      BY <1>1, <1>2, <3>1, WrittenOutside
    <3>2. CASE pc[q] \in {"wrote"} \cup Exchanging
      <4>1. lvel[q] # 4
        BY <2>2, <3>2 DEF CallInv, CallAt, Checkpointing, Rejected, Finalize
      <4>2. q[1] # r[1]
        <5>1. q = <<q[1], q[2]>> /\ r = <<r[1], r[2]>> /\ q[2] = 0 /\ r[2] = 0
          BY <2>2 DEF Rank, Proc
        <5> QED
          BY <5>1
      <4>3. tmp'[q[1]] = tmp[q[1]]
        BY <1>8, <4>2, RankParts DEF Discard, TypeInv, FilesOK
      <4>4. Aside(lvel[q], q[1])' = Aside(lvel[q], q[1])
        <5>1. lvel'[q] = lvel[q]
          BY <1>3
        <5> QED
          BY <4>1, <4>3, <5>1 DEF Aside
      <4> QED
        BY <1>1, <1>2, <1>3, <4>4, WrittenAside
    <3> QED
      BY <3>1, <3>2
  <2> QED
    BY <2>3, <2>4
<1>9. ASSUME Return(r) PROVE \A q \in Rank : WrittenAt(q)'
  <2>1. pc'[r] = "run"
    BY <1>9, CkptMoves DEF Return, At
  <2> QED
    BY <1>4, <1>9, <2>1, WrittenOutside DEF Return, Exchanging, Committing
<1> QED
  BY <1>5, <1>6, <1>7, <1>8, <1>9 DEF CkptStep, Clean, Rename, RenameGlobal, RenameMeta, At, Committing

\* The commit.
LEMMA WrittenCommit ==
  ASSUME TypeInv, OrderInv, CallInv, \A q \in Rank : WrittenAt(q), NEW r \in Rank, CkptStep(r),
         pc[r] \in Committing
  PROVE  \A q \in Rank : WrittenAt(q)'
<1>1. \A q \in Rank : pc[q] \in Committing /\ lvel[q] = lvel[r] /\ lvel[q] \in 1 .. 4
  BY SameLevel
<1>2. (\A q \in Rank \ {r} : pc'[q] = pc[q]) /\ pc'[r] \in Committing
  BY <1>1, CkptMoves DEF Committing
<1>3. UNCHANGED <<call, lvel>>
  BY <1>1 DEF CkptStep, Write, CreateMetadata, PostLocal, Discard, Clean, Rename, RenameGlobal,
         RenameMeta, Return, local, At, Committing
<1>4. /\ r[1] \in Node /\ Root \in Rank /\ <<r[1], 0>> \in Rank
      /\ \A q \in Rank : q[1] \in Node /\ <<q[1], 0>> \in Rank
      /\ tmp \in [Node -> SUBSET File] /\ dir \in [1 .. 3 -> [Node -> SUBSET File]]
  BY RankParts DEF TypeInv, FilesOK
<1>5. NodeFlag(r) => r = <<r[1], 0>>
  BY DEF NodeFlag, Rank
<1>6. ASSUME NEW q \in Rank,
             Files(q, call[q], lvel[q]) \subseteq
               (IF Moved(q)' THEN Place(lvel[q], q[1])' ELSE Aside(lvel[q], q[1])')
      PROVE  WrittenAt(q)'
  <2>1. pc'[q] \in Committing /\ Files(q, call[q], lvel[q])' = Files(q, call[q], lvel[q])
    BY <1>1, <1>2, <1>3 DEF Files
  <2> QED
    BY <1>6, <2>1 DEF WrittenAt, Committing, Exchanging
<1>7. \A q \in Rank : Files(q, call[q], lvel[q]) \subseteq
                        (IF Moved(q) THEN Place(lvel[q], q[1]) ELSE Aside(lvel[q], q[1]))
  BY <1>1 DEF WrittenAt
<1> DEFINE l == lvel[r]
<1>8. CASE Clean(r)
  <2>1. /\ pc[r] = "clean" /\ pc'[r] = (IF NodeFlag(r) THEN "rename" ELSE "renamed")
        /\ UNCHANGED <<tmp, gtmp>> /\ CleanLevels(r, Cleaned(l))
    BY <1>8 DEF Clean, At, Goto, TypeInv, ControlOK
  <2>2. NodeFlag(Root)
    BY DEF NodeFlag, Root
  <2> SUFFICES ASSUME NEW q \in Rank PROVE WrittenAt(q)'
    OBVIOUS
  <2>3. CASE l = 4
    <3>1. Moved(q)' <=> Moved(q)
      BY <1>1, <1>2, <1>3, <1>4, <2>1, <2>2, <2>3 DEF Moved
    <3>2. Moved(q) => gdir' = gdir
      BY <1>1, <2>1, <2>3 DEF Moved, CleanLevels
    <3>3. Place(lvel[q], q[1]) = gdir /\ Place(lvel[q], q[1])' = gdir' /\ Aside(lvel[q], q[1])' = Aside(lvel[q], q[1])
      BY <1>1, <1>3, <2>1, <2>3 DEF Place, Aside
    <3> QED
      BY <1>6, <1>7, <3>1, <3>2, <3>3
  <2>4. CASE l # 4
    <3>1. Moved(q)' <=> Moved(q)
      <4>1. NodeFlag(<<q[1], 0>>)
        BY DEF NodeFlag
      <4> QED
        BY <1>1, <1>2, <1>3, <1>4, <2>1, <2>4, <4>1 DEF Moved
    <3>2. Moved(q) => dir'[l][q[1]] = dir[l][q[1]]
      <4>1. Moved(q) => ~(NodeFlag(r) /\ q[1] = r[1])
        BY <1>1, <1>5, <2>1, <2>4 DEF Moved
      <4>2. l \in 1 .. 3
        BY <1>1, <2>4
      <4> QED
        BY <1>4, <2>1, <4>1, <4>2 DEF CleanLevels
    <3>3. /\ Place(lvel[q], q[1]) = dir[l][q[1]] /\ Place(lvel[q], q[1])' = dir'[l][q[1]]
          /\ Aside(lvel[q], q[1])' = Aside(lvel[q], q[1])
      BY <1>1, <1>3, <2>1, <2>4 DEF Place, Aside
    <3> QED
      BY <1>6, <1>7, <3>1, <3>2, <3>3
  <2> QED
    BY <2>3, <2>4
<1>9. CASE Rename(r)
  <2>1. /\ pc[r] = "rename" /\ pc'[r] \in {"renameGlobal", "renamed"} /\ (r = Root => pc'[r] = "renameGlobal")
        /\ UNCHANGED <<gtmp, gdir>>
        /\ IF l \in 1 .. 3
             THEN dir' = [dir EXCEPT ![l][r[1]] = tmp[r[1]]] /\ tmp' = [tmp EXCEPT ![r[1]] = {}]
             ELSE UNCHANGED <<dir, tmp>>
    BY <1>9 DEF Rename, At, Goto, TypeInv, ControlOK
  <2>2. r = <<r[1], 0>>
    BY <1>5, <2>1 DEF CallInv, CallAt
  <2> SUFFICES ASSUME NEW q \in Rank PROVE WrittenAt(q)'
    OBVIOUS
  <2>3. CASE l = 4
    <3>1. Moved(q)' <=> Moved(q)
      BY <1>1, <1>2, <1>3, <1>4, <2>1, <2>3 DEF Moved
    <3>2. Place(lvel[q], q[1])' = Place(lvel[q], q[1]) /\ Aside(lvel[q], q[1])' = Aside(lvel[q], q[1])
      BY <1>1, <1>3, <2>1, <2>3 DEF Place, Aside
    <3> QED
      BY <1>6, <1>7, <3>1, <3>2
  <2>4. CASE l # 4 /\ q[1] # r[1]
    <3>1. Moved(q)' <=> Moved(q)
      <4>1. <<q[1], 0>> # r
        BY <2>2, <2>4
      <4> QED
        BY <1>1, <1>2, <1>3, <1>4, <2>4, <4>1 DEF Moved
    <3>2. l \in 1 .. 3
      BY <1>1, <2>4
    <3>3. dir'[l][q[1]] = dir[l][q[1]] /\ tmp'[q[1]] = tmp[q[1]]
      <4>1. dir' = [dir EXCEPT ![l][r[1]] = tmp[r[1]]] /\ tmp' = [tmp EXCEPT ![r[1]] = {}]
        BY <2>1, <3>2
      <4>2. q[1] \in Node /\ q[1] # r[1]
        BY <1>4, <2>4
      <4> HIDE DEF l
      <4> QED
        BY <1>4, <3>2, <4>1, <4>2
    <3>4. Place(lvel[q], q[1])' = Place(lvel[q], q[1]) /\ Aside(lvel[q], q[1])' = Aside(lvel[q], q[1])
      BY <1>1, <1>3, <2>4, <3>3 DEF Place, Aside
    <3> QED
      BY <1>6, <1>7, <3>1, <3>4
  <2>5. CASE l # 4 /\ q[1] = r[1]
    <3>1. ~Moved(q) /\ Moved(q)'
      BY <1>1, <1>3, <2>1, <2>2, <2>5 DEF Moved
    <3>2. l \in 1 .. 3
      BY <1>1, <2>5
    <3>3. dir'[l][q[1]] = tmp[q[1]]
      BY <1>4, <2>1, <2>5, <3>2
    <3>4. Place(lvel[q], q[1])' = dir'[l][q[1]] /\ Aside(lvel[q], q[1]) = tmp[q[1]]
      BY <1>1, <1>3, <2>5 DEF Place, Aside
    <3> QED
      BY <1>6, <1>7, <3>1, <3>3, <3>4
  <2> QED
    BY <2>3, <2>4, <2>5
<1>10. CASE RenameGlobal(r)
  <2>1. /\ pc[r] = "renameGlobal" /\ pc'[r] = "renameMeta" /\ UNCHANGED <<tmp, dir>>
        /\ IF l = 4 THEN gdir' = gtmp /\ gtmp' = {} ELSE UNCHANGED <<gdir, gtmp>>
    BY <1>10 DEF RenameGlobal, At, Goto, TypeInv, ControlOK
  <2>2. r = Root
    BY <2>1 DEF OrderInv, LevelAt
  <2> SUFFICES ASSUME NEW q \in Rank PROVE WrittenAt(q)'
    OBVIOUS
  <2>3. CASE l = 4
    <3>1. ~Moved(q) /\ Moved(q)'
      BY <1>1, <1>3, <2>1, <2>2, <2>3 DEF Moved
    <3>2. Place(lvel[q], q[1])' = gtmp /\ Aside(lvel[q], q[1]) = gtmp
      BY <1>1, <1>3, <2>1, <2>3 DEF Place, Aside
    <3> QED
      BY <1>6, <1>7, <3>1, <3>2
  <2>4. CASE l # 4
    <3>1. Moved(q)' <=> Moved(q)
      BY <1>1, <1>2, <1>3, <1>4, <2>1, <2>4 DEF Moved
    <3>2. Place(lvel[q], q[1])' = Place(lvel[q], q[1]) /\ Aside(lvel[q], q[1])' = Aside(lvel[q], q[1])
      BY <1>1, <1>3, <2>1, <2>4 DEF Place, Aside
    <3> QED
      BY <1>6, <1>7, <3>1, <3>2
  <2> QED
    BY <2>3, <2>4
<1>11. CASE RenameMeta(r)
  <2>1. pc[r] = "renameMeta" /\ pc'[r] = "renamed" /\ UNCHANGED <<tmp, dir, gtmp, gdir>>
    BY <1>11 DEF RenameMeta, At, Goto, TypeInv, ControlOK, disk
  <2> SUFFICES ASSUME NEW q \in Rank PROVE WrittenAt(q)'
    OBVIOUS
  <2>2. Moved(q)' <=> Moved(q)
    BY <1>1, <1>2, <1>3, <1>4, <2>1 DEF Moved
  <2>3. Place(lvel[q], q[1])' = Place(lvel[q], q[1]) /\ Aside(lvel[q], q[1])' = Aside(lvel[q], q[1])
    BY <1>3, <2>1 DEF Place, Aside
  <2> QED
    BY <1>6, <1>7, <2>2, <2>3
<1> QED
  BY <1>1, <1>8, <1>9, <1>10, <1>11
  DEF CkptStep, Write, CreateMetadata, PostLocal, Discard, Return, At, Committing

\* The exchange within a group.
LEMMA WrittenExchange ==
  ASSUME TypeInv, \A q \in Rank : WrittenAt(q),
         NEW p \in Proc, NEW l \in {2, 3}, NEW bad \in SUBSET Node, Exchange(p, l, bad)
  PROVE  \A q \in Rank : WrittenAt(q)'
<1>1. <<0, p>> \in Group(p) /\ <<0, p>> \in Rank
  BY RankParts, SizesAssumption DEF Group, Node
<1>2. pc[<<0, p>>] = "post"
  BY <1>1 DEF Exchange, At
<1>3. \A q \in Rank : pc[q] \in Exchanging
  BY <1>1, <1>2, WhereAll DEF TypeInv, Together, Exchanging
<1>4. UNCHANGED <<call, lvel, gtmp>>
  BY DEF Exchange
<1> SUFFICES ASSUME NEW q \in Rank PROVE WrittenAt(q)'
  OBVIOUS
<1> DEFINE f == Encoded(q[1], p, l)
<1>5. q[1] \in Node /\ q[2] \in Proc /\ q = <<q[1], q[2]>>
  BY RankParts DEF Rank
<1>6. tmp'[q[1]] = IF q[1] \in bad THEN Without(tmp[q[1]], f) ELSE Put(tmp[q[1]], f)
  BY <1>5 DEF Exchange
<1>7. f.kind \in {"Pcof", "RSed"} /\ f.rank = <<q[1], p>>
  BY HoldingParts DEF Encoded
<1>8. CASE q[2] # p
  <2>1. pc'[q] = pc[q] /\ res'[q] = res[q] /\ pc[q] \notin Committing
    BY <1>3, <1>8 DEF Exchange, Exchanging, Committing
  <2>2. \A g \in tmp[q[1]] : g.rank = q => g \in tmp'[q[1]]
    <3>1. f.rank # q
      BY <1>5, <1>7, <1>8
    <3> HIDE DEF f
    <3> QED
      BY <1>6, <3>1, PutFiles
  <2>3. \A g \in Aside(lvel[q], q[1]) : g.rank = q => g \in Aside(lvel[q], q[1])'
    BY <1>4, <2>2 DEF Aside
  <2> QED
    BY <1>4, <2>1, <2>3, WrittenAside
<1>9. CASE q[2] = p
  <2>1. q \in Group(p)
    BY <1>5, <1>9 DEF Group
  <2>2. pc[q] = "post" /\ lvel[q] = l /\ pc'[q] = "posted" /\ (res'[q] = 0 => q[1] \notin bad)
    BY <1>9, <2>1 DEF Exchange, At
  <2>3. Holding("Rank", q, call[q]) \in tmp[q[1]]
    BY <2>2 DEF WrittenAt, Exchanging, Aside, Rejected
  <2>4. Holding("Rank", q, call[q]) \in tmp'[q[1]]
    <3>1. Holding("Rank", q, call[q]).kind # f.kind
      BY <1>7, HoldingParts
    <3> HIDE DEF f
    <3> QED
      BY <1>6, <2>3, <3>1, PutFiles
  <2>5. res'[q] = 0 => f \in tmp'[q[1]]
    <3> HIDE DEF f
    <3> QED
      BY <1>6, <2>2, PutFiles
  <2>6. Files(q, call[q], lvel[q])' = {Holding("Rank", q, call[q]), f}
    BY <1>4, <1>5, <1>9, <2>2 DEF Files, Kinds, Encoded
  <2>7. Aside(lvel[q], q[1])' = tmp'[q[1]]
    BY <1>4, <2>2 DEF Aside
  <2> HIDE DEF f
  <2> QED
    BY <1>4, <2>2, <2>4, <2>5, <2>6, <2>7 DEF WrittenAt, Exchanging, Committing
<1> QED
  BY <1>8, <1>9

\* The other collectives of FTI_Checkpoint and FTI_Finalize.
LEMMA WrittenCollective ==
  ASSUME TypeInv, \A q \in Rank : WrittenAt(q), WriteSync \/ PostSync \/ RenameSync \/ FlushSync \/ FinSync
  PROVE  \A q \in Rank : WrittenAt(q)'
<1> SUFFICES ASSUME NEW q \in Rank PROVE WrittenAt(q)'
  OBVIOUS
<1>1. UNCHANGED <<call, disk>>
  BY DEF WriteSync, PostSync, RenameSync, FlushSync, FinSync, local
<1>2. CASE WriteSync
  <2>1. pc[q] = "wrote"
    BY <1>2 DEF WriteSync, AllAt
  <2>2. CASE \A r \in Rank : res[r] = 0
    <3>1. res[q] = 0 /\ pc'[q] = "meta" /\ lvel'[q] = lvel[q]
      BY <1>2, <2>2 DEF WriteSync, AllGoto
    <3>2. Holding("Rank", q, call[q]) \in Aside(lvel[q], q[1])
      BY <2>1, <3>1 DEF WrittenAt
    <3>3. Aside(lvel[q], q[1])' = Aside(lvel[q], q[1]) /\ call'[q] = call[q]
      BY <1>1, <3>1 DEF Aside, disk
    <3> QED
      BY <3>1, <3>2, <3>3 DEF WrittenAt, Committing
  <2>3. CASE ~\A r \in Rank : res[r] = 0
    <3>1. pc'[q] = "post" /\ lvel'[q] = Rejected
      BY <1>2, <2>3 DEF WriteSync, AllGoto
    <3> QED
      BY <3>1 DEF WrittenAt, Committing
  <2> QED
    BY <2>2, <2>3
<1>3. CASE PostSync
  <2>1. pc[q] = "posted" /\ UNCHANGED <<lvel, res>>
    BY <1>3 DEF PostSync, AllAt, local
  <2>2. CASE \A r \in Rank : res[r] = 0
    <3>1. \A r \in Rank : pc'[r] = "clean"
      BY <1>3, <2>2 DEF PostSync, AllGoto
    <3>2. ~Moved(q)'
      BY <3>1, RankParts DEF Moved
    <3>3. Files(q, call[q], lvel[q]) \subseteq Aside(lvel[q], q[1])
      BY <2>1, <2>2 DEF WrittenAt
    <3>4. Files(q, call[q], lvel[q])' = Files(q, call[q], lvel[q]) /\ Aside(lvel[q], q[1])' = Aside(lvel[q], q[1])
      BY <1>1, <2>1 DEF Files, Aside, disk
    <3> QED
      BY <3>1, <3>2, <3>3, <3>4 DEF WrittenAt, Exchanging, Committing
  <2>3. CASE ~\A r \in Rank : res[r] = 0
    <3>1. pc'[q] = "discard"
      BY <1>3, <2>3 DEF PostSync, AllGoto
    <3> QED
      BY <3>1, WrittenOutside DEF Exchanging, Committing
  <2> QED
    BY <2>2, <2>3
<1>4. CASE RenameSync \/ FlushSync \/ FinSync
  <2>1. pc'[q] \in {"return", "rmL4", "finClean", "done"}
    BY <1>4 DEF RenameSync, FlushSync, FinSync, AllGoto
  <2> QED
    BY <2>1, WrittenOutside DEF Exchanging, Committing
<1> QED
  BY <1>2, <1>3, <1>4

\* What is written stays written until it is in its place.
LEMMA WrittenStep ==
  ASSUME NoRace, TypeInv, OrderInv, CallInv, Faults \subseteq {"flush"} => \A q \in Rank : Passing(q),
         \A q \in Rank : WrittenAt(q), [Next]_vars
  PROVE  \A q \in Rank : WrittenAt(q)'
<1>1. CASE UNCHANGED vars
  BY <1>1, WrittenSame DEF vars, local, Moved
<1>2. ASSUME NEW r \in Rank, AppStep(r) PROVE \A q \in Rank : WrittenAt(q)'
  <2>1. PICK c, id, l : Enter(r, c, id, l) /\ pc[r] = "run"
    BY <1>2 DEF AppStep, Follow, Issue, At
  <2>2. /\ \A q \in Rank \ {r} : pc'[q] = pc[q] /\ call'[q] = call[q] /\ lvel'[q] = lvel[q] /\ res'[q] = res[q]
        /\ pc'[r] \notin {"wrote"} \cup Exchanging \cup Committing /\ UNCHANGED disk
    BY <2>1 DEF Enter, Goto, TypeInv, ControlOK, FinalizeEntry, Exchanging, Committing
  <2>3. \A q \in Rank : pc[q] \notin Committing
    BY <2>1, WhereAll DEF TypeInv, Together, Committing
  <2> QED
    BY <2>2, <2>3, WrittenSame, WrittenOutside
<1>3. ASSUME NEW r \in Rank, FinStep(r) PROVE \A q \in Rank : WrittenAt(q)'
  <2>1. pc[r] \in Finishing /\ pc'[r] \in Finishing
    BY <1>3, FinMoves DEF Finishing
  <2>2. \A q \in Rank : pc[q] \notin {"wrote"} \cup Exchanging \cup Committing
    BY <2>1, FinAlone
  <2>3. \A q \in Rank : pc'[q] \notin {"wrote"} \cup Exchanging \cup Committing
    BY <1>3, <2>1, <2>2, FinMoves DEF Finishing, Exchanging, Committing
  <2> QED
    BY <2>3, WrittenOutside
<1>4. ASSUME NEW r \in Rank, RecoverStep(r) PROVE \A q \in Rank : WrittenAt(q)'
  <2>1. CASE pc[r] = "restore"
    <3>1. UNCHANGED <<disk, call, lvel, res>>
      BY <1>4, <2>1 DEF RecoverStep, CleanL1, FixOwn, FixCopy, DecodeOpen, Decode, Fetch, Recover, At
    <3>2. \A q \in Rank : pc[q] \notin Committing
      BY <2>1, WhereAll DEF TypeInv, Together, Committing
    <3>3. pc'[r] \notin {"wrote"} \cup Exchanging \cup Committing /\ \A q \in Rank \ {r} : pc'[q] = pc[q]
      BY <1>4, <2>1, RecoverMoves DEF Exchanging, Committing
    <3> QED
      BY <3>1, <3>2, <3>3, WrittenSame, WrittenOutside
  <2>2. CASE pc[r] # "restore"
    <3>1. pc[r] \in Recovering /\ pc'[r] \in Recovering /\ \A q \in Rank \ {r} : pc'[q] = pc[q]
      BY <1>4, <2>2, RecoverMoves DEF Recovering
    <3>2. \A q \in Rank : pc'[q] \in Recovering
      BY <3>1, WhereAll DEF TypeInv, Together
    <3> QED
      BY <3>2, WrittenOutside DEF Recovering, Exchanging, Committing
  <2> QED
    BY <2>1, <2>2
<1>5. CASE BootFresh \/ BootRecover \/ SkipLevel \/ TryLocal \/ TryGlobal \/ CheckGlobal \/ RecoverSync
  <2>1. \A q \in Rank : pc'[q] \in Recovering \cup {"run", "restore"}
    BY <1>5 DEF BootFresh, BootRecover, SkipLevel, TryLocal, TryGlobal, CheckGlobal, RecoverSync, NextLevel,
       NotRecovered, Check, RecoverEntry, AllGoto, Recovering
  <2> QED
    BY <2>1, WrittenOutside DEF Recovering, Exchanging, Committing
<1>6. CASE Environment
  <2>1. \A q \in Rank : pc'[q] = "down"
    BY <1>6 DEF Environment, Relaunch, Crash, Reset
  <2> QED
    BY <2>1, WrittenOutside DEF Exchanging, Committing
<1> QED
  BY <1>1, <1>2, <1>3, <1>4, <1>5, <1>6, WrittenBefore, WrittenCommit, WrittenExchange, WrittenCollective
  DEF Next, Sync, Ended

(***************************************************************************)
(* Completed checkpoints.                                                  *)
(***************************************************************************)

\* A checkpoint is stored where every group's metadata describes it and every
\* process has its files.
LEMMA StoredIs ==
  ASSUME NEW l \in 1 .. 4, NEW c
  PROVE  Stored(c, l) <=> /\ \A p \in Proc : meta[l][p] = c
                          /\ \A r \in Rank : Files(r, c, l) \subseteq Place(l, r[1])
<1>1. ASSUME \A p \in Proc : meta[l][p] = c
      PROVE  (\A p \in Proc : Erasures(p, l) = {}) <=> \A r \in Rank : Files(r, c, l) \subseteq Place(l, r[1])
  <2>1. \A p \in Proc : Erasures(p, l) = {} <=> \A r \in Group(p) : Files(r, c, l) \subseteq Place(l, r[1])
    BY <1>1, NothingMissing
  <2>2. (\A p \in Proc : \A r \in Group(p) : r \in Rank) /\ \A r \in Rank : r[2] \in Proc /\ r \in Group(r[2])
    BY RankParts DEF Group, Rank
  <2> QED
    BY <2>1, <2>2
<1> QED
  BY <1>1 DEF Stored

\* (The same, for this state and the next.)
StoredMeans ==
  \A l \in 1 .. 4 : \A c :
    Stored(c, l) <=> /\ \A p \in Proc : meta[l][p] = c
                     /\ \A r \in Rank : Files(r, c, l) \subseteq Place(l, r[1])

LEMMA StoredHere == StoredMeans
BY StoredIs DEF StoredMeans

LEMMA StoredNext == StoredMeans'
BY StoredHere, PTL

\* It is still stored where a step leaves its level what it has.
LEMMA StoredKept ==
  ASSUME NEW l \in 1 .. 4, NEW c, Stored(c, l), Untouched(l)
  PROVE  Stored(c, l)'
<1>1. /\ \A p \in Proc : meta[l][p] = c
      /\ \A r \in Rank : Files(r, c, l) \subseteq Place(l, r[1])
  BY StoredIs
<1>2. (\A p \in Proc : meta'[l][p] = c) /\ \A r \in Rank : Files(r, c, l) \subseteq Place(l, r[1])'
  BY <1>1, RankParts DEF Untouched
<1>3. \A r \in Rank : Files(r, c, l)' = Files(r, c, l)
  BY DEF Files
<1> QED
  BY <1>2, <1>3, StoredNext DEF StoredMeans

\* Whatever leaves the directories of the levels and the metadata alone.
LEMMA UntouchedFrame ==
  ASSUME UNCHANGED <<dir, gdir, meta>>, NEW l
  PROVE  Untouched(l)
BY DEF Untouched, Place

\* FTI_Clean, at another level; splitRank 0 alone empties L4.
LEMMA UntouchedClean ==
  ASSUME NEW l \in 1 .. 4, NEW r \in Rank, NEW L, CleanLevels(r, L),
         l \notin L \/ (l = 4 /\ r # Root)
  PROVE  Untouched(l)
<1>1. meta'[l] = meta[l]
  BY DEF CleanLevels
<1>2. ASSUME NEW n \in Node PROVE Place(l, n)' = Place(l, n)
  <2>1. CASE l = 4
    BY <2>1 DEF CleanLevels, Place
  <2>2. CASE l # 4
    BY <2>2 DEF CleanLevels, Place
  <2> QED
    BY <2>1, <2>2
<1> QED
  BY <1>1, <1>2 DEF Untouched

\* One file more, or another directory of the level.
LEMMA UntouchedDir ==
  ASSUME TypeInv, NEW l \in 1 .. 4, NEW k \in 1 .. 3, NEW n \in Node, NEW S,
         dir' = [dir EXCEPT ![k][n] = S], UNCHANGED <<gdir, meta>>, k # l
  PROVE  Untouched(l)
<1>1. \A m \in 1 .. 3 : m # k => dir'[m] = dir[m]
  BY DEF TypeInv, FilesOK
<1> QED
  BY <1>1 DEF Untouched, Place

(***************************************************************************)
(* Levels being replaced.                                                  *)
(***************************************************************************)

Renaming == {"rename", "renameGlobal", "renameMeta", "renamed"}
Removing == {"finConf", "finClean", "finished"}

BusyMeans ==
  \A r \in Rank :
    /\ pc[r] \in Renaming => Busy(r) = IF lvel[r] > 4 THEN 3 ELSE lvel[r]
    /\ pc[r] \in Removing \/ (pc[r] = "drop" /\ r # Root) => Busy(r) = IF mem[r].last = 4 THEN 3 ELSE 4
    /\ pc[r] \in {"rmL4", "mvL4", "rmMeta", "mvMeta", "dropConf"} => Busy(r) = 4
    /\ pc[r] = "drop" /\ r = Root => Busy(r) = 4
    /\ pc[r] \notin Renaming \cup (Finishing \ {"flush", "flushed"}) => Busy(r) = 0

LEMMA BusyHere == BusyMeans
BY DEF BusyMeans, Busy, Replacing, Renaming, Removing, Finishing

LEMMA BusyNext == BusyMeans'
BY BusyHere, PTL

\* In a crash the levels being replaced count as torn.
LEMMA BusyTorn ==
  ASSUME NEW r \in Rank
  PROVE  Busy(r) = Replacing(lvel[r], r) \/ (Replacing(lvel[r], r) = 4 /\ Busy(r) \in {3, 4})
BY DEF Busy, Replacing

\* What the steps of one process leave alone.
LEMMA AppLeaves ==
  ASSUME TypeInv, NEW r \in Rank, AppStep(r)
  PROVE  /\ UNCHANGED <<conf, disk, mtmp, meta, res, recov, history>>
         /\ pc[r] = "run"
         /\ \E l : Goto(r, l)
         /\ \A q \in Rank \ {r} : pc'[q] = pc[q] /\ lvel'[q] = lvel[q] /\ mem'[q] = mem[q]
         /\ \/ pc'[r] = "write" /\ mem'[r].last = mem[r].last
            \/ pc'[r] = FinalizeEntry(r) /\ UNCHANGED <<lvel, mem>>
         /\ Len(calls) <= Len(calls') /\ \A i \in 1 .. Len(calls) : calls'[i] = calls[i]
<1>0. /\ pc \in [Rank -> Where] /\ lvel \in [Rank -> Level]
      /\ mem \in [Rank -> [last : Level, id : Nat, cnt : Nat, first : BOOLEAN]]
      /\ calls \in Seq([id : Nat, lvl : 0 .. 4])
  BY DEF TypeInv, ControlOK
<1>1. PICK c, id, l : Enter(r, c, id, l)
  BY DEF AppStep, Follow, Issue
<1>2. pc[r] = "run" /\ (calls' = calls \/ \E e : calls' = Append(calls, e))
  BY DEF AppStep, Follow, Issue, At
<1>3. Len(calls) <= Len(calls') /\ \A i \in 1 .. Len(calls) : calls'[i] = calls[i]
  BY <1>0, <1>2
<1>4. UNCHANGED <<conf, disk, mtmp, meta, res, recov, history>>
  BY <1>1 DEF Enter
<1>5. CASE l = Finalize
  BY <1>0, <1>1, <1>2, <1>3, <1>4, <1>5 DEF Enter, Goto
<1>6. CASE l # Finalize
  <2> DEFINE fst == (mem[r].id = 0)
  <2>1. Goto(r, "write") /\ lvel' = [lvel EXCEPT ![r] = l]
        /\ mem' = [mem EXCEPT ![r] = [[mem[r] EXCEPT !.first = fst] EXCEPT !.id = id]]
    BY <1>1, <1>6 DEF Enter
  <2> HIDE DEF fst
  <2>2. [[mem[r] EXCEPT !.first = fst] EXCEPT !.id = id].last = mem[r].last
    BY <1>0
  <2>3. mem'[r].last = mem[r].last /\ \A q \in Rank \ {r} : mem'[q] = mem[q]
    BY <1>0, <2>1, <2>2
  <2>4. pc'[r] = "write" /\ \A q \in Rank \ {r} : pc'[q] = pc[q] /\ lvel'[q] = lvel[q]
    BY <1>0, <2>1 DEF Goto
  <2> QED
    BY <1>2, <1>3, <1>4, <2>1, <2>3, <2>4
<1> QED
  BY <1>5, <1>6

LEMMA CkptLeaves ==
  ASSUME TypeInv, NEW r \in Rank, CkptStep(r)
  PROVE  /\ UNCHANGED <<calls, call, loaded, recov>>
         /\ \A q \in Rank \ {r} : lvel'[q] = lvel[q] /\ mem'[q] = mem[q]
         /\ pc[r] # "meta" => UNCHANGED lvel
         /\ pc[r] # "return" => UNCHANGED <<mem, conf, history>>
         /\ \A q \in Rank : mem'[q].id = mem[q].id
<1>0. mem \in [Rank -> [last : Level, id : Nat, cnt : Nat, first : BOOLEAN]] /\ lvel \in [Rank -> Level]
  BY DEF TypeInv, ControlOK
<1>1. CASE Return(r)
  <2>1. mem' = [mem EXCEPT ![r] = [[mem[r] EXCEPT !.last = lvel[r]] EXCEPT !.cnt = mem[r].cnt + 1]]
        /\ UNCHANGED <<calls, call, loaded, recov, lvel>> /\ pc[r] = "return"
    BY <1>1 DEF Return, At
  <2>2. [[mem[r] EXCEPT !.last = lvel[r]] EXCEPT !.cnt = mem[r].cnt + 1].id = mem[r].id
    BY <1>0
  <2>3. mem'[r].id = mem[r].id /\ \A q \in Rank \ {r} : mem'[q] = mem[q]
    BY <1>0, <2>1, <2>2
  <2> QED
    BY <2>1, <2>3
<1>2. CASE ~Return(r)
  BY <1>0, <1>2 DEF CkptStep, Write, CreateMetadata, PostLocal, Discard, Clean, Rename, RenameGlobal,
     RenameMeta, local, At
<1> QED
  BY <1>1, <1>2

LEMMA FinLeaves ==
  ASSUME NEW r \in Rank, FinStep(r)
  PROVE  /\ UNCHANGED <<calls, local, recov, mtmp, hurt, open, torn>>
         /\ pc[r] # "dropConf" => UNCHANGED acked
BY DEF FinStep, Flush, FinRemoveL4, FinRenameL4, FinRemoveMeta, FinRenameMeta, FinUpdateConf,
   FinClean, DropConf, Drop, history, disk, At

\* A process goes on to higher levels, until all have come through.
LEMMA BusyGrows ==
  ASSUME TypeInv, OrderInv, CallInv, NEW r \in Rank, AppStep(r) \/ CkptStep(r) \/ FinStep(r),
         pc[r] # "drop" \/ r # Root
  PROVE  \A q \in Rank : Busy(q) <= Busy(q)'
<1>0. BusyMeans /\ BusyMeans'
  BY BusyHere, BusyNext
<1>1. \A q \in Rank : Busy(q) \in 0 .. 4 /\ Busy(q)' \in 0 .. 4
  <2>1. \A q \in Rank : lvel[q] \in Level /\ lvel'[q] \in Level
    <3>1. TypeInv'
      BY TypeStep DEF Next
    <3> QED
      BY <3>1 DEF TypeInv, ControlOK
  <2> QED
    BY <1>0, <2>1 DEF BusyMeans, Level, Rejected, Renaming, Removing, Finishing
<1>2. ASSUME NEW q \in Rank, pc'[q] = pc[q], lvel'[q] = lvel[q], mem'[q] = mem[q]
      PROVE  Busy(q) <= Busy(q)'
  BY <1>1, <1>2 DEF Busy, Replacing
<1>3. CASE AppStep(r)
  <2>1. Busy(r) = 0
    BY <1>0, <1>3, AppLeaves DEF BusyMeans, Renaming, Finishing
  <2> QED
    BY <1>1, <1>2, <1>3, <2>1, AppLeaves
<1>4. CASE CkptStep(r)
  <2>1. Busy(r) <= Busy(r)'
    <3>1. CASE pc[r] \in {"rename", "renameGlobal", "renameMeta"}
      <4>1. pc'[r] \in Renaming /\ pc[r] \in Renaming /\ lvel'[r] = lvel[r]
        BY <1>4, <3>1, CkptMoves, CkptLeaves DEF Renaming
      <4> QED
        BY <1>0, <1>1, <4>1 DEF BusyMeans
    <3>2. CASE pc[r] \notin {"rename", "renameGlobal", "renameMeta"}
      <4>1. pc[r] \notin Renaming \cup Finishing
        BY <1>4, <3>2, CkptMoves DEF Renaming, Finishing
      <4> QED
        BY <1>0, <1>1, <4>1 DEF BusyMeans
    <3> QED
      BY <3>1, <3>2
  <2> QED
    BY <1>2, <1>4, <2>1, CkptMoves, CkptLeaves
<1>5. CASE FinStep(r)
  <2>0. UNCHANGED <<lvel, mem>>
    BY <1>5, FinLeaves DEF local
  <2>1. Busy(r) <= Busy(r)'
    <3>1. CASE pc[r] = "flush"
      BY <1>0, <1>1, <3>1 DEF BusyMeans, Renaming, Finishing
    <3>2. CASE pc[r] \in {"rmL4", "mvL4", "rmMeta"}
      <4>1. pc'[r] \in {"mvL4", "rmMeta", "mvMeta"}
        BY <1>5, <3>2, FinMoves
      <4> QED
        BY <1>0, <1>1, <4>1 DEF BusyMeans
    <3>3. CASE pc[r] = "mvMeta"
      <4>1. pc'[r] = "finConf" /\ mem'[r].last # 4
        BY <1>5, <2>0, <3>3, FinMoves DEF CallInv, MemAt, Flushing
      <4> QED
        BY <1>0, <1>1, <4>1 DEF BusyMeans, Removing
    <3>4. CASE pc[r] \in {"finConf", "finClean"}
      <4>1. pc'[r] \in Removing /\ pc[r] \in Removing
        BY <1>5, <3>4, FinMoves DEF Removing
      <4> QED
        BY <1>0, <1>1, <2>0, <4>1 DEF BusyMeans
    <3>5. CASE pc[r] = "dropConf"
      <4>1. pc'[r] = "drop" /\ r = Root
        BY <1>5, <3>5, FinMoves DEF CallInv, MemAt
      <4> QED
        BY <1>0, <1>1, <4>1 DEF BusyMeans
    <3>6. CASE pc[r] = "drop"
      <4>1. pc'[r] \in Removing
        BY <1>5, <3>6, FinMoves DEF Removing
      <4> QED
        BY <1>0, <1>1, <2>0, <3>6, <4>1 DEF BusyMeans
    <3> QED
      BY <1>5, <3>1, <3>2, <3>3, <3>4, <3>5, <3>6, FinMoves
  <2> QED
    BY <1>2, <1>5, <2>0, <2>1, FinMoves
<1> QED
  BY <1>3, <1>4, <1>5

LEMMA CalmBefore ==
  ASSUME TypeInv, OrderInv, CallInv, NEW r \in Rank, AppStep(r) \/ CkptStep(r) \/ FinStep(r),
         pc[r] # "drop" \/ r # Root, NEW l \in 1 .. 4, \A q \in Rank : Busy(q)' < l
  PROVE  Calm(l)
<1>1. \A q \in Rank : Busy(q) <= Busy(q)'
  BY BusyGrows
<1>2. \A q \in Rank : lvel[q] \in Level /\ lvel'[q] \in Level
  <2>1. TypeInv'
    BY TypeStep DEF Next
  <2> QED
    BY <2>1 DEF TypeInv, ControlOK
<1>3. \A q \in Rank : Busy(q) \in 0 .. 6 /\ Busy(q)' \in 0 .. 6
  BY <1>2, BusyHere, BusyNext DEF BusyMeans, Level, Rejected, Renaming, Removing, Finishing
<1> QED
  BY <1>1, <1>3 DEF Calm

\* A level that a process has not got to is as it was.
LEMMA UntouchedLocal ==
  ASSUME TypeInv, OrderInv, CallInv, NEW r \in Rank, AppStep(r) \/ CkptStep(r) \/ FinStep(r),
         pc[r] # "drop" \/ r # Root, NEW l \in 1 .. 4, Busy(r)' < l
  PROVE  Untouched(l)
<1>0. BusyMeans'
  BY BusyNext
<1>1. CASE AppStep(r)
  BY <1>1, AppLeaves, UntouchedFrame DEF disk
<1>2. CASE CkptStep(r)
  <2>1. CASE UNCHANGED <<dir, gdir, meta>>
    BY <2>1, UntouchedFrame
  <2>2. ASSUME pc'[r] \in Renaming, UNCHANGED lvel PROVE lvel[r] < l \/ lvel[r] > 4
    BY <1>0, <2>2 DEF BusyMeans
  <2>3. pc[r] \in Committing => lvel[r] \in 1 .. 4
    BY DEF OrderInv, LevelAt
  <2>4. CASE Clean(r)
    <3>1. pc'[r] \in Renaming /\ UNCHANGED lvel /\ pc[r] \in Committing
      BY <1>2, <2>4, CkptMoves, CkptLeaves DEF Clean, At, Renaming, Committing
    <3>2. l \notin Cleaned(lvel[r])
      BY <2>2, <2>3, <3>1 DEF Cleaned
    <3> QED
      BY <2>4, <3>2, UntouchedClean DEF Clean
  <2>5. CASE Rename(r)
    <3>1. pc'[r] \in Renaming /\ UNCHANGED lvel /\ pc[r] \in Committing
      BY <1>2, <2>5, CkptMoves, CkptLeaves DEF Rename, At, Renaming, Committing
    <3>2. lvel[r] # l /\ r[1] \in Node
      BY <2>2, <2>3, <3>1, RankParts
    <3>3. dir' = dir \/ (lvel[r] \in 1 .. 3 /\ dir' = [dir EXCEPT ![lvel[r]][r[1]] = tmp[r[1]]])
      BY <2>5 DEF Rename
    <3>4. UNCHANGED <<gdir, meta>>
      BY <2>5 DEF Rename
    <3> QED
      BY <2>1, <3>2, <3>3, <3>4, UntouchedDir
  <2>6. CASE RenameGlobal(r)
    <3>1. pc'[r] \in Renaming /\ UNCHANGED lvel
      BY <1>2, <2>6, CkptMoves, CkptLeaves DEF RenameGlobal, At, Renaming
    <3>2. lvel[r] # 4
      BY <2>2, <3>1
    <3> QED
      BY <2>1, <2>6, <3>2 DEF RenameGlobal
  <2>7. CASE RenameMeta(r)
    <3>1. pc'[r] \in Renaming /\ UNCHANGED lvel /\ pc[r] \in Committing
      BY <1>2, <2>7, CkptMoves, CkptLeaves DEF RenameMeta, At, Renaming, Committing
    <3>2. lvel[r] # l
      BY <2>2, <2>3, <3>1
    <3>3. meta'[l] = meta[l]
      BY <2>7, <3>2 DEF RenameMeta, TypeInv, ControlOK
    <3>4. UNCHANGED <<dir, gdir>>
      BY <2>7 DEF RenameMeta, disk
    <3> QED
      BY <3>3, <3>4 DEF Untouched, Place
  <2> QED
    BY <1>2, <2>1, <2>4, <2>5, <2>6, <2>7 DEF CkptStep, Write, CreateMetadata, PostLocal, Discard, Return, disk
<1>3. CASE FinStep(r)
  <2>0. UNCHANGED <<lvel, mem>>
    BY <1>3, FinLeaves DEF local
  <2>1. CASE pc[r] \in {"flush", "finConf", "dropConf"}
    <3>1. UNCHANGED <<dir, gdir, meta>>
      BY <1>3, <2>1 DEF FinStep, Flush, FinRemoveL4, FinRenameL4, FinRemoveMeta, FinRenameMeta, FinUpdateConf,
         FinClean, DropConf, Drop, At, disk
    <3> QED
      BY <3>1, UntouchedFrame
  <2>2. CASE pc[r] \in {"rmL4", "mvL4", "rmMeta"}
    <3>1. pc'[r] \in {"mvL4", "rmMeta", "mvMeta"}
      BY <1>3, <2>2, FinMoves
    <3> QED
      BY <1>0, <3>1 DEF BusyMeans
  <2>3. CASE pc[r] = "mvMeta"
    <3>1. pc'[r] = "finConf" /\ mem'[r].last # 4
      BY <1>3, <2>0, <2>3, FinMoves DEF CallInv, MemAt, Flushing
    <3> QED
      BY <1>0, <3>1 DEF BusyMeans, Removing
  <2>4. CASE pc[r] \in {"finClean", "drop"}
    <3>1. pc'[r] = "finished"
      BY <1>3, <2>4, FinMoves
    <3>2. l = 4
      BY <1>0, <3>1 DEF BusyMeans, Removing
    <3>3. FinClean(r) \/ (Drop(r) /\ r # Root)
      BY <1>3, <2>4 DEF FinStep, Flush, FinRemoveL4, FinRenameL4, FinRemoveMeta, FinRenameMeta, FinUpdateConf,
         DropConf, Drop, At
    <3>4. CASE FinClean(r)
      <4>1. CleanLevels(r, 1 .. 3) /\ l \notin 1 .. 3
        BY <3>2, <3>4 DEF FinClean
      <4> QED
        BY <4>1, UntouchedClean
    <3>5. CASE Drop(r) /\ r # Root
      <4>1. CleanLevels(r, 1 .. 4)
        BY <3>5 DEF Drop
      <4> QED
        BY <3>2, <3>5, <4>1, UntouchedClean
    <3> QED
      BY <3>3, <3>4, <3>5
  <2> QED
    BY <1>3, <2>1, <2>2, <2>3, <2>4, FinMoves
<1> QED
  BY <1>1, <1>2, <1>3

\* A recovery repairs the level it is at, and L4 uses the directory of L1.
LEMMA UntouchedRecover ==
  ASSUME TypeInv, RepairInv, NEW r \in Rank, RecoverStep(r), NEW l \in 1 .. 4, Awaits(l)
  PROVE  Untouched(l) /\ Awaits(l)'
<1>1. CASE Recover(r)
  <2>1. UNCHANGED <<dir, gdir, meta>> /\ pc[r] = "restore"
    BY <1>1 DEF Recover, disk, At
  <2>2. pc'[Root] \notin Recovering
    <3>1. pc[Root] \notin Recovering
      BY <2>1, RankParts, WhereAll DEF TypeInv, Together, Recovering
    <3> QED
      BY <3>1, <2>1, RecoverMoves, RankParts DEF Recovering
  <2> QED
    BY <2>1, <2>2, UntouchedFrame DEF Awaits
<1>2. CASE ~Recover(r)
  <2>1. pc[r] \in Recovering /\ UNCHANGED <<rlevel, res>>
    BY <1>2 DEF RecoverStep, CleanL1, FixOwn, FixCopy, DecodeOpen, Decode, Fetch, At, Recovering, recov, local
  <2>2. pc[Root] \in Recovering
    BY <2>1, RankParts, WhereAll DEF TypeInv, Together
  <2>3. rlevel <= l /\ (rlevel = l => \A q \in Rank :
           \/ pc[q] \in {"try", "cleanL1", "cleanedL1", "fetch"}
           \/ pc[q] = "recovered" /\ res[q] = 0)
    BY <2>2 DEF Awaits
  <2>4. rlevel \in 1 .. 4 /\ r[1] \in Node
    BY RankParts DEF TypeInv, ControlOK
  <2>5. CASE pc[r] \in {"fixOwn", "fixCopy", "decodeOpen", "decode"}
    <3>1. rlevel < l
      BY <2>3, <2>4, <2>5
    <3>2. rlevel \in {2, 3} /\ (pc[r] \in {"fixOwn", "fixCopy"} => rlevel = 2)
          /\ (pc[r] \in {"decodeOpen", "decode"} => rlevel = 3)
      BY <2>5 DEF RepairInv, RepairAt
    <3>3. /\ UNCHANGED <<gdir, meta>>
          /\ dir' = dir \/ \E S : dir' = [dir EXCEPT ![rlevel][r[1]] = S]
      BY <1>2, <2>5, <3>2 DEF RecoverStep, CleanL1, FixOwn, FixCopy, DecodeOpen, Decode, Fetch, At
    <3>4. Untouched(l)
      BY <2>4, <3>1, <3>2, <3>3, UntouchedDir, UntouchedFrame
    <3>5. Awaits(l)'
      BY <2>1, <3>1, <2>4 DEF Awaits
    <3> QED
      BY <3>4, <3>5
  <2>6. CASE pc[r] \in {"cleanL1", "fetch"}
    <3>1. rlevel = 4 /\ l = 4 /\ (pc[r] = "fetch" => res[r] = 0)
      BY <2>3, <2>6 DEF RepairInv, RepairAt, TypeInv, Checked
    <3>2. CASE CleanL1(r)
      <4>1. CleanLevels(r, {1}) /\ pc'[r] = "cleanedL1"
        BY <3>2 DEF CleanL1, Goto, TypeInv, ControlOK
      <4>2. \A q \in Rank \ {r} : pc'[q] = pc[q]
        BY RecoverMoves
      <4>3. Awaits(l)'
        BY <2>1, <2>3, <3>1, <4>1, <4>2 DEF Awaits
      <4> QED
        BY <3>1, <4>1, <4>3, UntouchedClean
    <3>3. CASE Fetch(r)
      <4>1. dir' = [dir EXCEPT ![1][r[1]] = Put(@, Expected("Rank", r, 4))] /\ UNCHANGED <<gdir, meta>>
            /\ pc'[r] = "recovered" /\ pc[r] = "fetch"
        BY <3>3 DEF Fetch, Goto, TypeInv, ControlOK, At
      <4>2. \A q \in Rank \ {r} : pc'[q] = pc[q]
        BY RecoverMoves
      <4>3. Awaits(l)'
        BY <2>1, <2>3, <3>1, <4>1, <4>2 DEF Awaits
      <4>4. PICK S : dir' = [dir EXCEPT ![1][r[1]] = S]
        BY <4>1
      <4>5. 1 \in 1 .. 3 /\ 1 # l /\ UNCHANGED <<gdir, meta>>
        BY <3>1, <4>1
      <4>6. Untouched(l)
        BY <2>4, <4>4, <4>5, UntouchedDir
      <4> QED
        BY <4>3, <4>6
    <3> QED
      BY <1>2, <2>6, <3>2, <3>3 DEF RecoverStep, FixOwn, FixCopy, DecodeOpen, Decode, At
  <2> QED
    BY <1>2, <2>5, <2>6 DEF RecoverStep, CleanL1, FixOwn, FixCopy, DecodeOpen, Decode, Fetch, At
<1> QED
  BY <1>1, <1>2

\* What the collectives of a checkpoint, and the copy to L4, leave alone ...
LEMMA SyncLeaves ==
  ASSUME \/ WriteSync \/ PostSync \/ RenameSync \/ FlushSync
         \/ \E p \in Proc, l \in {2, 3}, bad \in SUBSET Node : Exchange(p, l, bad)
  PROVE  UNCHANGED <<calls, call, mem, loaded, recov, history, dir, gdir, meta, conf>>
BY DEF WriteSync, PostSync, RenameSync, FlushSync, Exchange, disk, local

\* ... and how the processes move.
LEMMA SyncMoves ==
  ASSUME TypeInv,
         \/ WriteSync \/ PostSync \/ RenameSync \/ FlushSync
         \/ \E p \in Proc, l \in {2, 3}, bad \in SUBSET Node : Exchange(p, l, bad)
  PROVE  \/ \A r \in Rank : pc[r] = "wrote" /\ pc'[r] \in Exchanging
         \/ \A r \in Rank : pc[r] = "posted" /\ pc'[r] \in {"clean", "discard"}
         \/ \A r \in Rank : pc[r] = "renamed" /\ pc'[r] = "return"
         \/ \A r \in Rank : pc[r] = "flushed" /\ pc'[r] = IF r = Root THEN "rmL4" ELSE "finClean"
         \/ \A r \in Rank : pc[r] \in Exchanging /\ pc'[r] \in Exchanging
<1>1. CASE WriteSync
  BY <1>1 DEF WriteSync, AllAt, AllGoto, Exchanging
<1>2. CASE PostSync
  BY <1>2 DEF PostSync, AllAt, AllGoto
<1>3. CASE RenameSync
  BY <1>3 DEF RenameSync, AllAt, AllGoto
<1>4. CASE FlushSync
  BY <1>4 DEF FlushSync, AllAt
<1>5. ASSUME NEW p \in Proc, NEW l \in {2, 3}, NEW bad \in SUBSET Node, Exchange(p, l, bad)
      PROVE  \A r \in Rank : pc[r] \in Exchanging /\ pc'[r] \in Exchanging
  <2>1. <<0, p>> \in Rank /\ <<0, p>> \in Group(p)
    BY RankParts, SizesAssumption DEF Group, Node
  <2>2. pc[<<0, p>>] = "post"
    BY <1>5, <2>1 DEF Exchange, At
  <2>3. \A r \in Rank : pc[r] \in Exchanging
    BY <2>1, <2>2, WhereAll DEF TypeInv, Together, Exchanging
  <2>4. \A r \in Rank : pc'[r] = IF r[2] = p THEN "posted" ELSE pc[r]
    BY <1>5 DEF Exchange
  <2>5. \A r \in Rank : pc'[r] \in Exchanging
    BY <2>3, <2>4 DEF Exchanging
  <2> QED
    BY <2>3, <2>5
<1> QED
  BY <1>1, <1>2, <1>3, <1>4, <1>5

\* A launch or a recovery goes on, finds nothing, or finds a checkpoint.
LEMMA BootOutcome ==
  ASSUME BootFresh \/ BootRecover \/ SkipLevel \/ TryLocal \/ TryGlobal \/ CheckGlobal \/ RecoverSync
  PROVE  /\ \A r \in Rank : pc[r] \in {"down"} \cup Recovering
         /\ UNCHANGED <<calls, call, loaded>>
         /\ \/ UNCHANGED <<lvel, mem, history, disk, meta, conf>> /\ \A r \in Rank : pc'[r] \in Recovering
            \/ /\ acked' = [call |-> NoCall, lvl |-> 0] /\ UNCHANGED <<mem, hurt, open, torn>>
               /\ \A r \in Rank : pc'[r] = "run"
            \/ RecoverSync /\ AllAt("recovered") /\ \A r \in Rank : res[r] = 0
<1> USE DEF Recovering, AllAt, AllGoto
<1>1. CASE BootFresh
  BY <1>1 DEF BootFresh, local
<1>2. CASE BootRecover
  BY <1>2 DEF BootRecover, local
<1>3. CASE SkipLevel
  BY <1>3 DEF SkipLevel, NextLevel, NotRecovered
<1>4. CASE TryLocal
  BY <1>4 DEF TryLocal, Check, RecoverEntry
<1>5. CASE TryGlobal
  BY <1>5 DEF TryGlobal, local
<1>6. CASE CheckGlobal
  BY <1>6 DEF CheckGlobal, Check, RecoverEntry
<1>7. CASE RecoverSync
  <2>1. CASE \E r \in Rank : res[r] # 0
    BY <1>7, <2>1 DEF RecoverSync, NextLevel, NotRecovered
  <2>2. CASE \A r \in Rank : res[r] = 0
    BY <1>7, <2>2 DEF RecoverSync
  <2> QED
    BY <2>1, <2>2
<1> QED
  BY <1>1, <1>2, <1>3, <1>4, <1>5, <1>6, <1>7

\* A recovery that succeeds.
LEMMA RecoveredState ==
  ASSUME TypeInv, IdsInv, RecoverSync, \A r \in Rank : res[r] = 0
  PROVE  /\ AllAt("recovered") /\ rlevel \in 1 .. 4
         /\ \A r \in Rank :
              /\ pc'[r] = "restore" /\ lvel'[r] = rlevel
              /\ mem'[r].last = rlevel /\ mem'[r].id = calls[meta[rlevel][r[2]]].id /\ mem'[r].id # 0
         /\ meta[rlevel][0] \in 1 .. Len(calls)
         /\ acked' = [call |-> meta[rlevel][0], lvl |-> rlevel]
         /\ hurt' = {} /\ open' = {} /\ torn' = {}
         /\ UNCHANGED <<calls, call, loaded, disk, meta, conf>>
<1>1. AllAt("recovered") /\ rlevel \in 1 .. 4
  BY DEF RecoverSync, TypeInv, ControlOK
<1>2. MetaExists(rlevel)
  BY <1>1, RankParts DEF TypeInv, Checked, AllAt, Recovering
<1>3. \A p \in Proc : meta[rlevel][p] \in 1 .. Len(calls)
  BY <1>1, <1>2, MetaNamesCall DEF TypeInv
<1>4. \A r \in Rank : calls[meta[rlevel][r[2]]].id # 0
  BY <1>3, RankParts DEF IdsInv
<1> QED
  BY <1>1, <1>3, <1>4, RankParts DEF RecoverSync, AllGoto

\* Where all have renamed, the files and the metadata are at their level ...
LEMMA StoredAtRename ==
  ASSUME TypeInv, OrderInv, CallInv, MetaInv, \A r \in Rank : WrittenAt(r), AllAt("renamed")
  PROVE  /\ call[Root] = Len(calls) /\ lvel[Root] \in 1 .. 4 /\ Stored(call[Root], lvel[Root])
         /\ \A r \in Rank : call[r] = call[Root] /\ lvel[r] = lvel[Root]
<1>1. \A r \in Rank : pc[r] = "renamed" /\ pc[r] \in Committing
  BY DEF AllAt, Committing
<1>2. \A r \in Rank : call[r] = call[Root] /\ lvel[r] = lvel[Root]
  BY <1>1, SameLevel, RankParts
<1>3. lvel[Root] \in 1 .. 4
  BY <1>1, SameLevel, RankParts
<1>4. call[Root] = Len(calls)
  BY <1>1, RankParts, WhereAll DEF TypeInv, Together
<1>5. \A r \in Rank : Moved(r)
  BY <1>1, RankParts DEF Moved, NodeFlag
<1>6. \A r \in Rank : Files(r, call[Root], lvel[Root]) \subseteq Place(lvel[Root], r[1])
  BY <1>1, <1>2, <1>5 DEF WrittenAt
<1>7. \A p \in Proc : meta[lvel[Root]][p] = call[Root]
  BY <1>1, RankParts DEF MetaInv
<1>8. Stored(call[Root], lvel[Root])
  BY <1>3, <1>6, <1>7, StoredIs
<1> QED
  BY <1>2, <1>3, <1>4, <1>8

\* ... and where a recovery succeeds they are, too.
LEMMA StoredAtRecover ==
  ASSUME TypeInv, MetaInv, RepairInv, AllAt("recovered"), \A r \in Rank : res[r] = 0
  PROVE  Stored(meta[rlevel][0], rlevel)
<1>1. rlevel \in 1 .. 4
  BY DEF TypeInv, ControlOK
<1>2. \A p \in Proc : meta[rlevel][p] = meta[rlevel][0]
  BY <1>1, RankParts DEF MetaInv
<1>3. \A r \in Rank : Files(r, meta[rlevel][0], rlevel) \subseteq Place(rlevel, r[1])
  BY <1>2, RankParts DEF RepairInv, RepairAt, AllAt
<1> QED
  BY <1>1, <1>2, <1>3, StoredIs

(***************************************************************************)
(* What is known of the last completed checkpoint.                         *)
(***************************************************************************)

\* The last process to return from FTI_Checkpoint completes it.
LEMMA ReturnOutcome ==
  ASSUME NEW r \in Rank, Return(r)
  PROVE  \/ UNCHANGED history
         \/ /\ acked' = [call |-> call[r], lvl |-> lvel[r]] /\ hurt' = {} /\ open' = {} /\ torn' = {}
            /\ \A q \in Rank \ {r} : pc[q] # "return"
            /\ KeepLast \/ pc[Root] \notin {"drop", "finished"}
BY DEF Return, history

LEMMA ReturnLevel ==
  ASSUME TypeInv, CallInv, NEW r \in Rank, pc[r] = "return"
  PROVE  lvel[r] \in 1 .. 4
BY LevelsAssumption DEF CallInv, CallAt, Checkpointing, Finalize

LEMMA HistoryLocal ==
  ASSUME TypeInv, OrderInv, CallInv, CallInv', History, NEW r \in Rank,
         AppStep(r) \/ CkptStep(r) \/ FinStep(r) \/ RecoverStep(r)
  PROVE  History'
<1>1. CASE AppStep(r)
  <2>1. UNCHANGED history /\ pc[r] = "run" /\ \A q \in Rank \ {r} : pc'[q] = pc[q] /\ mem'[q] = mem[q]
    BY <1>1, AppLeaves
  <2>2. pc'[r] \in {"write", "flush", "finConf", "finClean", "dropConf"} \/ (pc'[r] = "drop" /\ r # Root)
    BY <1>1, AppLeaves DEF FinalizeEntry
  <2>3. mem'[r].id = mem[r].id \/ mem'[r].id # 0
    <3>1. pc'[r] = "write" => mem'[r].id # 0
      BY DEF CallInv, MemAt, Checkpointing
    <3> QED
      BY <1>1, <3>1, AppLeaves
  <2>4. pc'[Root] \in {"drop", "finished", "done"} => pc'[Root] = pc[Root] /\ mem'[Root] = mem[Root]
    BY <2>1, <2>2, RankParts
  <2>5. pc'[Root] \notin Off => pc[Root] \notin Off
    BY <2>1, RankParts DEF Off, Recovering
  <2>6. \A q \in Rank : pc'[q] = "return" => pc[q] = "return"
    BY <2>1, <2>2
  <2>7. \A q \in Rank : mem[q].id # 0 => mem'[q].id # 0
    BY <2>1, <2>3
  <2> QED
    BY <2>1, <2>4, <2>5, <2>6, <2>7 DEF History, history
<1>2. CASE CkptStep(r)
  <2>1. \A q \in Rank : mem'[q].id = mem[q].id
    BY <1>2, CkptLeaves
  <2>2. \A q \in Rank : pc'[q] = "return" => pc[q] = "return"
    BY <1>2, CkptMoves
  <2>3. pc'[Root] \in {"drop", "finished", "done"} => pc'[Root] = pc[Root]
    BY <1>2, CkptMoves, RankParts
  <2>4. pc'[Root] \notin Off => pc[Root] \notin Off
    BY <1>2, CkptMoves, RankParts DEF Off, Recovering
  <2>5. CASE UNCHANGED history
    BY <2>1, <2>2, <2>3, <2>4, <2>5, RankParts DEF History, history
  <2>6. CASE ~UNCHANGED history
    <3>1. pc[r] = "return" /\ Return(r)
      BY <1>2, <2>6, CkptLeaves DEF CkptStep, Write, CreateMetadata, PostLocal, Discard, Clean, Rename, RenameGlobal,
         RenameMeta, At
    <3>2. /\ acked' = [call |-> call[r], lvl |-> lvel[r]] /\ hurt' = {} /\ open' = {} /\ torn' = {}
          /\ KeepLast \/ pc[Root] \notin {"drop", "finished"}
      BY <2>6, <3>1, ReturnOutcome
    <3>3. lvel[r] \in 1 .. 4
      BY <3>1, ReturnLevel
    <3>4. \A q \in Rank : mem'[q].id # 0
      BY <2>1, <3>1 DEF History
    <3>5. pc'[Root] # "done"
      <4>1. pc[Root] # "done"
        BY <3>1, RankParts, WhereAll DEF TypeInv, Together
      <4> QED
        BY <2>3, <4>1
    <3>6. ~(pc'[Root] \in {"drop", "finished", "done"} /\ (~KeepLast \/ mem'[Root].id = 0))
      BY <2>3, <3>2, <3>4, <3>5, RankParts
    <3> QED
      BY <3>2, <3>3, <3>4, <3>6 DEF History
  <2> QED
    BY <2>5, <2>6
<1>3. CASE FinStep(r)
  <2>1. UNCHANGED <<mem, hurt, open, torn>>
    BY <1>3, FinLeaves DEF local
  <2>2. CASE pc[r] = "dropConf"
    <3>1. DropConf(r)
      BY <1>3, <2>2 DEF FinStep, Flush, FinRemoveL4, FinRenameL4, FinRemoveMeta, FinRenameMeta, FinUpdateConf,
         FinClean, Drop, At
    <3>2. acked' = [call |-> NoCall, lvl |-> 0] /\ \A q \in Rank : pc'[q] = "return" => pc[q] = "return"
      BY <1>3, <3>1, FinMoves DEF DropConf
    <3> QED
      BY <2>1, <3>2 DEF History
  <2>3. CASE pc[r] # "dropConf"
    <3>1. acked' = acked
      BY <1>3, <2>3, FinLeaves
    <3>2. \A q \in Rank : pc'[q] = "return" => pc[q] = "return"
      BY <1>3, FinMoves
    <3>3. pc'[Root] \notin Off => pc[Root] \notin Off
      BY <1>3, FinMoves, RankParts DEF Off, Recovering
    <3>4. pc'[Root] \in {"drop", "finished", "done"} /\ (~KeepLast \/ mem[Root].id = 0)
            => pc[Root] \in {"drop", "finished", "done"}
      <4>1. pc[Root] = "finClean" => KeepLast /\ mem[Root].id # 0
        BY RankParts DEF CallInv, MemAt
      <4> QED
        BY <1>3, <2>3, <4>1, FinMoves, RankParts
    <3> QED
      BY <2>1, <3>1, <3>2, <3>3, <3>4 DEF History
  <2> QED
    BY <2>2, <2>3
<1>4. CASE RecoverStep(r)
  <2>1. UNCHANGED <<mem, acked, hurt, open, torn>>
    BY <1>4 DEF RecoverStep, CleanL1, FixOwn, FixCopy, DecodeOpen, Decode, Fetch, Recover, local, history
  <2>2. \A q \in Rank : pc'[q] = "return" => pc[q] = "return"
    BY <1>4, RecoverMoves
  <2>3. pc'[Root] \notin Off => pc[Root] \notin Off
    BY <1>4, RecoverMoves, RankParts DEF Off, Recovering
  <2>4. pc'[Root] \in {"drop", "finished", "done"} => pc[Root] \in {"drop", "finished", "done"}
    BY <1>4, RecoverMoves, RankParts
  <2> QED
    BY <2>1, <2>2, <2>3, <2>4 DEF History
<1> QED
  BY <1>1, <1>2, <1>3, <1>4

LEMMA HistoryStep ==
  ASSUME TypeInv, OrderInv, IdsInv, CallInv, CallInv', History, [Next]_vars
  PROVE  History'
<1>1. ASSUME NEW r \in Rank, AppStep(r) \/ CkptStep(r) \/ FinStep(r) \/ RecoverStep(r)
      PROVE  History'
  BY <1>1, HistoryLocal
<1>2. CASE \/ WriteSync \/ PostSync \/ RenameSync \/ FlushSync
           \/ \E p \in Proc, l \in {2, 3}, bad \in SUBSET Node : Exchange(p, l, bad)
  <2>1. UNCHANGED <<mem, acked, hurt, open, torn>>
    BY <1>2, SyncLeaves DEF history
  <2>2. pc[Root] \notin Off
    BY <1>2, SyncMoves, RankParts DEF Off, Recovering, Exchanging
  <2>3. pc'[Root] \notin {"drop", "finished", "done"}
    BY <1>2, SyncMoves, RankParts DEF Exchanging
  <2>4. (\E q \in Rank : pc'[q] = "return") => \A q \in Rank : mem[q].id # 0
    <3> SUFFICES ASSUME NEW q \in Rank, pc'[q] = "return" PROVE \A x \in Rank : mem[x].id # 0
      OBVIOUS
    <3>1. \A x \in Rank : pc[x] = "renamed"
      BY <1>2, SyncMoves DEF Exchanging
    <3> QED
      BY <3>1 DEF CallInv, MemAt, Checkpointing, Committing
  <2> QED
    BY <2>1, <2>2, <2>3, <2>4 DEF History
<1>3. CASE FinSync
  <2>1. UNCHANGED <<mem, hurt, open, torn>> /\ \A q \in Rank : pc[q] = "finished" /\ pc'[q] = "done"
    BY <1>3 DEF FinSync, AllAt, AllGoto, local
  <2>2. acked'.call = acked.call /\ (acked.call # NoCall => acked'.lvl = 4)
    BY <1>3 DEF FinSync, TypeInv, ControlOK
  <2>3. pc[Root] = "finished" /\ pc'[Root] = "done" /\ pc[Root] \notin Off
    BY <2>1, RankParts DEF Off, Recovering
  <2> QED
    BY <2>1, <2>2, <2>3 DEF History
<1>4. CASE BootFresh \/ BootRecover \/ SkipLevel \/ TryLocal \/ TryGlobal \/ CheckGlobal \/ RecoverSync
  <2>1. CASE UNCHANGED <<lvel, mem, history, disk, meta, conf>> /\ \A r \in Rank : pc'[r] \in Recovering
    BY <2>1, RankParts DEF History, history, Off, Recovering
  <2>2. CASE acked' = [call |-> NoCall, lvl |-> 0] /\ \A r \in Rank : pc'[r] = "run"
    BY <2>2, RankParts DEF History
  <2>3. CASE RecoverSync /\ \A r \in Rank : res[r] = 0
    BY <2>3, RecoveredState, RankParts DEF History
  <2> QED
    BY <1>4, <2>1, <2>2, <2>3, BootOutcome
<1>5. CASE Environment
  <2>1. acked' = acked /\ \A q \in Rank : pc'[q] = "down"
    BY <1>5 DEF Environment, Relaunch, Crash, Reset, history
  <2> QED
    BY <2>1, RankParts DEF History, Off
<1>6. CASE UNCHANGED vars
  BY <1>6 DEF vars, local, history, History
<1> QED
  BY <1>1, <1>2, <1>3, <1>4, <1>5, <1>6 DEF Next, Sync, Ended

(***************************************************************************)
(* Until the last process has returned.                                    *)
(***************************************************************************)

\* Once splitRank 0 gives the checkpoint up it stays given up.
LEMMA GivenUpStays ==
  ASSUME TypeInv, CallInv, NEW r \in Rank, AppStep(r) \/ CkptStep(r) \/ FinStep(r), ~GivenUp'
  PROVE  ~GivenUp /\ (pc[r] # "drop" \/ r # Root)
<1>1. CASE r # Root
  <2>1. pc'[Root] = pc[Root] /\ mem'[Root] = mem[Root]
    BY <1>1, RankParts, AppLeaves, CkptLeaves, CkptMoves, FinLeaves, FinMoves DEF local
  <2> QED
    BY <1>1, <2>1 DEF GivenUp
<1>2. CASE r = Root /\ pc[r] = "drop"
  <2>1. pc'[Root] = "finished" /\ mem'[Root] = mem[Root]
    BY <1>2, AppLeaves, CkptMoves, FinLeaves, FinMoves DEF local
  <2>2. ~KeepLast \/ mem[Root].id = 0
    BY <1>2 DEF CallInv, MemAt
  <2> QED
    BY <2>1, <2>2 DEF GivenUp
<1>3. CASE r = Root /\ pc[r] # "drop"
  <2>1. pc[Root] \notin {"drop", "finished"}
    BY <1>3, AppLeaves, CkptMoves, FinMoves
  <2> QED
    BY <1>3, <2>1 DEF GivenUp
<1> QED
  BY <1>1, <1>2, <1>3

LEMMA CallOthers ==
  ASSUME TypeInv, NEW r \in Rank, AppStep(r) \/ CkptStep(r) \/ FinStep(r)
  PROVE  \A q \in Rank \ {r} : call'[q] = call[q] /\ lvel'[q] = lvel[q] /\ pc'[q] = pc[q]
<1>1. CASE AppStep(r)
  <2>1. PICK c, id, l : Enter(r, c, id, l)
    BY <1>1 DEF AppStep, Follow, Issue
  <2>2. \A q \in Rank \ {r} : call'[q] = call[q]
    BY <2>1 DEF Enter, TypeInv, ControlOK
  <2> QED
    BY <1>1, <2>2, AppLeaves
<1>2. CASE CkptStep(r)
  BY <1>2, CkptLeaves, CkptMoves
<1>3. CASE FinStep(r)
  BY <1>3, FinLeaves, FinMoves DEF local
<1> QED
  BY <1>1, <1>2, <1>3

LEMMA StoredThen ==
  ASSUME NEW STATE x, NEW STATE y, NEW c, NEW l, x' = c, y' = l, Stored(c, l)'
  PROVE  Stored(x, y)'
<1>1. ASSUME NEW p \in Proc PROVE Erasures(p, y)' = {}
  <2>1. Erasures(p, l)' = {} /\ l \in 1 .. 4
    BY <1>1 DEF Stored
  <2>2. CASE l = 1
    BY <2>1, <2>2 DEF Erasures
  <2>3. CASE l = 2
    BY <2>1, <2>3 DEF Erasures
  <2>4. CASE l = 3
    BY <2>1, <2>4 DEF Erasures
  <2>5. CASE l = 4
    BY <2>1, <2>5 DEF Erasures
  <2> QED
    BY <2>1, <2>2, <2>3, <2>4, <2>5
<1> QED
  BY <1>1 DEF Stored

LEMMA ReturningLocal ==
  ASSUME TypeInv, OrderInv, CallInv, Returning, NEW r \in Rank, AppStep(r) \/ CkptStep(r) \/ FinStep(r)
  PROVE  Returning'
<1> SUFFICES ASSUME NEW q \in Rank, pc'[q] = "return", Calm(lvel[q])', ~GivenUp'
             PROVE  Stored(call[q], lvel[q])'
  BY DEF Returning
<1>1. q # r
  BY AppLeaves, CkptMoves, FinMoves DEF FinalizeEntry
<1>2. pc[q] = "return" /\ call'[q] = call[q] /\ lvel'[q] = lvel[q]
  BY <1>1, CallOthers
<1>3. ~GivenUp /\ (pc[r] # "drop" \/ r # Root)
  BY GivenUpStays
<1>4. \A x \in Rank : Busy(x)' < lvel[q]
  BY <1>2 DEF Calm
<1>5. lvel[q] \in 1 .. 4
  BY <1>2, ReturnLevel
<1>6. Calm(lvel[q])
  BY <1>3, <1>4, <1>5, CalmBefore
<1>7. Stored(call[q], lvel[q])
  BY <1>2, <1>3, <1>6 DEF Returning
<1>8. Untouched(lvel[q])
  BY <1>3, <1>4, <1>5, UntouchedLocal
<1>9. PICK c, l : c = call[q] /\ l = lvel[q]
  OBVIOUS
<1>10. Stored(c, l) /\ Untouched(l) /\ l \in 1 .. 4
  BY <1>5, <1>7, <1>8, <1>9
<1>11. Stored(c, l)'
  BY <1>10, StoredKept
<1>12. call'[q] = c /\ lvel'[q] = l
  BY <1>2, <1>9
<1> QED
  BY <1>11, <1>12, StoredThen

\* Recovery is over where a process restores its data.
LEMMA RestoreStep ==
  ASSUME TypeInv, NEW r \in Rank, RecoverStep(r), NEW q \in Rank, pc[q] \notin Recovering
  PROVE  /\ Recover(r) /\ pc[r] = "restore"
         /\ UNCHANGED <<calls, conf, disk, meta, call, lvel, mem, history>>
         /\ \A x \in Rank : Busy(x)' = Busy(x)
<1>1. pc[r] \notin Recovering
  BY WhereAll DEF TypeInv, Together
<1>2. Recover(r)
  BY <1>1 DEF RecoverStep, CleanL1, FixOwn, FixCopy, DecodeOpen, Decode, Fetch, At, Recovering
<1>3. pc[r] = "restore" /\ UNCHANGED <<calls, conf, disk, meta, call, lvel, mem, history>>
  BY <1>2 DEF Recover, At
<1>4. pc'[r] = "run" /\ \A x \in Rank \ {r} : pc'[x] = pc[x]
  BY <1>3, RecoverMoves
<1>5. Busy(r) = 0 /\ Busy(r)' = 0
  BY <1>3, <1>4, BusyHere, BusyNext DEF BusyMeans, Renaming, Finishing
<1>6. \A x \in Rank \ {r} : Busy(x)' = Busy(x)
  BY <1>3, <1>4 DEF Busy, Replacing
<1> QED
  BY <1>2, <1>3, <1>5, <1>6

LEMMA ReturningStep ==
  ASSUME TypeInv, OrderInv, CallInv, MetaInv, \A r \in Rank : WrittenAt(r), Returning, [Next]_vars
  PROVE  Returning'
<1>1. ASSUME NEW r \in Rank, AppStep(r) \/ CkptStep(r) \/ FinStep(r) PROVE Returning'
  BY <1>1, ReturningLocal
<1>2. ASSUME NEW r \in Rank, RecoverStep(r) PROVE Returning'
  <2> SUFFICES ASSUME NEW q \in Rank, pc'[q] = "return", Calm(lvel[q])', ~GivenUp'
               PROVE  Stored(call[q], lvel[q])'
    BY DEF Returning
  <2>1. pc[q] = "return"
    BY <1>2, RecoverMoves
  <2>2. /\ pc[r] = "restore" /\ UNCHANGED <<disk, meta, call, lvel, mem>>
        /\ \A x \in Rank : Busy(x)' = Busy(x)
    BY <1>2, <2>1, RestoreStep DEF Recovering
  <2>3. Calm(lvel[q])
    BY <2>2 DEF Calm
  <2>4. ~GivenUp
    BY <1>2, <2>2, RecoverMoves, RankParts DEF GivenUp
  <2>5. PICK c, l : c = call[q] /\ l = lvel[q]
    OBVIOUS
  <2>6. Stored(c, l) /\ Untouched(l) /\ l \in 1 .. 4
    BY <2>1, <2>2, <2>3, <2>4, <2>5, ReturnLevel, UntouchedFrame DEF Returning, disk
  <2>7. Stored(c, l)'
    BY <2>6, StoredKept
  <2>8. call'[q] = c /\ lvel'[q] = l
    BY <2>2, <2>5
  <2> QED
    BY <2>7, <2>8, StoredThen
<1>3. CASE RenameSync
  <2> SUFFICES ASSUME NEW q \in Rank PROVE Stored(call[q], lvel[q])'
    BY DEF Returning
  <2>1. AllAt("renamed") /\ UNCHANGED <<dir, gdir, meta, call, lvel>>
    BY <1>3 DEF RenameSync, disk, local
  <2>2. PICK c, l : c = call[Root] /\ l = lvel[Root]
    OBVIOUS
  <2>3. Stored(c, l) /\ l \in 1 .. 4 /\ call[q] = c /\ lvel[q] = l
    BY <2>1, <2>2, StoredAtRename
  <2>4. Stored(c, l)'
    BY <2>1, <2>3, StoredKept, UntouchedFrame
  <2>5. call'[q] = c /\ lvel'[q] = l
    BY <2>1, <2>3
  <2> QED
    BY <2>4, <2>5, StoredThen
<1>4. ASSUME \A q \in Rank : pc'[q] # "return" PROVE Returning'
  BY <1>4 DEF Returning
<1>5. CASE WriteSync \/ PostSync \/ FlushSync \/ FinSync
  BY <1>4, <1>5 DEF WriteSync, PostSync, FlushSync, FinSync, AllGoto
<1>6. CASE \E p \in Proc, l \in {2, 3}, bad \in SUBSET Node : Exchange(p, l, bad)
  <2>1. \A q \in Rank : pc'[q] # "return"
    <3> TAKE q \in Rank
    <3>1. \/ \A r \in Rank : pc[r] = "renamed"
          \/ pc'[q] # "return"
      BY <1>6, SyncMoves DEF Exchanging
    <3>2. ~ \A r \in Rank : pc[r] = "renamed"
      <4>1. PICK p \in Proc : At(<<0, p>>, "post") /\ <<0, p>> \in Rank
        BY <1>6, RankParts, SizesAssumption DEF Exchange, Group, Node
      <4> QED
        BY <4>1 DEF At
    <3> QED
      BY <3>1, <3>2
  <2> QED
    BY <1>4, <2>1
<1>7. CASE BootFresh \/ BootRecover \/ SkipLevel \/ TryLocal \/ TryGlobal \/ CheckGlobal \/ RecoverSync
  <2>1. \A q \in Rank : pc'[q] # "return"
    <3>1. CASE \A r \in Rank : pc'[r] \in Recovering
      BY <3>1 DEF Recovering
    <3>2. CASE RecoverSync /\ \A r \in Rank : res[r] = 0
      BY <3>2 DEF RecoverSync, AllGoto
    <3> QED
      BY <1>7, <3>1, <3>2, BootOutcome
  <2> QED
    BY <1>4, <2>1
<1>8. CASE Environment
  BY <1>4, <1>8 DEF Environment, Relaunch, Crash, Reset
<1>9. CASE UNCHANGED vars
  <2> SUFFICES ASSUME NEW q \in Rank, pc[q] = "return", Calm(lvel[q])', ~GivenUp'
               PROVE  Stored(call[q], lvel[q])'
    BY <1>9 DEF Returning, vars
  <2>1. UNCHANGED <<dir, gdir, meta, call, lvel, pc, mem>>
    BY <1>9 DEF vars, local, disk
  <2>2. Calm(lvel[q]) /\ ~GivenUp
    BY <2>1 DEF Calm, GivenUp, Busy, Replacing
  <2>3. PICK c, l : c = call[q] /\ l = lvel[q]
    OBVIOUS
  <2>4. Stored(c, l) /\ Untouched(l) /\ l \in 1 .. 4
    BY <2>1, <2>2, <2>3, ReturnLevel, UntouchedFrame DEF Returning
  <2>5. Stored(c, l)'
    BY <2>4, StoredKept
  <2>6. call'[q] = c /\ lvel'[q] = l
    BY <2>1, <2>3
  <2> QED
    BY <2>5, <2>6, StoredThen
<1> QED
  BY <1>1, <1>2, <1>3, <1>5, <1>6, <1>7, <1>8, <1>9 DEF Next, Sync, Ended

(***************************************************************************)
(* The checkpoint that keep_last_ckpt keeps.                               *)
(***************************************************************************)

FinAloneMeans ==
  TypeInv /\ CallInv =>
    \A r, q \in Rank : pc[r] \in Finishing => pc[q] \notin {"write", "wrote"} \cup Exchanging \cup Committing

LEMMA FinAloneNext == FinAloneMeans'
<1>1. FinAloneMeans
  BY FinAlone DEF FinAloneMeans
<1> QED
  BY <1>1, PTL

\* Where nobody is in FTI_Finalize, and not all are back, little has to be known.
LEMMA KeptBusy ==
  ASSUME \A r \in Rank : KeptAt(r), NEW x \in Rank, pc'[x] \notin Settled \ {"return"},
         \A q \in Rank : pc'[q] \notin Finishing \cup {"done"},
         \A q \in Rank : pc'[q] \in Settled => pc'[q] = pc[q] /\ mem'[q] = mem[q] /\ lvel'[q] = lvel[q]
  PROVE  KeptInv'
<1>1. ~AllBack'
  BY DEF AllBack
<1>2. Exact'
  BY <1>1 DEF Exact
<1>3. KeptRoot'
  BY <1>1, RankParts DEF KeptRoot, Flushed, Moves, Moving, Moved4, Finishing
<1>4. ASSUME NEW r \in Rank PROVE KeptAt(r)'
  BY <1>4 DEF KeptAt, Settled, Finishing
<1> QED
  BY <1>2, <1>3, <1>4 DEF KeptInv

\* Where all are where they were, only what they find has to be looked at.
LEMMA ExactLocal ==
  ASSUME TypeInv, OrderInv, CallInv, History, Exact, NEW r \in Rank, AppStep(r) \/ FinStep(r),
         pc'[r] \in Finishing
  PROVE  Exact'
<1> SUFFICES ASSUME AllBack', acked'.call # NoCall, Calm(acked.lvl)'
             PROVE  Stored(acked.call, acked.lvl)'
  BY DEF Exact
<1>0. /\ pc[r] = "run" \/ pc[r] \in Finishing
      /\ \A q \in Rank \ {r} : pc'[q] = pc[q]
  BY AppLeaves, FinMoves DEF Finishing
<1>1. AllBack
  BY <1>0 DEF AllBack, Settled, Finishing
<1>2. acked' = acked
  <2>1. CASE AppStep(r)
    BY <2>1, AppLeaves DEF history
  <2>2. CASE FinStep(r)
    <3>1. CASE pc[r] = "dropConf"
      <4>1. DropConf(r)
        BY <2>2, <3>1 DEF FinStep, Flush, FinRemoveL4, FinRenameL4, FinRemoveMeta, FinRenameMeta, FinUpdateConf,
           FinClean, Drop, At
      <4> QED
        BY <4>1 DEF DropConf
    <3> QED
      BY <2>2, <3>1, FinLeaves
  <2> QED
    BY <2>1, <2>2
<1>3. pc[r] # "drop" \/ r # Root
  BY <1>2 DEF History, CallInv, MemAt
<1>4. acked.lvl \in 1 .. 4
  BY <1>2 DEF History
<1>5. \A x \in Rank : Busy(x)' < acked.lvl
  BY <1>2 DEF Calm
<1>6. Calm(acked.lvl)
  BY <1>3, <1>4, <1>5, CalmBefore
<1>7. PICK c, l : c = acked.call /\ l = acked.lvl
  OBVIOUS
<1>8. Stored(c, l) /\ l \in 1 .. 4
  BY <1>1, <1>2, <1>4, <1>6, <1>7 DEF Exact
<1>9. Untouched(l)
  BY <1>3, <1>4, <1>5, <1>7, UntouchedLocal
<1>10. Stored(c, l)'
  BY <1>8, <1>9, StoredKept
<1>11. acked'.call = c /\ acked'.lvl = l
  BY <1>2, <1>7
<1> QED
  BY <1>10, <1>11, StoredThen

\* What the memory of a process in FTI_Finalize tells of the others.
LEMMA FlushSide ==
  ASSUME KeepLast, CallInv, \A r \in Rank : KeptAt(r), NEW r \in Rank, NEW q \in Rank,
         pc[r] \in Settled, pc[q] \in Flushing
  PROVE  mem[q].id # 0 /\ mem[r].id # 0 /\ lvel[r] = lvel[q] /\ lvel[q] # 4 /\ lvel[q] \in 1 .. 3
         /\ (pc[r] # "return" => mem[r].last = lvel[r])
<1>1. pc[q] \in Settled \ {"return"} /\ mem[q].id # 0 /\ mem[q].last # 4
  BY DEF Flushing, Settled, Finishing, CallInv, MemAt
<1>2. mem[q].last = lvel[q] /\ lvel[q] \in 1 .. 4
  BY <1>1 DEF KeptAt
<1>3. lvel[r] = lvel[q] /\ mem[r].id # 0
  BY <1>1 DEF KeptAt
<1> QED
  BY <1>1, <1>2, <1>3 DEF KeptAt

\* A process calls FTI_Finalize.
LEMMA KeptFinalize ==
  ASSUME TypeInv, TypeInv', OrderInv, CallInv, CallInv', History, \A q \in Rank : Passing(q),
         \A q \in Rank : Passing(q)', KeepLast, KeptInv, NEW r \in Rank, AppStep(r),
         pc'[r] = FinalizeEntry(r), UNCHANGED <<lvel, mem>>
  PROVE  KeptInv'
<1>0. /\ UNCHANGED <<conf, tmp, dir, gtmp, gdir, mtmp, meta, acked>> /\ pc[r] = "run"
      /\ \A q \in Rank \ {r} : pc'[q] = pc[q]
      /\ Exact /\ KeptRoot /\ \A q \in Rank : KeptAt(q)
  BY AppLeaves DEF KeptInv, disk, history
<1>1. /\ pc'[r] \in {"flush", "finConf", "finClean", "dropConf", "drop"}
      /\ pc'[r] \in {"finConf", "finClean"} => mem[r].last = 4 /\ mem[r].id # 0
      /\ pc'[r] \in {"dropConf", "drop"} => ~(mem[r].id > 0)
      /\ mem[r].id \in Nat
      /\ r = Root => pc'[r] \notin {"drop", "finClean"}
  BY DEF FinalizeEntry, TypeInv, ControlOK
<1>2. Exact'
  <2>1. pc'[r] \in Finishing
    BY <1>1 DEF Finishing
  <2> QED
    BY <1>0, <2>1, ExactLocal
<1>3. ASSUME NEW q \in Rank, Flushed(q) PROVE FALSE
  BY <1>0, <1>3 DEF KeptRoot, Moves
<1>4. lvel[r] = 4 \/ pc'[r] \notin {"finConf", "finClean"}
  BY <1>0, <1>1 DEF KeptAt, Settled
<1>5. ASSUME NEW q \in Rank, Flushed(q)' PROVE FALSE
  <2>1. CASE q = r
    BY <1>1, <1>4, <1>5, <2>1 DEF Flushed, Moves
  <2>2. CASE q # r
    BY <1>0, <1>3, <1>5, <2>2 DEF Flushed
  <2> QED
    BY <2>1, <2>2
<1>6. ASSUME NEW q \in Rank, pc'[q] \in {"rmL4", "mvL4", "rmMeta", "mvMeta"} PROVE FALSE
  <2>1. pc[q] \in Flushing /\ pc[q] = pc'[q]
    BY <1>0, <1>1, <1>6 DEF Flushing
  <2>2. mem[q].id # 0 /\ lvel[q] # 4
    BY <1>0, <2>1, FlushSide DEF Flushing, Settled, Finishing
  <2> QED
    BY <1>3, <1>6, <2>1, <2>2 DEF Flushed, Moves
<1>7. KeptRoot'
  <2>1. AllBack' => AllBack
    BY <1>0 DEF AllBack, Settled
  <2>2. pc'[Root] \in {"finClean", "finished", "done"} => pc[Root] = pc'[Root]
    BY <1>0, <1>1, RankParts
  <2>3. pc'[Root] # "done"
    <3>1. pc[Root] # "done"
      BY <1>0, RankParts, WhereAll DEF TypeInv, Together
    <3> QED
      BY <2>2, <3>1
  <2>4. ~Moved4' /\ ~Moving' /\ pc'[Root] \notin {"rmL4", "mvL4", "rmMeta", "mvMeta"}
    BY <1>5, <1>6, RankParts DEF Moved4, Moving, Flushed, Moves
  <2> QED
    BY <1>0, <1>5, <2>1, <2>2, <2>3, <2>4 DEF KeptRoot
<1>8. ASSUME NEW q \in Rank PROVE KeptAt(q)'
  <2>1. \A x \in Rank : pc'[x] \in Settled <=> pc[x] \in Settled
    BY <1>0, <1>1 DEF Settled, Finishing
  <2>2. \A x \in Rank : pc'[x] \in Settled \ {"return"} <=> pc[x] \in Settled \ {"return"}
    BY <1>0, <1>1 DEF Settled, Finishing
  <2>3. pc'[q] \in {"flush", "flushed"} => \A x \in Rank : pc'[x] \in {"run", "return", "restore", "flush", "flushed"}
    <3> SUFFICES ASSUME pc'[q] \in {"flush", "flushed"}, NEW x \in Rank
                 PROVE  pc'[x] \in {"run", "return", "restore", "flush", "flushed"}
      OBVIOUS
    <3>1. mem[q].id # 0 /\ lvel[q] # 4 /\ pc[q] \in Settled /\ pc'[q] \in Ahead
      <4>1. mem'[q].id # 0 /\ mem'[q].last # 4
        BY DEF CallInv, MemAt, Flushing
      <4>2. pc[q] \in Settled \ {"return"}
        BY <2>2 DEF Settled, Finishing
      <4> QED
        BY <1>0, <4>1, <4>2 DEF KeptAt, Settled, Ahead, Finishing
    <3>2. pc'[x] \in Behind \cup Ahead /\ pc'[x] \notin {"write", "wrote", "discard"}
      <4>1. Apart'
        <5>1. Lockstep' => \A y \in Rank : pc'[y] \in Ahead => Apart'
          BY DEF Lockstep, Together, Apart, Exchanging, Committing, Recovering, Behind, Ahead, Finishing
        <5> QED
          BY <3>1, <5>1 DEF TypeInv
      <4>2. pc'[x] \notin {"write", "wrote"}
        BY FinAloneNext DEF FinAloneMeans, Finishing
      <4>3. pc'[x] # "discard"
        BY DEF Passing
      <4> QED
        BY <4>1, <4>2, <4>3 DEF Apart
    <3>3. pc'[x] \in Settled
      BY <3>2 DEF Behind, Ahead, Settled
    <3>4. mem[x].id # 0 /\ lvel[x] # 4
      BY <1>0, <2>1, <3>1, <3>3 DEF KeptAt
    <3>5. pc'[x] \notin Moves
      BY <1>0, <1>5, <3>4 DEF Flushed
    <3>6. pc'[x] \notin {"dropConf", "drop"}
      BY <1>0, <3>4 DEF CallInv, MemAt
    <3> QED
      BY <3>3, <3>5, <3>6 DEF Settled, Finishing, Moves
  <2>4. pc'[q] = "flushed" => pc[q] = "flushed"
    BY <1>0, <1>1
  <2> QED
    BY <1>0, <2>1, <2>2, <2>3, <2>4 DEF KeptAt
<1> QED
  BY <1>2, <1>7, <1>8 DEF KeptInv

LEMMA KeptApp ==
  ASSUME TypeInv, TypeInv', OrderInv, CallInv, CallInv', History, \A q \in Rank : Passing(q),
         \A q \in Rank : Passing(q)', KeepLast, KeptInv, NEW r \in Rank, AppStep(r)
  PROVE  KeptInv'
<1>1. CASE pc'[r] = FinalizeEntry(r) /\ UNCHANGED <<lvel, mem>>
  BY <1>1, KeptFinalize
<1>2. CASE pc'[r] = "write"
  <2>1. \A q \in Rank : pc'[q] \notin Finishing
    BY <1>2, FinAloneNext DEF FinAloneMeans
  <2>2. \A q \in Rank : pc'[q] # "done"
    <3>1. \A q \in Rank \ {r} : pc'[q] = pc[q] /\ pc[r] = "run"
      BY AppLeaves
    <3> QED
      BY <1>2, <3>1, WhereAll DEF TypeInv, Together
  <2>3. \A q \in Rank : pc'[q] \in Settled => pc'[q] = pc[q] /\ mem'[q] = mem[q] /\ lvel'[q] = lvel[q]
    BY <1>2, AppLeaves DEF Settled, Finishing
  <2>4. pc'[r] \notin Settled \ {"return"}
    BY <1>2 DEF Settled, Finishing
  <2> QED
    BY <2>1, <2>2, <2>3, <2>4, KeptBusy DEF KeptInv
<1> QED
  BY <1>1, <1>2, AppLeaves

\* A process leaves FTI_Checkpoint; the last one completes the checkpoint.
LEMMA KeptReturn ==
  ASSUME TypeInv, OrderInv, CallInv, History, Returning, \A q \in Rank : Passing(q),
         KeepLast, KeptInv, NEW r \in Rank, Return(r)
  PROVE  KeptInv'
<1>0. /\ pc[r] = "return" /\ pc'[r] = "run" /\ \A q \in Rank \ {r} : pc'[q] = pc[q]
      /\ UNCHANGED <<calls, disk, meta, call, lvel, loaded>>
      /\ \A q \in Rank : mem'[q].id = mem[q].id
      /\ \A q \in Rank \ {r} : mem'[q] = mem[q]
      /\ Exact /\ KeptRoot /\ \A q \in Rank : KeptAt(q)
  BY CkptMoves, CkptLeaves DEF Return, At, KeptInv, CkptStep
<1>1. mem'[r].last = lvel[r] /\ lvel[r] \in 1 .. 4
  <2>1. mem \in [Rank -> [last : Level, id : Nat, cnt : Nat, first : BOOLEAN]]
    BY DEF TypeInv, ControlOK
  <2>2. mem' = [mem EXCEPT ![r] = [[mem[r] EXCEPT !.last = lvel[r]] EXCEPT !.cnt = mem[r].cnt + 1]]
    BY DEF Return
  <2>3. [[mem[r] EXCEPT !.last = lvel[r]] EXCEPT !.cnt = mem[r].cnt + 1].last = lvel[r]
    BY <2>1
  <2> QED
    BY <1>0, <2>1, <2>2, <2>3, ReturnLevel
<1>2. AllBack' => acked' = [call |-> call[r], lvl |-> lvel[r]]
  <2> SUFFICES ASSUME AllBack' PROVE acked' = [call |-> call[r], lvl |-> lvel[r]]
    OBVIOUS
  <2>1. \A q \in Rank \ {r} : pc[q] # "return"
    BY <1>0 DEF AllBack
  <2> QED
    BY <2>1 DEF Return
<1>3. ~GivenUp
  BY <1>0, RankParts DEF GivenUp, History
<1>4. Exact'
  <2> SUFFICES ASSUME AllBack', Calm(acked.lvl)' PROVE Stored(acked.call, acked.lvl)'
    BY DEF Exact
  <2>1. PICK c, l : c = call[r] /\ l = lvel[r]
    OBVIOUS
  <2>2. acked'.call = c /\ acked'.lvl = l
    BY <1>2, <2>1
  <2>3. \A q \in Rank : Busy(q)' < l
    BY <2>2 DEF Calm
  <2>4. l \in 1 .. 4 /\ CkptStep(r) /\ pc[r] # "drop"
    BY <1>0, <1>1, <2>1 DEF CkptStep
  <2>5. Calm(l) /\ Untouched(l)
    BY <2>3, <2>4, CalmBefore, UntouchedLocal
  <2>6. Stored(c, l)
    BY <1>0, <1>3, <2>1, <2>5 DEF Returning
  <2>7. Stored(c, l)'
    BY <2>4, <2>5, <2>6, StoredKept
  <2> QED
    BY <2>2, <2>7, StoredThen
<1>5. ASSUME NEW q \in Rank, Flushed(q) PROVE FALSE
  BY <1>0, <1>5 DEF KeptRoot, Moves
<1>6. ASSUME NEW q \in Rank, Flushed(q)' PROVE FALSE
  <2>1. CASE q = r
    BY <1>0, <1>6, <2>1 DEF Flushed, Moves
  <2>2. CASE q # r
    BY <1>0, <1>5, <1>6, <2>2 DEF Flushed
  <2> QED
    BY <2>1, <2>2
<1>7. ~Moved4' /\ ~Moving'
  <2>1. ~Moved4'
    BY <1>6, RankParts DEF Moved4, Flushed, Moves
  <2>2. ~Moving
    <3> SUFFICES ASSUME Moving PROVE FALSE
      OBVIOUS
    <3>1. pc[Root] \in Flushing
      BY DEF Moving, Flushing
    <3>2. mem[Root].id # 0 /\ lvel[Root] # 4
      BY <1>0, <3>1, RankParts, FlushSide DEF Flushing, Settled, Finishing
    <3> QED
      BY <1>5, <3>2, RankParts DEF Moving, Flushed, Moves
  <2> QED
    BY <1>0, <2>1, <2>2, RankParts DEF Moving
<1>8. KeptRoot'
  <2>1. AllBack' => acked'.call # NoCall /\ acked'.lvl = lvel'[Root]
    <3> SUFFICES ASSUME AllBack' PROVE acked'.call # NoCall /\ acked'.lvl = lvel'[Root]
      OBVIOUS
    <3>1. call[r] # NoCall
      BY <1>0, IndexType DEF CallInv, CallAt, Checkpointing, TypeInv, NoCall
    <3>2. lvel[Root] = lvel[r]
      <4>1. pc[Root] \in Settled /\ pc[r] \in Settled
        BY <1>0, RankParts DEF AllBack, Settled
      <4> QED
        BY <1>0, <4>1, RankParts DEF KeptAt
    <3> QED
      BY <1>0, <1>2, <3>1, <3>2
  <2>2. pc'[Root] \in {"finClean", "finished"} => pc[Root] = pc'[Root] /\ conf' = conf
    BY <1>0, RankParts DEF Return
  <2>3. pc'[Root] # "done"
    <3>1. pc[Root] # "done"
      BY <1>0, RankParts, WhereAll DEF TypeInv, Together
    <3> QED
      BY <1>0, <3>1, RankParts
  <2> QED
    BY <1>0, <1>6, <1>7, <2>1, <2>2, <2>3, RankParts DEF KeptRoot, Moving
<1>9. ASSUME NEW q \in Rank PROVE KeptAt(q)'
  <2>1. \A x \in Rank : pc'[x] \in Settled <=> pc[x] \in Settled
    BY <1>0 DEF Settled
  <2>2. pc'[q] \in Settled \ {"return"} /\ mem'[q].id # 0 => mem'[q].last = lvel'[q] /\ lvel'[q] \in 1 .. 4
    BY <1>0, <1>1 DEF KeptAt
  <2>3. pc'[q] \in {"flush", "flushed"} => pc[q] = pc'[q]
    BY <1>0
  <2>4. gtmp' = gtmp
    BY <1>0 DEF disk
  <2> QED
    BY <1>0, <2>1, <2>2, <2>3, <2>4 DEF KeptAt
<1> QED
  BY <1>4, <1>8, <1>9 DEF KeptInv

LEMMA KeptCkpt ==
  ASSUME TypeInv, TypeInv', OrderInv, CallInv, CallInv', History, Returning, \A q \in Rank : Passing(q),
         \A q \in Rank : Passing(q)', KeepLast, KeptInv, NEW r \in Rank, CkptStep(r)
  PROVE  KeptInv'
<1>1. CASE pc[r] = "return"
  <2>1. Return(r)
    BY <1>1 DEF CkptStep, Write, CreateMetadata, PostLocal, Discard, Clean, Rename, RenameGlobal, RenameMeta, At
  <2> QED
    BY <2>1, KeptReturn
<1>2. CASE pc[r] # "return"
  <2>1. pc[r] \in {"write", "wrote"} \cup Exchanging \cup Committing
    BY <1>2, CkptMoves DEF Passing, Exchanging, Committing
  <2>2. pc'[r] \in {"wrote"} \cup Exchanging \cup Committing
    BY <1>2, <2>1, CkptMoves DEF Passing, Exchanging, Committing
  <2>3. \A q \in Rank : pc'[q] \notin Finishing
    BY <2>2, FinAloneNext DEF FinAloneMeans
  <2>4. \A q \in Rank : pc'[q] # "done"
    <3>1. \A q \in Rank : pc[q] # "done"
      BY <2>1, WhereAll DEF TypeInv, Together, Exchanging, Committing
    <3> QED
      BY <2>2, <3>1, CkptMoves DEF Exchanging, Committing
  <2>5. pc'[r] \notin Settled
    BY <2>2 DEF Settled, Exchanging, Committing, Finishing
  <2>6. \A q \in Rank : pc'[q] \in Settled => pc'[q] = pc[q] /\ mem'[q] = mem[q] /\ lvel'[q] = lvel[q]
    BY <2>5, CkptMoves, CkptLeaves
  <2> QED
    BY <2>3, <2>4, <2>5, <2>6, KeptBusy DEF KeptInv
<1> QED
  BY <1>1, <1>2

\* What every process flushes is the checkpoint they all have, whole.
LEMMA FlushSource ==
  ASSUME TypeInv, CallInv, History, Returning, KeepLast, KeptInv, NEW r \in Rank, pc[r] = "flush"
  PROVE  /\ lvel[r] \in 1 .. 3 /\ mem[r].last = lvel[r]
         /\ Holding("Rank", r, meta[lvel[r]][r[2]]) \in dir[lvel[r]][r[1]]
<1>0. Exact /\ KeptRoot /\ \A q \in Rank : KeptAt(q)
  BY DEF KeptInv
<1>1. lvel[r] \in 1 .. 3 /\ mem[r].last = lvel[r] /\ mem[r].id # 0
  BY <1>0, FlushSide DEF Flushing, Settled, Finishing
<1>2. \A q \in Rank : pc[q] \in {"run", "return", "restore", "flush", "flushed"}
  BY <1>0 DEF KeptAt
<1>3. \A q \in Rank : lvel[q] = lvel[r] /\ mem[q].id # 0
  BY <1>0, <1>1, <1>2 DEF KeptAt, Settled, Finishing
<1>4. Calm(lvel[r])
  <2>1. \A q \in Rank : Busy(q) = 0
    BY <1>2, BusyHere DEF BusyMeans, Renaming, Finishing
  <2> QED
    BY <1>1, <2>1 DEF Calm
<1>5. \E c : Stored(c, lvel[r])
  <2>1. CASE AllBack
    <3>1. acked.call # NoCall /\ acked.lvl = lvel[r]
      BY <1>0, <1>3, <2>1, RankParts DEF KeptRoot
    <3> QED
      BY <1>0, <1>4, <2>1, <3>1 DEF Exact
  <2>2. CASE ~AllBack
    <3>1. PICK q \in Rank : pc[q] = "return"
      BY <1>2, <2>2 DEF AllBack, Settled, Finishing
    <3>2. ~GivenUp
      BY <1>2, RankParts DEF GivenUp
    <3> QED
      BY <1>3, <1>4, <3>1, <3>2 DEF Returning
  <2> QED
    BY <2>1, <2>2
<1>6. PICK c : Stored(c, lvel[r])
  BY <1>5
<1>7. (\A p \in Proc : meta[lvel[r]][p] = c) /\ \A q \in Rank : Files(q, c, lvel[r]) \subseteq Place(lvel[r], q[1])
  BY <1>1, <1>6, StoredIs
<1>8. Holding("Rank", r, c) \in Files(r, c, lvel[r]) /\ Place(lvel[r], r[1]) = dir[lvel[r]][r[1]]
  BY <1>1 DEF Files, Kinds, Place
<1> QED
  BY <1>1, <1>7, <1>8, RankParts

LEMMA KeptFlush ==
  ASSUME TypeInv, OrderInv, CallInv, History, Returning, KeepLast, Faults = {}, KeptInv,
         NEW r \in Rank, NEW bad \in BOOLEAN, Flush(r, bad)
  PROVE  KeptInv'
<1> DEFINE f == Holding("Rank", r, meta[lvel[r]][r[2]])
<1>0. /\ pc[r] = "flush" /\ pc'[r] = "flushed" /\ \A q \in Rank \ {r} : pc'[q] = pc[q]
      /\ UNCHANGED <<calls, conf, dir, gdir, meta, local, history>> /\ FinStep(r) /\ ~bad
      /\ Exact /\ KeptRoot /\ \A q \in Rank : KeptAt(q)
  BY FinMoves DEF Flush, At, KeptInv, FinStep, May
<1>1. UNCHANGED <<call, lvel, mem, loaded>>
  BY <1>0 DEF local
<1>2. f \in dir[lvel[r]][r[1]] /\ lvel[r] \in 1 .. 3 /\ mem[r].last = lvel[r]
  BY <1>0, FlushSource
<1>3. gtmp' = Put(gtmp, f)
  BY <1>0, <1>2 DEF Flush
<1>4. f \in gtmp' /\ \A g \in gtmp : g.rank # r => g \in gtmp'
  BY <1>3, PutFiles, HoldingParts
<1> HIDE DEF f
<1>5. Exact'
  BY <1>0, ExactLocal DEF Finishing
<1>6. \A q \in Rank : pc[q] \in {"run", "return", "restore", "flush", "flushed"}
  BY <1>0 DEF KeptAt
<1>7. \A q \in Rank : pc'[q] \in {"run", "return", "restore", "flush", "flushed"}
  BY <1>0, <1>6
<1>8. KeptRoot'
  <2>1. AllBack' => AllBack
    BY <1>0 DEF AllBack, Settled, Finishing
  <2>2. acked' = acked
    BY <1>0 DEF history
  <2> QED
    BY <1>0, <1>1, <1>7, <2>1, <2>2, RankParts DEF KeptRoot, Moving, Moved4, Flushed, Moves
<1>9. ASSUME NEW q \in Rank PROVE KeptAt(q)'
  <2>1. \A x \in Rank : pc'[x] \in Settled /\ pc[x] \in Settled /\ (pc[x] = "return" <=> pc'[x] = "return")
    BY <1>0, <1>6, <1>7 DEF Settled, Finishing
  <2>2. pc'[q] = "flushed" => Holding("Rank", q, meta'[lvel'[q]][q[2]]) \in gtmp'
    <3>1. CASE q = r
      BY <1>0, <1>1, <1>4, <3>1 DEF f
    <3>2. CASE q # r
      <4>1. Holding("Rank", q, meta[lvel[q]][q[2]]).rank = q
        BY HoldingParts
      <4> QED
        BY <1>0, <1>1, <1>4, <3>2, <4>1 DEF KeptAt
    <3> QED
      BY <3>1, <3>2
  <2> QED
    BY <1>0, <1>1, <1>7, <2>1, <2>2 DEF KeptAt
<1> QED
  BY <1>5, <1>8, <1>9 DEF KeptInv

\* FTI_Clean(6) leaves L4 alone, and splitRank 0 alone removes metadata.
LEMMA CleanLower ==
  ASSUME TypeInv, NEW r \in Rank, CleanLevels(r, 1 .. 3)
  PROVE  gdir' = gdir /\ meta'[4] = meta[4] /\ (r # Root => meta' = meta)
<1>1. gdir' = gdir /\ meta'[4] = meta[4]
  BY DEF CleanLevels
<1> QED
  BY <1>1, MetaClean

\* The steps of FTI_Finalize after the copy.
LEMMA KeptFinish ==
  ASSUME TypeInv, OrderInv, CallInv, History, KeepLast, KeptInv, NEW r \in Rank, FinStep(r), pc[r] # "flush"
  PROVE  KeptInv'
<1>0. /\ pc[r] \in Finishing /\ pc'[r] \in Finishing /\ \A q \in Rank \ {r} : pc'[q] = pc[q]
      /\ pc[r] \notin {"flush", "flushed"} /\ pc'[r] \notin {"flush", "flushed"}
      /\ Exact /\ KeptRoot /\ \A q \in Rank : KeptAt(q)
  BY FinMoves DEF Finishing, KeptInv
<1>1. UNCHANGED <<call, lvel, mem>> /\ (pc[r] # "dropConf" => acked' = acked)
  BY FinLeaves DEF local
<1>2. gtmp' = gtmp \/ pc[r] = "mvL4"
  BY <1>0 DEF FinStep, Flush, FinRemoveL4, FinRenameL4, FinRemoveMeta, FinRenameMeta, FinUpdateConf,
     FinClean, DropConf, Drop, At, disk
<1>3. Exact'
  BY <1>0, ExactLocal
<1>4. \A q \in Rank : pc[q] \notin {"flush", "flushed"} /\ pc'[q] \notin {"flush", "flushed"}
  <2>1. \A q \in Rank : pc[q] \notin {"flush", "flushed"}
    BY <1>0 DEF KeptAt, Finishing
  <2> QED
    BY <1>0, <2>1
<1>5. ASSUME NEW q \in Rank PROVE KeptAt(q)'
  <2>1. \A x \in Rank : /\ pc'[x] \in Settled <=> pc[x] \in Settled
                        /\ pc'[x] \in Settled \ {"return"} <=> pc[x] \in Settled \ {"return"}
    BY <1>0 DEF Settled, Finishing
  <2> QED
    BY <1>0, <1>1, <1>4, <2>1 DEF KeptAt
<1>6. \A q \in Rank : Flushed(q)' => Flushed(q)
  <2>1. pc[r] \in {"dropConf", "drop"} => mem[r].id = 0
    BY DEF CallInv, MemAt
  <2>2. pc'[r] \in Moves /\ pc[r] \notin {"dropConf", "drop"} => pc[r] \in Moves
    BY FinMoves, <1>0 DEF Moves
  <2> QED
    BY <1>0, <1>1, <2>1, <2>2 DEF Flushed
<1>7. pc[Root] \in {"rmL4", "mvL4", "rmMeta", "mvMeta"} \/ Moved4 => Flushed(Root)
  <2>1. pc[Root] \in {"rmL4", "mvL4", "rmMeta", "mvMeta"} => mem[Root].id # 0 /\ lvel[Root] # 4
    BY <1>0, FlushSide, RankParts DEF Flushing, Settled, Finishing
  <2> QED
    BY <2>1 DEF Flushed, Moves, Moved4
<1>8. ASSUME NEW q \in Rank, Flushed(q)
      PROVE  \A x \in Rank : /\ pc[x] \in IF x = Root THEN Moves ELSE {"finClean", "finished"}
                             /\ pc'[x] \in IF x = Root THEN Moves ELSE {"finClean", "finished"}
  <2>1. \A x \in Rank : pc[x] \in IF x = Root THEN Moves ELSE {"finClean", "finished"}
    BY <1>0, <1>8 DEF KeptRoot
  <2>2. pc'[r] \in IF r = Root THEN Moves ELSE {"finClean", "finished"}
    <3>1. CASE r = Root
      BY <2>1, <3>1, FinMoves DEF Moves
    <3>2. CASE r # Root
      BY <2>1, <3>2, FinMoves
    <3> QED
      BY <3>1, <3>2
  <2> QED
    BY <1>0, <2>1, <2>2
<1>9. AllBack' => AllBack
  BY <1>0 DEF AllBack, Settled, Finishing
<1>10. AllBack' /\ mem'[Root].id # 0 => acked'.call # NoCall /\ acked'.lvl = lvel'[Root]
  <2>1. pc[r] = "dropConf" => r = Root /\ mem[r].id = 0
    BY DEF CallInv, MemAt
  <2> QED
    BY <1>0, <1>1, <1>9, <2>1 DEF KeptRoot
<1>11. pc'[Root] # "done"
  <2>1. pc[Root] # "done"
    BY <1>0, RankParts, WhereAll DEF TypeInv, Together, Finishing
  <2> QED
    BY <1>0, <2>1, RankParts DEF Finishing
<1>12. CASE r # Root
  <2>1. pc'[Root] = pc[Root]
    BY <1>0, <1>12, RankParts
  <2>2. ASSUME Flushed(Root) PROVE UNCHANGED <<gtmp, gdir, meta>> /\ acked' = acked
    <3>1. pc[r] = "finClean"
      BY <1>8, <1>12, <2>2, RankParts, FinMoves
    <3>2. FinClean(r)
      BY <3>1 DEF FinStep, Flush, FinRemoveL4, FinRenameL4, FinRemoveMeta, FinRenameMeta, FinUpdateConf,
         DropConf, Drop, At
    <3> QED
      BY <1>1, <1>12, <3>1, <3>2, CleanLower DEF FinClean
  <2>3. conf' = conf
    BY <1>12 DEF FinStep, Flush, FinRemoveL4, FinRenameL4, FinRemoveMeta, FinRenameMeta, FinUpdateConf,
       FinClean, DropConf, Drop, At, CallInv, MemAt
  <2>4. Moving' => Moving
    BY <2>1 DEF Moving
  <2>5. Moved4' => Moved4
    BY <1>1, <2>1 DEF Moved4
  <2>6. KeptRoot'
    <3>1. CASE Flushed(Root)
      BY <1>0, <1>1, <1>6, <1>8, <1>10, <1>11, <2>1, <2>2, <2>3, <2>4, <2>5, <3>1 DEF KeptRoot
    <3>2. CASE ~Flushed(Root)
      <4>1. ~Moving' /\ ~Moved4' /\ pc'[Root] \notin {"rmL4", "mvL4", "rmMeta", "mvMeta"}
        BY <1>7, <2>1, <2>4, <2>5, <3>2 DEF Moving
      <4> QED
        BY <1>0, <1>1, <1>6, <1>8, <1>10, <1>11, <2>1, <2>3, <4>1 DEF KeptRoot
    <3> QED
      BY <3>1, <3>2
  <2> QED
    BY <1>3, <1>5, <2>6 DEF KeptInv
<1>13. CASE r = Root
  <2> SUFFICES KeptRoot'
    BY <1>3, <1>5 DEF KeptInv
  <2>1. (\E q \in Rank : Flushed(q)') => \A q \in Rank : pc'[q] \in IF q = Root THEN Moves ELSE {"finClean", "finished"}
    BY <1>6, <1>8
  <2>2. (\E q \in Rank : Flushed(q))' => \A q \in Rank : pc'[q] \in IF q = Root THEN Moves ELSE {"finClean", "finished"}
    BY <2>1
  <2>3. CASE pc[r] \in {"rmL4", "mvL4", "rmMeta", "mvMeta"}
    <3>0. lvel[Root] \in 1 .. 3 /\ mem[Root].id # 0 /\ acked' = acked
      BY <1>0, <1>1, <1>13, <2>3, FlushSide, RankParts DEF Flushing, Settled, Finishing
    <3>1. \A p \in Proc : meta[lvel[Root]][p] = acked.call
      BY <1>0, <1>13, <2>3 DEF KeptRoot, Moving
    <3>2. CASE pc[r] = "rmL4"
      <4>1. pc'[Root] = "mvL4" /\ UNCHANGED <<gtmp, meta>>
        BY <1>13, <3>2, FinMoves DEF FinStep, Flush, FinRemoveL4, FinRenameL4, FinRemoveMeta, FinRenameMeta,
           FinUpdateConf, FinClean, DropConf, Drop, At
      <4> QED
        BY <1>0, <1>1, <1>10, <1>13, <2>2, <3>0, <3>1, <3>2, <4>1 DEF KeptRoot, Moving, Moved4
    <3>3. CASE pc[r] = "mvL4"
      <4>1. pc'[Root] = "rmMeta" /\ gdir' = gtmp /\ meta' = meta
        BY <1>13, <3>3, FinMoves DEF FinStep, Flush, FinRemoveL4, FinRenameL4, FinRemoveMeta, FinRenameMeta,
           FinUpdateConf, FinClean, DropConf, Drop, At
      <4> QED
        BY <1>0, <1>1, <1>10, <1>13, <2>2, <3>0, <3>1, <3>3, <4>1 DEF KeptRoot, Moving, Moved4
    <3>4. CASE pc[r] = "rmMeta"
      <4>1. pc'[Root] = "mvMeta" /\ meta' = [meta EXCEPT ![4] = NoMeta] /\ gdir' = gdir
        BY <1>13, <3>4, FinMoves DEF FinStep, Flush, FinRemoveL4, FinRenameL4, FinRemoveMeta, FinRenameMeta,
           FinUpdateConf, FinClean, DropConf, Drop, At, disk
      <4>2. meta'[lvel[Root]] = meta[lvel[Root]]
        BY <3>0, <4>1 DEF TypeInv, ControlOK
      <4> QED
        BY <1>0, <1>1, <1>10, <1>13, <2>2, <3>0, <3>1, <3>4, <4>1, <4>2 DEF KeptRoot, Moving, Moved4
    <3>5. CASE pc[r] = "mvMeta"
      <4>1. pc'[Root] = "finConf" /\ gdir' = gdir /\ FinRenameMeta(Root)
        BY <1>13, <3>5, FinMoves DEF FinStep, Flush, FinRemoveL4, FinRenameL4, FinRemoveMeta, FinRenameMeta,
           FinUpdateConf, FinClean, DropConf, Drop, At, disk
      <4>2. meta' = [meta EXCEPT ![4] = meta[lvel[Root]], ![lvel[Root]] = NoMeta]
        BY <3>0, <4>1 DEF FinRenameMeta
      <4>3. meta'[4] = meta[lvel[Root]]
        BY <3>0, <4>2 DEF TypeInv, ControlOK
      <4> QED
        BY <1>0, <1>1, <1>10, <1>13, <2>2, <3>0, <3>1, <3>5, <4>1, <4>3 DEF KeptRoot, Moving, Moved4
    <3> QED
      BY <2>3, <3>2, <3>3, <3>4, <3>5
  <2>4. CASE pc[r] \in {"finConf", "finClean"}
    <3>1. /\ pc'[Root] \in {"finClean", "finished"} /\ gdir' = gdir /\ meta'[4] = meta[4] /\ acked' = acked
          /\ conf' = 2 \/ (pc[Root] = "finClean" /\ conf' = conf)
      <4>1. CASE pc[r] = "finConf"
        BY <1>1, <1>13, <4>1, FinMoves DEF FinStep, Flush, FinRemoveL4, FinRenameL4, FinRemoveMeta, FinRenameMeta,
           FinUpdateConf, FinClean, DropConf, Drop, At, disk
      <4>2. CASE pc[r] = "finClean"
        <5>1. FinClean(r)
          BY <4>2 DEF FinStep, Flush, FinRemoveL4, FinRenameL4, FinRemoveMeta, FinRenameMeta, FinUpdateConf,
             DropConf, Drop, At
        <5> QED
          BY <1>1, <1>13, <4>2, <5>1, FinMoves, CleanLower DEF FinClean
      <4> QED
        BY <2>4, <4>1, <4>2
    <3>2. Moved4' => Moved4
      BY <1>1, <1>13, <2>4 DEF Moved4
    <3> QED
      BY <1>0, <1>1, <1>10, <1>11, <1>13, <2>2, <2>4, <3>1, <3>2 DEF KeptRoot, Moving
  <2>5. CASE pc[r] \in {"dropConf", "drop"}
    <3>1. mem'[Root].id = 0 /\ pc'[Root] \in {"drop", "finished"}
      BY <1>1, <1>13, <2>5, FinMoves DEF CallInv, MemAt
    <3> QED
      BY <1>10, <2>2, <3>1 DEF KeptRoot, Moving, Moved4
  <2> QED
    BY <1>0, <2>3, <2>4, <2>5, FinMoves
<1> QED
  BY <1>12, <1>13

LEMMA KeptRecover ==
  ASSUME TypeInv, KeptInv, NEW r \in Rank, RecoverStep(r)
  PROVE  KeptInv'
<1>0. Exact /\ KeptRoot /\ \A q \in Rank : KeptAt(q)
  BY DEF KeptInv
<1>1. CASE pc[r] \in Recovering
  <2>1. \A q \in Rank : pc[q] \in Recovering
    BY <1>1, WhereAll DEF TypeInv, Together
  <2>2. pc'[r] \in Recovering
    BY <1>1, RecoverMoves DEF Recovering
  <2>3. \A q \in Rank : pc'[q] \in Recovering
    BY <2>1, <2>2, RecoverMoves
  <2>4. \A q \in Rank : pc'[q] \notin Settled \cup Finishing \cup {"done"}
    BY <2>3 DEF Recovering, Settled, Finishing
  <2> QED
    BY <1>0, <2>4, KeptBusy
<1>2. CASE pc[r] \notin Recovering
  <2>1. /\ pc[r] = "restore" /\ UNCHANGED <<calls, conf, disk, meta, call, lvel, mem, history>>
        /\ \A x \in Rank : Busy(x)' = Busy(x)
    BY <1>2, RestoreStep
  <2>2. pc'[r] = "run" /\ \A q \in Rank \ {r} : pc'[q] = pc[q]
    BY <2>1, RecoverMoves
  <2>3. UNCHANGED <<acked, dir, gdir, gtmp>>
    BY <2>1 DEF disk, history
  <2>4. AllBack' => AllBack
    BY <2>1, <2>2 DEF AllBack, Settled
  <2>5. Exact'
    <3> SUFFICES ASSUME AllBack', acked.call # NoCall, Calm(acked.lvl)' PROVE Stored(acked.call, acked.lvl)'
      BY <2>3 DEF Exact
    <3>1. Calm(acked.lvl)
      BY <2>1, <2>3 DEF Calm
    <3>2. PICK c, l : c = acked.call /\ l = acked.lvl
      OBVIOUS
    <3>3. Stored(c, l)
      BY <1>0, <2>4, <3>1, <3>2 DEF Exact
    <3>4. l \in 1 .. 4
      BY <3>3 DEF Stored
    <3>5. Stored(c, l)'
      BY <2>1, <2>3, <3>3, <3>4, StoredKept, UntouchedFrame
    <3>6. acked'.call = c /\ acked'.lvl = l
      BY <2>3, <3>2
    <3> QED
      BY <3>5, <3>6, StoredThen
  <2>6. KeptRoot'
    <3>1. pc'[Root] = pc[Root] \/ pc'[Root] = "run"
      BY <2>2, RankParts
    <3>2. ASSUME NEW q \in Rank, Flushed(q)' PROVE FALSE
      <4>1. Flushed(q)
        BY <2>1, <2>2, <3>2 DEF Flushed, Moves
      <4> QED
        BY <1>0, <2>1, <4>1 DEF KeptRoot, Moves
    <3>3. pc'[Root] # "done"
      <4>1. pc[Root] # "done"
        BY <2>1, RankParts, WhereAll DEF TypeInv, Together
      <4> QED
        BY <3>1, <4>1
    <3>4. Moving' => Moving
      BY <3>1 DEF Moving
    <3>5. Moved4' => Moved4
      BY <2>1, <3>1 DEF Moved4
    <3> QED
      BY <1>0, <2>1, <2>3, <2>4, <3>1, <3>2, <3>3, <3>4, <3>5 DEF KeptRoot
  <2>7. ASSUME NEW q \in Rank PROVE KeptAt(q)'
    <3>1. \A x \in Rank : /\ pc'[x] \in Settled <=> pc[x] \in Settled
                          /\ pc'[x] \in Settled \ {"return"} <=> pc[x] \in Settled \ {"return"}
      BY <2>1, <2>2 DEF Settled
    <3>2. pc'[q] \in {"flush", "flushed"} => pc[q] = pc'[q]
      BY <2>2
    <3> QED
      BY <1>0, <2>1, <2>2, <2>3, <3>1, <3>2 DEF KeptAt
  <2> QED
    BY <2>5, <2>6, <2>7 DEF KeptInv
<1> QED
  BY <1>1, <1>2

\* All leave the commit together.
LEMMA KeptRenamed ==
  ASSUME TypeInv, OrderInv, CallInv, MetaInv, \A r \in Rank : WrittenAt(r), RenameSync
  PROVE  KeptInv'
<1>1. /\ \A r \in Rank : pc[r] = "renamed" /\ pc'[r] = "return"
      /\ UNCHANGED <<lvel, mem>>
  BY DEF RenameSync, AllAt, AllGoto, local
<1>2. \A r \in Rank : mem[r].id # 0 /\ lvel[r] = lvel[Root]
  <2>1. AllAt("renamed")
    BY DEF RenameSync
  <2> QED
    BY <1>1, <2>1, StoredAtRename DEF CallInv, MemAt, Checkpointing, Committing
<1>3. \A r \in Rank : KeptAt(r)'
  BY <1>1, <1>2 DEF KeptAt
<1>4. ~AllBack'
  BY <1>1, RankParts DEF AllBack
<1>5. Exact' /\ KeptRoot'
  BY <1>1, <1>4, RankParts DEF Exact, KeptRoot, Moving, Moved4, Flushed, Moves
<1> QED
  BY <1>3, <1>5 DEF KeptInv

\* All have copied their files.
LEMMA KeptFlushed ==
  ASSUME TypeInv, CallInv, History, KeepLast, KeptInv, FlushSync
  PROVE  KeptInv'
<1>0. /\ \A r \in Rank : pc[r] = "flushed" /\ pc'[r] = IF r = Root THEN "rmL4" ELSE "finClean"
      /\ UNCHANGED <<tmp, dir, gtmp, gdir, meta, lvel, mem, acked, conf>>
      /\ Exact /\ KeptRoot /\ \A r \in Rank : KeptAt(r)
  BY DEF FlushSync, AllAt, KeptInv, disk, local, history
<1>1. AllBack
  BY <1>0 DEF AllBack, Settled, Finishing
<1>2. \A r \in Rank : lvel[r] = lvel[Root] /\ mem[r].id # 0 /\ lvel[r] \in 1 .. 3
  BY <1>0, FlushSide, RankParts DEF Flushing, Settled, Finishing
<1>3. acked.call # NoCall /\ acked.lvl = lvel[Root]
  BY <1>0, <1>1, <1>2, RankParts DEF KeptRoot
<1>4. Calm(acked.lvl)
  <2>1. \A r \in Rank : Busy(r) = 0
    BY <1>0, BusyHere DEF BusyMeans, Renaming, Finishing
  <2> QED
    BY <1>2, <1>3, <2>1, RankParts DEF Calm
<1>5. \A p \in Proc : meta[lvel[Root]][p] = acked.call
  BY <1>0, <1>1, <1>3, <1>4 DEF Exact, Stored
<1>6. \A r \in Rank : Holding("Rank", r, acked.call) \in gtmp
  BY <1>0, <1>2, <1>5, RankParts DEF KeptAt
<1>7. ~Calm(acked.lvl)'
  <2>1. Busy(Root)' = 4
    BY <1>0, RankParts, BusyNext DEF BusyMeans
  <2> QED
    BY <1>0, <1>2, <1>3, <2>1, RankParts DEF Calm
<1>8. KeptRoot'
  BY <1>0, <1>3, <1>5, <1>6, RankParts DEF KeptRoot, Moving, Moved4, Moves
<1>9. ASSUME NEW r \in Rank PROVE KeptAt(r)'
  <2>1. \A q \in Rank : pc[q] \in Settled \ {"return"} /\ pc'[q] \notin {"flush", "flushed"}
    BY <1>0 DEF Settled, Finishing
  <2> QED
    BY <1>0, <2>1 DEF KeptAt
<1> QED
  BY <1>7, <1>8, <1>9 DEF KeptInv, Exact

\* All have come to the end: the last checkpoint is at L4, brought there or taken there.
LEMMA KeptDone ==
  ASSUME TypeInv, CallInv, History, KeepLast, KeptInv, FinSync
  PROVE  KeptInv'
<1>0. /\ \A r \in Rank : pc[r] = "finished" /\ pc'[r] = "done"
      /\ UNCHANGED <<tmp, dir, gtmp, gdir, meta, lvel, mem, conf>>
      /\ Exact /\ KeptRoot /\ \A r \in Rank : KeptAt(r)
  BY DEF FinSync, AllAt, AllGoto, KeptInv, disk, local
<1>1. acked'.call = acked.call
  BY DEF FinSync, TypeInv, ControlOK
<1>2. acked.call # NoCall => Stored(acked.call, 4)
  <2> SUFFICES ASSUME acked.call # NoCall PROVE Stored(acked.call, 4)
    OBVIOUS
  <2>1. mem[Root].id # 0
    BY <1>0, RankParts DEF History
  <2>2. CASE lvel[Root] # 4
    <3>1. Moved4
      BY <1>0, <2>1, <2>2, RankParts DEF Moved4
    <3>2. (\A p \in Proc : meta[4][p] = acked.call) /\ \A r \in Rank : Holding("Rank", r, acked.call) \in gdir
      BY <1>0, <3>1 DEF KeptRoot
    <3>3. \A r \in Rank : Files(r, acked.call, 4) \subseteq Place(4, r[1])
      BY <3>2 DEF Files, Kinds, Place
    <3> QED
      BY <3>2, <3>3, StoredIs
  <2>3. CASE lvel[Root] = 4
    <3>1. \A r \in Rank : pc[r] \in Settled \ {"return"}
      BY <1>0 DEF Settled, Finishing
    <3>2. \A r \in Rank : mem[r].last = 4
      BY <1>0, <2>1, <2>3, <3>1, RankParts DEF KeptAt
    <3>3. AllBack
      BY <3>1 DEF AllBack
    <3>4. acked.lvl = 4
      BY <1>0, <2>1, <2>3, <3>3 DEF KeptRoot
    <3>5. \A r \in Rank : Busy(r) = 3
      BY <1>0, <3>2, BusyHere DEF BusyMeans, Removing
    <3>6. Calm(4)
      BY <3>5 DEF Calm
    <3> QED
      BY <1>0, <3>3, <3>4, <3>6 DEF Exact
  <2> QED
    BY <2>2, <2>3
<1>3. acked'.call # NoCall => Stored(acked.call, 4)'
  <2> SUFFICES ASSUME acked.call # NoCall PROVE Stored(acked.call, 4)'
    BY <1>1
  <2>1. PICK c, l : c = acked.call /\ l = 4
    OBVIOUS
  <2>2. Stored(c, l) /\ l \in 1 .. 4
    BY <1>2, <2>1
  <2>3. Stored(c, l)'
    BY <1>0, <2>2, StoredKept, UntouchedFrame
  <2> QED
    BY <1>1, <2>1, <2>3, StoredThen
<1>4. ~AllBack'
  BY <1>0, RankParts DEF AllBack, Settled, Finishing
<1>5. KeptRoot'
  BY <1>0, <1>3, <1>4, RankParts DEF KeptRoot, Moving, Moved4, Flushed, Moves
<1>6. \A r \in Rank : KeptAt(r)'
  BY <1>0 DEF KeptAt, Settled, Finishing
<1> QED
  BY <1>4, <1>5, <1>6 DEF KeptInv, Exact

\* A launch or a recovery that finds nothing begins with nothing in memory.
LEMMA BootNothing ==
  ASSUME TypeInv, CallInv,
         BootFresh \/ BootRecover \/ SkipLevel \/ TryLocal \/ TryGlobal \/ CheckGlobal \/ RecoverSync,
         NEW r \in Rank, pc'[r] = "run"
  PROVE  mem'[r].id = 0 /\ lvel'[r] = 0
<1>1. mem[r].id = 0 /\ lvel[r] = 0
  BY BootOutcome DEF CallInv, MemAt, Off
<1>2. CASE BootFresh
  BY <1>1, <1>2 DEF BootFresh, local
<1>3. CASE NextLevel
  BY <1>1, <1>3 DEF NextLevel, NotRecovered
<1>4. CASE RecoverSync /\ ~NextLevel
  BY <1>4 DEF RecoverSync, AllGoto
<1>5. CASE BootRecover \/ TryLocal \/ TryGlobal \/ CheckGlobal
  BY <1>5 DEF BootRecover, TryLocal, TryGlobal, CheckGlobal, Check, RecoverEntry, AllGoto
<1> QED
  BY <1>2, <1>3, <1>4, <1>5 DEF SkipLevel

LEMMA KeptBoot ==
  ASSUME TypeInv, IdsInv, CallInv, MetaInv, RepairInv, KeptInv,
         BootFresh \/ BootRecover \/ SkipLevel \/ TryLocal \/ TryGlobal \/ CheckGlobal \/ RecoverSync
  PROVE  KeptInv'
<1>0. \A r \in Rank : KeptAt(r)
  BY DEF KeptInv
<1>1. CASE \A r \in Rank : pc'[r] \in Recovering
  <2>1. \A r \in Rank : pc'[r] \notin Settled \cup Finishing \cup {"done"}
    BY <1>1 DEF Recovering, Settled, Finishing
  <2> QED
    BY <1>0, <2>1, KeptBusy, RankParts
<1>2. CASE acked' = [call |-> NoCall, lvl |-> 0] /\ \A r \in Rank : pc'[r] = "run"
  <2>1. \A r \in Rank : mem'[r].id = 0 /\ lvel'[r] = 0
    BY <1>2, BootNothing
  <2>2. Exact'
    BY <1>2 DEF Exact
  <2>3. KeptRoot'
    BY <1>2, <2>1, RankParts DEF KeptRoot, Moving, Moved4, Flushed, Moves
  <2>4. \A r \in Rank : KeptAt(r)'
    BY <1>2, <2>1 DEF KeptAt
  <2> QED
    BY <2>2, <2>3, <2>4 DEF KeptInv
<1>3. CASE RecoverSync /\ \A r \in Rank : res[r] = 0
  <2>1. /\ AllAt("recovered") /\ rlevel \in 1 .. 4
        /\ \A r \in Rank : /\ pc'[r] = "restore" /\ lvel'[r] = rlevel
                           /\ mem'[r].last = rlevel /\ mem'[r].id # 0
        /\ meta[rlevel][0] \in 1 .. Len(calls)
        /\ acked' = [call |-> meta[rlevel][0], lvl |-> rlevel]
        /\ UNCHANGED <<dir, gdir, meta>>
    BY <1>3, RecoveredState DEF disk
  <2>2. Exact'
    <3>1. PICK c, l : c = meta[rlevel][0] /\ l = rlevel
      OBVIOUS
    <3>2. Stored(c, l) /\ l \in 1 .. 4
      BY <1>3, <2>1, <3>1, StoredAtRecover
    <3>3. Stored(c, l)'
      BY <2>1, <3>2, StoredKept, UntouchedFrame
    <3>4. acked'.call = c /\ acked'.lvl = l
      BY <2>1, <3>1
    <3>5. Stored(acked.call, acked.lvl)'
      BY <3>3, <3>4, StoredThen
    <3> QED
      BY <3>5 DEF Exact
  <2>3. KeptRoot'
    <3>1. acked'.call # NoCall /\ acked'.lvl = lvel'[Root]
      BY <2>1, RankParts, IndexType DEF TypeInv, NoCall
    <3> QED
      BY <2>1, <3>1, RankParts DEF KeptRoot, Moving, Moved4, Flushed, Moves
  <2>4. \A r \in Rank : KeptAt(r)'
    BY <2>1 DEF KeptAt
  <2> QED
    BY <2>2, <2>3, <2>4 DEF KeptInv
<1> QED
  BY <1>1, <1>2, <1>3, BootOutcome

\* What keep_last_ckpt needs is inductive where nothing fails.
LEMMA KeptStep ==
  ASSUME NoRace, TypeInv, TypeInv', OrderInv, IdsInv, CallInv, CallInv', MetaInv, RepairInv,
         \A r \in Rank : WrittenAt(r), History, Returning,
         Faults \subseteq {"flush"} => \A q \in Rank : Passing(q),
         Faults \subseteq {"flush"} => \A q \in Rank : Passing(q)',
         Kept, [Next]_vars
  PROVE  Kept'
<1> SUFFICES ASSUME KeepLast PROVE KeptInv'
  BY DEF Kept
<1>0. /\ Faults = {} /\ KeptInv
      /\ \A q \in Rank : Passing(q)
      /\ \A q \in Rank : Passing(q)'
  BY DEF NoRace, Kept
<1>1. ASSUME NEW r \in Rank, AppStep(r) PROVE KeptInv'
  BY <1>0, <1>1, KeptApp
<1>2. ASSUME NEW r \in Rank, CkptStep(r) PROVE KeptInv'
  BY <1>0, <1>2, KeptCkpt
<1>3. ASSUME NEW r \in Rank, FinStep(r) PROVE KeptInv'
  <2>1. CASE pc[r] # "flush"
    BY <1>0, <1>3, <2>1, KeptFinish
  <2>2. CASE pc[r] = "flush"
    <3>1. PICK bad \in BOOLEAN : Flush(r, bad)
      BY <1>3, <2>2 DEF FinStep, FinRemoveL4, FinRenameL4, FinRemoveMeta, FinRenameMeta, FinUpdateConf,
         FinClean, DropConf, Drop, At
    <3> QED
      BY <1>0, <3>1, KeptFlush
  <2> QED
    BY <2>1, <2>2
<1>4. ASSUME NEW r \in Rank, RecoverStep(r) PROVE KeptInv'
  BY <1>0, <1>4, KeptRecover
<1>5. CASE WriteSync \/ PostSync \/ \E p \in Proc, l \in {2, 3}, bad \in SUBSET Node : Exchange(p, l, bad)
  <2>1. \/ \A r \in Rank : pc'[r] \in Exchanging
        \/ \A r \in Rank : pc'[r] \in {"clean", "discard"}
    <3>1. CASE WriteSync
      BY <3>1 DEF WriteSync, AllGoto, Exchanging
    <3>2. CASE PostSync
      BY <3>2 DEF PostSync, AllGoto
    <3>3. CASE \E p \in Proc, l \in {2, 3}, bad \in SUBSET Node : Exchange(p, l, bad)
      <4>1. PICK p \in Proc : At(<<0, p>>, "post") /\ <<0, p>> \in Rank
        BY <3>3, RankParts, SizesAssumption DEF Exchange, Group, Node
      <4> QED
        BY <3>3, <4>1, SyncMoves DEF At
    <3> QED
      BY <1>5, <3>1, <3>2, <3>3
  <2>2. \A r \in Rank : pc'[r] \notin Settled \cup Finishing \cup {"done"}
    BY <2>1 DEF Exchanging, Settled, Finishing
  <2> QED
    BY <1>0, <2>2, KeptBusy, RankParts DEF KeptInv
<1>6. CASE RenameSync
  BY <1>6, KeptRenamed
<1>7. CASE FlushSync
  BY <1>0, <1>7, KeptFlushed
<1>8. CASE FinSync
  BY <1>0, <1>8, KeptDone
<1>9. CASE BootFresh \/ BootRecover \/ SkipLevel \/ TryLocal \/ TryGlobal \/ CheckGlobal \/ RecoverSync
  BY <1>0, <1>9, KeptBoot
<1>10. CASE Environment
  <2>1. \A r \in Rank : pc'[r] = "down"
    BY <1>10 DEF Environment, Relaunch, Crash, Reset
  <2>2. \A r \in Rank : pc'[r] \notin Settled \cup Finishing \cup {"done"}
    BY <2>1 DEF Settled, Finishing
  <2> QED
    BY <1>0, <2>2, KeptBusy, RankParts DEF KeptInv
<1>11. CASE UNCHANGED vars
  <2>1. UNCHANGED <<calls, conf, tmp, dir, gtmp, gdir, meta, pc, call, lvel, mem, acked>>
    BY <1>11 DEF vars, disk, local, history
  <2>2. Exact'
    <3> SUFFICES ASSUME AllBack', acked.call # NoCall, Calm(acked.lvl)' PROVE Stored(acked.call, acked.lvl)'
      BY <2>1 DEF Exact
    <3>1. AllBack /\ Calm(acked.lvl)
      BY <2>1 DEF AllBack, Calm, Busy, Replacing
    <3>2. PICK c, l : c = acked.call /\ l = acked.lvl
      OBVIOUS
    <3>3. Stored(c, l)
      BY <1>0, <3>1, <3>2 DEF KeptInv, Exact
    <3>4. Stored(c, l)' /\ acked'.call = c /\ acked'.lvl = l
      BY <2>1, <3>2, <3>3, StoredKept, UntouchedFrame DEF Stored
    <3> QED
      BY <3>4, StoredThen
  <2>3. KeptRoot'
    <3>1. pc[Root] = "done" /\ acked.call # NoCall => Stored(acked.call, 4)'
      <4> SUFFICES ASSUME pc[Root] = "done", acked.call # NoCall PROVE Stored(acked.call, 4)'
        OBVIOUS
      <4>1. PICK c, l : c = acked.call /\ l = 4
        OBVIOUS
      <4>2. Stored(c, l) /\ l \in 1 .. 4
        BY <1>0, <4>1 DEF KeptInv, KeptRoot
      <4>3. Stored(c, l)'
        BY <2>1, <4>2, StoredKept, UntouchedFrame
      <4> QED
        BY <2>1, <4>1, <4>3, StoredThen
    <3>2. KeptRoot
      BY <1>0 DEF KeptInv
    <3> QED
      BY <2>1, <3>1, <3>2 DEF KeptRoot, AllBack, Moving, Moved4, Flushed
  <2>4. \A r \in Rank : KeptAt(r)'
    BY <1>0, <2>1 DEF KeptInv, KeptAt
  <2> QED
    BY <2>2, <2>3, <2>4 DEF KeptInv
<1> QED
  BY <1>1, <1>2, <1>3, <1>4, <1>5, <1>6, <1>7, <1>8, <1>9, <1>10, <1>11 DEF Next, Sync, Ended

(***************************************************************************)
(* A completed checkpoint is kept.                                         *)
(***************************************************************************)

\* What is stored stays stored where its level is left alone.
LEMMA SafeKept ==
  ASSUME TypeInv, Safe, acked' = acked, acked.lvl \in 1 .. 4, Len(calls) <= Len(calls'), Len(calls') \in Nat,
         acked.call # NoCall => Unharmed(acked.lvl),
         \A l \in 1 .. 4 : \A c : acked.lvl <= l /\ acked.call # NoCall /\ acked.call <= c /\ Stored(c, l) /\ Awaits(l)
                             => Untouched(l) /\ Awaits(l)'
  PROVE  Safe'
<1> SUFFICES ASSUME acked.call # NoCall
             PROVE  \E c \in acked.call .. Len(calls'), l \in acked.lvl .. 4 : Stored(c, l)' /\ Awaits(l)'
  BY DEF Safe
<1>1. PICK c \in acked.call .. Len(calls), l \in acked.lvl .. 4 : Stored(c, l) /\ Awaits(l)
  BY DEF Safe
<1>2. l \in 1 .. 4 /\ acked.lvl <= l /\ acked.call <= c
  BY <1>1 DEF TypeInv, ControlOK, Index
<1>3. Untouched(l) /\ Awaits(l)'
  BY <1>1, <1>2
<1>4. Stored(c, l)'
  BY <1>1, <1>2, <1>3, StoredKept
<1>5. c \in acked.call .. Len(calls')
  BY <1>1, IndexType DEF TypeInv, ControlOK
<1> QED
  BY <1>1, <1>3, <1>4, <1>5

\* A checkpoint that has just been completed, or recovered.
LEMMA SafeNew ==
  ASSUME NEW c \in Int, NEW l \in 1 .. 4, acked'.call <= c, c <= Len(calls'), acked'.call \in Int, Len(calls') \in Nat,
         acked'.lvl \in 1 .. 4, acked'.lvl <= l, Stored(c, l)', pc'[Root] \notin Recovering
  PROVE  Safe'
<1>1. c \in acked'.call .. Len(calls') /\ l \in acked'.lvl .. 4
  OBVIOUS
<1>2. Awaits(l)'
  BY DEF Awaits
<1> QED
  BY <1>1, <1>2 DEF Safe

\* The steps of FTI_Checkpoint and FTI_Finalize.
LEMMA SafeLocal ==
  ASSUME TypeInv, TypeInv', OrderInv, CallInv, History, Returning, Safe, NEW r \in Rank,
         AppStep(r) \/ CkptStep(r) \/ FinStep(r)
  PROVE  Safe'
<1>0. pc[r] \notin Recovering /\ pc'[r] \notin Recovering /\ \A q \in Rank \ {r} : pc'[q] = pc[q]
  BY AppLeaves, CkptMoves, FinMoves DEF Recovering, FinalizeEntry
<1>1. pc'[Root] \notin Recovering
  <2>1. pc[Root] \notin Recovering
    BY <1>0, RankParts, WhereAll DEF TypeInv, Together
  <2> QED
    BY <1>0, <2>1, RankParts
<1>2. Len(calls) <= Len(calls') /\ Len(calls') \in Nat /\ Len(calls) \in Nat
  <2>1. Len(calls) \in Nat /\ Len(calls') \in Nat
    BY IndexType DEF TypeInv, ControlOK
  <2> QED
    BY <2>1, AppLeaves, CkptLeaves, FinLeaves
<1>3. CASE UNCHANGED history
  <2> SUFFICES ASSUME acked.call # NoCall, Unharmed(acked.lvl)' PROVE Safe'
    BY <1>3 DEF Safe, history
  <2>1. UNCHANGED <<acked, hurt, open, torn>> /\ acked.lvl \in 1 .. 4
    BY <1>3 DEF history, History
  <2>2. \A q \in Rank : Busy(q)' < acked.lvl
    BY <2>1 DEF Unharmed, Calm
  <2>3. pc[r] # "drop" \/ r # Root
    BY DEF History, CallInv, MemAt
  <2>4. Calm(acked.lvl)
    BY <2>1, <2>2, <2>3, CalmBefore
  <2>5. Unharmed(acked.lvl)
    BY <2>1, <2>4 DEF Unharmed
  <2>6. ASSUME NEW l \in 1 .. 4, acked.lvl <= l PROVE Untouched(l) /\ Awaits(l)'
    <3>1. Busy(r)' < l
      <4>1. Busy(r)' \in 0 .. 6
        <5>1. lvel'[r] \in Level
          BY DEF TypeInv, ControlOK
        <5> QED
          BY <5>1, BusyNext DEF BusyMeans, Level, Rejected, Renaming, Removing, Finishing
      <4> QED
        BY <2>1, <2>2, <2>6, <4>1
    <3>2. Untouched(l)
      BY <2>3, <3>1, UntouchedLocal
    <3> QED
      BY <1>1, <3>2 DEF Awaits
  <2> QED
    BY <1>2, <2>1, <2>5, <2>6, SafeKept
<1>4. CASE ~UNCHANGED history
  <2>1. CASE DropConf(r)
    BY <2>1 DEF DropConf, Safe
  <2>2. CASE ~DropConf(r)
    <3>1. Return(r)
      BY <1>4, <2>2, AppLeaves DEF CkptStep, Write, CreateMetadata, PostLocal, Discard, Clean, Rename, RenameGlobal,
         RenameMeta, FinStep, Flush, FinRemoveL4, FinRenameL4, FinRemoveMeta, FinRenameMeta, FinUpdateConf,
         FinClean, Drop
    <3>2. /\ acked' = [call |-> call[r], lvl |-> lvel[r]] /\ pc[r] = "return" /\ pc'[r] = "run"
          /\ KeepLast \/ pc[Root] \notin {"drop", "finished"}
      BY <1>0, <1>4, <3>1, ReturnOutcome, CkptMoves DEF Return, At, CkptStep
    <3>3. ~GivenUp
      BY <3>2, RankParts DEF GivenUp, History
    <3>4. PICK c, l : c = call[r] /\ l = lvel[r]
      OBVIOUS
    <3>5. l \in 1 .. 4 /\ c \in Nat /\ c <= Len(calls)
      <4>1. call[r] \in Index
        BY DEF TypeInv, ControlOK
      <4> QED
        BY <1>2, <3>2, <3>4, <4>1, ReturnLevel DEF Index
    <3> SUFFICES ASSUME Unharmed(acked.lvl)' PROVE Safe'
      BY DEF Safe
    <3>6. \A q \in Rank : Busy(q)' < l
      BY <3>2, <3>4 DEF Unharmed, Calm
    <3>7. Calm(l) /\ Untouched(l)
      BY <3>2, <3>5, <3>6, CalmBefore, UntouchedLocal
    <3>8. Stored(c, l)
      BY <3>2, <3>3, <3>4, <3>7 DEF Returning
    <3>9. Stored(c, l)'
      BY <3>5, <3>7, <3>8, StoredKept
    <3>10. acked'.call = c /\ acked'.lvl = l /\ c <= Len(calls')
      BY <1>2, <3>2, <3>4, <3>5
    <3> QED
      BY <1>1, <1>2, <3>5, <3>9, <3>10, SafeNew
  <2> QED
    BY <2>1, <2>2
<1> QED
  BY <1>3, <1>4

\* The collectives of FTI_Checkpoint and FTI_Finalize.
LEMMA SafeCollective ==
  ASSUME TypeInv, TypeInv', OrderInv, CallInv, MetaInv, \A r \in Rank : WrittenAt(r), History, Kept', Safe,
         \/ WriteSync \/ PostSync \/ RenameSync \/ FlushSync \/ FinSync
         \/ \E p \in Proc, l \in {2, 3}, bad \in SUBSET Node : Exchange(p, l, bad)
  PROVE  Safe'
<1>0. Len(calls) \in Nat /\ Len(calls') \in Nat /\ calls' = calls
  <2>1. Len(calls) \in Nat /\ Len(calls') \in Nat
    BY IndexType DEF TypeInv, ControlOK
  <2> QED
    BY <2>1, SyncLeaves DEF FinSync
<1>1. CASE FinSync
  <2> SUFFICES ASSUME acked'.call # NoCall PROVE Safe'
    BY DEF Safe
  <2>1. /\ pc[Root] = "finished" /\ pc'[Root] = "done" /\ mem' = mem
        /\ acked.call # NoCall /\ acked'.call = acked.call /\ acked'.lvl = 4
    BY <1>1, RankParts DEF FinSync, AllAt, AllGoto, local, TypeInv, ControlOK
  <2>2. KeepLast
    BY <2>1 DEF History
  <2>3. Stored(acked.call, 4)'
    BY <2>1, <2>2 DEF Kept, KeptInv, KeptRoot
  <2>4. acked.call \in Nat /\ acked.call <= Len(calls)
    BY <1>0 DEF TypeInv, ControlOK, Index
  <2>5. PICK c : c = acked.call
    OBVIOUS
  <2>6. acked.call' = c /\ 4' = 4
    BY <2>1, <2>5
  <2>7. Stored(c, 4)'
    BY <2>3, <2>6 DEF Stored
  <2> QED
    BY <1>0, <2>1, <2>4, <2>5, <2>7, SafeNew DEF Recovering
<1>2. CASE RenameSync
  <2> SUFFICES ASSUME acked.call # NoCall, Unharmed(acked.lvl)' PROVE Safe'
    BY <1>2, SyncLeaves DEF Safe, history
  <2>1. /\ AllAt("renamed") /\ UNCHANGED <<acked, hurt, open, torn, dir, gdir, meta, lvel, call>>
        /\ pc'[Root] = "return"
    BY <1>2, RankParts DEF RenameSync, AllGoto, disk, local, history
  <2>2. acked.lvl \in 1 .. 4 /\ acked.call \in Nat /\ acked.call <= Len(calls)
    BY <1>0 DEF History, TypeInv, ControlOK, Index
  <2>3. PICK c, l : c = call[Root] /\ l = lvel[Root]
    OBVIOUS
  <2>4. c = Len(calls) /\ l \in 1 .. 4 /\ Stored(c, l) /\ \A r \in Rank : lvel[r] = l
    BY <2>1, <2>3, StoredAtRename
  <2>5. Stored(c, l)'
    BY <2>1, <2>4, StoredKept, UntouchedFrame
  <2>6. CASE acked.lvl <= l
    BY <1>0, <2>1, <2>2, <2>4, <2>5, <2>6, SafeNew DEF Recovering
  <2>7. CASE ~(acked.lvl <= l)
    <3>1. \A r \in Rank : Busy(r) = l
      BY <2>1, <2>4, BusyHere DEF BusyMeans, AllAt, Renaming
    <3>2. Unharmed(acked.lvl)
      BY <2>1, <2>2, <2>4, <2>7, <3>1 DEF Unharmed, Calm
    <3>3. \A k \in 1 .. 4 : Untouched(k) /\ Awaits(k)'
      BY <2>1, UntouchedFrame DEF Awaits, Recovering
    <3> QED
      BY <1>0, <2>1, <2>2, <3>2, <3>3, SafeKept
  <2> QED
    BY <2>6, <2>7
<1>3. CASE ~FinSync /\ ~RenameSync
  <2> SUFFICES ASSUME acked.call # NoCall, Unharmed(acked.lvl)' PROVE Safe'
    BY <1>3, SyncLeaves DEF Safe, history
  <2>1. UNCHANGED <<acked, hurt, open, torn, dir, gdir, meta>>
    BY <1>3, SyncLeaves DEF history
  <2>2. acked.lvl \in 1 .. 4
    BY DEF History
  <2>3. \A r \in Rank : pc[r] \notin Renaming \cup (Finishing \ {"flush", "flushed"}) /\ pc'[r] \notin Recovering
    <3>1. ~ \A r \in Rank : pc[r] = "renamed" /\ pc'[r] = "return"
      <4>1. CASE WriteSync \/ PostSync \/ FlushSync
        BY <4>1, RankParts DEF WriteSync, PostSync, FlushSync, AllAt
      <4>2. CASE \E p \in Proc, l \in {2, 3}, bad \in SUBSET Node : Exchange(p, l, bad)
        <5>1. PICK p \in Proc : At(<<0, p>>, "post") /\ <<0, p>> \in Rank
          BY <4>2, RankParts, SizesAssumption DEF Exchange, Group, Node
        <5> QED
          BY <5>1 DEF At
      <4> QED
        BY <1>3, <4>1, <4>2
    <3> QED
      BY <1>3, <3>1, SyncMoves DEF Renaming, Finishing, Recovering, Exchanging
  <2>4. Calm(acked.lvl)
    <3>1. \A r \in Rank : Busy(r) = 0
      BY <2>3, BusyHere DEF BusyMeans
    <3> QED
      BY <2>2, <3>1 DEF Calm
  <2>5. Unharmed(acked.lvl)
    BY <2>1, <2>4 DEF Unharmed
  <2>6. \A k \in 1 .. 4 : Untouched(k) /\ Awaits(k)'
    BY <2>1, <2>3, UntouchedFrame, RankParts DEF Awaits
  <2> QED
    BY <1>0, <2>1, <2>2, <2>5, <2>6, SafeKept
<1> QED
  BY <1>1, <1>2, <1>3

\* A level that has all its files needs no repair.
LEMMA WholeEntry ==
  ASSUME NEW l \in 1 .. 4, NEW r \in Rank, Erasures(r[2], l) = {}
  PROVE  /\ Recoverable(Erasures(r[2], l), r[2], l)
         /\ RecoverEntry(r, Erasures(r[2], l), l) = IF l = 4 THEN "fetch" ELSE "recovered"
<1>1. Recoverable({}, r[2], l)
  <2>1. CASE l \in {1, 4}
    <3>1. l \in {1, 4} /\ l # 2 /\ l # 3
      BY <2>1
    <3> HIDE DEF Expected, Right
    <3> QED
      BY <3>1, Zenon DEF Recoverable
  <2>2. CASE l = 2
    BY <2>2 DEF Recoverable
  <2>3. CASE l = 3
    <3>1. Cardinality({}) = 0
      BY FS_EmptySet
    <3> QED
      BY <2>3, <3>1, SizesAssumption DEF Recoverable
  <2> QED
    BY <2>1, <2>2, <2>3
<1>2. CASE l = 4
  BY <1>1, <1>2 DEF RecoverEntry
<1>3. CASE l # 4
  BY <1>1, <1>3 DEF RecoverEntry
<1> QED
  BY <1>1, <1>2, <1>3

\* No recovery passes by a level that has all its files.
LEMMA AwaitsBoot ==
  ASSUME TypeInv, RepairInv, NEW l \in 1 .. 4, NEW c, c # NoCall, Stored(c, l), Awaits(l),
         \A r \in Rank : pc'[r] \in Recovering,
         BootFresh \/ BootRecover \/ SkipLevel \/ TryLocal \/ TryGlobal \/ CheckGlobal \/ RecoverSync
  PROVE  Awaits(l)'
<1>0. rlevel \in 1 .. 4 /\ Root \in Rank /\ 0 \in Proc
  BY RankParts DEF TypeInv, ControlOK
<1>1. pc'[Root] # "run" /\ pc'[Root] # "restore"
  BY <1>0 DEF Recovering
<1>2. \A p \in Proc : meta[l][p] = c /\ Erasures(p, l) = {}
  BY DEF Stored
<1>3. \A r \in Rank : /\ Recoverable(Erasures(r[2], l), r[2], l)
                      /\ RecoverEntry(r, Erasures(r[2], l), l) = IF l = 4 THEN "fetch" ELSE "recovered"
  BY <1>2, RankParts, WholeEntry
<1>4. ASSUME NextLevel, rlevel < l PROVE Awaits(l)'
  <2>1. rlevel' = rlevel + 1 /\ \A r \in Rank : pc'[r] = "try"
    BY <1>1, <1>4 DEF NextLevel, NotRecovered, AllGoto
  <2> QED
    BY <1>0, <1>4, <2>1 DEF Awaits
<1>5. CASE BootFresh
  BY <1>0, <1>1, <1>5 DEF BootFresh, AllGoto
<1>6. CASE BootRecover
  BY <1>0, <1>6 DEF BootRecover, AllAt, AllGoto, RepairInv, recov, Awaits
<1>7. CASE SkipLevel
  <2>1. pc[Root] = "try" /\ NextLevel /\ meta[rlevel][0] = NoCall
    BY <1>0, <1>7 DEF SkipLevel, AllAt, MetaMissing
  <2>2. rlevel <= l /\ rlevel # l
    BY <1>0, <1>2, <2>1 DEF Awaits, Recovering
  <2> QED
    BY <1>0, <1>4, <2>1, <2>2
<1>8. CASE TryLocal
  <2>1. pc[Root] = "try" /\ rlevel < 4 /\ rlevel' = rlevel /\ Check(rlevel)
    BY <1>0, <1>8 DEF TryLocal, AllAt
  <2>2. rlevel <= l
    BY <2>1 DEF Awaits, Recovering
  <2>3. rlevel = l => \A r \in Rank : pc'[r] = "recovered" /\ res'[r] = 0
    BY <1>3, <2>1 DEF Check
  <2> QED
    BY <2>1, <2>2, <2>3 DEF Awaits
<1>9. CASE TryGlobal
  <2>1. pc[Root] = "try" /\ rlevel' = rlevel /\ \A r \in Rank : pc'[r] = "cleanL1"
    BY <1>0, <1>9 DEF TryGlobal, AllAt, AllGoto, recov
  <2> QED
    BY <2>1 DEF Awaits, Recovering
<1>10. CASE CheckGlobal
  <2>1. pc[Root] = "cleanedL1" /\ rlevel' = rlevel /\ Check(4)
    BY <1>0, <1>10 DEF CheckGlobal, AllAt
  <2>2. rlevel = 4 /\ rlevel <= l
    BY <1>0, <2>1 DEF TypeInv, Checked, Awaits, Recovering
  <2>3. l = 4
    BY <2>2
  <2>4. \A r \in Rank : pc'[r] = "fetch"
    BY <1>3, <2>1, <2>3 DEF Check
  <2> QED
    BY <2>1, <2>2, <2>4 DEF Awaits
<1>11. CASE RecoverSync
  <2>1. AllAt("recovered") /\ pc[Root] = "recovered" /\ NextLevel /\ \E r \in Rank : res[r] # 0
    BY <1>0, <1>1, <1>11 DEF RecoverSync, AllAt, AllGoto
  <2>2. rlevel <= l /\ rlevel # l
    BY <2>1 DEF Awaits, Recovering, AllAt
  <2> QED
    BY <1>0, <1>4, <2>1, <2>2
<1> QED
  BY <1>5, <1>6, <1>7, <1>8, <1>9, <1>10, <1>11

\* A launch and its recovery.
LEMMA SafeBoot ==
  ASSUME TypeInv, IdsInv, MetaInv, RepairInv, History, Safe,
         BootFresh \/ BootRecover \/ SkipLevel \/ TryLocal \/ TryGlobal \/ CheckGlobal \/ RecoverSync
  PROVE  Safe'
<1>0. /\ \A r \in Rank : pc[r] \in {"down"} \cup Recovering
      /\ calls' = calls /\ Len(calls) \in Nat
  BY BootOutcome, IndexType DEF TypeInv
<1>1. CASE acked' = [call |-> NoCall, lvl |-> 0]
  BY <1>1 DEF Safe
<1>2. CASE RecoverSync /\ \A r \in Rank : res[r] = 0
  <2>1. /\ AllAt("recovered") /\ rlevel \in 1 .. 4 /\ pc'[Root] = "restore"
        /\ meta[rlevel][0] \in 1 .. Len(calls)
        /\ acked' = [call |-> meta[rlevel][0], lvl |-> rlevel]
        /\ UNCHANGED <<dir, gdir, meta>>
    BY <1>2, RecoveredState, RankParts DEF disk
  <2>2. PICK c, l : c = meta[rlevel][0] /\ l = rlevel
    OBVIOUS
  <2>3. Stored(c, l) /\ l \in 1 .. 4 /\ c \in 1 .. Len(calls)
    BY <1>2, <2>1, <2>2, StoredAtRecover
  <2>4. Stored(c, l)'
    BY <2>1, <2>3, StoredKept, UntouchedFrame
  <2>5. acked'.call = c /\ acked'.lvl = l /\ Len(calls') = Len(calls) /\ pc'[Root] \notin Recovering
    BY <1>0, <2>1, <2>2 DEF Recovering
  <2>6. c \in Int /\ c <= Len(calls)
    BY <1>0, <2>3
  <2> QED
    BY <1>0, <2>3, <2>4, <2>5, <2>6, SafeNew
<1>3. CASE UNCHANGED <<lvel, mem, history, disk, meta, conf>> /\ \A r \in Rank : pc'[r] \in Recovering
  <2> SUFFICES ASSUME acked.call # NoCall, Unharmed(acked.lvl)' PROVE Safe'
    BY <1>3 DEF Safe, history
  <2>1. UNCHANGED <<acked, hurt, open, torn, dir, gdir, meta>>
    BY <1>3 DEF history, disk
  <2>2. acked.lvl \in 1 .. 4 /\ acked.call \in Nat
    BY IndexType DEF History, TypeInv, ControlOK
  <2>3. \A r \in Rank : Busy(r) = 0
    BY <1>0, BusyHere DEF BusyMeans, Renaming, Finishing, Recovering
  <2>4. Unharmed(acked.lvl)
    BY <2>1, <2>2, <2>3 DEF Unharmed, Calm
  <2>5. ASSUME NEW l \in 1 .. 4, NEW c, acked.call <= c, Stored(c, l), Awaits(l)
        PROVE  Untouched(l) /\ Awaits(l)'
    <3>1. c # NoCall
      BY <2>2, <2>5 DEF NoCall
    <3>2. Awaits(l)'
      BY <1>3, <2>5, <3>1, AwaitsBoot
    <3> QED
      BY <2>1, <3>2, UntouchedFrame
  <2> QED
    BY <1>0, <2>1, <2>2, <2>4, <2>5, SafeKept
<1> QED
  BY <1>1, <1>2, <1>3, BootOutcome

\* The steps of a recovery.
LEMMA SafeRecover ==
  ASSUME TypeInv, RepairInv, History, Safe, NEW r \in Rank, RecoverStep(r)
  PROVE  Safe'
<1>1. UNCHANGED <<calls, lvel, mem, acked, hurt, open, torn>> /\ Len(calls) \in Nat
  BY IndexType DEF RecoverStep, CleanL1, FixOwn, FixCopy, DecodeOpen, Decode, Fetch, Recover, local, history, TypeInv
<1>2. \A q \in Rank : Busy(q)' = Busy(q)
  <2>1. pc[r] \in Recovering \cup {"restore"} /\ pc'[r] \in Recovering \cup {"run"}
    BY RecoverMoves DEF Recovering
  <2>2. Busy(r) = 0 /\ Busy(r)' = 0
    BY <2>1, BusyHere, BusyNext DEF BusyMeans, Renaming, Finishing, Recovering
  <2>3. \A q \in Rank \ {r} : Busy(q)' = Busy(q)
    BY <1>1, RecoverMoves DEF Busy, Replacing
  <2> QED
    BY <2>2, <2>3
<1> SUFFICES ASSUME acked.call # NoCall, Unharmed(acked.lvl)' PROVE Safe'
  BY <1>1 DEF Safe
<1>3. acked.lvl \in 1 .. 4
  BY DEF History
<1>4. Unharmed(acked.lvl)
  BY <1>1, <1>2 DEF Unharmed, Calm
<1>5. \A l \in 1 .. 4 : Awaits(l) => Untouched(l) /\ Awaits(l)'
  BY UntouchedRecover
<1> QED
  BY <1>1, <1>3, <1>4, <1>5, SafeKept

\* A crash, and the launch after the job has ended.
LEMMA SafeEnvironment ==
  ASSUME TypeInv, History, Safe, Environment
  PROVE  Safe'
<1>1. /\ UNCHANGED <<calls, acked, gdir, meta>> /\ Len(calls) \in Nat
      /\ \A r \in Rank : pc'[r] = "down"
  BY IndexType DEF Environment, Relaunch, Crash, Reset, disk, history, TypeInv
<1>2. pc'[Root] \notin Recovering
  BY <1>1, RankParts DEF Recovering
<1> SUFFICES ASSUME acked.call # NoCall, Unharmed(acked.lvl)' PROVE Safe'
  BY <1>1 DEF Safe
<1>3. acked.lvl \in 1 .. 4
  BY DEF History
<1>4. CASE Relaunch
  <2>1. UNCHANGED <<dir, hurt, open, torn>> /\ AllAt("done")
    BY <1>4 DEF Relaunch, disk, history
  <2>2. \A r \in Rank : Busy(r) = 0
    BY <2>1, BusyHere DEF BusyMeans, Renaming, Finishing, AllAt
  <2>3. Unharmed(acked.lvl)
    BY <1>1, <1>3, <2>1, <2>2 DEF Unharmed, Calm
  <2>4. \A l \in 1 .. 4 : Untouched(l) /\ Awaits(l)'
    BY <1>1, <1>2, <2>1, UntouchedFrame DEF Awaits
  <2> QED
    BY <1>1, <1>3, <2>3, <2>4, SafeKept
<1>5. ASSUME NEW F \in SUBSET Node, Crash(F) PROVE Safe'
  <2>1. /\ dir' = [l \in 1 .. 3 |-> [n \in Node |-> IF n \in F THEN {} ELSE dir[l][n]]]
        /\ hurt' = hurt \cup F /\ open \subseteq open'
        /\ torn' = torn \cup {Replacing(lvel[r], r) : r \in Rank}
    BY <1>5 DEF Crash
  <2>2. \A r \in Rank : Replacing(lvel[r], r) < acked.lvl
    <3>1. \A t \in torn' : t < acked.lvl
      BY <1>1 DEF Unharmed
    <3> HIDE DEF Replacing
    <3> QED
      BY <2>1, <3>1
  <2>3. Calm(acked.lvl)
    <3> SUFFICES ASSUME NEW r \in Rank PROVE Busy(r) < acked.lvl
      BY DEF Calm
    <3>1. Replacing(lvel[r], r) < acked.lvl
      BY <2>2
    <3>2. Busy(r) = Replacing(lvel[r], r)
      BY <1>3, <3>1, BusyTorn
    <3> QED
      BY <3>1, <3>2
  <2>4. Unharmed(acked.lvl)
    <3>1. acked.lvl = 4 \/ (hurt = {} /\ open = {})
      BY <1>1, <2>1 DEF Unharmed
    <3>2. \A t \in torn : t < acked.lvl
      BY <1>1, <2>1 DEF Unharmed
    <3> QED
      BY <2>3, <3>1, <3>2 DEF Unharmed
  <2>5. ASSUME NEW l \in 1 .. 4, acked.lvl <= l PROVE Untouched(l) /\ Awaits(l)'
    <3>1. Awaits(l)'
      BY <1>2 DEF Awaits
    <3>2. CASE l = 4
      BY <1>1, <3>1, <3>2 DEF Untouched, Place
    <3>3. CASE l # 4
      <4>1. acked.lvl # 4 /\ l \in 1 .. 3
        BY <1>3, <2>5, <3>3
      <4>2. F = {}
        BY <1>1, <2>1, <4>1 DEF Unharmed
      <4>3. \A n \in Node : dir'[l][n] = dir[l][n]
        BY <2>1, <4>1, <4>2
      <4> QED
        BY <1>1, <3>1, <3>3, <4>3 DEF Untouched, Place
    <3> QED
      BY <3>2, <3>3
  <2> QED
    BY <1>1, <1>3, <2>4, <2>5, SafeKept
<1> QED
  BY <1>4, <1>5 DEF Environment

\* A completed checkpoint stays stored, or a later one takes its place.
LEMMA SafeStep ==
  ASSUME TypeInv, TypeInv', OrderInv, IdsInv, CallInv, MetaInv, RepairInv, \A r \in Rank : WrittenAt(r),
         History, Returning, Kept', Safe, [Next]_vars
  PROVE  Safe'
<1>1. ASSUME NEW r \in Rank, AppStep(r) \/ CkptStep(r) \/ FinStep(r) PROVE Safe'
  BY <1>1, SafeLocal
<1>2. ASSUME NEW r \in Rank, RecoverStep(r) PROVE Safe'
  BY <1>2, SafeRecover
<1>3. CASE \/ WriteSync \/ PostSync \/ RenameSync \/ FlushSync \/ FinSync
           \/ \E p \in Proc, l \in {2, 3}, bad \in SUBSET Node : Exchange(p, l, bad)
  BY <1>3, SafeCollective
<1>4. CASE BootFresh \/ BootRecover \/ SkipLevel \/ TryLocal \/ TryGlobal \/ CheckGlobal \/ RecoverSync
  BY <1>4, SafeBoot
<1>5. CASE Environment
  BY <1>5, SafeEnvironment
<1>6. CASE UNCHANGED vars
  <2>1. UNCHANGED <<calls, dir, gdir, meta, pc, res, lvel, mem, rlevel, acked, hurt, open, torn>>
    BY <1>6 DEF vars, disk, local, recov, history
  <2> SUFFICES ASSUME acked.call # NoCall, Unharmed(acked.lvl)' PROVE Safe'
    BY <2>1 DEF Safe
  <2>2. acked.lvl \in 1 .. 4 /\ Len(calls) \in Nat
    BY IndexType DEF History, TypeInv
  <2>3. Unharmed(acked.lvl)
    BY <2>1 DEF Unharmed, Calm, Busy, Replacing
  <2>4. \A l \in 1 .. 4 : Awaits(l) => Untouched(l) /\ Awaits(l)'
    BY <2>1, UntouchedFrame DEF Awaits
  <2> QED
    BY <2>1, <2>2, <2>3, <2>4, SafeKept
<1> QED
  BY <1>1, <1>2, <1>3, <1>4, <1>5, <1>6 DEF Next, Sync, Ended

(***************************************************************************)
(* Every process is restored from the same checkpoint.                     *)
(***************************************************************************)

LEMMA LoadedNone ==
  ASSUME \A r \in Rank : pc'[r] # "restore" /\ loaded'[r] = NoCall
  PROVE  \A r \in Rank : LoadedAt(r)'
BY DEF LoadedAt

\* A call of the application forgets what its process has loaded.
LEMMA LoadedApp ==
  ASSUME TypeInv, \A q \in Rank : LoadedAt(q), NEW r \in Rank, AppStep(r)
  PROVE  \A q \in Rank : LoadedAt(q)'
<1>1. /\ UNCHANGED <<dir, acked>> /\ pc[r] = "run"
      /\ pc'[r] \in {"write", "flush", "finConf", "finClean", "dropConf", "drop"}
      /\ \A q \in Rank \ {r} : pc'[q] = pc[q] /\ lvel'[q] = lvel[q] /\ mem'[q] = mem[q]
      /\ Len(calls) <= Len(calls') /\ \A i \in 1 .. Len(calls) : calls'[i] = calls[i]
  BY AppLeaves DEF disk, history, FinalizeEntry
<1>2. loaded'[r] = NoCall /\ \A q \in Rank \ {r} : loaded'[q] = loaded[q]
  <2>1. PICK c, id, l : Enter(r, c, id, l)
    BY DEF AppStep, Issue, Follow
  <2> QED
    BY <2>1 DEF Enter, TypeInv, FilesOK
<1>3. acked.call # NoCall => acked.call \in 1 .. Len(calls)
  BY IndexType DEF TypeInv, ControlOK, Index, NoCall
<1>4. LoadedAt(r)'
  BY <1>1, <1>2 DEF LoadedAt
<1>5. ASSUME NEW q \in Rank \ {r} PROVE LoadedAt(q)'
  <2>1. pc'[q] = pc[q] /\ loaded'[q] = loaded[q] /\ lvel'[q] = lvel[q] /\ mem'[q] = mem[q] /\ LoadedAt(q)
    BY <1>1, <1>2
  <2>2. (\E x \in Rank : pc'[x] \in {"return", "discard"}) => \E x \in Rank : pc[x] \in {"return", "discard"}
    BY <1>1
  <2>3. (\A x \in Rank : pc'[x] \notin Finishing) => \A x \in Rank : pc[x] \notin Finishing
    BY <1>1 DEF Finishing
  <2>4. acked.call # NoCall => calls'[acked.call] = calls[acked.call]
    BY <1>1, <1>3
  <2>5. pc'[q] = "restore" \/ loaded'[q] # NoCall => \A x \in Rank : pc'[x] \notin {"return", "discard"}
    BY <2>1, <2>2 DEF LoadedAt
  <2>6. ASSUME \A x \in Rank : pc'[x] \notin Finishing
        PROVE  /\ loaded'[q] # NoCall => loaded'[q] = acked'.call
               /\ pc'[q] = "restore" =>
                    /\ acked'.call # NoCall
                    /\ lvel'[q] = acked'.lvl /\ mem'[q].id = calls'[acked'.call].id
                    /\ Holding("Rank", q, acked'.call) \in dir'[IF lvel'[q] = 4 THEN 1 ELSE lvel'[q]][q[1]]
    BY <1>1, <2>1, <2>3, <2>4, <2>6 DEF LoadedAt
  <2> QED
    BY <2>5, <2>6 DEF LoadedAt
<1> QED
  BY <1>4, <1>5

\* A checkpoint is taken when all have restored, or by those who have while the
\* directories are left alone.
LEMMA LoadedCkpt ==
  ASSUME TypeInv, CallInv, \A q \in Rank : LoadedAt(q), NEW r \in Rank, CkptStep(r)
  PROVE  \A q \in Rank : LoadedAt(q)'
<1>1. /\ UNCHANGED <<calls, loaded>> /\ pc'[r] # "restore"
      /\ pc'[r] \notin {"return", "discard"} /\ pc[r] \notin {"restore"} \cup Finishing
      /\ \A q \in Rank \ {r} : pc'[q] = pc[q] /\ lvel'[q] = lvel[q] /\ mem'[q] = mem[q]
  BY CkptLeaves, CkptMoves DEF Finishing
<1>2. CASE pc[r] = "write"
  <2>1. UNCHANGED <<dir, acked, mem, lvel>>
    BY <1>2, CkptLeaves DEF CkptStep, Write, CreateMetadata, PostLocal, Discard, Clean, Rename, RenameGlobal, RenameMeta,
       Return, At, history
  <2> SUFFICES ASSUME NEW q \in Rank PROVE LoadedAt(q)'
    OBVIOUS
  <2>2. LoadedAt(q) /\ (pc'[q] = "restore" => pc[q] = "restore") /\ loaded'[q] = loaded[q]
    BY <1>1
  <2>3. (\E x \in Rank : pc'[x] \in {"return", "discard"}) => \E x \in Rank : pc[x] \in {"return", "discard"}
    BY <1>1
  <2>4. (\A x \in Rank : pc'[x] \notin Finishing) => \A x \in Rank : pc[x] \notin Finishing
    BY <1>1
  <2> QED
    BY <1>1, <2>1, <2>2, <2>3, <2>4 DEF LoadedAt
<1>3. CASE pc[r] # "write"
  <2>1. \A q \in Rank : pc[q] # "restore" /\ loaded[q] = NoCall
    <3>1. CASE pc[r] \in {"return", "discard"}
      BY <3>1 DEF LoadedAt
    <3>2. CASE pc[r] \notin {"return", "discard"}
      <4>1. pc[r] \in Exchanging \cup Committing
        BY <1>3, <3>2, CkptMoves DEF Exchanging, Committing
      <4>2. \A q \in Rank : pc[q] \in Exchanging \cup Committing
        BY <4>1, WhereAll DEF TypeInv, Together
      <4> QED
        BY <4>2 DEF CallInv, MemAt, Exchanging, Committing
    <3> QED
      BY <3>1, <3>2
  <2>2. \A q \in Rank : pc'[q] # "restore" /\ loaded'[q] = NoCall
    BY <1>1, <2>1
  <2> QED
    BY <2>2, LoadedNone
<1> QED
  BY <1>2, <1>3

\* What a recovery has put in place is what FTI_Recover reads.
LEMMA LoadedRecover ==
  ASSUME TypeInv, Names, CallInv, \A q \in Rank : LoadedAt(q), NEW r \in Rank, RecoverStep(r)
  PROVE  \A q \in Rank : LoadedAt(q)'
<1>1. CASE ~Recover(r)
  <2>1. UNCHANGED loaded /\ pc[r] \in Recovering
    BY <1>1 DEF RecoverStep, CleanL1, FixOwn, FixCopy, DecodeOpen, Decode, Fetch, At, local, Recovering
  <2>2. \A q \in Rank : pc[q] \in Recovering
    BY <2>1, WhereAll DEF TypeInv, Together
  <2>3. \A q \in Rank : pc[q] # "run" /\ loaded[q] = NoCall /\ pc[q] # "restore"
    BY <2>2 DEF CallInv, MemAt, Recovering
  <2>4. \A q \in Rank : pc'[q] # "restore" /\ loaded'[q] = NoCall
    BY <2>1, <2>3, RecoverMoves
  <2> QED
    BY <2>4, LoadedNone
<1>2. CASE Recover(r)
  <2>1. /\ pc[r] = "restore" /\ pc'[r] = "run" /\ \A q \in Rank \ {r} : pc'[q] = pc[q] /\ loaded'[q] = loaded[q]
        /\ UNCHANGED <<calls, dir, lvel, mem, acked>>
    <3>1. pc[r] = "restore" /\ UNCHANGED <<calls, dir, lvel, mem, acked>>
          /\ \A q \in Rank \ {r} : loaded'[q] = loaded[q]
      BY <1>2 DEF Recover, At, disk, history, TypeInv, FilesOK
    <3> QED
      BY <3>1, RecoverMoves
  <2>2. ASSUME \A x \in Rank : pc[x] \notin Finishing PROVE loaded'[r] = acked.call
    <3> DEFINE In(S) == Content(S, "Rank", r, mem[r].id)
    <3>1. /\ acked.call # NoCall /\ lvel[r] = acked.lvl /\ mem[r].id = calls[acked.call].id
          /\ Holding("Rank", r, acked.call) \in dir[IF lvel[r] = 4 THEN 1 ELSE lvel[r]][r[1]]
      BY <2>1, <2>2 DEF LoadedAt
    <3>2. lvel[r] \in 1 .. 4 /\ r[1] \in Node
      BY <2>1, RankParts DEF TypeInv, Checked
    <3>3. PICK k \in 1 .. 3 : k = IF lvel[r] = 4 THEN 1 ELSE lvel[r]
      BY <3>2
    <3>4. NamesOK(dir[k][r[1]]) /\ Holding("Rank", r, acked.call) \in dir[k][r[1]]
      BY <3>1, <3>2, <3>3 DEF Names
    <3>5. In(dir[k][r[1]]) = acked.call
      BY <3>1, <3>4, ContentIs
    <3>6. acked.call # Lost
      BY IndexType DEF TypeInv, ControlOK, Lost
    <3>7. loaded'[r] = IF lvel[r] # 4 THEN In(dir[lvel[r]][r[1]])
                       ELSE IF In(dir[1][r[1]]) # Lost THEN In(dir[1][r[1]]) ELSE In(gdir)
      BY <1>2 DEF Recover, TypeInv, FilesOK
    <3> HIDE DEF In
    <3> QED
      BY <3>3, <3>5, <3>6, <3>7
  <2> SUFFICES ASSUME NEW q \in Rank PROVE LoadedAt(q)'
    OBVIOUS
  <2>3. \A x \in Rank : pc'[x] \notin {"return", "discard"}
    BY <2>1 DEF LoadedAt
  <2>4. (\A x \in Rank : pc'[x] \notin Finishing) => \A x \in Rank : pc[x] \notin Finishing
    BY <2>1 DEF Finishing
  <2>5. CASE q = r
    BY <2>1, <2>2, <2>3, <2>4, <2>5 DEF LoadedAt
  <2>6. CASE q # r
    BY <2>1, <2>3, <2>4, <2>6 DEF LoadedAt
  <2> QED
    BY <2>5, <2>6
<1> QED
  BY <1>1, <1>2

\* A recovery succeeds for all processes with one checkpoint.
LEMMA LoadedRecovered ==
  ASSUME TypeInv, IdsInv, CallInv, MetaInv, RepairInv, RecoverSync, \A r \in Rank : res[r] = 0
  PROVE  \A r \in Rank : LoadedAt(r)'
<1>1. /\ AllAt("recovered") /\ rlevel \in 1 .. 4
      /\ \A r \in Rank : /\ pc'[r] = "restore" /\ lvel'[r] = rlevel
                         /\ mem'[r].id = calls[meta[rlevel][r[2]]].id
      /\ meta[rlevel][0] \in 1 .. Len(calls)
      /\ acked' = [call |-> meta[rlevel][0], lvl |-> rlevel]
      /\ UNCHANGED <<calls, loaded, dir, gdir, meta>>
  BY RecoveredState DEF disk
<1> SUFFICES ASSUME NEW r \in Rank PROVE LoadedAt(r)'
  OBVIOUS
<1>2. loaded'[r] = NoCall
  BY <1>1 DEF CallInv, MemAt, AllAt
<1>3. PICK c, l : c = meta[rlevel][0] /\ l = rlevel /\ l \in 1 .. 4
  BY <1>1
<1>4. meta[l][r[2]] = c /\ c # NoCall
  BY <1>1, <1>3, RankParts, IndexType DEF MetaInv, NoCall, TypeInv
<1>5. /\ Files(r, c, l) \subseteq Place(l, r[1])
      /\ l = 4 => Expected("Rank", r, 4) \in dir[1][r[1]]
  BY <1>1, <1>3, <1>4 DEF RepairInv, RepairAt, AllAt
<1>6. Holding("Rank", r, c) \in dir[IF l = 4 THEN 1 ELSE l][r[1]]
  <2>1. CASE l = 4
    BY <1>4, <1>5, <2>1 DEF Expected
  <2>2. CASE l # 4
    BY <1>5, <2>2 DEF Files, Kinds, Place
  <2> QED
    BY <2>1, <2>2
<1> QED
  BY <1>1, <1>2, <1>3, <1>4, <1>6 DEF LoadedAt, Finishing

LEMMA LoadedStep ==
  ASSUME TypeInv, IdsInv, CallInv, Names, MetaInv, RepairInv, \A r \in Rank : LoadedAt(r), [Next]_vars
  PROVE  \A r \in Rank : LoadedAt(r)'
<1>1. ASSUME NEW r \in Rank, AppStep(r) PROVE \A q \in Rank : LoadedAt(q)'
  BY <1>1, LoadedApp
<1>2. ASSUME NEW r \in Rank, CkptStep(r) PROVE \A q \in Rank : LoadedAt(q)'
  BY <1>2, LoadedCkpt
<1>3. ASSUME NEW r \in Rank, FinStep(r) PROVE \A q \in Rank : LoadedAt(q)'
  <2>1. UNCHANGED loaded /\ pc'[r] \in Finishing /\ \A q \in Rank \ {r} : pc'[q] = pc[q]
    BY <1>3, FinLeaves, FinMoves DEF local, Finishing
  <2> SUFFICES ASSUME NEW q \in Rank PROVE LoadedAt(q)'
    OBVIOUS
  <2>2. (pc'[q] = "restore" => pc[q] = "restore") /\ LoadedAt(q)
    BY <2>1 DEF Finishing
  <2>3. (\E x \in Rank : pc'[x] \in {"return", "discard"}) => \E x \in Rank : pc[x] \in {"return", "discard"}
    BY <2>1 DEF Finishing
  <2> QED
    BY <2>1, <2>2, <2>3 DEF LoadedAt
<1>4. ASSUME NEW r \in Rank, RecoverStep(r) PROVE \A q \in Rank : LoadedAt(q)'
  BY <1>4, LoadedRecover
<1>5. ASSUME \A r \in Rank : pc[r] # "run" /\ pc'[r] # "restore", UNCHANGED loaded
      PROVE  \A q \in Rank : LoadedAt(q)'
  BY <1>5, LoadedNone DEF CallInv, MemAt
<1>6. CASE WriteSync \/ PostSync \/ RenameSync \/ FlushSync
           \/ \E p \in Proc, l \in {2, 3}, bad \in SUBSET Node : Exchange(p, l, bad)
  BY <1>5, <1>6, SyncLeaves, SyncMoves DEF Exchanging
<1>7. CASE FinSync
  BY <1>5, <1>7 DEF FinSync, AllAt, AllGoto, local
<1>8. CASE BootFresh \/ BootRecover \/ SkipLevel \/ TryLocal \/ TryGlobal \/ CheckGlobal \/ RecoverSync
  <2>1. UNCHANGED loaded /\ \A r \in Rank : pc[r] # "run"
    BY <1>8, BootOutcome DEF Recovering
  <2>2. CASE \A r \in Rank : pc'[r] \in Recovering
    BY <1>5, <2>1, <2>2 DEF Recovering
  <2>3. CASE \A r \in Rank : pc'[r] = "run"
    BY <1>5, <2>1, <2>3
  <2> QED
    BY <1>8, <2>2, <2>3, BootOutcome, LoadedRecovered
<1>9. CASE Environment
  BY <1>9, LoadedNone DEF Environment, Relaunch, Crash, Reset
<1>10. CASE UNCHANGED vars
  BY <1>10 DEF LoadedAt, vars, local, disk, history
<1> QED
  BY <1>1, <1>2, <1>3, <1>4, <1>6, <1>7, <1>8, <1>9, <1>10 DEF Next, Sync, Ended

(***************************************************************************)
(* The inductive invariants, and what they are for.                        *)
(***************************************************************************)

\* Where only a flush may fail every call comes through.
LEMMA PassingStep ==
  ASSUME TypeInv, Faults \subseteq {"flush"} => \A q \in Rank : Passing(q), [Next]_vars
  PROVE  Faults \subseteq {"flush"} => \A q \in Rank : Passing(q)'
<1> SUFFICES ASSUME Faults \subseteq {"flush"} PROVE \A q \in Rank : Passing(q)'
  OBVIOUS
<1>1. ControlOK /\ \A q \in Rank : Passing(q)
  BY DEF TypeInv
<1>2. ASSUME NEW r \in Rank, AppStep(r) \/ CkptStep(r) \/ FinStep(r) \/ RecoverStep(r)
      PROVE  \A q \in Rank : Passing(q)'
  BY <1>1, <1>2, PassingApp, PassingCkpt, PassingElsewhere
<1>3. CASE Sync \/ Environment
  BY <1>1, <1>3, PassingSync
<1>4. CASE UNCHANGED vars
  BY <1>1, <1>4 DEF vars, local, Passing
<1> QED
  BY <1>2, <1>3, <1>4 DEF Next, Ended

\* What holds of recovery whatever fails.
RecoveryInv ==
  /\ TypeInv /\ OrderInv /\ IdsInv /\ CallInv /\ Names /\ MetaInv /\ RepairInv
  /\ \A r \in Rank : LoadedAt(r)

\* What holds of the checkpoints kept.
StorageInv ==
  /\ RecoveryInv
  /\ Faults \subseteq {"flush"} => \A r \in Rank : Passing(r)
  /\ \A r \in Rank : WrittenAt(r)
  /\ History /\ Returning /\ Kept /\ Safe

LEMMA RecoveryInit ==
  ASSUME Init
  PROVE  RecoveryInv
<1>1. TypeInv
  BY TypeInit
<1>2. OrderInv
  BY RankParts DEF Init, OrderInv, LevelAt, Staged, Newest, LevelOrder, NoMeta, NoCall,
     Exchanging, Committing, Replaceable, Uncommitted
<1>3. IdsInv /\ CallInv
  BY DEF Init, IdsInv, CallInv, CallAt, MemAt, Checkpointing, Exchanging, Committing, Finishing, Flushing, Off,
     Recovering, NoCall
<1>4. Names
  BY DEF Init, Names, NamesOK, NoFiles
<1>5. MetaInv
  BY RankParts DEF Init, MetaInv, NoMeta
<1>6. RepairInv
  BY RankParts DEF Init, RepairInv, RepairAt
<1>7. \A r \in Rank : LoadedAt(r)
  BY DEF Init, LoadedAt, NoCall
<1> QED
  BY <1>1, <1>2, <1>3, <1>4, <1>5, <1>6, <1>7 DEF RecoveryInv

LEMMA RecoveryStep ==
  ASSUME 0 \notin UninitRes, RecoveryInv, [Next]_vars
  PROVE  RecoveryInv'
<1> USE DEF RecoveryInv
<1>1. TypeInv' /\ OrderInv' /\ IdsInv' /\ CallInv'
  BY TypeStep, OrderStep, IdsStep, CallStep
<1>2. Names' /\ MetaInv' /\ RepairInv'
  BY NamesStep, MetaStep, RepairStep
<1>3. \A r \in Rank : LoadedAt(r)'
  BY LoadedStep
<1> QED
  BY <1>1, <1>2, <1>3

LEMMA StorageInit ==
  ASSUME Init
  PROVE  StorageInv
<1>1. \A r \in Rank : pc[r] = "run" /\ mem[r].id = 0 /\ lvel[r] = 0
  BY DEF Init
<1>2. acked.call = NoCall /\ conf = 0
  BY DEF Init
<1>3. \A r \in Rank : Passing(r) /\ WrittenAt(r)
  BY <1>1 DEF Passing, WrittenAt, Exchanging, Committing
<1>4. History
  BY <1>1, <1>2 DEF History
<1>5. Returning /\ Safe
  BY <1>1, <1>2 DEF Returning, Safe
<1>6. Kept
  <2>1. Exact
    BY <1>2 DEF Exact
  <2>2. KeptRoot
    BY <1>1, <1>2, RankParts DEF KeptRoot, Flushed, Moves, Moving, Moved4
  <2>3. \A r \in Rank : KeptAt(r)
    BY <1>1 DEF KeptAt
  <2> QED
    BY <2>1, <2>2, <2>3 DEF Kept, KeptInv
<1> QED
  BY <1>3, <1>4, <1>5, <1>6, RecoveryInit DEF StorageInv

LEMMA StorageStep ==
  ASSUME NoRace, StorageInv, [Next]_vars
  PROVE  StorageInv'
<1>1. RecoveryInv /\ RecoveryInv'
  BY RecoveryStep DEF StorageInv, NoRace
<1>2. /\ TypeInv /\ OrderInv /\ IdsInv /\ CallInv /\ MetaInv /\ RepairInv
      /\ TypeInv' /\ CallInv'
  BY <1>1 DEF RecoveryInv
<1>3. /\ Faults \subseteq {"flush"} => \A r \in Rank : Passing(r)
      /\ \A r \in Rank : WrittenAt(r)
      /\ History /\ Returning /\ Kept /\ Safe
  BY DEF StorageInv
<1>4. Faults \subseteq {"flush"} => \A r \in Rank : Passing(r)'
  BY <1>2, <1>3, PassingStep
<1>5. \A r \in Rank : WrittenAt(r)'
  BY <1>2, <1>3, WrittenStep
<1>6. History' /\ Returning'
  BY <1>2, <1>3, HistoryStep, ReturningStep
<1>7. Kept'
  BY <1>2, <1>3, <1>4, KeptStep
<1>8. Safe'
  BY <1>2, <1>3, <1>7, SafeStep
<1> QED
  BY <1>1, <1>4, <1>5, <1>6, <1>7, <1>8 DEF StorageInv

\* A checkpoint that FTI_Checkpoint reported as done is there, complete, at its
\* level, or a later one is at that level or above, through failed attempts,
\* crashes, losses of nodes that L4 does not mind, and recoveries, until its own
\* replacement is under way.
THEOREM AckedStored ==
  ASSUME NoRace
  PROVE  Spec => []AckedIsStored
<1>1. Init => StorageInv
  BY StorageInit
<1>2. StorageInv /\ [Next]_vars => StorageInv'
  BY StorageStep
<1>3. StorageInv => AckedIsStored
  <2> SUFFICES ASSUME StorageInv, acked.call # NoCall, Harmless(acked.lvl)
               PROVE  \E c \in acked.call .. Len(calls), l \in acked.lvl .. 4 : Stored(c, l)
    BY DEF AckedIsStored
  <2>1. History /\ Safe /\ acked.lvl \in 1 .. 4
    BY DEF StorageInv, History
  <2>2. Calm(acked.lvl)
    <3> SUFFICES ASSUME NEW r \in Rank PROVE Busy(r) < acked.lvl
      BY DEF Calm
    <3>1. Replacing(lvel[r], r) < acked.lvl
      BY DEF Harmless
    <3>2. Busy(r) = Replacing(lvel[r], r)
      BY <2>1, <3>1, BusyTorn
    <3> QED
      BY <3>1, <3>2
  <2>3. Unharmed(acked.lvl)
    BY <2>2 DEF Harmless, Unharmed
  <2> QED
    BY <2>1, <2>3 DEF Safe
<1> QED
  BY <1>1, <1>2, <1>3, PTL DEF Spec

\* With keep_last_ckpt the last checkpoint is on the PFS when FTI_Finalize is
\* over, and the configuration file says so.
THEOREM LastIsKept ==
  ASSUME NoRace
  PROVE  Spec => []KeptAtEnd
<1>1. Init => StorageInv
  BY StorageInit
<1>2. StorageInv /\ [Next]_vars => StorageInv'
  BY StorageStep
<1>3. StorageInv => KeptAtEnd
  <2> SUFFICES ASSUME StorageInv, AllAt("done"), KeepLast, acked.call # NoCall
               PROVE  conf = 2 /\ Stored(acked.call, 4)
    BY DEF KeptAtEnd
  <2>1. pc[Root] = "done" /\ History /\ KeptRoot
    BY RankParts DEF StorageInv, AllAt, Kept, KeptInv
  <2>2. mem[Root].id # 0
    BY <2>1 DEF History
  <2> QED
    BY <2>1, <2>2 DEF KeptRoot
<1> QED
  BY <1>1, <1>2, <1>3, PTL DEF Spec

\* FTI_Recover loads the same checkpoint on every process, the one the recovery
\* has agreed on, whatever has failed, crashed or been lost before.
THEOREM AllRestoreTheSame ==
  ASSUME 0 \notin UninitRes
  PROVE  Spec => []RestoredTogether
<1>1. Init => RecoveryInv
  BY RecoveryInit
<1>2. RecoveryInv /\ [Next]_vars => RecoveryInv'
  BY RecoveryStep
<1>3. RecoveryInv => RestoredTogether
  <2> SUFFICES ASSUME RecoveryInv, calls[Len(calls)].lvl # Finalize, NEW q \in Rank, NEW r \in Rank,
                      loaded[q] # NoCall, loaded[r] # NoCall
               PROVE  loaded[q] = loaded[r] /\ loaded[r] # Lost
    BY DEF RestoredTogether
  <2>1. \A x \in Rank : pc[x] \notin Finishing
    <3> SUFFICES ASSUME NEW x \in Rank, pc[x] \in Finishing PROVE FALSE
      OBVIOUS
    <3>1. call[x] = Len(calls)
      BY WhereAll DEF RecoveryInv, TypeInv, Apart, Ahead, Behind, Finishing
    <3>2. calls[call[x]].lvl = Finalize
      BY DEF RecoveryInv, CallInv, CallAt
    <3> QED
      BY <3>1, <3>2
  <2>2. loaded[q] = acked.call /\ loaded[r] = acked.call
    BY <2>1 DEF RecoveryInv, LoadedAt
  <2>3. acked.call \in Nat
    BY IndexType DEF RecoveryInv, TypeInv, ControlOK
  <2> QED
    BY <2>2, <2>3 DEF Lost
<1> QED
  BY <1>1, <1>2, <1>3, PTL DEF Spec

-----------------------------------------------------------------------------

(* Where no failing call can race the one after it and keep_last_ckpt is   *)
(* off, a restart gets back the last completed checkpoint, or a later one, *)
(* whatever nodes its level survives were lost - for every sequence of     *)
(* crashes, crashes during a recovery included.                            *)

\* The nodes that need not have anything: wiped, or caught with a file padded.
Gone == hurt \cup open

\* What process r keeps of a checkpoint at level l.  While FTI_Decode has its file
\* open the file is padded.
Keeps(r, l) ==
  /\ l = 4 \/ r[1] \notin Gone
  /\ l = 3 => pc[r] # "decode"

\* What is left of checkpoint c at level l once nodes are gone.
Held(c, l) ==
  /\ \A p \in Proc : meta[l][p] = c
  /\ \A r \in Rank : Keeps(r, l) => Files(r, c, l) \subseteq Place(l, r[1])

\* A recovery has not got beyond level l, and no process has failed there.
Proceeds(l) ==
  pc[Root] \in Recovering =>
    /\ rlevel <= l
    /\ rlevel = l => \A r \in Rank : pc[r] \in {"try", "cleanL1", "cleanedL1"} \/ res[r] = 0

\* Level l survives what has happened to the nodes, and is not being replaced.
Bearable(l) ==
  /\ Survives(l, Gone)
  /\ \A t \in torn : t < l
  /\ Calm(l)

\* What a restart needs.  The files of the nodes that are gone are missed until a
\* recovery has succeeded: with AckedIsStored alone nothing could be said after the
\* first loss of a node.
Endures ==
  acked.call # NoCall /\ Bearable(acked.lvl) =>
    \E c \in acked.call .. Len(calls), l \in acked.lvl .. 4 : Held(c, l) /\ Proceeds(l)

(***************************************************************************)
(* Which losses a level survives.                                          *)
(***************************************************************************)

LEMMA NodeFinite ==
  /\ IsFiniteSet(Node) /\ Cardinality(Node) = N
  /\ \A F \in SUBSET Node : IsFiniteSet(F) /\ Cardinality(F) \in Nat /\ Cardinality(F) <= N
<1>1. N \in Nat /\ N # 0 /\ 0 \in Int /\ N - 1 \in Int
  BY SizesAssumption
<1>2. IsFiniteSet(0 .. N - 1) /\ Cardinality(0 .. N - 1) = IF 0 > N - 1 THEN 0 ELSE (N - 1) - 0 + 1
  BY <1>1, FS_Interval
<1>3. IsFiniteSet(Node) /\ Cardinality(Node) = N
  BY <1>1, <1>2 DEF Node
<1>4. ASSUME NEW F \in SUBSET Node PROVE IsFiniteSet(F) /\ Cardinality(F) <= N
  BY <1>3, FS_Subset
<1>5. \A F \in SUBSET Node : Cardinality(F) \in Nat
  BY <1>4, FS_CardinalityType
<1> QED
  BY <1>3, <1>4, <1>5

\* A level survives the loss of fewer nodes.
LEMMA SurvivesLess ==
  ASSUME NEW l \in 1 .. 4, NEW G \in SUBSET Node, NEW F \in SUBSET G, Survives(l, G)
  PROVE  Survives(l, F)
<1>1. CASE l = 1
  BY <1>1 DEF Survives
<1>2. CASE l = 2
  BY <1>2 DEF Survives
<1>3. CASE l = 3
  <2>1. IsFiniteSet(G) /\ Cardinality(G) \in Nat /\ Cardinality(F) \in Nat
    BY NodeFinite
  <2>2. Cardinality(F) <= Cardinality(G)
    BY <2>1, FS_Subset
  <2>3. 2 * Cardinality(G) <= N
    BY <1>3 DEF Survives
  <2>4. 2 * Cardinality(F) <= N
    BY <2>1, <2>2, <2>3, SizesAssumption
  <2> QED
    BY <1>3, <2>4 DEF Survives
<1>4. CASE l = 4
  BY <1>4 DEF Survives
<1> QED
  BY <1>1, <1>2, <1>3, <1>4

\* No two of the nodes that L2 may lose are neighbours, so they are at most half.
LEMMA HalfAtMost ==
  ASSUME NEW F \in SUBSET Node, \A n \in F : Right(n) \notin F
  PROVE  2 * Cardinality(F) <= N
<1> DEFINE f == [n \in F |-> Right(n)]
           G == {Right(n) : n \in F}
<1>1. G \subseteq Node /\ F \cap G = {} /\ F \cup G \subseteq Node
  BY RightType
<1>2. f \in Injection(F, G)
  <2>1. f \in [F -> G]
    OBVIOUS
  <2>2. ASSUME NEW m \in Node, NEW n \in Node, Right(m) = Right(n) PROVE m = n
    BY <2>2, SizesAssumption DEF Right, Node
  <2>3. \A m, n \in F : f[m] = f[n] => m = n
    BY <2>2
  <2> QED
    BY <2>1, <2>3 DEF Injection, IsInjective
<1> HIDE DEF f, G
<1>3. IsFiniteSet(F) /\ IsFiniteSet(G) /\ Cardinality(F) \in Nat /\ Cardinality(G) \in Nat
      /\ Cardinality(F \cup G) \in Nat /\ Cardinality(F \cup G) <= N
  BY <1>1, NodeFinite
<1>4. Cardinality(F) <= Cardinality(G)
  BY <1>2, <1>3, FS_Injection
<1>5. Cardinality(F \cup G) = Cardinality(F) + Cardinality(G) - Cardinality({})
  BY <1>1, <1>3, FS_Union
<1>6. Cardinality({}) = 0
  BY FS_EmptySet
<1> QED
  BY <1>3, <1>4, <1>5, <1>6, SizesAssumption

\* A higher level survives what a lower one does.
LEMMA SurvivesMore ==
  ASSUME NEW k \in 1 .. 4, NEW l \in 1 .. 4, k <= l, NEW F \in SUBSET Node, Survives(k, F)
  PROVE  Survives(l, F)
<1>1. CASE k = 1
  <2>1. F = {}
    BY <1>1 DEF Survives
  <2>2. Cardinality({}) = 0
    BY FS_EmptySet
  <2>3. 2 * Cardinality(F) <= N
    BY <2>1, <2>2, SizesAssumption
  <2> QED
    BY <2>1, <2>3 DEF Survives
<1>2. CASE k = 2
  <2>1. \A n \in F : Right(n) \notin F
    BY <1>2 DEF Survives
  <2>2. 2 * Cardinality(F) <= N
    BY <2>1, HalfAtMost
  <2> QED
    BY <1>2, <2>1, <2>2 DEF Survives
<1>3. CASE k \in {3, 4}
  <2>1. l = k \/ l = 4
    BY <1>3
  <2> QED
    BY <2>1 DEF Survives
<1> QED
  BY <1>1, <1>2, <1>3

(***************************************************************************)
(* What is left of a checkpoint.                                           *)
(***************************************************************************)

LEMMA GoneType ==
  ASSUME FilesOK
  PROVE  Gone \in SUBSET Node
BY DEF FilesOK, Gone

LEMMA KindsOf ==
  /\ Kinds(1) = {"Rank"} /\ Kinds(2) = {"Rank", "Pcof"}
  /\ Kinds(3) = {"Rank", "RSed"} /\ Kinds(4) = {"Rank"}
BY DEF Kinds

\* The files of E are files of group p for checkpoint c, of nodes that are gone.
OfGone(E, p, l, c) ==
  \A f \in E : \E k \in Kinds(l), n \in Node : f = Holding(k, <<n, p>>, c) /\ l # 4 /\ n \in Gone

\* A group misses files of its own only, of nodes that are gone.
LEMMA MissingGone ==
  ASSUME NEW l \in 1 .. 4, NEW c, Held(c, l), \A r \in Rank : pc[r] # "decode", NEW p \in Proc
  PROVE  OfGone(Erasures(p, l), p, l, c)
<1>1. \A n \in Node : <<n, p>> \in Rank /\ <<n, p>>[1] = n /\ <<n, p>>[2] = p /\ meta[l][p] = c
  BY RankParts DEF Held
<1>2. \A n \in Node, k \in Kinds(l) :
        /\ Expected(k, <<n, p>>, l) = Holding(k, <<n, p>>, c)
        /\ Expected(k, <<n, p>>, l) \in Erasures(p, l) <=> Expected(k, <<n, p>>, l) \notin Place(l, n)
  BY <1>1, Missing DEF Expected
<1>3. \A f \in Erasures(p, l) : \E n \in Node, k \in Kinds(l) : f = Expected(k, <<n, p>>, l)
  <2>0. \A r \in Group(p) : \E n \in Node : r = <<n, p>>
    BY DEF Group
  <2>1. CASE l = 1
    BY <2>0, <2>1, KindsOf DEF Erasures
  <2>2. CASE l = 2
    BY <2>0, <2>2, KindsOf DEF Erasures
  <2>3. CASE l = 3
    BY <2>0, <2>3, KindsOf DEF Erasures
  <2>4. CASE l = 4
    BY <2>0, <2>4, KindsOf DEF Erasures
  <2>5. l = 1 \/ l = 2 \/ l = 3 \/ l = 4
    OBVIOUS
  <2> QED
    BY <2>1, <2>2, <2>3, <2>4, <2>5, Zenon
<1>4. ASSUME NEW n \in Node, NEW k \in Kinds(l), l = 4 \/ n \notin Gone
      PROVE  Expected(k, <<n, p>>, l) \in Place(l, n)
  <2>1. Keeps(<<n, p>>, l)
    BY <1>1, <1>4 DEF Keeps
  <2>2. Files(<<n, p>>, c, l) \subseteq Place(l, n)
    BY <1>1, <2>1 DEF Held
  <2> QED
    BY <1>2, <2>2 DEF Files
<1> SUFFICES ASSUME NEW f \in Erasures(p, l)
             PROVE  \E k \in Kinds(l), n \in Node : f = Holding(k, <<n, p>>, c) /\ l # 4 /\ n \in Gone
  BY Zenon DEF OfGone
<1>5. PICK n \in Node, k \in Kinds(l) : f = Expected(k, <<n, p>>, l)
  BY <1>3, Zenon
<1>6. f = Holding(k, <<n, p>>, c) /\ f \notin Place(l, n)
  BY <1>2, <1>5
<1>7. l # 4 /\ n \in Gone
  BY <1>4, <1>5, <1>6
<1> QED
  BY <1>6, <1>7

\* What a level survives its groups recover from.
LEMMA HeldRecoverable ==
  ASSUME TypeInv, NEW l \in 1 .. 4, NEW c, Held(c, l), \A r \in Rank : pc[r] # "decode",
         Survives(l, Gone), NEW p \in Proc
  PROVE  Recoverable(Erasures(p, l), p, l)
<1>0. Gone \in SUBSET Node
  BY GoneType DEF TypeInv
<1> DEFINE E == Erasures(p, l)
<1> HIDE DEF E
<1>1. \A f \in E : \E k \in Kinds(l), n \in Node : f = Holding(k, <<n, p>>, c) /\ l # 4 /\ n \in Gone
  <2>1. OfGone(Erasures(p, l), p, l, c)
    BY MissingGone
  <2> QED
    BY <2>1 DEF OfGone, E
<1>2. \A n \in Node : \A k : Expected(k, <<n, p>>, l) = Holding(k, <<n, p>>, c)
  BY RankParts DEF Held, Expected
<1>3. \A k, m, r, s : Holding(k, r, c) = Holding(m, s, c) => r = s
  <2>1. \A k, r : Holding(k, r, c).rank = r
    BY HoldingParts
  <2> QED
    BY <2>1
<1>4. CASE l \in {1, 4}
  <2>1. E = {}
    <3>1. l = 1 => Gone = {}
      BY DEF Survives
    <3> QED
      BY <1>1, <1>4, <3>1
  <2>2. Recoverable({}, p, l)
    <3>1. l \in {1, 4} /\ l # 2 /\ l # 3
      BY <1>4
    <3> HIDE DEF Expected, Right
    <3> QED
      BY <3>1, Zenon DEF Recoverable
  <2> QED
    BY <2>1, <2>2 DEF E
<1>5. CASE l = 2
  <2>1. \A n \in Gone : Right(n) \notin Gone
    BY <1>5 DEF Survives
  <2>2. ASSUME NEW n \in Node, NEW k, Holding(k, <<n, p>>, c) \in E PROVE n \in Gone
    <3>1. PICK m \in Node, j \in Kinds(l) : Holding(k, <<n, p>>, c) = Holding(j, <<m, p>>, c) /\ m \in Gone
      BY <1>1, <2>2
    <3> QED
      BY <1>3, <3>1
  <2>3. ASSUME NEW n \in Node
        PROVE  ~(Expected("Rank", <<n, p>>, 2) \in E /\ Expected("Pcof", <<Right(n), p>>, 2) \in E)
    <3>1. Right(n) \in Node
      BY RightType
    <3> QED
      BY <1>2, <1>5, <2>1, <2>2, <3>1
  <2> QED
    BY <1>5, <2>3 DEF Recoverable, E
<1>6. CASE l = 3
  <2> DEFINE P == {"Rank", "RSed"} \X Gone
             g == [f \in E |-> <<f.kind, f.rank[1]>>]
  <2>1. \A f \in E : \E k \in {"Rank", "RSed"}, n \in Gone :
          f = Holding(k, <<n, p>>, c) /\ f.kind = k /\ f.rank[1] = n
    <3>1. \A k, r : Holding(k, r, c).rank = r /\ Holding(k, r, c).kind = k
      BY HoldingParts
    <3> SUFFICES ASSUME NEW f \in E
                 PROVE  \E k \in {"Rank", "RSed"}, n \in Gone :
                          f = Holding(k, <<n, p>>, c) /\ f.kind = k /\ f.rank[1] = n
      OBVIOUS
    <3>2. PICK k \in Kinds(l), n \in Node : f = Holding(k, <<n, p>>, c) /\ n \in Gone
      BY <1>1
    <3>3. k \in {"Rank", "RSed"} /\ <<n, p>>[1] = n
      BY <1>6, <3>2, KindsOf
    <3>4. f.kind = k /\ f.rank[1] = n
      BY <3>1, <3>2, <3>3
    <3> QED
      BY <3>2, <3>3, <3>4
  <2>2. g \in Injection(E, P)
    <3>1. \A f \in E : <<f.kind, f.rank[1]>> \in P
      BY <2>1
    <3>2. \A f, h \in E : f.kind = h.kind /\ f.rank[1] = h.rank[1] => f = h
      <4> SUFFICES ASSUME NEW f \in E, NEW h \in E, f.kind = h.kind, f.rank[1] = h.rank[1] PROVE f = h
        OBVIOUS
      <4>1. f = Holding(f.kind, <<f.rank[1], p>>, c) /\ h = Holding(h.kind, <<h.rank[1], p>>, c)
        BY <2>1
      <4> QED
        BY <4>1
    <3>3. \A f, h \in E : g[f] = g[h] => f = h
      BY <3>2
    <3>4. g \in [E -> P]
      BY <3>1
    <3> QED
      BY <3>3, <3>4 DEF Injection, IsInjective
  <2> HIDE DEF g
  <2>3. IsFiniteSet(Gone) /\ Cardinality(Gone) \in Nat
    BY <1>0, NodeFinite
  <2>4. IsFiniteSet({"Rank", "RSed"}) /\ Cardinality({"Rank", "RSed"}) = 2
    <3>1. IsFiniteSet({"Rank"}) /\ Cardinality({"Rank"}) = 1
      BY FS_Singleton
    <3>2. {"Rank"} \cup {"RSed"} = {"Rank", "RSed"} /\ "RSed" \notin {"Rank"}
      OBVIOUS
    <3> QED
      BY <3>1, <3>2, FS_AddElement
  <2>5. IsFiniteSet(P) /\ Cardinality(P) = 2 * Cardinality(Gone)
    BY <2>3, <2>4, FS_Product
  <2> HIDE DEF P
  <2>6. IsFiniteSet(E) /\ Cardinality(E) <= Cardinality(P)
    BY <2>2, <2>5, FS_Injection
  <2>7. Cardinality(E) \in Nat
    BY <2>6, FS_CardinalityType
  <2>8. 2 * Cardinality(Gone) <= N
    BY <1>6 DEF Survives
  <2>9. Cardinality(E) <= N
    BY <2>3, <2>5, <2>6, <2>7, <2>8, SizesAssumption
  <2> QED
    BY <1>6, <2>9 DEF Recoverable, E
<1> QED
  BY <1>4, <1>5, <1>6

\* What is kept of a checkpoint, in this state and the next.
HeldMeans ==
  \A l \in 1 .. 4 : \A c :
    Held(c, l) <=> /\ \A p \in Proc : meta[l][p] = c
                   /\ \A r \in Rank : Keeps(r, l) => Files(r, c, l) \subseteq Place(l, r[1])

LEMMA HeldHere == HeldMeans
BY DEF HeldMeans, Held

LEMMA HeldNext == HeldMeans'
BY HeldHere, PTL

\* It is kept where a step leaves its level what it has, and asks no more of any process.
LEMMA HeldKept ==
  ASSUME NEW l \in 1 .. 4, NEW c, Held(c, l), Untouched(l), \A r \in Rank : Keeps(r, l)' => Keeps(r, l)
  PROVE  Held(c, l)'
<1>1. /\ \A p \in Proc : meta[l][p] = c
      /\ \A r \in Rank : Keeps(r, l) => Files(r, c, l) \subseteq Place(l, r[1])
  BY HeldHere DEF HeldMeans
<1>2. \A p \in Proc : meta'[l][p] = c
  BY <1>1 DEF Untouched
<1>3. \A r \in Rank : Keeps(r, l)' => Files(r, c, l) \subseteq Place(l, r[1])'
  BY <1>1, RankParts DEF Untouched
<1>4. \A r \in Rank : Files(r, c, l)' = Files(r, c, l)
  BY DEF Files
<1> QED
  BY <1>2, <1>3, <1>4, HeldNext DEF HeldMeans

\* A checkpoint that is stored is all there.
LEMMA StoredHeld ==
  ASSUME NEW l \in 1 .. 4, NEW c, Stored(c, l)'
  PROVE  Held(c, l)'
<1>1. /\ (\A p \in Proc : meta[l][p] = c)'
      /\ (\A r \in Rank : Files(r, c, l) \subseteq Place(l, r[1]))'
  BY StoredNext DEF StoredMeans
<1> QED
  BY <1>1, HeldNext DEF HeldMeans

\* Nothing is asked of a process that has FTI_Decode's file open, until it is rebuilt.
LEMMA KeepsFrame ==
  ASSUME UNCHANGED <<hurt, open>>, NEW l, NEW r, pc[r] = "decode" => l = 3 /\ pc'[r] = "decode"
  PROVE  Keeps(r, l)' => Keeps(r, l)
BY DEF Keeps, Gone

(***************************************************************************)
(* A completed checkpoint endures what its level survives.                 *)
(***************************************************************************)

LEMMA EnduresKept ==
  ASSUME TypeInv, Endures, acked' = acked, acked.lvl \in 1 .. 4, Len(calls) <= Len(calls'), Len(calls') \in Nat,
         acked.call # NoCall => Bearable(acked.lvl),
         \A l \in 1 .. 4 : \A c :
           acked.lvl <= l /\ acked.call # NoCall /\ acked.call <= c /\ Held(c, l) /\ Proceeds(l)
             => Held(c, l)' /\ Proceeds(l)'
  PROVE  Endures'
<1> SUFFICES ASSUME acked.call # NoCall
             PROVE  \E c \in acked.call .. Len(calls'), l \in acked.lvl .. 4 : Held(c, l)' /\ Proceeds(l)'
  BY DEF Endures
<1>1. PICK c \in acked.call .. Len(calls), l \in acked.lvl .. 4 : Held(c, l) /\ Proceeds(l)
  BY DEF Endures
<1>2. l \in 1 .. 4 /\ acked.lvl <= l /\ acked.call <= c
  BY <1>1 DEF TypeInv, ControlOK, Index
<1>3. Held(c, l)' /\ Proceeds(l)'
  BY <1>1, <1>2
<1>4. c \in acked.call .. Len(calls')
  BY <1>1, IndexType DEF TypeInv, ControlOK
<1> QED
  BY <1>1, <1>3, <1>4

LEMMA EnduresNew ==
  ASSUME NEW c \in Int, NEW l \in 1 .. 4, acked'.call <= c, c <= Len(calls'),
         acked'.call \in Int, Len(calls') \in Nat,
         acked'.lvl \in 1 .. 4, acked'.lvl <= l, Stored(c, l)', pc'[Root] \notin Recovering
  PROVE  Endures'
<1>1. c \in acked'.call .. Len(calls') /\ l \in acked'.lvl .. 4
  OBVIOUS
<1>2. Held(c, l)' /\ Proceeds(l)'
  BY StoredHeld DEF Proceeds
<1> QED
  BY <1>1, <1>2 DEF Endures

\* The steps of FTI_Checkpoint and FTI_Finalize.
LEMMA EnduresLocal ==
  ASSUME TypeInv, TypeInv', OrderInv, CallInv, History, Returning, Endures, NEW r \in Rank,
         AppStep(r) \/ CkptStep(r) \/ FinStep(r)
  PROVE  Endures'
<1>0. pc[r] \notin Recovering /\ pc'[r] \notin Recovering /\ \A q \in Rank \ {r} : pc'[q] = pc[q]
  BY AppLeaves, CkptMoves, FinMoves DEF Recovering, FinalizeEntry
<1>1. pc'[Root] \notin Recovering /\ \A q \in Rank : pc[q] \notin Recovering
  <2>1. \A q \in Rank : pc[q] \notin Recovering
    BY <1>0, WhereAll DEF TypeInv, Together
  <2> QED
    BY <1>0, <2>1, RankParts
<1>2. Len(calls) <= Len(calls') /\ Len(calls') \in Nat /\ Len(calls) \in Nat
  <2>1. Len(calls) \in Nat /\ Len(calls') \in Nat
    BY IndexType DEF TypeInv, ControlOK
  <2> QED
    BY <2>1, AppLeaves, CkptLeaves, FinLeaves
<1>3. CASE UNCHANGED history
  <2> SUFFICES ASSUME acked.call # NoCall, Bearable(acked.lvl)' PROVE Endures'
    BY <1>3 DEF Endures, history
  <2>1. UNCHANGED <<acked, hurt, open, torn>> /\ acked.lvl \in 1 .. 4
    BY <1>3 DEF history, History
  <2>2. \A q \in Rank : Busy(q)' < acked.lvl
    BY <2>1 DEF Bearable, Calm
  <2>3. pc[r] # "drop" \/ r # Root
    BY DEF History, CallInv, MemAt
  <2>4. Calm(acked.lvl)
    BY <2>1, <2>2, <2>3, CalmBefore
  <2>5. Bearable(acked.lvl)
    BY <2>1, <2>4 DEF Bearable, Gone, Survives
  <2>6. ASSUME NEW l \in 1 .. 4, acked.lvl <= l, NEW c, Held(c, l) PROVE Held(c, l)' /\ Proceeds(l)'
    <3>1. Busy(r)' < l
      <4>1. Busy(r)' \in 0 .. 6
        <5>1. lvel'[r] \in Level
          BY DEF TypeInv, ControlOK
        <5> QED
          BY <5>1, BusyNext DEF BusyMeans, Level, Rejected, Renaming, Removing, Finishing
      <4> QED
        BY <2>1, <2>2, <2>6, <4>1
    <3>2. Untouched(l)
      BY <2>3, <3>1, UntouchedLocal
    <3>3. \A q \in Rank : Keeps(q, l)' => Keeps(q, l)
      BY <1>1, <2>1, KeepsFrame DEF Recovering
    <3>4. Held(c, l)'
      BY <2>6, <3>2, <3>3, HeldKept
    <3> QED
      BY <1>1, <3>4 DEF Proceeds
  <2> QED
    BY <1>2, <2>1, <2>5, <2>6, EnduresKept
<1>4. CASE ~UNCHANGED history
  <2>1. CASE DropConf(r)
    BY <2>1 DEF DropConf, Endures
  <2>2. CASE ~DropConf(r)
    <3>1. Return(r)
      BY <1>4, <2>2, AppLeaves DEF CkptStep, Write, CreateMetadata, PostLocal, Discard, Clean, Rename, RenameGlobal,
         RenameMeta, FinStep, Flush, FinRemoveL4, FinRenameL4, FinRemoveMeta, FinRenameMeta, FinUpdateConf,
         FinClean, Drop
    <3>2. /\ acked' = [call |-> call[r], lvl |-> lvel[r]] /\ pc[r] = "return" /\ pc'[r] = "run"
          /\ KeepLast \/ pc[Root] \notin {"drop", "finished"}
      BY <1>0, <1>4, <3>1, ReturnOutcome, CkptMoves DEF Return, At, CkptStep
    <3>3. ~GivenUp
      BY <3>2, RankParts DEF GivenUp, History
    <3>4. PICK c, l : c = call[r] /\ l = lvel[r]
      OBVIOUS
    <3>5. l \in 1 .. 4 /\ c \in Nat /\ c <= Len(calls)
      <4>1. call[r] \in Index
        BY DEF TypeInv, ControlOK
      <4> QED
        BY <1>2, <3>2, <3>4, <4>1, ReturnLevel DEF Index
    <3> SUFFICES ASSUME Bearable(acked.lvl)' PROVE Endures'
      BY DEF Endures
    <3>6. \A q \in Rank : Busy(q)' < l
      BY <3>2, <3>4 DEF Bearable, Calm
    <3>7. Calm(l) /\ Untouched(l)
      BY <3>2, <3>5, <3>6, CalmBefore, UntouchedLocal
    <3>8. Stored(c, l)
      BY <3>2, <3>3, <3>4, <3>7 DEF Returning
    <3>9. Stored(c, l)'
      BY <3>5, <3>7, <3>8, StoredKept
    <3>10. acked'.call = c /\ acked'.lvl = l /\ c <= Len(calls')
      BY <1>2, <3>2, <3>4, <3>5
    <3> QED
      BY <1>1, <1>2, <3>5, <3>9, <3>10, EnduresNew
  <2> QED
    BY <2>1, <2>2
<1> QED
  BY <1>3, <1>4

\* The collectives of FTI_Checkpoint and FTI_Finalize.
LEMMA EnduresCollective ==
  ASSUME TypeInv, TypeInv', OrderInv, CallInv, MetaInv, \A r \in Rank : WrittenAt(r), History, Kept', Endures,
         \/ WriteSync \/ PostSync \/ RenameSync \/ FlushSync \/ FinSync
         \/ \E p \in Proc, l \in {2, 3}, bad \in SUBSET Node : Exchange(p, l, bad)
  PROVE  Endures'
<1>0. Len(calls) \in Nat /\ Len(calls') \in Nat /\ calls' = calls
  <2>1. Len(calls) \in Nat /\ Len(calls') \in Nat
    BY IndexType DEF TypeInv, ControlOK
  <2> QED
    BY <2>1, SyncLeaves DEF FinSync
<1>1. CASE FinSync
  <2> SUFFICES ASSUME acked'.call # NoCall PROVE Endures'
    BY DEF Endures
  <2>1. /\ pc[Root] = "finished" /\ pc'[Root] = "done" /\ mem' = mem
        /\ acked.call # NoCall /\ acked'.call = acked.call /\ acked'.lvl = 4
    BY <1>1, RankParts DEF FinSync, AllAt, AllGoto, local, TypeInv, ControlOK
  <2>2. KeepLast
    BY <2>1 DEF History
  <2>3. Stored(acked.call, 4)'
    BY <2>1, <2>2 DEF Kept, KeptInv, KeptRoot
  <2>4. acked.call \in Nat /\ acked.call <= Len(calls)
    BY <1>0 DEF TypeInv, ControlOK, Index
  <2>5. PICK c : c = acked.call
    OBVIOUS
  <2>6. acked.call' = c /\ 4' = 4
    BY <2>1, <2>5
  <2>7. Stored(c, 4)'
    BY <2>3, <2>6 DEF Stored
  <2> QED
    BY <1>0, <2>1, <2>4, <2>5, <2>7, EnduresNew DEF Recovering
<1>2. ASSUME ~FinSync, acked.call # NoCall, Bearable(acked.lvl), UNCHANGED <<acked, hurt, open, dir, gdir, meta>>,
             acked.lvl \in 1 .. 4, \A r \in Rank : pc[r] \notin Recovering, pc'[Root] \notin Recovering
      PROVE  Endures'
  <2>1. ASSUME NEW l \in 1 .. 4, NEW c, Held(c, l) PROVE Held(c, l)' /\ Proceeds(l)'
    <3>1. \A q \in Rank : Keeps(q, l)' => Keeps(q, l)
      BY <1>2, KeepsFrame DEF Recovering
    <3>2. Untouched(l)
      BY <1>2, UntouchedFrame
    <3>3. Held(c, l)'
      BY <2>1, <3>1, <3>2, HeldKept
    <3> QED
      BY <1>2, <3>3 DEF Proceeds
  <2> QED
    BY <1>0, <1>2, <2>1, EnduresKept
<1>3. CASE RenameSync
  <2> SUFFICES ASSUME acked.call # NoCall, Bearable(acked.lvl)' PROVE Endures'
    BY <1>3, SyncLeaves DEF Endures, history
  <2>1. /\ AllAt("renamed") /\ UNCHANGED <<acked, hurt, open, torn, dir, gdir, meta, lvel, call>>
        /\ pc'[Root] = "return" /\ ~FinSync
    BY <1>3, RankParts DEF RenameSync, AllGoto, disk, local, history, FinSync, AllAt
  <2>2. acked.lvl \in 1 .. 4 /\ acked.call \in Nat /\ acked.call <= Len(calls)
    BY <1>0 DEF History, TypeInv, ControlOK, Index
  <2>3. PICK c, l : c = call[Root] /\ l = lvel[Root]
    OBVIOUS
  <2>4. c = Len(calls) /\ l \in 1 .. 4 /\ Stored(c, l) /\ \A r \in Rank : lvel[r] = l
    BY <2>1, <2>3, StoredAtRename
  <2>5. Stored(c, l)'
    BY <2>1, <2>4, StoredKept, UntouchedFrame
  <2>6. CASE acked.lvl <= l
    BY <1>0, <2>1, <2>2, <2>4, <2>5, <2>6, EnduresNew DEF Recovering
  <2>7. CASE ~(acked.lvl <= l)
    <3>1. \A r \in Rank : Busy(r) = l
      BY <2>1, <2>4, BusyHere DEF BusyMeans, AllAt, Renaming
    <3>2. Bearable(acked.lvl)
      BY <2>1, <2>2, <2>4, <2>7, <3>1 DEF Bearable, Calm, Gone, Survives
    <3>3. \A r \in Rank : pc[r] \notin Recovering
      BY <2>1 DEF AllAt, Recovering
    <3> QED
      BY <1>2, <2>1, <2>2, <3>2, <3>3 DEF Recovering
  <2> QED
    BY <2>6, <2>7
<1>4. CASE ~FinSync /\ ~RenameSync
  <2> SUFFICES ASSUME acked.call # NoCall, Bearable(acked.lvl)' PROVE Endures'
    BY <1>4, SyncLeaves DEF Endures, history
  <2>1. UNCHANGED <<acked, hurt, open, torn, dir, gdir, meta>>
    BY <1>4, SyncLeaves DEF history
  <2>2. acked.lvl \in 1 .. 4
    BY DEF History
  <2>3. \A r \in Rank : pc[r] \notin Renaming \cup (Finishing \ {"flush", "flushed"}) \cup Recovering
                        /\ pc'[r] \notin Recovering
    <3>1. ~ \A r \in Rank : pc[r] = "renamed" /\ pc'[r] = "return"
      <4>1. CASE WriteSync \/ PostSync \/ FlushSync
        BY <4>1, RankParts DEF WriteSync, PostSync, FlushSync, AllAt
      <4>2. CASE \E p \in Proc, l \in {2, 3}, bad \in SUBSET Node : Exchange(p, l, bad)
        <5>1. PICK p \in Proc : At(<<0, p>>, "post") /\ <<0, p>> \in Rank
          BY <4>2, RankParts, SizesAssumption DEF Exchange, Group, Node
        <5> QED
          BY <5>1 DEF At
      <4> QED
        BY <1>4, <4>1, <4>2
    <3> QED
      BY <1>4, <3>1, SyncMoves DEF Renaming, Finishing, Recovering, Exchanging
  <2>4. Calm(acked.lvl)
    <3>1. \A r \in Rank : Busy(r) = 0
      BY <2>3, BusyHere DEF BusyMeans
    <3> QED
      BY <2>2, <3>1 DEF Calm
  <2>5. Bearable(acked.lvl)
    BY <2>1, <2>4 DEF Bearable, Gone, Survives
  <2> QED
    BY <1>2, <1>4, <2>1, <2>2, <2>3, <2>5, RankParts
<1> QED
  BY <1>1, <1>3, <1>4

\* Nobody has a file open where the job is launched or a level has its verdict.
LEMMA BootFrom ==
  ASSUME BootFresh \/ BootRecover \/ SkipLevel \/ TryLocal \/ TryGlobal \/ CheckGlobal \/ RecoverSync
  PROVE  \A r \in Rank : pc[r] # "decode"
BY DEF BootFresh, BootRecover, SkipLevel, TryLocal, TryGlobal, CheckGlobal, RecoverSync, AllAt

\* No recovery passes by a level that survives what has happened.
LEMMA ProceedsBoot ==
  ASSUME TypeInv, RepairInv, NEW l \in 1 .. 4, NEW c, c # NoCall, Held(c, l), Proceeds(l), Survives(l, Gone),
         \A r \in Rank : pc'[r] \in Recovering,
         BootFresh \/ BootRecover \/ SkipLevel \/ TryLocal \/ TryGlobal \/ CheckGlobal \/ RecoverSync
  PROVE  Proceeds(l)'
<1>0. rlevel \in 1 .. 4 /\ Root \in Rank /\ 0 \in Proc
  BY RankParts DEF TypeInv, ControlOK
<1>1. pc'[Root] # "run" /\ pc'[Root] # "restore"
  BY <1>0 DEF Recovering
<1>2. \A p \in Proc : meta[l][p] = c
  BY DEF Held
<1>3. \A r \in Rank : Recoverable(Erasures(r[2], l), r[2], l)
  BY BootFrom, HeldRecoverable, RankParts
<1>4. ASSUME NextLevel, rlevel < l PROVE Proceeds(l)'
  <2>1. rlevel' = rlevel + 1 /\ \A r \in Rank : pc'[r] = "try"
    BY <1>1, <1>4 DEF NextLevel, NotRecovered, AllGoto
  <2> QED
    BY <1>0, <1>4, <2>1 DEF Proceeds
<1>5. CASE BootFresh
  BY <1>0, <1>1, <1>5 DEF BootFresh, AllGoto
<1>6. CASE BootRecover
  BY <1>0, <1>6 DEF BootRecover, AllAt, AllGoto, RepairInv, recov, Proceeds
<1>7. CASE SkipLevel
  <2>1. pc[Root] = "try" /\ NextLevel /\ meta[rlevel][0] = NoCall
    BY <1>0, <1>7 DEF SkipLevel, AllAt, MetaMissing
  <2>2. rlevel <= l /\ rlevel # l
    BY <1>0, <1>2, <2>1 DEF Proceeds, Recovering
  <2> QED
    BY <1>0, <1>4, <2>1, <2>2
<1>8. CASE TryLocal
  <2>1. pc[Root] = "try" /\ rlevel' = rlevel /\ Check(rlevel)
    BY <1>0, <1>8 DEF TryLocal, AllAt
  <2>2. rlevel <= l
    BY <2>1 DEF Proceeds, Recovering
  <2>3. rlevel = l => \A r \in Rank : res'[r] = 0
    BY <1>3, <2>1 DEF Check
  <2> QED
    BY <2>1, <2>2, <2>3 DEF Proceeds
<1>9. CASE TryGlobal
  <2>1. pc[Root] = "try" /\ rlevel' = rlevel /\ \A r \in Rank : pc'[r] = "cleanL1"
    BY <1>0, <1>9 DEF TryGlobal, AllAt, AllGoto, recov
  <2> QED
    BY <2>1 DEF Proceeds, Recovering
<1>10. CASE CheckGlobal
  <2>1. pc[Root] = "cleanedL1" /\ rlevel' = rlevel /\ Check(4)
    BY <1>0, <1>10 DEF CheckGlobal, AllAt
  <2>2. rlevel = 4 /\ rlevel <= l
    BY <1>0, <2>1 DEF TypeInv, Checked, Proceeds, Recovering
  <2>3. l = 4
    BY <2>2
  <2>4. \A r \in Rank : res'[r] = 0
    BY <1>3, <2>1, <2>3 DEF Check
  <2> QED
    BY <2>1, <2>2, <2>4 DEF Proceeds
<1>11. CASE RecoverSync
  <2>1. AllAt("recovered") /\ pc[Root] = "recovered" /\ NextLevel /\ \E r \in Rank : res[r] # 0
    BY <1>0, <1>1, <1>11 DEF RecoverSync, AllAt, AllGoto
  <2>2. rlevel <= l /\ rlevel # l
    BY <2>1 DEF Proceeds, Recovering, AllAt
  <2> QED
    BY <1>0, <1>4, <2>1, <2>2
<1> QED
  BY <1>5, <1>6, <1>7, <1>8, <1>9, <1>10, <1>11

\* A launch and its recovery.
LEMMA EnduresBoot ==
  ASSUME TypeInv, IdsInv, MetaInv, RepairInv, History, Endures,
         BootFresh \/ BootRecover \/ SkipLevel \/ TryLocal \/ TryGlobal \/ CheckGlobal \/ RecoverSync
  PROVE  Endures'
<1>0. /\ \A r \in Rank : pc[r] \in {"down"} \cup Recovering
      /\ calls' = calls /\ Len(calls) \in Nat
  BY BootOutcome, IndexType DEF TypeInv
<1>1. CASE acked' = [call |-> NoCall, lvl |-> 0]
  BY <1>1 DEF Endures
<1>2. CASE RecoverSync /\ \A r \in Rank : res[r] = 0
  <2>1. /\ AllAt("recovered") /\ rlevel \in 1 .. 4 /\ pc'[Root] = "restore"
        /\ meta[rlevel][0] \in 1 .. Len(calls)
        /\ acked' = [call |-> meta[rlevel][0], lvl |-> rlevel]
        /\ UNCHANGED <<dir, gdir, meta>>
    BY <1>2, RecoveredState, RankParts DEF disk
  <2>2. PICK c, l : c = meta[rlevel][0] /\ l = rlevel
    OBVIOUS
  <2>3. Stored(c, l) /\ l \in 1 .. 4 /\ c \in 1 .. Len(calls)
    BY <1>2, <2>1, <2>2, StoredAtRecover
  <2>4. Stored(c, l)'
    BY <2>1, <2>3, StoredKept, UntouchedFrame
  <2>5. acked'.call = c /\ acked'.lvl = l /\ Len(calls') = Len(calls) /\ pc'[Root] \notin Recovering
    BY <1>0, <2>1, <2>2 DEF Recovering
  <2>6. c \in Int /\ c <= Len(calls)
    BY <1>0, <2>3
  <2> QED
    BY <1>0, <2>3, <2>4, <2>5, <2>6, EnduresNew
<1>3. CASE UNCHANGED <<lvel, mem, history, disk, meta, conf>> /\ \A r \in Rank : pc'[r] \in Recovering
  <2> SUFFICES ASSUME acked.call # NoCall, Bearable(acked.lvl)' PROVE Endures'
    BY <1>3 DEF Endures, history
  <2>1. UNCHANGED <<acked, hurt, open, torn, dir, gdir, meta>>
    BY <1>3 DEF history, disk
  <2>2. acked.lvl \in 1 .. 4 /\ acked.call \in Nat
    BY IndexType DEF History, TypeInv, ControlOK
  <2>3. \A r \in Rank : Busy(r) = 0
    BY <1>0, BusyHere DEF BusyMeans, Renaming, Finishing, Recovering
  <2>4. Bearable(acked.lvl)
    BY <2>1, <2>2, <2>3 DEF Bearable, Calm, Gone, Survives
  <2>5. ASSUME NEW l \in 1 .. 4, NEW c, acked.lvl <= l, acked.call <= c, Held(c, l), Proceeds(l)
        PROVE  Held(c, l)' /\ Proceeds(l)'
    <3>1. c # NoCall
      BY <2>2, <2>5 DEF NoCall
    <3>2. Survives(l, Gone)
      BY <2>2, <2>4, <2>5, GoneType, SurvivesMore DEF Bearable, TypeInv
    <3>3. Proceeds(l)'
      BY <1>3, <2>5, <3>1, <3>2, ProceedsBoot
    <3>4. \A q \in Rank : Keeps(q, l)' => Keeps(q, l)
      BY <2>1, BootFrom, KeepsFrame
    <3>5. Untouched(l)
      BY <2>1, UntouchedFrame
    <3>6. Held(c, l)'
      BY <2>5, <3>4, <3>5, HeldKept
    <3> QED
      BY <3>3, <3>6
  <2> QED
    BY <1>0, <2>1, <2>2, <2>4, <2>5, EnduresKept
<1> QED
  BY <1>1, <1>2, <1>3, BootOutcome

\* FTI_RecoverL2 and FTI_Decode replace files of their process only; what they leave
\* of the copy at L2 is of the same kind.
LEMMA RepairLeaves ==
  ASSUME TypeInv, NEW r \in Rank, FixOwn(r) \/ FixCopy(r) \/ DecodeOpen(r) \/ Decode(r)
  PROVE  /\ UNCHANGED <<gdir, meta>>
         /\ \A l \in 1 .. 3, n \in Node : \A f \in dir[l][n] :
              f.rank # r \/ (FixOwn(r) /\ f.kind = "Pcof") => f \in dir'[l][n]
<1>0. r[1] \in Node /\ dir \in [1 .. 3 -> [Node -> SUBSET File]]
  BY RankParts DEF TypeInv, FilesOK
<1>1. \A k, l : Expected(k, r, l).rank = r /\ Expected(k, r, l).kind = k
  BY HoldingParts DEF Expected
<1>2. \A k, c : Holding(k, r, c).rank = r /\ Holding(k, r, c).kind = k
  BY HoldingParts
<1>3. ASSUME NEW k \in 1 .. 3, NEW S, dir' = [dir EXCEPT ![k][r[1]] = S],
             \A f \in dir[k][r[1]] : f.rank # r \/ (FixOwn(r) /\ f.kind = "Pcof") => f \in S
      PROVE  \A l \in 1 .. 3, n \in Node : \A f \in dir[l][n] :
               f.rank # r \/ (FixOwn(r) /\ f.kind = "Pcof") => f \in dir'[l][n]
  <2>1. \A l \in 1 .. 3, n \in Node : dir'[l][n] = IF l = k /\ n = r[1] THEN S ELSE dir[l][n]
    BY <1>0, <1>3
  <2> QED
    BY <1>3, <2>1
<1>4. CASE FixOwn(r)
  <2>1. PICK c : dir' = [dir EXCEPT ![2][r[1]] = Put(dir[2][r[1]], Holding("Rank", r, c))]
    BY <1>4 DEF FixOwn
  <2>2. \A f \in dir[2][r[1]] : f.rank # r \/ (FixOwn(r) /\ f.kind = "Pcof")
                                  => f \in Put(dir[2][r[1]], Holding("Rank", r, c))
    BY <1>2, PutFiles
  <2>3. UNCHANGED <<gdir, meta>>
    BY <1>4 DEF FixOwn
  <2> QED
    BY <1>3, <2>1, <2>2, <2>3
<1>5. CASE FixCopy(r)
  <2>0. pc[r] = "fixCopy" /\ ~FixOwn(r) /\ UNCHANGED <<gdir, meta>>
    BY <1>5 DEF FixCopy, FixOwn, At
  <2>1. dir' = dir \/ \E c : dir' = [dir EXCEPT ![2][r[1]] = Put(dir[2][r[1]], Holding("Pcof", r, c))]
    BY <1>5 DEF FixCopy
  <2>2. CASE dir' = dir
    BY <2>0, <2>2
  <2>3. ASSUME NEW c, dir' = [dir EXCEPT ![2][r[1]] = Put(dir[2][r[1]], Holding("Pcof", r, c))]
        PROVE  \A l \in 1 .. 3, n \in Node : \A f \in dir[l][n] :
                 f.rank # r \/ (FixOwn(r) /\ f.kind = "Pcof") => f \in dir'[l][n]
    <3>1. \A f \in dir[2][r[1]] : f.rank # r => f \in Put(dir[2][r[1]], Holding("Pcof", r, c))
      BY <1>2, PutFiles
    <3> QED
      BY <1>3, <2>0, <2>3, <3>1
  <2> QED
    BY <2>0, <2>1, <2>2, <2>3
<1>6. CASE DecodeOpen(r)
  <2>0. pc[r] = "decodeOpen" /\ ~FixOwn(r) /\ UNCHANGED <<gdir, meta>>
    BY <1>6 DEF DecodeOpen, FixOwn, At
  <2>1. dir' = dir \/ dir' = [dir EXCEPT ![3][r[1]] = Without(dir[3][r[1]], Expected("Rank", r, 3))]
    BY <1>6 DEF DecodeOpen
  <2>2. \A f \in dir[3][r[1]] : f.rank # r => f \in Without(dir[3][r[1]], Expected("Rank", r, 3))
    BY <1>1, PutFiles
  <2> QED
    BY <1>3, <2>0, <2>1, <2>2
<1>7. CASE Decode(r)
  <2> DEFINE R == Put(dir[3][r[1]], Expected("Rank", r, 3))
             S == Put(R, Expected("RSed", r, 3))
  <2>0. pc[r] = "decode" /\ ~FixOwn(r) /\ UNCHANGED <<gdir, meta>>
    BY <1>7 DEF Decode, FixOwn, At
  <2>1. dir' = [dir EXCEPT ![3][r[1]] = S]
    BY <1>7 DEF Decode
  <2>2. \A f \in dir[3][r[1]] : f.rank # r => f \in R
    BY <1>1, PutFiles
  <2> HIDE DEF R
  <2>3. \A f \in R : f.rank # r => f \in S
    BY <1>1, PutFiles
  <2> HIDE DEF S
  <2> QED
    BY <1>3, <2>0, <2>1, <2>2, <2>3
<1> QED
  BY <1>4, <1>5, <1>6, <1>7

\* At the level being repaired a process comes out with its files, and the others
\* keep theirs.
LEMMA HeldRepaired ==
  ASSUME TypeInv, RepairInv, RepairInv', NEW r \in Rank, FixOwn(r) \/ FixCopy(r) \/ DecodeOpen(r) \/ Decode(r),
         UNCHANGED <<hurt, open>>, rlevel' = rlevel, NEW l \in {2, 3}, rlevel = l, res'[r] = 0, NEW c, Held(c, l)
  PROVE  Held(c, l)'
<1>0. /\ UNCHANGED <<gdir, meta>> /\ l \in 1 .. 3 /\ l \in 1 .. 4
      /\ \A n \in Node : \A f \in dir[l][n] : f.rank # r \/ (FixOwn(r) /\ f.kind = "Pcof") => f \in dir'[l][n]
  BY RepairLeaves
<1>1. /\ \A p \in Proc : meta[l][p] = c /\ meta'[l][p] = c
      /\ \A q \in Rank : Keeps(q, l) => Files(q, c, l) \subseteq dir[l][q[1]]
  BY <1>0, HeldHere DEF HeldMeans, Place
<1>2. \A q \in Rank : \A f \in Files(q, c, l) : f.rank = q
  BY HoldingParts DEF Files
<1>3. \A q \in Rank \ {r} : pc'[q] = pc[q]
  BY RecoverMoves DEF RecoverStep
<1>4. ASSUME NEW q \in Rank \ {r}, Keeps(q, l)' PROVE Files(q, c, l) \subseteq dir'[l][q[1]]
  <2>1. Keeps(q, l)
    BY <1>3, <1>4 DEF Keeps, Gone
  <2> QED
    BY <1>0, <1>1, <1>2, <2>1, RankParts
<1>5. ASSUME Keeps(r, l)' PROVE Files(r, c, l) \subseteq dir'[l][r[1]]
  <2>1. RepairAt(r)' /\ RepairAt(r)
    BY DEF RepairInv
  <2>2. /\ Expected("Rank", r, 2)' = Holding("Rank", r, meta'[2][r[2]])
        /\ r[2] \in Proc /\ r[1] \in Node
    BY RankParts DEF Expected
  <2>3. CASE pc'[r] = "recovered"
    <3>1. Files(r, meta[l][r[2]], l)' = Files(r, c, l) /\ Place(l, r[1])' = dir'[l][r[1]]
      BY <1>1, <2>2 DEF Files, Place
    <3>2. (Files(r, meta[rlevel][r[2]], rlevel) \subseteq Place(rlevel, r[1]))'
      BY <2>1, <2>3 DEF RepairAt
    <3>3. Files(r, meta[rlevel][r[2]], rlevel)' = Files(r, c, l)
      BY <1>1, <2>2 DEF Files
    <3>4. Place(rlevel, r[1])' = dir'[l][r[1]]
      BY DEF Place
    <3> QED
      BY <3>2, <3>3, <3>4
  <2>4. CASE FixOwn(r)
    <3>1. pc[r] = "fixOwn" /\ pc'[r] = "fixCopy"
      BY <2>4, RecoverMoves DEF FixOwn, At, RecoverStep
    <3>2. l = 2 /\ Holding("Rank", r, c) \in dir'[2][r[1]]
      BY <1>1, <2>1, <2>2, <3>1 DEF RepairAt
    <3>3. Keeps(r, l)
      BY <1>5, <3>2 DEF Keeps, Gone
    <3>4. \A f \in Files(r, c, l) : f = Holding("Rank", r, c) \/ f.kind = "Pcof"
      BY <3>2, KindsOf, HoldingParts DEF Files
    <3>5. \A f \in Files(r, c, l) : f \in dir[l][r[1]]
      BY <1>1, <3>3
    <3> QED
      BY <1>0, <2>2, <2>4, <3>2, <3>4, <3>5
  <2>5. CASE DecodeOpen(r)
    <3>1. pc[r] = "decodeOpen" /\ pc'[r] = "decode"
      BY <2>5, RecoverMoves DEF DecodeOpen, At, RecoverStep
    <3>2. l = 3
      BY <2>1, <3>1 DEF RepairAt
    <3> QED
      BY <1>5, <3>1, <3>2 DEF Keeps
  <2>6. CASE FixCopy(r) \/ Decode(r)
    <3>1. pc'[r] = "recovered"
      BY <2>6, RecoverMoves DEF FixCopy, Decode, At, RecoverStep
    <3> QED
      BY <2>3, <3>1
  <2> QED
    BY <2>4, <2>5, <2>6
<1>6. \A q \in Rank : Files(q, c, l)' = Files(q, c, l) /\ Place(l, q[1])' = dir'[l][q[1]]
  BY DEF Files, Place
<1>7. \A q \in Rank : Keeps(q, l)' => Files(q, c, l)' \subseteq Place(l, q[1])'
  BY <1>4, <1>5, <1>6
<1> QED
  BY <1>0, <1>1, <1>7, HeldNext DEF HeldMeans

\* A recovery repairs the level it is at, and L4 uses the directory of L1.
LEMMA HeldRecover ==
  ASSUME TypeInv, RepairInv, RepairInv', NEW r \in Rank, RecoverStep(r), UNCHANGED <<hurt, open>>,
         NEW l \in 1 .. 4, NEW c, Held(c, l), Proceeds(l)
  PROVE  Held(c, l)' /\ Proceeds(l)'
<1>1. CASE Recover(r)
  <2>1. UNCHANGED <<dir, gdir, meta>> /\ pc[r] = "restore"
    BY <1>1 DEF Recover, disk, At
  <2>2. \A q \in Rank : pc[q] \notin Recovering
    BY <2>1, WhereAll DEF TypeInv, Together, Recovering
  <2>3. pc'[Root] \notin Recovering
    BY <2>1, <2>2, RecoverMoves, RankParts DEF Recovering
  <2>4. \A q \in Rank : Keeps(q, l)' => Keeps(q, l)
    BY <2>2, KeepsFrame DEF Recovering
  <2>5. Untouched(l)
    BY <2>1, UntouchedFrame
  <2>6. Held(c, l)'
    BY <2>4, <2>5, HeldKept
  <2> QED
    BY <2>3, <2>6 DEF Proceeds
<1>2. CASE ~Recover(r)
  <2>1. pc[r] \in Recovering \ {"try"} /\ UNCHANGED <<rlevel, res>> /\ \A q \in Rank \ {r} : pc'[q] = pc[q]
    <3>1. pc[r] \in Recovering \ {"try"} /\ UNCHANGED <<rlevel, res>>
      BY <1>2 DEF RecoverStep, CleanL1, FixOwn, FixCopy, DecodeOpen, Decode, Fetch, At, Recovering, recov, local
    <3> QED
      BY <3>1, RecoverMoves
  <2>2. pc[Root] \in Recovering
    BY <2>1, RankParts, WhereAll DEF TypeInv, Together
  <2>3. rlevel <= l /\ (rlevel = l => \A q \in Rank : pc[q] \in {"try", "cleanL1", "cleanedL1"} \/ res[q] = 0)
    BY <2>2 DEF Proceeds
  <2>4. rlevel \in 1 .. 4 /\ r[1] \in Node
    BY RankParts DEF TypeInv, ControlOK
  <2>5. Proceeds(l)'
    <3>1. rlevel = l => pc'[r] \in {"cleanL1", "cleanedL1"} \/ res[r] = 0
      <4>1. pc[r] \in {"cleanL1", "cleanedL1"} => pc'[r] \in {"cleanL1", "cleanedL1"}
        BY RecoverMoves
      <4> QED
        BY <2>1, <2>3, <4>1
    <3> QED
      BY <2>1, <2>3, <3>1 DEF Proceeds
  <2>6. \A q \in Rank : pc[q] \in {"fixOwn", "fixCopy"} => rlevel = 2
    BY DEF RepairInv, RepairAt
  <2>7. \A q \in Rank : pc[q] \in {"decodeOpen", "decode"} => rlevel = 3
    BY DEF RepairInv, RepairAt
  <2>8. CASE rlevel < l
    <3>1. \A q \in Rank : Keeps(q, l)' => Keeps(q, l)
      BY <2>7, <2>8 DEF Keeps, Gone
    <3>2. Untouched(l)
      <4>1. CASE FixOwn(r) \/ FixCopy(r) \/ DecodeOpen(r) \/ Decode(r)
        <5>1. rlevel \in {2, 3} /\ (FixOwn(r) \/ FixCopy(r) => rlevel = 2)
              /\ (DecodeOpen(r) \/ Decode(r) => rlevel = 3)
          BY <2>6, <2>7, <4>1 DEF FixOwn, FixCopy, DecodeOpen, Decode, At
        <5>2. /\ UNCHANGED <<gdir, meta>>
              /\ dir' = dir \/ \E S : dir' = [dir EXCEPT ![rlevel][r[1]] = S]
          BY <4>1, <5>1 DEF FixOwn, FixCopy, DecodeOpen, Decode
        <5> QED
          BY <2>4, <2>8, <5>1, <5>2, UntouchedDir, UntouchedFrame
      <4>2. CASE CleanL1(r)
        <5>1. CleanLevels(r, {1}) /\ l \notin {1}
          BY <2>4, <2>8, <4>2 DEF CleanL1
        <5> QED
          BY <5>1, UntouchedClean
      <4>3. CASE Fetch(r)
        <5>1. UNCHANGED <<gdir, meta>>
          BY <4>3 DEF Fetch
        <5>2. PICK S : dir' = [dir EXCEPT ![1][r[1]] = S]
          BY <4>3 DEF Fetch
        <5>3. 1 \in 1 .. 3 /\ 1 # l
          BY <2>4, <2>8
        <5> QED
          BY <2>4, <5>1, <5>2, <5>3, UntouchedDir
      <4> QED
        BY <1>2, <4>1, <4>2, <4>3 DEF RecoverStep
    <3> QED
      BY <2>5, <3>1, <3>2, HeldKept
  <2>9. CASE rlevel = l
    <3>1. CASE FixOwn(r) \/ FixCopy(r) \/ DecodeOpen(r) \/ Decode(r)
      <4>1. pc[r] \in {"fixOwn", "fixCopy", "decodeOpen", "decode"}
        BY <3>1 DEF FixOwn, FixCopy, DecodeOpen, Decode, At
      <4>2. l \in {2, 3} /\ res'[r] = 0
        BY <2>1, <2>3, <2>6, <2>7, <2>9, <4>1
      <4>3. Held(c, l)'
        BY <2>1, <2>9, <3>1, <4>2, HeldRepaired
      <4> QED
        BY <2>5, <4>3
    <3>2. CASE CleanL1(r) \/ Fetch(r)
      <4>1. l = 4
        BY <2>9, <3>2 DEF CleanL1, Fetch, At, RepairInv, RepairAt, TypeInv, Checked
      <4>2. Untouched(l)
        <5>1. CASE CleanL1(r)
          <6>1. CleanLevels(r, {1}) /\ l \notin {1}
            BY <4>1, <5>1 DEF CleanL1
          <6> QED
            BY <6>1, UntouchedClean
        <5>2. CASE Fetch(r)
          <6>1. UNCHANGED <<gdir, meta>>
            BY <5>2 DEF Fetch
          <6>2. PICK S : dir' = [dir EXCEPT ![1][r[1]] = S]
            BY <5>2 DEF Fetch
          <6>3. 1 \in 1 .. 3 /\ 1 # l
            BY <4>1
          <6> QED
            BY <2>4, <6>1, <6>2, <6>3, UntouchedDir
        <5> QED
          BY <3>2, <5>1, <5>2
      <4>3. \A q \in Rank : Keeps(q, l)
        BY <4>1 DEF Keeps
      <4> QED
        BY <2>5, <4>2, <4>3, HeldKept
    <3> QED
      BY <1>2, <3>1, <3>2 DEF RecoverStep
  <2> QED
    BY <2>3, <2>4, <2>8, <2>9
<1> QED
  BY <1>1, <1>2

\* The steps of a recovery.
LEMMA EnduresRecover ==
  ASSUME TypeInv, RepairInv, RepairInv', History, Endures, NEW r \in Rank, RecoverStep(r)
  PROVE  Endures'
<1>1. UNCHANGED <<calls, lvel, mem, acked, hurt, open, torn>> /\ Len(calls) \in Nat
  BY IndexType DEF RecoverStep, CleanL1, FixOwn, FixCopy, DecodeOpen, Decode, Fetch, Recover, local, history, TypeInv
<1>2. \A q \in Rank : Busy(q)' = Busy(q)
  <2>1. pc[r] \in Recovering \cup {"restore"} /\ pc'[r] \in Recovering \cup {"run"}
    BY RecoverMoves DEF Recovering
  <2>2. Busy(r) = 0 /\ Busy(r)' = 0
    BY <2>1, BusyHere, BusyNext DEF BusyMeans, Renaming, Finishing, Recovering
  <2>3. \A q \in Rank \ {r} : Busy(q)' = Busy(q)
    BY <1>1, RecoverMoves DEF Busy, Replacing
  <2> QED
    BY <2>2, <2>3
<1> SUFFICES ASSUME acked.call # NoCall, Bearable(acked.lvl)' PROVE Endures'
  BY <1>1 DEF Endures
<1>3. acked.lvl \in 1 .. 4
  BY DEF History
<1>4. Bearable(acked.lvl)
  BY <1>1, <1>2 DEF Bearable, Calm, Gone, Survives
<1>5. \A l \in 1 .. 4 : \A c : Held(c, l) /\ Proceeds(l) => Held(c, l)' /\ Proceeds(l)'
  BY <1>1, HeldRecover
<1> QED
  BY <1>1, <1>3, <1>4, <1>5, EnduresKept

\* A crash, and the launch after the job has ended.
LEMMA EnduresEnvironment ==
  ASSUME TypeInv, TypeInv', History, Endures, Environment
  PROVE  Endures'
<1>1. /\ UNCHANGED <<calls, acked, gdir, meta>> /\ Len(calls) \in Nat
      /\ \A r \in Rank : pc'[r] = "down"
  BY IndexType DEF Environment, Relaunch, Crash, Reset, disk, history, TypeInv
<1>2. pc'[Root] \notin Recovering
  BY <1>1, RankParts DEF Recovering
<1> SUFFICES ASSUME acked.call # NoCall, Bearable(acked.lvl)' PROVE Endures'
  BY <1>1 DEF Endures
<1>3. acked.lvl \in 1 .. 4
  BY DEF History
<1>4. CASE Relaunch
  <2>1. UNCHANGED <<dir, hurt, open, torn>> /\ AllAt("done")
    BY <1>4 DEF Relaunch, disk, history
  <2>2. \A r \in Rank : Busy(r) = 0
    BY <2>1, BusyHere DEF BusyMeans, Renaming, Finishing, AllAt
  <2>3. Bearable(acked.lvl)
    BY <1>1, <1>3, <2>1, <2>2 DEF Bearable, Calm, Gone, Survives
  <2>4. ASSUME NEW l \in 1 .. 4, NEW c, Held(c, l) PROVE Held(c, l)' /\ Proceeds(l)'
    <3>1. \A q \in Rank : Keeps(q, l)' => Keeps(q, l)
      BY <2>1, KeepsFrame DEF AllAt
    <3>2. Untouched(l)
      BY <1>1, <2>1, UntouchedFrame
    <3>3. Held(c, l)'
      BY <2>4, <3>1, <3>2, HeldKept
    <3> QED
      BY <1>2, <3>3 DEF Proceeds
  <2> QED
    BY <1>1, <1>3, <2>3, <2>4, EnduresKept
<1>5. ASSUME NEW F \in SUBSET Node, Crash(F) PROVE Endures'
  <2>1. /\ dir' = [l \in 1 .. 3 |-> [n \in Node |-> IF n \in F THEN {} ELSE dir[l][n]]]
        /\ hurt' = hurt \cup F
        /\ open' = open \cup {n \in Node : \E p \in Proc : pc[<<n, p>>] = "decode"}
        /\ torn' = torn \cup {Replacing(lvel[r], r) : r \in Rank}
    BY <1>5 DEF Crash
  <2>2. \A r \in Rank : Replacing(lvel[r], r) < acked.lvl
    <3>1. \A t \in torn' : t < acked.lvl
      BY <1>1 DEF Bearable
    <3> HIDE DEF Replacing
    <3> QED
      BY <2>1, <3>1
  <2>3. Calm(acked.lvl)
    <3> SUFFICES ASSUME NEW r \in Rank PROVE Busy(r) < acked.lvl
      BY DEF Calm
    <3>1. Replacing(lvel[r], r) < acked.lvl
      BY <2>2
    <3>2. Busy(r) = Replacing(lvel[r], r)
      BY <1>3, <3>1, BusyTorn
    <3> QED
      BY <3>1, <3>2
  <2>4. Bearable(acked.lvl)
    <3>1. Survives(acked.lvl, Gone')
      <4>1. Survives(acked.lvl, Gone)' <=> Survives(acked.lvl, Gone')
        BY <1>1 DEF Survives
      <4> QED
        BY <4>1 DEF Bearable
    <3>2. Gone' \in SUBSET Node /\ Gone \in SUBSET (Gone')
      BY <2>1 DEF TypeInv, FilesOK, Gone
    <3> HIDE DEF Gone
    <3>3. Survives(acked.lvl, Gone)
      BY <1>3, <3>1, <3>2, SurvivesLess
    <3>4. \A t \in torn : t < acked.lvl
      BY <1>1, <2>1 DEF Bearable
    <3> QED
      BY <2>3, <3>3, <3>4 DEF Bearable
  <2>5. ASSUME NEW l \in 1 .. 4, NEW c, Held(c, l) PROVE Held(c, l)' /\ Proceeds(l)'
    <3>1. ASSUME NEW q \in Rank, Keeps(q, l)' PROVE Keeps(q, l) /\ Place(l, q[1])' = Place(l, q[1])
      <4>1. q[1] \in Node /\ q[2] \in Proc /\ q = <<q[1], q[2]>>
        BY RankParts DEF Rank
      <4>2. CASE l = 4
        BY <1>1, <4>2 DEF Keeps, Place
      <4>3. CASE l # 4
        <5>1. q[1] \notin F /\ q[1] \notin Gone /\ q[1] \notin open'
          BY <2>1, <3>1, <4>3 DEF Keeps, Gone
        <5>2. pc[q] # "decode"
          BY <2>1, <4>1, <5>1
        <5>3. dir'[l][q[1]] = dir[l][q[1]]
          BY <2>1, <4>1, <4>3, <5>1
        <5> QED
          BY <4>3, <5>1, <5>2, <5>3 DEF Keeps, Place
      <4> QED
        BY <4>2, <4>3
    <3>2. /\ \A p \in Proc : meta'[l][p] = c
          /\ \A q \in Rank : Keeps(q, l) => Files(q, c, l) \subseteq Place(l, q[1])
      BY <1>1, <2>5, HeldHere DEF HeldMeans
    <3>3. \A q \in Rank : Files(q, c, l)' = Files(q, c, l)
      BY DEF Files
    <3>4. \A q \in Rank : Keeps(q, l)' => Files(q, c, l)' \subseteq Place(l, q[1])'
      BY <3>1, <3>2, <3>3
    <3>5. Held(c, l)'
      BY <3>2, <3>4, HeldNext DEF HeldMeans
    <3> QED
      BY <1>2, <3>5 DEF Proceeds
  <2> QED
    BY <1>1, <1>3, <2>4, <2>5, EnduresKept
<1> QED
  BY <1>4, <1>5 DEF Environment

\* What a restart needs is there after every step.
LEMMA EnduresStep ==
  ASSUME TypeInv, TypeInv', OrderInv, IdsInv, CallInv, MetaInv, RepairInv, RepairInv',
         \A r \in Rank : WrittenAt(r), History, Returning, Kept', Endures, [Next]_vars
  PROVE  Endures'
<1>1. ASSUME NEW r \in Rank, AppStep(r) \/ CkptStep(r) \/ FinStep(r) PROVE Endures'
  BY <1>1, EnduresLocal
<1>2. ASSUME NEW r \in Rank, RecoverStep(r) PROVE Endures'
  BY <1>2, EnduresRecover
<1>3. CASE \/ WriteSync \/ PostSync \/ RenameSync \/ FlushSync \/ FinSync
           \/ \E p \in Proc, l \in {2, 3}, bad \in SUBSET Node : Exchange(p, l, bad)
  BY <1>3, EnduresCollective
<1>4. CASE BootFresh \/ BootRecover \/ SkipLevel \/ TryLocal \/ TryGlobal \/ CheckGlobal \/ RecoverSync
  BY <1>4, EnduresBoot
<1>5. CASE Environment
  BY <1>5, EnduresEnvironment
<1>6. CASE UNCHANGED vars
  <2>1. UNCHANGED <<calls, dir, gdir, meta, pc, res, lvel, mem, rlevel, acked, hurt, open, torn>>
    BY <1>6 DEF vars, disk, local, recov, history
  <2> SUFFICES ASSUME acked.call # NoCall, Bearable(acked.lvl)' PROVE Endures'
    BY <2>1 DEF Endures
  <2>2. acked.lvl \in 1 .. 4 /\ Len(calls) \in Nat
    BY IndexType DEF History, TypeInv
  <2>3. Bearable(acked.lvl)
    BY <2>1 DEF Bearable, Calm, Busy, Replacing, Gone, Survives
  <2>4. ASSUME NEW l \in 1 .. 4, NEW c, Held(c, l), Proceeds(l) PROVE Held(c, l)' /\ Proceeds(l)'
    <3>1. \A q \in Rank : Keeps(q, l)' => Keeps(q, l)
      BY <2>1 DEF Keeps, Gone
    <3>2. Untouched(l)
      BY <2>1, UntouchedFrame
    <3>3. Held(c, l)'
      BY <2>4, <3>1, <3>2, HeldKept
    <3>4. Proceeds(l)'
      BY <2>1, <2>4 DEF Proceeds
    <3> QED
      BY <3>3, <3>4
  <2> QED
    BY <2>1, <2>2, <2>3, <2>4, EnduresKept
<1> QED
  BY <1>1, <1>2, <1>3, <1>4, <1>5, <1>6 DEF Next, Sync, Ended

(***************************************************************************)
(* The inductive invariant, and what it is for.                            *)
(***************************************************************************)

DurableInv == StorageInv /\ Endures

LEMMA DurableInit ==
  ASSUME Init
  PROVE  DurableInv
<1>1. Endures
  BY DEF Init, Endures
<1> QED
  BY <1>1, StorageInit DEF DurableInv

LEMMA DurableStep ==
  ASSUME NoRace, DurableInv, [Next]_vars
  PROVE  DurableInv'
<1>1. StorageInv /\ StorageInv' /\ Endures
  BY StorageStep DEF DurableInv
<1>2. /\ TypeInv /\ TypeInv' /\ OrderInv /\ IdsInv /\ CallInv /\ MetaInv /\ RepairInv /\ RepairInv'
      /\ \A r \in Rank : WrittenAt(r)
      /\ History /\ Returning /\ Kept'
  BY <1>1 DEF StorageInv, RecoveryInv
<1>3. Endures'
  BY <1>1, <1>2, EnduresStep
<1> QED
  BY <1>1, <1>3 DEF DurableInv

\* A recovery that is to find a checkpoint comes to an end at its level, or finds a
\* newer one below.
LEMMA EndsDurably ==
  ASSUME ~KeepLast, DurableInv, [Next]_vars, RecoveryEnds, conf # 0, acked.call # NoCall,
         \A t \in torn : t < acked.lvl, Survives(acked.lvl, hurt \cup open)
  PROVE  acked'.call >= acked.call
<1>0. /\ TypeInv /\ IdsInv /\ MetaInv /\ RepairInv /\ History /\ Endures /\ LevelOrder
      /\ Root \in Rank /\ 0 \in Proc
  BY RankParts DEF DurableInv, StorageInv, RecoveryInv, OrderInv
<1>1. /\ acked.lvl \in 1 .. 4 /\ acked.call \in Nat /\ rlevel \in 1 .. 4 /\ Len(calls) \in Nat
      /\ \A l \in 1 .. 4 : meta[l][0] \in Nat
  BY <1>0, IndexType DEF History, TypeInv, ControlOK, Index
<1>2. BootFresh \/ BootRecover \/ SkipLevel \/ TryLocal \/ TryGlobal \/ CheckGlobal \/ RecoverSync
  <2>1. pc[Root] \in {"down", "try", "recovered"} /\ pc'[Root] \in {"restore", "run"}
    BY DEF RecoveryEnds
  <2>2. pc'[Root] # pc[Root]
    BY <2>1
  <2>3. \A r \in Rank : pc[r] \in {"down"} \cup Recovering
    BY <1>0, <2>1, WhereAll DEF TypeInv, Together, Recovering
  <2>4. ASSUME NEW r \in Rank, AppStep(r) \/ CkptStep(r) \/ FinStep(r) \/ RecoverStep(r) PROVE FALSE
    <3>1. pc[r] \in {"down"} \cup Recovering
      BY <2>3
    <3>2. RecoverStep(r) /\ pc[r] # "restore"
      BY <1>0, <2>4, <3>1, AppLeaves, CkptMoves, FinMoves DEF Recovering
    <3>3. pc'[Root] = pc[Root] \/ pc'[Root] \in {"cleanedL1", "fixCopy", "decode", "recovered"}
      BY <1>0, <3>2, RecoverMoves
    <3> QED
      BY <2>1, <2>2, <3>3
  <2>5. ASSUME \/ WriteSync \/ PostSync \/ RenameSync \/ FlushSync \/ FinSync
               \/ \E p \in Proc, l \in {2, 3}, bad \in SUBSET Node : Exchange(p, l, bad)
        PROVE  FALSE
    <3>1. CASE FinSync
      BY <1>0, <2>1, <3>1 DEF FinSync, AllAt
    <3>2. CASE ~FinSync
      BY <1>0, <2>1, <2>5, <3>2, SyncMoves DEF Exchanging
    <3> QED
      BY <3>1, <3>2
  <2>6. ~Environment /\ ~UNCHANGED vars
    <3>1. ASSUME Environment PROVE pc'[Root] = "down"
      BY <1>0, <3>1 DEF Environment, Relaunch, Crash, Reset
    <3>2. ASSUME UNCHANGED vars PROVE pc' = pc
      BY <3>2 DEF vars
    <3> QED
      BY <2>1, <2>2, <3>1, <3>2
  <2> QED
    BY <2>4, <2>5, <2>6 DEF Next, Sync, Ended
<1>3. PICK c \in acked.call .. Len(calls), l \in acked.lvl .. 4 : Held(c, l) /\ Proceeds(l)
  <2>1. \A r \in Rank : Busy(r) = 0
    BY <1>2, BootOutcome, BusyHere DEF BusyMeans, Renaming, Finishing, Recovering
  <2>2. Bearable(acked.lvl)
    BY <1>1, <2>1 DEF Bearable, Calm, Gone
  <2> QED
    BY <1>0, <2>2 DEF Endures
<1>4. /\ l \in 1 .. 4 /\ c \in Nat /\ acked.call <= c /\ c # NoCall /\ \A p \in Proc : meta[l][p] = c
  BY <1>1, <1>3 DEF Held, NoCall
<1>5. Survives(l, Gone)
  <2>1. acked.lvl <= l /\ Survives(acked.lvl, Gone)
    BY <1>1, <1>3 DEF Gone
  <2> QED
    BY <1>0, <1>1, <1>4, <2>1, GoneType, SurvivesMore DEF TypeInv
<1>6. \A r \in Rank : pc'[r] \notin Recovering
  <2>1. pc'[Root] \notin Recovering
    BY DEF RecoveryEnds, Recovering
  <2> QED
    BY <1>0, <1>2, <2>1, BootOutcome, RecoveredState DEF Recovering
<1>7. RecoverSync /\ AllAt("recovered") /\ \A r \in Rank : res[r] = 0
  <2>1. CASE BootFresh
    BY <2>1 DEF BootFresh
  <2>2. CASE BootRecover \/ TryLocal \/ TryGlobal \/ CheckGlobal
    BY <1>0, <1>6, <2>2 DEF BootRecover, TryLocal, TryGlobal, CheckGlobal, AllGoto, Check, RecoverEntry, Recovering
  <2>3. ASSUME NextLevel PROVE rlevel = 4
    BY <1>0, <1>6, <2>3 DEF NextLevel, AllGoto, Recovering
  <2>4. ASSUME pc[Root] \in Recovering, rlevel = 4 PROVE l = 4
    BY <1>3, <1>4, <2>4 DEF Proceeds
  <2>5. CASE SkipLevel
    <3>1. pc[Root] = "try" /\ meta[rlevel][0] = NoCall /\ rlevel = 4
      BY <1>0, <2>3, <2>5 DEF SkipLevel, AllAt, MetaMissing
    <3> QED
      BY <1>0, <1>4, <2>4, <3>1 DEF Recovering
  <2>6. CASE RecoverSync /\ ~ \A r \in Rank : res[r] = 0
    <3>1. AllAt("recovered") /\ rlevel = 4 /\ pc[Root] = "recovered"
      BY <1>0, <2>3, <2>6 DEF RecoverSync, AllAt
    <3>2. \A r \in Rank : res[r] = 0
      BY <1>3, <2>4, <3>1 DEF Proceeds, Recovering, AllAt
    <3> QED
      BY <2>6, <3>2
  <2>7. CASE RecoverSync /\ \A r \in Rank : res[r] = 0
    BY <2>7 DEF RecoverSync
  <2> QED
    BY <1>2, <2>1, <2>2, <2>5, <2>6, <2>7
<1>8. acked'.call = meta[rlevel][0] /\ meta[rlevel][0] \in 1 .. Len(calls) /\ pc[Root] = "recovered"
  BY <1>0, <1>7, RecoveredState DEF AllAt
<1>9. rlevel <= l
  BY <1>3, <1>8 DEF Proceeds, Recovering
<1>10. CASE rlevel = l
  BY <1>0, <1>1, <1>4, <1>8, <1>10
<1>11. CASE rlevel < l
  <2>1. meta[rlevel][0] # NoCall /\ meta[l][0] # NoCall /\ meta[l][0] = c
    BY <1>0, <1>4, <1>8 DEF NoCall
  <2>2. meta[rlevel][0] > meta[l][0]
    BY <1>0, <1>1, <1>4, <1>11, <2>1 DEF LevelOrder
  <2> QED
    BY <1>1, <1>4, <1>8, <2>1, <2>2
<1> QED
  BY <1>1, <1>4, <1>9, <1>10, <1>11

\* A restart gets back the last completed checkpoint or a later one, after whatever
\* attempts failed, whatever nodes were lost that its level survives, and whatever
\* crashes cut a recovery short.
THEOREM RestartsDurably ==
  ASSUME NoRace, ~KeepLast
  PROVE  Spec => Durable
<1>1. Init => DurableInv
  BY DurableInit
<1>2. DurableInv /\ [Next]_vars => DurableInv'
  BY DurableStep
<1> DEFINE A == /\ RecoveryEnds
                /\ conf # 0 /\ acked.call # NoCall
                /\ \A t \in torn : t < acked.lvl
                /\ Survives(acked.lvl, hurt \cup open)
                => acked'.call >= acked.call
<1>3. DurableInv /\ [Next]_vars => [A]_vars
  <2>1. DurableInv /\ [Next]_vars => A
    BY EndsDurably
  <2> QED
    BY <2>1
<1>4. Durable <=> [][A]_vars
  BY DEF Durable
<1> HIDE DEF A
<1> QED
  BY <1>1, <1>2, <1>3, <1>4, PTL DEF Spec

=============================================================================

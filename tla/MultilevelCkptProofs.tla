------------------------ MODULE MultilevelCkptProofs ------------------------
(***************************************************************************)
(* Proofs about MultilevelCkpt, for every number of nodes, processes and   *)
(* calls, every set of faults and every crash: type correctness, the order *)
(* of the checkpoints by level and, where only a transfer may fail, the    *)
(* restart flag of the configuration file.                                 *)
(***************************************************************************)
EXTENDS MultilevelCkpt, TLAPS

(* How far apart the collectives let two processes be. *)

Exchanging == {"meta", "post", "posted"}
Committing == {"clean", "rename", "renameGlobal", "renameMeta", "renamed"}
Recovering == {"try", "fixOwn", "fixCopy", "decodeOpen", "decode", "cleanL1", "cleanedL1",
               "fetch", "recovered"}
Behind == {"run", "return", "discard", "restore"}
Finishing == {"flush", "flushed", "rmL4", "mvL4", "rmMeta", "mvMeta", "finConf", "finClean",
              "dropConf", "drop", "finished"}
Ahead == {"write", "wrote"} \cup Finishing

\* All processes are between the same two collectives of the same call ...
Together(S) == \A r \in Rank : pc[r] \in S /\ call[r] = Len(calls)

\* ... or some have entered the next call and the others are still to follow.
Apart == \A r \in Rank : \/ pc[r] \in Behind /\ call[r] + 1 = Len(calls)
                         \/ pc[r] \in Ahead /\ call[r] = Len(calls)

Lockstep ==
  \/ Together(Exchanging) \/ Together(Committing) \/ Together(Recovering) \/ Together(Behind)
  \/ Together({"down"}) \/ Together({"done"})
  \/ Apart

\* Once a level is being checked its metadata is there until the verdict, and
\* FTI_Recover only runs after a verdict.
Checked ==
  /\ \A r \in Rank : pc[r] \in Recovering \ {"try"} => MetaExists(rlevel)
  /\ \A r \in Rank : pc[r] \in {"cleanL1", "cleanedL1"} => rlevel = 4
  /\ \A r \in Rank : pc[r] = "restore" => lvel[r] \in 1 .. 4

TypeInv == ControlOK /\ FilesOK /\ Lockstep /\ Checked

(* Why lower levels are newer. *)

Replaceable == {"rename", "renameGlobal", "renameMeta"}

\* Where the current call of splitRank 0 is not yet among the metadata.
Uncommitted == {"write", "wrote", "discard", "clean"} \cup Exchanging \cup Replaceable

\* A rejected checkpoint is never committed, only splitRank 0 renames metadata,
\* and FTI_Finalize renames it only to keep the last checkpoint.
LevelAt(r) ==
  /\ pc[r] \in {"write", "wrote"} \cup Exchanging => lvel[r] # 0
  /\ pc[r] = "posted" /\ lvel[r] = Rejected => res[r] = 1
  /\ pc[r] \in Committing => lvel[r] \in 1 .. 4
  /\ pc[r] \in {"renameGlobal", "renameMeta"} => r = Root
  /\ pc[r] \in {"flush", "flushed", "rmL4", "mvL4", "rmMeta", "mvMeta"} => KeepLast

\* What is committed next is the checkpoint of the current call, in every group.
Staged ==
  /\ \A p \in Proc : pc[<<0, p>>] \in {"post", "posted"} /\ lvel[<<0, p>>] # Rejected
                       => mtmp[p] = call[<<0, p>>]
  /\ pc[Root] \in {"clean"} \cup Replaceable => \A p \in Proc : mtmp[p] = call[Root]

\* What is committed is older than that, and gone from the levels it replaces.
Newest ==
  \A l \in 1 .. 4, p \in Proc :
    /\ meta[l][p] <= call[Root]
    /\ pc[Root] \in Uncommitted => meta[l][p] < call[Root]
    /\ pc[Root] \in Replaceable /\ l <= lvel[Root] => meta[l][p] = NoCall

OrderInv == (\A r \in Rank : LevelAt(r)) /\ Staged /\ Newest /\ LevelOrder

-----------------------------------------------------------------------------
(***************************************************************************)
(* Types.                                                                  *)
(***************************************************************************)

\* Ranks are pairs of a node and a local number.
LEMMA RankParts ==
  /\ Root \in Rank
  /\ \A r \in Rank : r[1] \in Node /\ r[2] \in Proc
  /\ \A n \in Node, p \in Proc : <<n, p>> \in Rank /\ <<n, p>>[1] = n /\ <<n, p>>[2] = p
  /\ \A p \in Proc : <<0, p>> \in Rank /\ <<0, p>>[1] = 0 /\ <<0, p>>[2] = p
  /\ 0 \in Proc
BY SizesAssumption DEF Root, Rank, Node, Proc

\* Calls are numbered from 1; 0 stands for none.
LEMMA IndexType ==
  ASSUME ControlOK
  PROVE  Len(calls) \in Nat /\ 0 \in Index /\ Len(calls) \in Index /\ Index \subseteq Nat
BY DEF ControlOK, Index

\* No process and no metadata is ahead of the calls.
LEMMA CallNat ==
  ASSUME TypeInv
  PROVE  call[Root] \in Nat /\ \A l \in 1 .. 4, p \in Proc : meta[l][p] \in Nat
<1>1. /\ Index \subseteq Nat /\ Root \in Rank
      /\ call \in [Rank -> Index] /\ meta \in [1 .. 4 -> [Proc -> Index]]
  BY RankParts, IndexType DEF TypeInv, ControlOK
<1> QED
  BY <1>1

\* A function stays typed when one value is replaced.
LEMMA UpdateType ==
  ASSUME NEW S, NEW T, NEW f \in [S -> T], NEW i, NEW x \in T
  PROVE  [f EXCEPT ![i] = x] \in [S -> T]
OBVIOUS

\* Metadata stays typed when a level takes over other metadata, and when
\* keep_last_ckpt moves a level's metadata to L4.
LEMMA MetaReplaced ==
  ASSUME ControlOK
  PROVE  /\ NoMeta \in [Proc -> Index]
         /\ \A l \in 1 .. 4 : [meta EXCEPT ![l] = mtmp] \in [1 .. 4 -> [Proc -> Index]]
         /\ \A l \in 1 .. 3 :
              [meta EXCEPT ![4] = meta[l], ![l] = NoMeta] \in [1 .. 4 -> [Proc -> Index]]
<1>1. NoMeta \in [Proc -> Index]
  BY IndexType DEF NoMeta, NoCall
<1>2. meta \in [1 .. 4 -> [Proc -> Index]] /\ mtmp \in [Proc -> Index]
  BY DEF ControlOK
<1>3. \A l \in 1 .. 4 : [meta EXCEPT ![l] = mtmp] \in [1 .. 4 -> [Proc -> Index]]
  BY <1>2, UpdateType
<1>4. \A l \in 1 .. 3 : meta[l] \in [Proc -> Index]
  BY <1>2
<1>5. \A l \in 1 .. 3 : [meta EXCEPT ![4] = meta[l]] \in [1 .. 4 -> [Proc -> Index]]
  BY <1>2, <1>4, UpdateType
<1>6. \A l \in 1 .. 3 :
        [meta EXCEPT ![4] = meta[l], ![l] = NoMeta] \in [1 .. 4 -> [Proc -> Index]]
  BY <1>1, <1>5, UpdateType
<1> QED
  BY <1>1, <1>3, <1>6

\* The commit keeps both kinds of metadata typed.
LEMMA RenameMetaType ==
  ASSUME ControlOK, NEW r \in Rank, RenameMeta(r)
  PROVE  mtmp' \in [Proc -> Index] /\ meta' \in [1 .. 4 -> [Proc -> Index]]
<1>1. CASE lvel[r] \in 1 .. 4
  BY <1>1, MetaReplaced DEF RenameMeta
<1>2. CASE lvel[r] \notin 1 .. 4
  BY <1>2 DEF RenameMeta, ControlOK
<1> QED
  BY <1>1, <1>2

\* What the return of FTI_Checkpoint makes of a process's memory.
LEMMA ReturnMem ==
  ASSUME NEW m \in [last : Level, id : Nat, cnt : Nat, first : BOOLEAN], NEW v \in Level
  PROVE  [[m EXCEPT !.last = v] EXCEPT !.cnt = m.cnt + 1]
           \in [last : Level, id : Nat, cnt : Nat, first : BOOLEAN]
<1>1. m.cnt + 1 \in Nat
  OBVIOUS
<1> QED
  BY <1>1

\* What is known of one call.
LEMMA CallType ==
  ASSUME ControlOK, NEW c \in 1 .. Len(calls)
  PROVE  calls[c] \in [id : Nat, lvl : 0 .. 4]
<1>1. ASSUME NEW S, NEW s \in Seq(S), NEW i \in 1 .. Len(s) PROVE s[i] \in S
  OBVIOUS
<1> QED
  BY <1>1 DEF ControlOK

\* FTI_Clean leaves the metadata well typed.
LEMMA CleanLevelsType ==
  ASSUME ControlOK, NEW r \in Rank, NEW L, CleanLevels(r, L)
  PROVE  meta' \in [1 .. 4 -> [Proc -> Index]]
BY IndexType DEF ControlOK, CleanLevels, NoMeta, NoCall

\* A process moves to another place of the code.
LEMMA GotoType ==
  ASSUME ControlOK, NEW r \in Rank, NEW l \in Where, Goto(r, l)
  PROVE  pc' \in [Rank -> Where]
BY DEF ControlOK, Goto

\* FTI_Checkpoint and FTI_Finalize are entered with well-typed state.
LEMMA TypeEnter ==
  ASSUME ControlOK, NEW r \in Rank, NEW c \in Nat, NEW id \in Nat, NEW l \in 0 .. 4, 
         Enter(r, c, id, l)
  PROVE  /\ pc' \in [Rank -> Where]
         /\ lvel' \in [Rank -> Level]
         /\ mem' \in [Rank -> [last : Level, id : Nat, cnt : Nat, first : BOOLEAN]]
         /\ UNCHANGED <<conf, mtmp, meta, res, rlevel, crashes, faults, acked>>
         /\ call' = [call EXCEPT ![r] = c]
<1>1. FinalizeEntry(r) \in Where
  BY DEF FinalizeEntry, Where
<1>2. pc' \in [Rank -> Where]
  BY <1>1, GotoType DEF Enter, Where
<1>3. lvel' \in [Rank -> Level]
  <2>1. lvel' = lvel \/ lvel' = [lvel EXCEPT ![r] = l]
    BY DEF Enter
  <2>2. l \in Level /\ lvel \in [Rank -> Level]
    BY DEF Level, ControlOK
  <2> QED
    BY <2>1, <2>2, UpdateType
<1>4. mem' \in [Rank -> [last : Level, id : Nat, cnt : Nat, first : BOOLEAN]]
  <2>1. mem[r] \in [last : Level, id : Nat, cnt : Nat, first : BOOLEAN]
    BY DEF ControlOK
  <2> DEFINE fst == (mem[r].id = 0)
  <2>2. fst \in BOOLEAN /\ (l # Finalize => mem' = [mem EXCEPT ![r].first = fst, ![r].id = id])
    BY DEF Enter
  <2>3. l = Finalize => mem' = mem
    BY DEF Enter
  <2> HIDE DEF fst
  <2>4. [[mem[r] EXCEPT !.first = fst] EXCEPT !.id = id]
          \in [last : Level, id : Nat, cnt : Nat, first : BOOLEAN]
    BY <2>1, <2>2
  <2> QED
    BY <2>2, <2>3, <2>4 DEF ControlOK
<1> QED
  BY <1>2, <1>3, <1>4 DEF Enter, recov, history

\* Well-typed state stays so when the application makes a call.
LEMMA TypeApp ==
  ASSUME ControlOK, NEW r \in Rank, AppStep(r)
  PROVE  ControlOK'
<1>1. CASE Follow(r)
  <2> DEFINE c == call[r] + 1
  <2>1. c \in 1 .. Len(calls) /\ c \in Nat
    BY <1>1, IndexType DEF Follow, ControlOK, Index
  <2>2. Enter(r, c, calls[c].id, calls[c].lvl) /\ calls' = calls
    BY <1>1 DEF Follow
  <2> HIDE DEF c
  <2>3. calls[c] \in [id : Nat, lvl : 0 .. 4]
    BY <2>1, CallType
  <2>4. calls[c].id \in Nat /\ calls[c].lvl \in 0 .. 4
    BY <2>3
  <2>5. /\ pc' \in [Rank -> Where]
        /\ lvel' \in [Rank -> Level]
        /\ mem' \in [Rank -> [last : Level, id : Nat, cnt : Nat, first : BOOLEAN]]
        /\ UNCHANGED <<conf, mtmp, meta, res, rlevel, crashes, faults, acked>>
        /\ call' = [call EXCEPT ![r] = c]
    BY <2>1, <2>2, <2>4, TypeEnter
  <2>6. Index' = Index /\ c \in Index
    BY <2>1, <2>2 DEF Index
  <2> QED
    BY <2>2, <2>5, <2>6 DEF ControlOK
<1>2. ASSUME NEW l \in CallLevels \cup {Finalize}, Issue(r, l) PROVE ControlOK'
  <2>1. l \in 0 .. 4 /\ mem[r].cnt \in Nat
    BY LevelsAssumption DEF ControlOK, Finalize
  <2>2. /\ calls' = Append(calls, [id |-> mem[r].cnt, lvl |-> l])
        /\ Enter(r, Len(calls) + 1, mem[r].cnt, l)
    BY <1>2 DEF Issue
  <2>3. /\ calls' \in Seq([id : Nat, lvl : 0 .. 4])
        /\ Len(calls') = Len(calls) + 1
    BY <2>1, <2>2 DEF ControlOK
  <2>4. Len(calls) + 1 \in Nat
    BY IndexType
  <2>5. /\ pc' \in [Rank -> Where]
        /\ lvel' \in [Rank -> Level]
        /\ mem' \in [Rank -> [last : Level, id : Nat, cnt : Nat, first : BOOLEAN]]
        /\ UNCHANGED <<conf, mtmp, meta, res, rlevel, crashes, faults, acked>>
        /\ call' = [call EXCEPT ![r] = Len(calls) + 1]
    BY <2>1, <2>2, <2>4, TypeEnter
  <2>6. Index \subseteq Index' /\ Len(calls) + 1 \in Index'
    BY <2>3, IndexType DEF Index
  <2>7. call' \in [Rank -> Index'] /\ acked' \in [call : Index', lvl : Level]
    BY <2>5, <2>6 DEF ControlOK
  <2>8. mtmp' \in [Proc -> Index'] /\ meta' \in [1 .. 4 -> [Proc -> Index']]
    BY <2>5, <2>6 DEF ControlOK
  <2> QED
    BY <2>3, <2>5, <2>7, <2>8 DEF ControlOK
<1> QED
  BY <1>1, <1>2 DEF AppStep

\* Well-typed state stays so within FTI_Checkpoint.
LEMMA TypeCkpt ==
  ASSUME ControlOK, NEW r \in Rank, CkptStep(r)
  PROVE  ControlOK'
<1> USE RankParts, IndexType DEF ControlOK, Goto, Where
<1>1. ASSUME NEW bad \in BOOLEAN, Write(r, bad) PROVE ControlOK'
  <2>1. faults' \in Nat
    BY <1>1 DEF Write, Count
  <2> QED
    BY <1>1, <2>1 DEF Write, Index, recov, history
<1>2. ASSUME NEW bad \in BOOLEAN, CreateMetadata(r, bad) PROVE ControlOK'
  <2>1. faults' \in Nat
    BY <1>2 DEF CreateMetadata, Count
  <2>2. mtmp' \in [Proc -> Index]
    BY <1>2 DEF CreateMetadata, NoCall
  <2>3. lvel' \in [Rank -> Level]
    BY <1>2 DEF CreateMetadata, Level, Rejected
  <2> QED
    BY <1>2, <2>1, <2>2, <2>3 DEF CreateMetadata, Index, disk, recov, history
<1>3. ASSUME NEW v \in {0, 1}, PostLocal(r, v) PROVE ControlOK'
  BY <1>3 DEF PostLocal, Index, disk, recov, history
<1>4. ASSUME Discard(r) PROVE ControlOK'
  <2>1. mtmp' \in [Proc -> Index]
    BY <1>4 DEF Discard, NoMeta, NoCall
  <2> QED
    BY <1>4, <2>1 DEF Discard, Index, local, recov, history
<1>5. ASSUME Clean(r) PROVE ControlOK'
  <2>1. meta' \in [1 .. 4 -> [Proc -> Index]]
    BY <1>5, CleanLevelsType DEF Clean
  <2> QED
    BY <1>5, <2>1 DEF Clean, Index, local, recov, history
<1>6. ASSUME Rename(r) PROVE ControlOK'
  BY <1>6 DEF Rename, Index, local, recov, history
<1>7. ASSUME RenameGlobal(r) PROVE ControlOK'
  BY <1>7 DEF RenameGlobal, Index, local, recov, history
<1>8. ASSUME RenameMeta(r) PROVE ControlOK'
  <2>1. mtmp' \in [Proc -> Index] /\ meta' \in [1 .. 4 -> [Proc -> Index]]
    BY <1>8, RenameMetaType
  <2> QED
    BY <1>8, <2>1 DEF RenameMeta, Index, disk, local, recov, history
<1>9. ASSUME Return(r) PROVE ControlOK'
  <2>1. mem' \in [Rank -> [last : Level, id : Nat, cnt : Nat, first : BOOLEAN]]
    <3>1. mem[r] \in [last : Level, id : Nat, cnt : Nat, first : BOOLEAN] /\ lvel[r] \in Level
      OBVIOUS
    <3>2. [[mem[r] EXCEPT !.last = lvel[r]] EXCEPT !.cnt = mem[r].cnt + 1]
            \in [last : Level, id : Nat, cnt : Nat, first : BOOLEAN]
      BY <3>1, ReturnMem
    <3>3. mem' = [mem EXCEPT ![r] = [[mem[r] EXCEPT !.last = lvel[r]] EXCEPT !.cnt = mem[r].cnt + 1]]
      BY <1>9 DEF Return
    <3> QED
      BY <3>2, <3>3, UpdateType
  <2>2. acked' \in [call : Index, lvl : Level]
    BY <1>9 DEF Return, history
  <2> QED
    BY <1>9, <2>1, <2>2 DEF Return, Index, disk, recov
<1> QED
  BY <1>1, <1>2, <1>3, <1>4, <1>5, <1>6, <1>7, <1>8, <1>9 DEF CkptStep

\* Well-typed state stays so within FTI_Finalize.
LEMMA TypeFin ==
  ASSUME ControlOK, NEW r \in Rank, FinStep(r)
  PROVE  ControlOK'
<1> USE RankParts, IndexType DEF ControlOK, Goto, Where
<1>1. ASSUME NEW bad \in BOOLEAN, Flush(r, bad) PROVE ControlOK'
  <2>1. faults' \in Nat
    BY <1>1 DEF Flush, Count
  <2> QED
    BY <1>1, <2>1 DEF Flush, Index, local, recov, history
<1>2. ASSUME FinRemoveL4(r) PROVE ControlOK'
  BY <1>2 DEF FinRemoveL4, Index, local, recov, history
<1>3. ASSUME FinRenameL4(r) PROVE ControlOK'
  BY <1>3 DEF FinRenameL4, Index, local, recov, history
<1>4. ASSUME FinRemoveMeta(r) PROVE ControlOK'
  <2>1. meta' \in [1 .. 4 -> [Proc -> Index]]
    BY <1>4 DEF FinRemoveMeta, NoMeta, NoCall
  <2> QED
    BY <1>4, <2>1 DEF FinRemoveMeta, Index, disk, local, recov, history
<1>5. ASSUME FinRenameMeta(r) PROVE ControlOK'
  <2>1. meta' \in [1 .. 4 -> [Proc -> Index]]
    BY <1>5, MetaReplaced DEF FinRenameMeta
  <2> QED
    BY <1>5, <2>1 DEF FinRenameMeta, Index, disk, local, recov, history
<1>6. ASSUME FinUpdateConf(r) PROVE ControlOK'
  BY <1>6 DEF FinUpdateConf, Index, disk, local, recov, history
<1>7. ASSUME FinClean(r) PROVE ControlOK'
  <2>1. meta' \in [1 .. 4 -> [Proc -> Index]]
    BY <1>7, CleanLevelsType DEF FinClean
  <2> QED
    BY <1>7, <2>1 DEF FinClean, Index, local, recov, history
<1>8. ASSUME DropConf(r) PROVE ControlOK'
  <2>1. acked' \in [call : Index, lvl : Level]
    BY <1>8 DEF DropConf, NoCall, Level
  <2> QED
    BY <1>8, <2>1 DEF DropConf, Index, disk, local, recov
<1>9. ASSUME Drop(r) PROVE ControlOK'
  <2>1. meta' \in [1 .. 4 -> [Proc -> Index]]
    BY <1>9, CleanLevelsType DEF Drop
  <2> QED
    BY <1>9, <2>1 DEF Drop, Index, local, recov, history
<1> QED
  BY <1>1, <1>2, <1>3, <1>4, <1>5, <1>6, <1>7, <1>8, <1>9 DEF FinStep

\* Well-typed state stays so while a process recovers.
LEMMA TypeRecover ==
  ASSUME ControlOK, NEW r \in Rank, RecoverStep(r)
  PROVE  ControlOK'
<1> USE RankParts, IndexType DEF ControlOK, Goto, Where
<1>1. ASSUME CleanL1(r) PROVE ControlOK'
  <2>1. meta' \in [1 .. 4 -> [Proc -> Index]]
    BY <1>1, CleanLevelsType DEF CleanL1
  <2> QED
    BY <1>1, <2>1 DEF CleanL1, Index, local, recov, history
<1>2. ASSUME FixOwn(r) PROVE ControlOK'
  BY <1>2 DEF FixOwn, Index, local, recov, history
<1>3. ASSUME FixCopy(r) PROVE ControlOK'
  BY <1>3 DEF FixCopy, Index, local, recov, history
<1>4. ASSUME DecodeOpen(r) PROVE ControlOK'
  BY <1>4 DEF DecodeOpen, Index, local, recov, history
<1>5. ASSUME Decode(r) PROVE ControlOK'
  BY <1>5 DEF Decode, Index, local, recov, history
<1>6. ASSUME Fetch(r) PROVE ControlOK'
  BY <1>6 DEF Fetch, Index, local, recov, history
<1>7. ASSUME Recover(r) PROVE ControlOK'
  BY <1>7 DEF Recover, Index, disk, recov, history
<1> QED
  BY <1>1, <1>2, <1>3, <1>4, <1>5, <1>6, <1>7 DEF RecoverStep

\* A checkpoint moved to another level.
LEMMA MovedType ==
  ASSUME NEW I, NEW L, NEW l \in L, NEW a \in [call : I, lvl : L]
  PROVE  [a EXCEPT !.lvl = l] \in [call : I, lvl : L]
OBVIOUS

\* Well-typed state stays so in the collectives of FTI_Checkpoint and FTI_Finalize.
LEMMA TypeCollective ==
  ASSUME ControlOK,
         \/ WriteSync \/ PostSync \/ RenameSync \/ FlushSync \/ FinSync
         \/ \E p \in Proc, l \in {2, 3}, bad \in SUBSET Node : Exchange(p, l, bad)
  PROVE  ControlOK'
<1>0. [acked EXCEPT !.lvl = 4] \in [call : Index, lvl : Level]
  <2>1. acked \in [call : Index, lvl : Level] /\ 4 \in Level
    BY DEF ControlOK, Level
  <2> QED
    BY <2>1, MovedType
<1> USE RankParts, IndexType DEF ControlOK, AllGoto, Where
<1>1. ASSUME WriteSync PROVE ControlOK'
  <2>1. pc' \in [Rank -> Where]
    BY <1>1 DEF WriteSync
  <2>2. lvel' \in [Rank -> Level]
    BY <1>1 DEF WriteSync, Level
  <2> QED
    BY <1>1, <2>1, <2>2 DEF WriteSync, Index, disk, recov, history
<1>2. ASSUME PostSync PROVE ControlOK'
  BY <1>2 DEF PostSync, Index, disk, local, recov, history
<1>3. ASSUME RenameSync PROVE ControlOK'
  BY <1>3 DEF RenameSync, Index, disk, local, recov, history
<1>4. ASSUME FlushSync PROVE ControlOK'
  BY <1>4 DEF FlushSync, Index, disk, local, recov, history
<1>5. ASSUME FinSync PROVE ControlOK'
  <2>1. acked' \in [call : Index, lvl : Level]
    <3>1. acked' = acked \/ acked' = [acked EXCEPT !.lvl = 4]
      BY <1>5 DEF FinSync
    <3> QED
      BY <1>0, <3>1
  <2> QED
    BY <1>5, <2>1 DEF FinSync, Index, disk, local, recov
<1>6. ASSUME NEW p \in Proc, NEW l \in {2, 3}, NEW bad \in SUBSET Node, Exchange(p, l, bad)
      PROVE  ControlOK'
  <2>1. faults' \in Nat
    BY <1>6 DEF Exchange, Count
  <2>2. pc' \in [Rank -> Where]
    BY <1>6 DEF Exchange
  <2>3. res' \in [Rank -> {0, 1}]
    BY <1>6 DEF Exchange
  <2> QED
    BY <1>6, <2>1, <2>2, <2>3 DEF Exchange, Index, recov, history
<1> HIDE DEF ControlOK, AllGoto, Where
<1> QED
  BY <1>1, <1>2, <1>3, <1>4, <1>5, <1>6

\* Well-typed state stays so when FTI_RecoverFiles turns to the next level.
LEMMA TypeNextLevel ==
  ASSUME ControlOK, NextLevel
  PROVE  /\ pc' \in [Rank -> Where]
         /\ lvel' \in [Rank -> Level]
         /\ rlevel' \in 1 .. 4
         /\ acked' \in [call : Index, lvl : Level]
         /\ UNCHANGED <<call, mem, loaded>>
<1> USE IndexType DEF ControlOK
<1>1. pc' \in [Rank -> Where]
  BY DEF NextLevel, NotRecovered, AllGoto, Where
<1>2. lvel' \in [Rank -> Level] /\ acked' \in [call : Index, lvl : Level]
  BY DEF NextLevel, NotRecovered, history, Level, NoCall
<1>3. rlevel' \in 1 .. 4
  BY DEF NextLevel, NotRecovered
<1> QED
  BY <1>1, <1>2, <1>3 DEF NextLevel

\* Where a process goes after FTI_CheckErasures.
LEMMA TypeCheck ==
  ASSUME ControlOK, NEW l, Check(l)
  PROVE  pc' \in [Rank -> Where] /\ res' \in [Rank -> {0, 1}]
BY DEF Check, RecoverEntry, Where

\* The metadata in use during recovery is there, so it names a call.
LEMMA MetaNamesCall ==
  ASSUME ControlOK, NEW l \in 1 .. 4, MetaExists(l), NEW p \in Proc
  PROVE  meta[l][p] \in 1 .. Len(calls) /\ calls[meta[l][p]].id \in Nat
<1>1. meta[l][p] \in 1 .. Len(calls)
  BY IndexType DEF ControlOK, MetaExists, Index, NoCall
<1>2. calls[meta[l][p]] \in [id : Nat, lvl : 0 .. 4]
  BY <1>1, CallType
<1> QED
  BY <1>1, <1>2

\* Well-typed state stays so in the collectives of FTI_Init.
LEMMA TypeBoot ==
  ASSUME ControlOK, Checked,
         BootFresh \/ BootRecover \/ SkipLevel \/ TryLocal \/ TryGlobal \/ CheckGlobal \/ RecoverSync
  PROVE  ControlOK'
<1> USE RankParts, IndexType
<1>1. ASSUME BootFresh PROVE ControlOK'
  <2>1. NoMeta \in [Proc -> Index]
    BY DEF NoMeta, NoCall
  <2>2. mtmp' \in [Proc -> Index] /\ meta' \in [1 .. 4 -> [Proc -> Index]]
    BY <1>1, <2>1 DEF BootFresh
  <2>3. pc' \in [Rank -> Where] /\ acked' \in [call : Index, lvl : Level]
    BY <1>1 DEF BootFresh, AllGoto, Where, NoCall, Level
  <2> QED
    BY <1>1, <2>2, <2>3 DEF ControlOK, BootFresh, Index, local, recov
<1>2. ASSUME BootRecover PROVE ControlOK'
  BY <1>2 DEF ControlOK, BootRecover, AllGoto, Where, Index, disk, local, recov, history
<1>3. ASSUME SkipLevel PROVE ControlOK'
  <2>1. NextLevel /\ UNCHANGED <<calls, conf, disk, mtmp, meta, res, crashes, faults>>
    BY <1>3 DEF SkipLevel
  <2> QED
    BY <2>1, TypeNextLevel DEF ControlOK, Index
<1>4. ASSUME TryLocal PROVE ControlOK'
  <2>1. pc' \in [Rank -> Where] /\ res' \in [Rank -> {0, 1}]
    BY <1>4, TypeCheck DEF TryLocal
  <2> QED
    BY <1>4, <2>1 DEF ControlOK, TryLocal, Index, history
<1>5. ASSUME TryGlobal PROVE ControlOK'
  BY <1>5 DEF ControlOK, TryGlobal, AllGoto, Where, Index, disk, local, recov, history
<1>6. ASSUME CheckGlobal PROVE ControlOK'
  <2>1. pc' \in [Rank -> Where] /\ res' \in [Rank -> {0, 1}]
    BY <1>6, TypeCheck DEF CheckGlobal
  <2> QED
    BY <1>6, <2>1 DEF ControlOK, CheckGlobal, Index, history
<1>7. ASSUME RecoverSync PROVE ControlOK'
  <2>1. UNCHANGED <<calls, conf, disk, mtmp, meta, res, crashes, faults>>
    BY <1>7 DEF RecoverSync
  <2>2. CASE \E r \in Rank : res[r] # 0
    <3>1. NextLevel
      BY <1>7, <2>2 DEF RecoverSync
    <3> QED
      BY <2>1, <3>1, TypeNextLevel DEF ControlOK, Index
  <2>3. CASE ~ \E r \in Rank : res[r] # 0
    <3> DEFINE Id(r) == calls[meta[rlevel][r[2]]].id
    <3>1. MetaExists(rlevel) /\ rlevel \in 1 .. 4
      BY <1>7 DEF RecoverSync, Checked, AllAt, Recovering, ControlOK
    <3>2. \A r \in Rank : Id(r) \in Nat
      BY <3>1, MetaNamesCall
    <3>3. meta[rlevel][0] \in Index
      <4>1. meta[rlevel] \in [Proc -> Index]
        BY <3>1 DEF ControlOK
      <4> QED
        BY <4>1
    <3>4. /\ pc' \in [Rank -> Where]
          /\ lvel' = [r \in Rank |-> rlevel]
          /\ mem' = [r \in Rank |-> [last |-> rlevel, id |-> Id(r), cnt |-> Id(r) + 1,
                                     first |-> FALSE]]
          /\ acked' = [call |-> meta[rlevel][0], lvl |-> rlevel]
          /\ UNCHANGED <<call, rlevel>>
      BY <1>7, <2>3 DEF RecoverSync, AllGoto, Where, recov
    <3> HIDE DEF Id
    <3>5. lvel' \in [Rank -> Level] /\ acked' \in [call : Index, lvl : Level]
      BY <3>1, <3>3, <3>4 DEF Level
    <3>6. mem' \in [Rank -> [last : Level, id : Nat, cnt : Nat, first : BOOLEAN]]
      BY <3>1, <3>2, <3>4 DEF Level
    <3> QED
      BY <2>1, <3>4, <3>5, <3>6 DEF ControlOK, Index
  <2> QED
    BY <2>2, <2>3
<1> QED
  BY <1>1, <1>2, <1>3, <1>4, <1>5, <1>6, <1>7

\* Well-typed state stays so when the job crashes or is launched again.
LEMMA TypeEnvironment ==
  ASSUME ControlOK, Environment
  PROVE  ControlOK'
<1>1. ASSUME Reset PROVE /\ pc' \in [Rank -> Where]
                         /\ call' \in [Rank -> Index]
                         /\ res' \in [Rank -> {0, 1}]
                         /\ lvel' \in [Rank -> Level]
                         /\ rlevel' \in 1 .. 4
                         /\ crashes' \in Nat
  BY <1>1, IndexType DEF Reset, ControlOK, Where, Level
<1>2. ASSUME Reset PROVE mem' \in [Rank -> [last : Level, id : Nat, cnt : Nat, first : BOOLEAN]]
  BY <1>2 DEF Reset, Level
<1>3. ASSUME Relaunch PROVE ControlOK'
  BY <1>1, <1>2, <1>3 DEF ControlOK, Relaunch, Index, history
<1>4. ASSUME NEW F \in SUBSET Node, Crash(F) PROVE ControlOK'
  BY <1>1, <1>2, <1>4 DEF ControlOK, Crash, Index
<1> QED
  BY <1>3, <1>4 DEF Environment

\* Well-typed state stays so.
LEMMA TypeControl ==
  ASSUME ControlOK, Checked, [Next]_vars
  PROVE  ControlOK'
<1>1. ASSUME UNCHANGED vars PROVE ControlOK'
  BY <1>1 DEF ControlOK, Index, vars, disk, local, recov, history
<1> QED
  BY <1>1, TypeApp, TypeCkpt, TypeFin, TypeRecover, TypeCollective, TypeBoot, TypeEnvironment
  DEF Next, Sync, Ended

\* The names and contents FTI gives to files.
LEMMA FileType ==
  ASSUME ControlOK
  PROVE  /\ \A k \in {"Rank", "Pcof", "RSed"}, r \in Rank, c \in Nat : Holding(k, r, c) \in File
         /\ \A k \in {"Rank", "Pcof", "RSed"}, r \in Rank, l \in 1 .. 4 : Expected(k, r, l) \in File
<1>1. \A k \in {"Rank", "Pcof", "RSed"}, r \in Rank, c \in Nat : Holding(k, r, c) \in File
  BY DEF Holding, File
<1>2. \A p \in Proc, l \in 1 .. 4 : meta[l][p] \in Nat
  BY IndexType DEF ControlOK
<1> QED
  BY <1>1, <1>2, RankParts DEF Expected

\* Writing and reading files.
LEMMA StoreType ==
  ASSUME NEW S \in SUBSET File
  PROVE  /\ \A f \in File : Put(S, f) \in SUBSET File
         /\ \A f : Without(S, f) \in SUBSET File
         /\ \A k, r, id : Content(S, k, r, id) \in Nat \cup {Lost}
<1>1. \A f : Without(S, f) \in SUBSET File
  BY DEF Without
<1>2. \A f \in File : Put(S, f) \in SUBSET File
  BY <1>1 DEF Put
<1>3. ASSUME NEW k, NEW r, NEW id PROVE Content(S, k, r, id) \in Nat \cup {Lost}
  <2> DEFINE found == {f \in S : f.kind = k /\ f.rank = r /\ calls[f.call].id = id}
  <2>1. CASE found = {}
    BY <2>1 DEF Content
  <2>2. CASE found # {}
    <3>1. (CHOOSE f \in found : TRUE) \in found
      BY <2>2
    <3>2. (CHOOSE f \in found : TRUE) \in File
      BY <3>1
    <3>3. (CHOOSE f \in found : TRUE).call \in Nat
      BY <3>2 DEF File
    <3> QED
      BY <2>2, <3>3 DEF Content
  <2> QED
    BY <2>1, <2>2
<1> QED
  BY <1>1, <1>2, <1>3

\* FTI_Clean removes files, it makes none.
LEMMA CleanLevelsFiles ==
  ASSUME FilesOK, NEW r \in Rank, NEW L, CleanLevels(r, L)
  PROVE  dir' \in [1 .. 3 -> [Node -> SUBSET File]] /\ gdir' \in SUBSET File
BY DEF FilesOK, CleanLevels

\* FTI_CheckErasures reports files.
LEMMA ErasuresType ==
  ASSUME ControlOK, NEW p \in Proc, NEW l \in 1 .. 4
  PROVE  Erasures(p, l) \in SUBSET File
<1>1. Group(p) \subseteq Rank
  BY DEF Group, Rank
<1>2. \A r \in Group(p) : /\ Expected("Rank", r, l) \in File
                          /\ Expected("Pcof", r, l) \in File
                          /\ Expected("RSed", r, l) \in File
  BY <1>1, FileType
<1> QED
  BY <1>2 DEF Erasures

\* Files stay files within FTI_Checkpoint.
LEMMA FilesCkpt ==
  ASSUME ControlOK, FilesOK, NEW r \in Rank, CkptStep(r)
  PROVE  FilesOK'
<1>1. ASSUME NEW bad \in BOOLEAN, Write(r, bad) PROVE FilesOK'
  <2> DEFINE f == Holding("Rank", r, call[r])
  <2>1. f \in File
    BY FileType, IndexType DEF ControlOK
  <2> HIDE DEF f
  <2>2. \A S \in SUBSET File : (IF bad THEN Without(S, f) ELSE Put(S, f)) \in SUBSET File
    BY <2>1, StoreType
  <2>3. gtmp' \in SUBSET File /\ tmp' \in [Node -> SUBSET File]
    BY <1>1, <2>2, RankParts DEF Write, FilesOK, f
  <2> QED
    BY <1>1, <2>3 DEF Write, FilesOK, recov, history
<1>2. ASSUME NEW bad \in BOOLEAN, CreateMetadata(r, bad) PROVE FilesOK'
  BY <1>2 DEF CreateMetadata, FilesOK, disk, recov, history
<1>3. ASSUME NEW v \in {0, 1}, PostLocal(r, v) PROVE FilesOK'
  BY <1>3 DEF PostLocal, FilesOK, disk, recov, history
<1>4. ASSUME Discard(r) PROVE FilesOK'
  BY <1>4 DEF Discard, FilesOK, local, recov, history
<1>5. ASSUME Clean(r) PROVE FilesOK'
  BY <1>5, CleanLevelsFiles DEF Clean, FilesOK, local, recov, history
<1>6. ASSUME Rename(r) PROVE FilesOK'
  <2>1. tmp' \in [Node -> SUBSET File]
    BY <1>6 DEF Rename, FilesOK
  <2>2. ASSUME NEW l \in 1 .. 3, NEW n \in Node
        PROVE  [dir EXCEPT ![l][n] = tmp[n]] \in [1 .. 3 -> [Node -> SUBSET File]]
    BY DEF FilesOK
  <2>3. dir' \in [1 .. 3 -> [Node -> SUBSET File]]
    BY <1>6, <2>2, RankParts DEF Rename, FilesOK
  <2> QED
    BY <1>6, <2>1, <2>3 DEF Rename, FilesOK, local, recov, history
<1>7. ASSUME RenameGlobal(r) PROVE FilesOK'
  BY <1>7 DEF RenameGlobal, FilesOK, local, recov, history
<1>8. ASSUME RenameMeta(r) PROVE FilesOK'
  BY <1>8 DEF RenameMeta, FilesOK, disk, local, recov, history
<1>9. ASSUME Return(r) PROVE FilesOK'
  BY <1>9 DEF Return, FilesOK, disk, recov, history
<1> QED
  BY <1>1, <1>2, <1>3, <1>4, <1>5, <1>6, <1>7, <1>8, <1>9 DEF CkptStep

\* Files stay files within FTI_Finalize.
LEMMA FilesFin ==
  ASSUME ControlOK, FilesOK, NEW r \in Rank, FinStep(r)
  PROVE  FilesOK'
<1>1. ASSUME NEW bad \in BOOLEAN, Flush(r, bad) PROVE FilesOK'
  <2>1. \A l \in 1 .. 3 : Holding("Rank", r, meta[l][r[2]]) \in File
    BY FileType DEF Expected
  <2>2. gtmp' \in SUBSET File
    BY <1>1, <2>1, StoreType DEF Flush, FilesOK
  <2> QED
    BY <1>1, <2>2 DEF Flush, FilesOK, local, recov, history
<1>2. ASSUME FinRemoveL4(r) PROVE FilesOK'
  BY <1>2 DEF FinRemoveL4, FilesOK, local, recov, history
<1>3. ASSUME FinRenameL4(r) PROVE FilesOK'
  BY <1>3 DEF FinRenameL4, FilesOK, local, recov, history
<1>4. ASSUME FinRemoveMeta(r) PROVE FilesOK'
  BY <1>4 DEF FinRemoveMeta, FilesOK, disk, local, recov, history
<1>5. ASSUME FinRenameMeta(r) PROVE FilesOK'
  BY <1>5 DEF FinRenameMeta, FilesOK, disk, local, recov, history
<1>6. ASSUME FinUpdateConf(r) PROVE FilesOK'
  BY <1>6 DEF FinUpdateConf, FilesOK, disk, local, recov, history
<1>7. ASSUME FinClean(r) PROVE FilesOK'
  BY <1>7, CleanLevelsFiles DEF FinClean, FilesOK, local, recov, history
<1>8. ASSUME DropConf(r) PROVE FilesOK'
  BY <1>8 DEF DropConf, FilesOK, disk, local, recov
<1>9. ASSUME Drop(r) PROVE FilesOK'
  BY <1>9, CleanLevelsFiles DEF Drop, FilesOK, local, recov, history
<1> QED
  BY <1>1, <1>2, <1>3, <1>4, <1>5, <1>6, <1>7, <1>8, <1>9 DEF FinStep

\* A process changes its directory of one level.
LEMMA DirType ==
  ASSUME FilesOK, NEW l \in 1 .. 3, NEW n \in Node, NEW S \in SUBSET File
  PROVE  [dir EXCEPT ![l][n] = S] \in [1 .. 3 -> [Node -> SUBSET File]]
BY DEF FilesOK

\* Neighbours are nodes.
LEMMA RingType == \A n \in Node : Left(n) \in Node /\ Right(n) \in Node
BY SizesAssumption DEF Node, Left, Right

\* Files stay files while a process recovers.
LEMMA FilesRecover ==
  ASSUME ControlOK, FilesOK, Checked, NEW r \in Rank, RecoverStep(r)
  PROVE  FilesOK'
<1> DEFINE n == r[1]
           Set(l, S) == [dir EXCEPT ![l][n] = S]
<1>1. n \in Node /\ Left(n) \in Node /\ Right(n) \in Node
  BY RankParts, RingType
<1>2. \A l \in 1 .. 3, m \in Node : dir[l][m] \in SUBSET File
  BY DEF FilesOK
<1>3. \A l \in 1 .. 3, S \in SUBSET File : Set(l, S) \in [1 .. 3 -> [Node -> SUBSET File]]
  BY <1>1, DirType
<1>4. ASSUME NEW S \in SUBSET File, NEW k, NEW i, NEW id, Content(S, k, i, id) # Lost
      PROVE  Content(S, k, i, id) \in Nat
  BY <1>4, StoreType
<1>5. ASSUME CleanL1(r) PROVE FilesOK'
  BY <1>5, CleanLevelsFiles DEF CleanL1, FilesOK, local, recov, history
<1>6. ASSUME FixOwn(r) PROVE FilesOK'
  <2> DEFINE copy == Content(dir[2][Right(n)], "Pcof", <<Right(n), r[2]>>, calls[meta[2][r[2]]].id)
             S == Put(dir[2][n], Holding("Rank", r, copy))
  <2>1. copy # Lost /\ dir' = Set(2, S)
    BY <1>6 DEF FixOwn, FilesOK
  <2>2. dir[2][Right(n)] \in SUBSET File /\ dir[2][n] \in SUBSET File
    BY <1>1, <1>2
  <2>3. copy \in Nat
    BY <1>4, <2>1, <2>2
  <2> HIDE DEF copy
  <2>4. Holding("Rank", r, copy) \in File
    BY <2>3, FileType
  <2>5. S \in SUBSET File
    BY <2>2, <2>4, StoreType
  <2>6. dir' \in [1 .. 3 -> [Node -> SUBSET File]]
    <3> HIDE DEF S, Set
    <3> QED BY <1>3, <2>1, <2>5
  <2> QED
    BY <1>6, <2>6 DEF FixOwn, FilesOK, local, recov, history
<1>7. ASSUME FixCopy(r) PROVE FilesOK'
  <2> DEFINE orig == Content(dir[2][Left(n)], "Rank", <<Left(n), r[2]>>, calls[meta[2][r[2]]].id)
             S == Put(dir[2][n], Holding("Pcof", r, orig))
  <2>1. orig # Lost /\ (dir' = Set(2, S) \/ dir' = dir)
    BY <1>7 DEF FixCopy, FilesOK
  <2>2. dir[2][Left(n)] \in SUBSET File /\ dir[2][n] \in SUBSET File
    BY <1>1, <1>2
  <2>3. orig \in Nat
    BY <1>4, <2>1, <2>2
  <2> HIDE DEF orig
  <2>4. Holding("Pcof", r, orig) \in File
    BY <2>3, FileType
  <2>5. S \in SUBSET File
    BY <2>2, <2>4, StoreType
  <2>6. dir' \in [1 .. 3 -> [Node -> SUBSET File]]
    <3> HIDE DEF S, Set
    <3> QED BY <1>3, <2>1, <2>5 DEF FilesOK
  <2> QED
    BY <1>7, <2>6 DEF FixCopy, FilesOK, local, recov, history
<1>8. ASSUME DecodeOpen(r) PROVE FilesOK'
  <2> DEFINE S == Without(dir[3][n], Expected("Rank", r, 3))
  <2>1. dir' = Set(3, S) \/ dir' = dir
    BY <1>8 DEF DecodeOpen, FilesOK
  <2>2. dir[3][n] \in SUBSET File
    BY <1>1, <1>2
  <2>3. S \in SUBSET File
    BY <2>2, StoreType
  <2>4. dir' \in [1 .. 3 -> [Node -> SUBSET File]]
    <3> HIDE DEF S, Set
    <3> QED BY <1>3, <2>1, <2>3 DEF FilesOK
  <2> QED
    BY <1>8, <2>4 DEF DecodeOpen, FilesOK, local, recov, history
<1>9. ASSUME Decode(r) PROVE FilesOK'
  <2> DEFINE R == Put(dir[3][n], Expected("Rank", r, 3))
             S == Put(R, Expected("RSed", r, 3))
  <2>1. dir' = Set(3, S)
    BY <1>9 DEF Decode, FilesOK
  <2>2. dir[3][n] \in SUBSET File
    BY <1>1, <1>2
  <2>3. Expected("Rank", r, 3) \in File /\ Expected("RSed", r, 3) \in File
    BY FileType
  <2>4. R \in SUBSET File
    BY <2>2, <2>3, StoreType
  <2> HIDE DEF R
  <2>5. S \in SUBSET File
    BY <2>3, <2>4, StoreType
  <2>6. dir' \in [1 .. 3 -> [Node -> SUBSET File]]
    <3> HIDE DEF S, Set
    <3> QED BY <1>3, <2>1, <2>5
  <2> QED
    BY <1>9, <2>6 DEF Decode, FilesOK, local, recov, history
<1>10. ASSUME Fetch(r) PROVE FilesOK'
  <2> DEFINE S == Put(dir[1][n], Expected("Rank", r, 4))
  <2>1. dir' = Set(1, S)
    BY <1>10 DEF Fetch, FilesOK
  <2>2. dir[1][n] \in SUBSET File /\ Expected("Rank", r, 4) \in File
    BY <1>1, <1>2, FileType
  <2>3. S \in SUBSET File
    BY <2>2, StoreType
  <2>4. dir' \in [1 .. 3 -> [Node -> SUBSET File]]
    <3> HIDE DEF S, Set
    <3> QED BY <1>3, <2>1, <2>3
  <2> QED
    BY <1>10, <2>4 DEF Fetch, FilesOK, local, recov, history
<1>11. ASSUME Recover(r) PROVE FilesOK'
  <2> DEFINE In(S) == Content(S, "Rank", r, mem[r].id)
             x == IF lvel[r] # 4 THEN In(dir[lvel[r]][n])
                  ELSE IF In(dir[1][n]) # Lost THEN In(dir[1][n]) ELSE In(gdir)
  <2>1. loaded' = [loaded EXCEPT ![r] = x]
    BY <1>11 DEF Recover
  <2>2. x \in Nat \cup {Lost}
    <3>1. \A S \in SUBSET File : In(S) \in Nat \cup {Lost}
      BY StoreType
    <3>2. dir[1][n] \in SUBSET File /\ gdir \in SUBSET File
      BY <1>1, <1>2 DEF FilesOK
    <3>3. lvel[r] # 4 => dir[lvel[r]][n] \in SUBSET File
      BY <1>1, <1>2, <1>11 DEF Checked, Recover, At
    <3> HIDE DEF In
    <3> QED
      BY <3>1, <3>2, <3>3
  <2> HIDE DEF x
  <2>3. loaded' \in [Rank -> Nat \cup {Lost}]
    BY <2>1, <2>2 DEF FilesOK
  <2> QED
    BY <1>11, <2>3 DEF Recover, FilesOK, disk, recov, history
<1> QED
  BY <1>5, <1>6, <1>7, <1>8, <1>9, <1>10, <1>11 DEF RecoverStep

\* Files stay files when the application makes a call.
LEMMA FilesApp ==
  ASSUME ControlOK, FilesOK, NEW r \in Rank, AppStep(r)
  PROVE  FilesOK'
<1>1. ASSUME NEW c, NEW id, NEW l, Enter(r, c, id, l) PROVE FilesOK'
  BY <1>1 DEF Enter, FilesOK, disk, recov, history, NoCall
<1> QED
  BY <1>1 DEF AppStep, Follow, Issue

\* Files stay files in the collectives of FTI_Checkpoint and FTI_Finalize.
LEMMA FilesCollective ==
  ASSUME ControlOK, FilesOK,
         \/ WriteSync \/ PostSync \/ RenameSync \/ FlushSync \/ FinSync
         \/ \E p \in Proc, l \in {2, 3}, bad \in SUBSET Node : Exchange(p, l, bad)
  PROVE  FilesOK'
<1>1. ASSUME WriteSync PROVE FilesOK'
  BY <1>1 DEF WriteSync, FilesOK, disk, recov, history
<1>2. ASSUME PostSync \/ RenameSync \/ FlushSync PROVE FilesOK'
  BY <1>2 DEF PostSync, RenameSync, FlushSync, FilesOK, disk, local, recov, history
<1>3. ASSUME FinSync PROVE FilesOK'
  BY <1>3 DEF FinSync, FilesOK, disk, local, recov
<1>4. ASSUME NEW p \in Proc, NEW l \in {2, 3}, NEW bad \in SUBSET Node, Exchange(p, l, bad)
      PROVE  FilesOK'
  <2>1. \A n \in Node : Encoded(n, p, l) \in File
    <3>1. \A n \in Node : <<n, p>> \in Rank /\ call[<<n, p>>] \in Nat
      BY RankParts, IndexType DEF ControlOK
    <3> QED
      BY <3>1, FileType DEF Encoded
  <2>2. \A n \in Node : tmp[n] \in SUBSET File
    BY DEF FilesOK
  <2>3. \A n \in Node : /\ Put(tmp[n], Encoded(n, p, l)) \in SUBSET File
                        /\ Without(tmp[n], Encoded(n, p, l)) \in SUBSET File
    BY <2>1, <2>2, StoreType
  <2>4. tmp' = [n \in Node |-> IF n \in bad THEN Without(tmp[n], Encoded(n, p, l))
                                           ELSE Put(tmp[n], Encoded(n, p, l))]
    BY <1>4 DEF Exchange
  <2>5. tmp' \in [Node -> SUBSET File]
    BY <2>3, <2>4
  <2> QED
    BY <1>4, <2>5 DEF Exchange, FilesOK, recov, history
<1> QED
  BY <1>1, <1>2, <1>3, <1>4

\* Files stay files in the collectives of FTI_Init.
LEMMA FilesBoot ==
  ASSUME ControlOK, FilesOK,
         BootFresh \/ BootRecover \/ SkipLevel \/ TryLocal \/ TryGlobal \/ CheckGlobal \/ RecoverSync
  PROVE  FilesOK'
<1>1. ASSUME BootFresh PROVE FilesOK'
  BY <1>1 DEF BootFresh, NoFiles, FilesOK, local, recov
<1>2. ASSUME BootRecover \/ TryGlobal PROVE FilesOK'
  BY <1>2 DEF BootRecover, TryGlobal, FilesOK, disk, local, recov, history
<1>3. ASSUME NextLevel, UNCHANGED disk PROVE FilesOK'
  BY <1>3 DEF NextLevel, NotRecovered, FilesOK, disk, history
<1>4. ASSUME SkipLevel PROVE FilesOK'
  BY <1>3, <1>4 DEF SkipLevel, disk
<1>5. ASSUME NEW l \in 1 .. 4, Check(l) PROVE erased' \in SUBSET File
  BY <1>5, ErasuresType DEF Check
<1>6. ASSUME TryLocal PROVE FilesOK'
  <2>1. rlevel \in 1 .. 4 /\ Check(rlevel)
    BY <1>6 DEF TryLocal, ControlOK
  <2> QED
    BY <1>5, <1>6, <2>1 DEF TryLocal, FilesOK, disk, history
<1>7. ASSUME CheckGlobal PROVE FilesOK'
  BY <1>5, <1>7 DEF CheckGlobal, FilesOK, disk, history
<1>8. ASSUME RecoverSync PROVE FilesOK'
  <2>1. CASE \E r \in Rank : res[r] # 0
    BY <1>3, <1>8, <2>1 DEF RecoverSync, disk
  <2>2. CASE ~ \E r \in Rank : res[r] # 0
    BY <1>8, <2>2 DEF RecoverSync, FilesOK, disk, recov
  <2> QED
    BY <2>1, <2>2
<1> QED
  BY <1>1, <1>2, <1>4, <1>6, <1>7, <1>8

\* Files stay files when the job crashes or is launched again.
LEMMA FilesEnvironment ==
  ASSUME ControlOK, FilesOK, Environment
  PROVE  FilesOK'
<1>1. ASSUME Reset PROVE loaded' \in [Rank -> Nat \cup {Lost}] /\ erased' \in SUBSET File
  BY <1>1 DEF Reset, NoCall
<1>2. ASSUME Relaunch PROVE FilesOK'
  BY <1>1, <1>2 DEF Relaunch, FilesOK, disk, history
<1>3. ASSUME NEW F \in SUBSET Node, Crash(F) PROVE FilesOK'
  <2>1. tmp' \in [Node -> SUBSET File] /\ dir' \in [1 .. 3 -> [Node -> SUBSET File]]
    BY <1>3 DEF Crash, FilesOK
  <2>2. hurt' \in SUBSET Node /\ open' \in SUBSET Node
    BY <1>3 DEF Crash, FilesOK
  <2>3. \A r \in Rank : Replacing(lvel[r], r) \in 0 .. 4
    <3>1. \A r \in Rank : lvel[r] \in 0 .. 4 \/ lvel[r] = 6
      BY DEF ControlOK, Level, Rejected
    <3> QED
      BY <3>1 DEF Replacing
  <2>4. torn' \in SUBSET (0 .. 4)
    BY <1>3, <2>3 DEF Crash, FilesOK
  <2> QED
    BY <1>1, <1>3, <2>1, <2>2, <2>4 DEF Crash, FilesOK
<1> QED
  BY <1>2, <1>3 DEF Environment

\* Files stay files.
LEMMA TypeFiles ==
  ASSUME ControlOK, FilesOK, Checked, [Next]_vars
  PROVE  FilesOK'
<1>1. ASSUME UNCHANGED vars PROVE FilesOK'
  BY <1>1 DEF FilesOK, vars, disk, local, recov, history
<1> QED
  BY <1>1, FilesApp, FilesCkpt, FilesFin, FilesRecover, FilesCollective, FilesBoot, FilesEnvironment
  DEF Next, Sync, Ended

(***************************************************************************)
(* Lockstep.                                                               *)
(***************************************************************************)

\* One process tells where all are.
LEMMA WhereAll ==
  ASSUME Lockstep, NEW r \in Rank
  PROVE  /\ pc[r] \in Exchanging => Together(Exchanging)
         /\ pc[r] \in Committing => Together(Committing)
         /\ pc[r] \in Recovering => Together(Recovering)
         /\ pc[r] = "down" => Together({"down"})
         /\ pc[r] = "done" => Together({"done"})
         /\ pc[r] \in Behind => Together(Behind) \/ Apart
         /\ pc[r] \in Ahead => Apart
BY DEF Lockstep, Together, Apart, Exchanging, Committing, Recovering, Behind, Ahead, Finishing

\* A process that stays within its stretch of code, with no new call, keeps
\* the processes in lockstep.
LEMMA StayInStep ==
  ASSUME ControlOK, Lockstep, NEW r \in Rank, NEW l, Goto(r, l), UNCHANGED <<calls, call>>,
         NEW S \in {Exchanging, Committing, Recovering, Behind, Ahead}, pc[r] \in S, l \in S
  PROVE  Lockstep'
<1>1. \A q \in Rank : pc'[q] = IF q = r THEN l ELSE pc[q]
  BY DEF ControlOK, Goto
<1>2. CASE S \in {Exchanging, Committing, Recovering}
  <2>1. Together(S)
    BY <1>2, WhereAll
  <2>2. Together(S)'
    BY <1>1, <2>1 DEF Together
  <2> QED
    BY <1>2, <2>2 DEF Lockstep
<1>3. CASE S = Behind
  <2>1. Together(Behind) \/ Apart
    BY <1>3, WhereAll
  <2>2. Together(Behind)' \/ Apart'
    BY <1>1, <1>3, <2>1 DEF Together, Apart, Behind, Ahead, Finishing
  <2> QED
    BY <2>2 DEF Lockstep
<1>4. CASE S = Ahead
  <2>1. Apart
    BY <1>4, WhereAll
  <2>2. Apart'
    BY <1>1, <1>4, <2>1 DEF Apart, Behind, Ahead, Finishing
  <2> QED
    BY <2>2 DEF Lockstep
<1> QED
  BY <1>2, <1>3, <1>4

\* Lockstep holds after an application's call.
LEMMA StepApp ==
  ASSUME ControlOK, Lockstep, NEW r \in Rank, AppStep(r)
  PROVE  Lockstep'
<1>1. FinalizeEntry(r) \in Ahead
  BY DEF FinalizeEntry, Ahead, Finishing
<1>2. ASSUME NEW c, NEW id, NEW l, Enter(r, c, id, l)
      PROVE  /\ call' = [call EXCEPT ![r] = c]
             /\ \A q \in Rank \ {r} : pc'[q] = pc[q]
             /\ pc'[r] \in Ahead
  BY <1>1, <1>2 DEF Enter, ControlOK, Goto, Ahead
<1>3. CASE Follow(r)
  <2>1. pc[r] = "run" /\ call[r] < Len(calls) /\ calls' = calls
        /\ \E id, l : Enter(r, call[r] + 1, id, l)
    BY <1>3 DEF Follow, At
  <2>2. Apart
    BY <2>1, WhereAll DEF Together, Behind
  <2>3. call[r] + 1 = Len(calls)
    BY <2>1, <2>2, IndexType DEF Apart, ControlOK, Index
  <2>4. /\ call' = [call EXCEPT ![r] = Len(calls)]
        /\ \A q \in Rank \ {r} : pc'[q] = pc[q]
        /\ pc'[r] \in Ahead
    BY <1>2, <2>1, <2>3
  <2>5. Apart'
    BY <2>1, <2>2, <2>4 DEF Apart, ControlOK
  <2> QED
    BY <2>5 DEF Lockstep
<1>4. ASSUME NEW l, Issue(r, l) PROVE Lockstep'
  <2>1. pc[r] = "run" /\ call[r] = Len(calls)
        /\ calls' = Append(calls, [id |-> mem[r].cnt, lvl |-> l])
        /\ Enter(r, Len(calls) + 1, mem[r].cnt, l)
    BY <1>4 DEF Issue, At
  <2>2. Together(Behind)
    <3>1. Len(calls) \in Nat /\ "run" \in Behind /\ "run" \notin Ahead
      BY IndexType DEF Behind, Ahead, Finishing
    <3>2. ~Apart
      BY <2>1, <3>1 DEF Apart
    <3> QED
      BY <2>1, <3>1, <3>2, WhereAll
  <2>3. Len(calls') = Len(calls) + 1
    BY <2>1 DEF ControlOK
  <2>4. /\ call' = [call EXCEPT ![r] = Len(calls) + 1]
        /\ \A q \in Rank \ {r} : pc'[q] = pc[q]
        /\ pc'[r] \in Ahead
    BY <1>2, <2>1
  <2>5. ASSUME NEW q \in Rank
        PROVE  \/ pc'[q] \in Behind /\ call'[q] + 1 = Len(calls')
               \/ pc'[q] \in Ahead /\ call'[q] = Len(calls')
    <3>1. call \in [Rank -> Index]
      BY DEF ControlOK
    <3>2. CASE q = r
      BY <2>3, <2>4, <3>1, <3>2
    <3>3. CASE q # r
      BY <2>2, <2>3, <2>4, <3>1, <3>3 DEF Together
    <3> QED
      BY <3>2, <3>3
  <2>6. Apart'
    BY <2>5 DEF Apart
  <2> QED
    BY <2>6 DEF Lockstep
<1> QED
  BY <1>3, <1>4 DEF AppStep

\* Lockstep holds after a step of a process within FTI_Checkpoint.
LEMMA StepCkpt ==
  ASSUME ControlOK, Lockstep, NEW r \in Rank, CkptStep(r)
  PROVE  Lockstep'
<1>1. ASSUME NEW bad \in BOOLEAN, Write(r, bad) PROVE Lockstep'
  BY <1>1, StayInStep DEF Write, At, Ahead
<1>2. ASSUME NEW bad \in BOOLEAN, CreateMetadata(r, bad) PROVE Lockstep'
  BY <1>2, StayInStep DEF CreateMetadata, At, Exchanging
<1>3. ASSUME NEW v \in {0, 1}, PostLocal(r, v) PROVE Lockstep'
  BY <1>3, StayInStep DEF PostLocal, At, Exchanging
<1>4. ASSUME Discard(r) PROVE Lockstep'
  BY <1>4, StayInStep DEF Discard, At, Behind, local
<1>5. ASSUME Clean(r) PROVE Lockstep'
  BY <1>5, StayInStep DEF Clean, At, Committing, local
<1>6. ASSUME Rename(r) PROVE Lockstep'
  BY <1>6, StayInStep DEF Rename, At, Committing, local
<1>7. ASSUME RenameGlobal(r) PROVE Lockstep'
  BY <1>7, StayInStep DEF RenameGlobal, At, Committing, local
<1>8. ASSUME RenameMeta(r) PROVE Lockstep'
  BY <1>8, StayInStep DEF RenameMeta, At, Committing, local
<1>9. ASSUME Return(r) PROVE Lockstep'
  BY <1>9, StayInStep DEF Return, At, Behind
<1> QED
  BY <1>1, <1>2, <1>3, <1>4, <1>5, <1>6, <1>7, <1>8, <1>9 DEF CkptStep

\* Lockstep holds after a step of a process within FTI_Finalize.
LEMMA StepFin ==
  ASSUME ControlOK, Lockstep, NEW r \in Rank, FinStep(r)
  PROVE  Lockstep'
<1>1. UNCHANGED <<calls, call>>
  BY DEF FinStep, Flush, FinRemoveL4, FinRenameL4, FinRemoveMeta, FinRenameMeta, FinUpdateConf,
         FinClean, DropConf, Drop, local
<1>2. pc[r] \in Ahead /\ \E l \in Ahead : Goto(r, l)
  BY DEF FinStep, Flush, FinRemoveL4, FinRenameL4, FinRemoveMeta, FinRenameMeta, FinUpdateConf,
         FinClean, DropConf, Drop, At, Ahead, Finishing
<1> QED
  BY <1>1, <1>2, StayInStep

\* Lockstep holds after a step of a process that recovers.
LEMMA StepRecover ==
  ASSUME ControlOK, Lockstep, NEW r \in Rank, RecoverStep(r)
  PROVE  Lockstep'
<1>1. UNCHANGED <<calls, call>>
  BY DEF RecoverStep, CleanL1, FixOwn, FixCopy, DecodeOpen, Decode, Fetch, Recover, local
<1>2. \E S \in {Recovering, Behind} : pc[r] \in S /\ \E l \in S : Goto(r, l)
  BY DEF RecoverStep, CleanL1, FixOwn, FixCopy, DecodeOpen, Decode, Fetch, Recover, At,
         Recovering, Behind
<1> QED
  BY <1>1, <1>2, StayInStep

\* All processes move on together, with no new call.
LEMMA MoveTogether ==
  ASSUME \A r \in Rank : call[r] = Len(calls), UNCHANGED <<calls, call>>,
         NEW S \in {Exchanging, Committing, Recovering, Behind, {"down"}, {"done"}},
         \A r \in Rank : pc'[r] \in S
  PROVE  Lockstep'
BY DEF Lockstep, Together

\* Where a collective is entered all are in the same call.
LEMMA SameCall ==
  ASSUME Lockstep, NEW l, AllAt(l),
         l \in Exchanging \cup Committing \cup Recovering \cup Ahead \cup {"down", "done"}
  PROVE  \A r \in Rank : call[r] = Len(calls)
<1>1. pc[Root] = l
  BY RankParts DEF AllAt
<1>2. CASE l \in Ahead
  <2>1. Apart
    BY <1>1, <1>2, WhereAll, RankParts
  <2> QED
    BY <1>2, <2>1 DEF Apart, AllAt, Ahead, Behind, Finishing
<1>3. CASE l \notin Ahead
  BY <1>1, <1>3, WhereAll, RankParts DEF Together
<1> QED
  BY <1>2, <1>3

\* Lockstep holds after a collective of FTI_Checkpoint or FTI_Finalize.
LEMMA StepCollective ==
  ASSUME ControlOK, Lockstep,
         \/ WriteSync \/ PostSync \/ RenameSync \/ FlushSync \/ FinSync
         \/ \E p \in Proc, l \in {2, 3}, bad \in SUBSET Node : Exchange(p, l, bad)
  PROVE  Lockstep'
<1>1. CASE WriteSync
  <2>1. UNCHANGED <<calls, call>> /\ \A r \in Rank : pc'[r] \in Exchanging
    BY <1>1 DEF WriteSync, AllGoto, Exchanging
  <2>2. \A r \in Rank : call[r] = Len(calls)
    BY <1>1, SameCall DEF WriteSync, Ahead
  <2> QED
    BY <2>1, <2>2, MoveTogether
<1>2. CASE PostSync
  <2>1. UNCHANGED <<calls, call>>
    BY <1>2 DEF PostSync, local
  <2>2. \A r \in Rank : call[r] = Len(calls)
    BY <1>2, SameCall DEF PostSync, Exchanging
  <2>3. \/ \A r \in Rank : pc'[r] \in Committing
        \/ \A r \in Rank : pc'[r] \in Behind
    BY <1>2 DEF PostSync, AllGoto, Committing, Behind
  <2> QED
    BY <2>1, <2>2, <2>3, MoveTogether
<1>3. CASE RenameSync
  <2>1. UNCHANGED <<calls, call>> /\ \A r \in Rank : pc'[r] \in Behind
    BY <1>3 DEF RenameSync, AllGoto, Behind, local
  <2>2. \A r \in Rank : call[r] = Len(calls)
    BY <1>3, SameCall DEF RenameSync, Committing
  <2> QED
    BY <2>1, <2>2, MoveTogether
<1>4. CASE FlushSync
  <2>1. UNCHANGED <<calls, call>> /\ \A r \in Rank : pc'[r] \in Ahead
    BY <1>4 DEF FlushSync, Ahead, Finishing, local
  <2>2. \A r \in Rank : call[r] = Len(calls)
    BY <1>4, SameCall DEF FlushSync, Ahead, Finishing
  <2> QED
    BY <2>1, <2>2 DEF Lockstep, Apart
<1>5. CASE FinSync
  <2>1. UNCHANGED <<calls, call>> /\ \A r \in Rank : pc'[r] \in {"done"}
    BY <1>5 DEF FinSync, AllGoto, local
  <2>2. \A r \in Rank : call[r] = Len(calls)
    BY <1>5, SameCall DEF FinSync, Ahead, Finishing
  <2> QED
    BY <2>1, <2>2, MoveTogether
<1>6. ASSUME NEW p \in Proc, NEW l \in {2, 3}, NEW bad \in SUBSET Node, Exchange(p, l, bad)
      PROVE  Lockstep'
  <2>1. UNCHANGED <<calls, call>>
        /\ \A r \in Rank : pc'[r] = IF r[2] = p THEN "posted" ELSE pc[r]
    BY <1>6 DEF Exchange
  <2>2. pc[<<0, p>>] = "post" /\ <<0, p>> \in Rank
    BY <1>6, RankParts, SizesAssumption DEF Exchange, At, Group, Node
  <2>3. Together(Exchanging)
    BY <2>2, WhereAll DEF Exchanging
  <2> QED
    BY <2>1, <2>3, MoveTogether DEF Together, Exchanging
<1> QED
  BY <1>1, <1>2, <1>3, <1>4, <1>5, <1>6

\* Lockstep holds after a collective of FTI_Init.
LEMMA StepBoot ==
  ASSUME ControlOK, Lockstep,
         BootFresh \/ BootRecover \/ SkipLevel \/ TryLocal \/ TryGlobal \/ CheckGlobal \/ RecoverSync
  PROVE  Lockstep'
<1>1. ASSUME NextLevel
      PROVE  /\ UNCHANGED call
             /\ \/ \A r \in Rank : pc'[r] \in Recovering
                \/ \A r \in Rank : pc'[r] \in Behind
  BY <1>1 DEF NextLevel, NotRecovered, AllGoto, Recovering, Behind
<1>2. ASSUME NEW l, Check(l) PROVE \A r \in Rank : pc'[r] \in Recovering
  BY <1>2 DEF Check, RecoverEntry, Recovering
<1>3. \A r \in Rank : call[r] = Len(calls)
  BY SameCall DEF BootFresh, BootRecover, SkipLevel, TryLocal, TryGlobal, CheckGlobal, RecoverSync,
                  Recovering
<1>4. UNCHANGED <<calls, call>>
  BY <1>1 DEF BootFresh, BootRecover, SkipLevel, TryLocal, TryGlobal, CheckGlobal, RecoverSync, local
<1>5. \/ \A r \in Rank : pc'[r] \in Recovering
      \/ \A r \in Rank : pc'[r] \in Behind
  <2>1. CASE BootFresh \/ BootRecover \/ TryGlobal
    BY <2>1 DEF BootFresh, BootRecover, TryGlobal, AllGoto, Recovering, Behind
  <2>2. CASE SkipLevel \/ TryLocal \/ CheckGlobal
    BY <1>1, <1>2, <2>2 DEF SkipLevel, TryLocal, CheckGlobal
  <2>3. CASE RecoverSync
    BY <1>1, <2>3 DEF RecoverSync, AllGoto, Behind
  <2> QED
    BY <2>1, <2>2, <2>3
<1> QED
  BY <1>3, <1>4, <1>5, MoveTogether

\* Lockstep holds after a crash or a relaunch.
LEMMA StepEnvironment ==
  ASSUME ControlOK, Lockstep, Environment
  PROVE  Lockstep'
<1>1. Reset /\ UNCHANGED calls
  BY DEF Environment, Relaunch, Crash
<1>2. Together({"down"})'
  BY <1>1 DEF Reset, Together
<1> QED
  BY <1>2 DEF Lockstep

\* The collectives keep the processes in lockstep.
LEMMA StepLockstep ==
  ASSUME ControlOK, Lockstep, [Next]_vars
  PROVE  Lockstep'
<1>1. ASSUME UNCHANGED vars PROVE Lockstep'
  BY <1>1 DEF Lockstep, Together, Apart, vars, local
<1> QED
  BY <1>1, StepApp, StepCkpt, StepFin, StepRecover, StepCollective, StepBoot, StepEnvironment
  DEF Next, Sync, Ended

(***************************************************************************)
(* The metadata recovery relies on.                                        *)
(***************************************************************************)

\* A step of one process outside recovery.
LEMMA CheckedOutside ==
  ASSUME ControlOK, Lockstep, Checked, NEW r \in Rank,
         pc[r] \in Exchanging \cup Committing \cup Behind \cup Ahead,
         NEW l \in Where \ (Recovering \cup {"restore"}), Goto(r, l),
         \A q \in Rank \ {r} : lvel'[q] = lvel[q]
  PROVE  Checked'
<1>1. \A q \in Rank : pc[q] \notin Recovering
  BY WhereAll DEF Together, Apart, Exchanging, Committing, Recovering, Behind, Ahead, Finishing
<1>2. \A q \in Rank : pc'[q] = IF q = r THEN l ELSE pc[q]
  BY DEF ControlOK, Goto
<1>3. \A q \in Rank : pc'[q] \notin Recovering
  BY <1>1, <1>2
<1>4. \A q \in Rank : pc'[q] = "restore" => q # r
  BY <1>2
<1> QED
  BY <1>2, <1>3, <1>4 DEF Checked, Recovering

\* The application's calls do not disturb recovery.
LEMMA CheckedApp ==
  ASSUME ControlOK, Lockstep, Checked, NEW r \in Rank, AppStep(r)
  PROVE  Checked'
<1>1. pc[r] \in Behind
  BY DEF AppStep, Follow, Issue, At, Behind
<1>2. FinalizeEntry(r) \in Where \ (Recovering \cup {"restore"})
  BY DEF FinalizeEntry, Where, Recovering
<1>3. \E c, id, l : Enter(r, c, id, l)
  BY DEF AppStep, Follow, Issue
<1>4. \E l \in Where \ (Recovering \cup {"restore"}) : Goto(r, l)
  BY <1>2, <1>3 DEF Enter, Where, Recovering
<1>5. \A q \in Rank \ {r} : lvel'[q] = lvel[q]
  BY <1>3 DEF Enter, ControlOK
<1> QED
  BY <1>1, <1>4, <1>5, CheckedOutside

\* Nor does FTI_Checkpoint.
LEMMA CheckedCkpt ==
  ASSUME ControlOK, Lockstep, Checked, NEW r \in Rank, CkptStep(r)
  PROVE  Checked'
<1>1. pc[r] \in Exchanging \cup Committing \cup Behind \cup Ahead
  BY DEF CkptStep, Write, CreateMetadata, PostLocal, Discard, Clean, Rename, RenameGlobal,
         RenameMeta, Return, At, Exchanging, Committing, Behind, Ahead
<1>2. \E l \in Where \ (Recovering \cup {"restore"}) : Goto(r, l)
  BY DEF CkptStep, Write, CreateMetadata, PostLocal, Discard, Clean, Rename, RenameGlobal,
         RenameMeta, Return, Where, Recovering
<1>3. \A q \in Rank \ {r} : lvel'[q] = lvel[q]
  BY DEF CkptStep, Write, CreateMetadata, PostLocal, Discard, Clean, Rename, RenameGlobal,
         RenameMeta, Return, local, ControlOK
<1> QED
  BY <1>1, <1>2, <1>3, CheckedOutside

\* Nor does FTI_Finalize.
LEMMA CheckedFin ==
  ASSUME ControlOK, Lockstep, Checked, NEW r \in Rank, FinStep(r)
  PROVE  Checked'
<1>1. pc[r] \in Ahead
  BY DEF FinStep, Flush, FinRemoveL4, FinRenameL4, FinRemoveMeta, FinRenameMeta, FinUpdateConf,
         FinClean, DropConf, Drop, At, Ahead, Finishing
<1>2. \E l \in Where \ (Recovering \cup {"restore"}) : Goto(r, l)
  BY DEF FinStep, Flush, FinRemoveL4, FinRenameL4, FinRemoveMeta, FinRenameMeta, FinUpdateConf,
         FinClean, DropConf, Drop, Where, Recovering
<1>3. \A q \in Rank \ {r} : lvel'[q] = lvel[q]
  BY DEF FinStep, Flush, FinRemoveL4, FinRenameL4, FinRemoveMeta, FinRenameMeta, FinUpdateConf,
         FinClean, DropConf, Drop, local
<1> QED
  BY <1>1, <1>2, <1>3, CheckedOutside

\* A recovering process keeps the metadata of the level it recovers.
LEMMA CheckedRecover ==
  ASSUME ControlOK, Lockstep, Checked, NEW r \in Rank, RecoverStep(r)
  PROVE  Checked'
<1>1. CASE CleanL1(r)
  <2>1. rlevel = 4 /\ MetaExists(4)
    BY <1>1 DEF CleanL1, At, Checked, Recovering
  <2>2. meta'[4] = meta[4] /\ rlevel' = rlevel /\ lvel' = lvel
    BY <1>1 DEF CleanL1, CleanLevels, recov, local
  <2>3. MetaExists(rlevel)'
    BY <2>1, <2>2 DEF MetaExists
  <2>4. \A q \in Rank : pc'[q] = IF q = r THEN "cleanedL1" ELSE pc[q]
    BY <1>1 DEF CleanL1, Goto, ControlOK
  <2> QED
    BY <2>1, <2>2, <2>3, <2>4 DEF Checked
<1>2. CASE FixOwn(r) \/ FixCopy(r) \/ DecodeOpen(r) \/ Decode(r) \/ Fetch(r)
  <2>1. UNCHANGED <<meta, rlevel, lvel>>
    BY <1>2 DEF FixOwn, FixCopy, DecodeOpen, Decode, Fetch, recov, local
  <2>2. pc[r] \in Recovering \ {"try"}
        /\ \E l \in Recovering \ {"cleanL1", "cleanedL1"} : Goto(r, l)
    BY <1>2 DEF FixOwn, FixCopy, DecodeOpen, Decode, Fetch, At, Recovering
  <2>3. MetaExists(rlevel)'
    BY <2>1, <2>2 DEF Checked, MetaExists
  <2>4. \A q \in Rank \ {r} : pc'[q] = pc[q]
    BY <2>2 DEF Goto, ControlOK
  <2>5. pc'[r] \in Recovering \ {"cleanL1", "cleanedL1"}
    BY <2>2 DEF Goto, ControlOK
  <2> QED
    BY <2>1, <2>3, <2>4, <2>5 DEF Checked, Recovering
<1>3. CASE Recover(r)
  <2>1. UNCHANGED <<meta, rlevel, lvel>>
    BY <1>3 DEF Recover, recov
  <2>2. pc[r] \in Behind /\ Goto(r, "run")
    BY <1>3 DEF Recover, At, Behind
  <2> QED
    BY <2>1, <2>2, CheckedOutside DEF Where, Recovering
<1> QED
  BY <1>1, <1>2, <1>3 DEF RecoverStep

\* The collectives of FTI_Checkpoint and FTI_Finalize do not disturb recovery.
LEMMA CheckedCollective ==
  ASSUME ControlOK, Lockstep, Checked,
         \/ WriteSync \/ PostSync \/ RenameSync \/ FlushSync \/ FinSync
         \/ \E p \in Proc, l \in {2, 3}, bad \in SUBSET Node : Exchange(p, l, bad)
  PROVE  Checked'
<1>1. ASSUME \A r \in Rank : pc'[r] \notin Recovering \cup {"restore"} PROVE Checked'
  BY <1>1 DEF Checked, Recovering
<1>2. CASE WriteSync \/ PostSync \/ RenameSync \/ FlushSync \/ FinSync
  BY <1>1, <1>2 DEF WriteSync, PostSync, RenameSync, FlushSync, FinSync, AllGoto, Recovering
<1>3. ASSUME NEW p \in Proc, NEW l \in {2, 3}, NEW bad \in SUBSET Node, Exchange(p, l, bad)
      PROVE  Checked'
  <2>1. pc[<<0, p>>] = "post" /\ <<0, p>> \in Rank
    BY <1>3, RankParts, SizesAssumption DEF Exchange, At, Group, Node
  <2>2. Together(Exchanging)
    BY <2>1, WhereAll DEF Exchanging
  <2>3. \A r \in Rank : pc'[r] \in Exchanging
    BY <1>3, <2>2 DEF Exchange, Together, Exchanging
  <2> QED
    BY <1>1, <2>3 DEF Exchanging, Recovering
<1> QED
  BY <1>2, <1>3

\* FTI_RecoverFiles tries a level only when its metadata is there.
LEMMA CheckedBoot ==
  ASSUME ControlOK, Lockstep, Checked,
         BootFresh \/ BootRecover \/ SkipLevel \/ TryLocal \/ TryGlobal \/ CheckGlobal \/ RecoverSync
  PROVE  Checked'
<1>1. ASSUME NEW l \in {"run", "try"}, AllGoto(l) PROVE Checked'
  BY <1>1 DEF AllGoto, Checked, Recovering
<1>2. ASSUME NextLevel PROVE Checked'
  BY <1>1, <1>2 DEF NextLevel, NotRecovered
<1>3. CASE BootFresh \/ BootRecover \/ SkipLevel
  BY <1>1, <1>2, <1>3 DEF BootFresh, BootRecover, SkipLevel
<1>4. CASE TryLocal
  <2>1. MetaExists(rlevel)'
    BY <1>4 DEF TryLocal, MetaExists
  <2>2. \A r \in Rank : pc'[r] \in Recovering \ {"try", "cleanL1", "cleanedL1"}
    BY <1>4 DEF TryLocal, Check, RecoverEntry, Recovering
  <2> QED
    BY <2>1, <2>2 DEF Checked, Recovering
<1>5. CASE TryGlobal
  BY <1>5 DEF TryGlobal, AllGoto, Checked, MetaExists, recov, Recovering
<1>6. CASE CheckGlobal
  <2>1. MetaExists(rlevel)
    BY <1>6, RankParts DEF CheckGlobal, AllAt, Checked, Recovering
  <2>2. MetaExists(rlevel)'
    BY <1>6, <2>1 DEF CheckGlobal, MetaExists
  <2>3. \A r \in Rank : pc'[r] \in Recovering \ {"try", "cleanL1", "cleanedL1"}
    BY <1>6 DEF CheckGlobal, Check, RecoverEntry, Recovering
  <2> QED
    BY <2>2, <2>3 DEF Checked, Recovering
<1>7. CASE RecoverSync
  <2>1. CASE \E r \in Rank : res[r] # 0
    BY <1>2, <1>7, <2>1 DEF RecoverSync
  <2>2. CASE ~ \E r \in Rank : res[r] # 0
    <3>1. \A r \in Rank : pc'[r] = "restore" /\ lvel'[r] \in 1 .. 4
      BY <1>7, <2>2 DEF RecoverSync, AllGoto, ControlOK
    <3> QED
      BY <3>1 DEF Checked, Recovering
  <2> QED
    BY <2>1, <2>2
<1> QED
  BY <1>3, <1>4, <1>5, <1>6, <1>7

\* The metadata stays while it is relied on.
LEMMA StepChecked ==
  ASSUME ControlOK, Lockstep, Checked, [Next]_vars
  PROVE  Checked'
<1>1. ASSUME UNCHANGED vars PROVE Checked'
  BY <1>1 DEF Checked, MetaExists, vars, local, recov
<1>2. ASSUME Environment PROVE Checked'
  <2>1. \A r \in Rank : pc'[r] = "down"
    BY <1>2 DEF Environment, Relaunch, Crash, Reset
  <2> QED
    BY <2>1 DEF Checked, Recovering
<1> QED
  BY <1>1, <1>2, CheckedApp, CheckedCkpt, CheckedFin, CheckedRecover, CheckedCollective, CheckedBoot
  DEF Next, Sync, Ended

\* The initial state.
LEMMA TypeInit ==
  ASSUME Init
  PROVE  TypeInv
<1>1. ControlOK
  <2>1. Len(calls) = 0 /\ calls \in Seq([id : Nat, lvl : 0 .. 4])
    BY DEF Init
  <2>2. Index = {0}
    BY <2>1 DEF Index
  <2>3. mem \in [Rank -> [last : Level, id : Nat, cnt : Nat, first : BOOLEAN]]
    BY DEF Init, Level
  <2>4. acked \in [call : Index, lvl : Level] /\ lvel \in [Rank -> Level]
    BY <2>2 DEF Init, NoCall, Level
  <2> QED
    BY <2>1, <2>2, <2>3, <2>4 DEF Init, ControlOK, NoMeta, NoCall, Where
<1>2. FilesOK
  BY DEF Init, FilesOK, NoFiles, NoCall
<1>3. Lockstep
  BY DEF Init, Lockstep, Together, Behind
<1>4. Checked
  BY DEF Init, Checked, Recovering
<1> QED
  BY <1>1, <1>2, <1>3, <1>4 DEF TypeInv

\* TypeInv is inductive.
LEMMA TypeStep ==
  ASSUME TypeInv, [Next]_vars
  PROVE  TypeInv'
BY TypeControl, TypeFiles, StepLockstep, StepChecked DEF TypeInv

\* Every reachable state is well typed, whatever fails and crashes: ckptLvel is
\* a level, the reject level or unset, a metadata directory describes a call that
\* was made, a recovery never reads the id of a checkpoint that is not there.
THEOREM TypeCorrect == Spec => []TypeOK
<1>1. Init => TypeInv
  BY TypeInit
<1>2. TypeInv /\ [Next]_vars => TypeInv'
  BY TypeStep
<1>3. TypeInv => TypeOK
  BY DEF TypeInv, TypeOK
<1> QED
  BY <1>1, <1>2, <1>3, PTL DEF Spec

(***************************************************************************)
(* The order of the levels.                                                *)
(***************************************************************************)

\* A step of process r leaves what is known of the others' levels alone.
LEMMA LevelLocal ==
  ASSUME ControlOK, \A q \in Rank : LevelAt(q), NEW r \in Rank, NEW l, Goto(r, l),
         \A q \in Rank \ {r} : lvel'[q] = lvel[q] /\ res'[q] = res[q], LevelAt(r)'
  PROVE  \A q \in Rank : LevelAt(q)'
<1>1. \A q \in Rank \ {r} : pc'[q] = pc[q]
  BY DEF ControlOK, Goto
<1> QED
  BY <1>1 DEF LevelAt

\* The level of a call of FTI_Checkpoint is one of the four.
LEMMA LevelApp ==
  ASSUME ControlOK, \A q \in Rank : LevelAt(q), NEW r \in Rank, AppStep(r)
  PROVE  \A q \in Rank : LevelAt(q)'
<1>1. PICK c, id, l : Enter(r, c, id, l)
  BY DEF AppStep, Follow, Issue
<1>2. CASE l = Finalize
  <2>1. Goto(r, FinalizeEntry(r)) /\ UNCHANGED <<lvel, res>>
    BY <1>1, <1>2 DEF Enter
  <2>2. LevelAt(r)'
    BY <2>1 DEF LevelAt, FinalizeEntry, Goto, ControlOK, Exchanging, Committing
  <2> QED
    BY <2>1, <2>2, LevelLocal
<1>3. CASE l # Finalize
  <2>1. Goto(r, "write") /\ lvel' = [lvel EXCEPT ![r] = l] /\ UNCHANGED res
    BY <1>1, <1>3 DEF Enter
  <2>2. LevelAt(r)'
    BY <1>3, <2>1 DEF LevelAt, Goto, ControlOK, Exchanging, Committing, Finalize
  <2> QED
    BY <2>1, <2>2, LevelLocal DEF ControlOK
<1> QED
  BY <1>2, <1>3

\* The steps of FTI_Checkpoint keep to the level; at the reject level the result
\* of FTI_PostCkpt is a failure.
LEMMA LevelCkpt ==
  ASSUME 0 \notin UninitRes, ControlOK, \A q \in Rank : LevelAt(q), NEW r \in Rank, CkptStep(r)
  PROVE  \A q \in Rank : LevelAt(q)'
<1> USE DEF LevelAt, At, Goto, ControlOK, Exchanging, Committing
<1>1. ASSUME NEW bad \in BOOLEAN, Write(r, bad) PROVE LevelAt(r)'
  BY <1>1 DEF Write
<1>2. ASSUME NEW bad \in BOOLEAN, CreateMetadata(r, bad) PROVE LevelAt(r)'
  BY <1>2 DEF CreateMetadata, Rejected
<1>3. ASSUME NEW v \in {0, 1}, PostLocal(r, v) PROVE LevelAt(r)'
  BY <1>3 DEF PostLocal
<1>4. ASSUME Discard(r) \/ Clean(r) \/ Rename(r) \/ RenameGlobal(r) \/ RenameMeta(r) \/ Return(r)
      PROVE  LevelAt(r)'
  BY <1>4, RankParts DEF Discard, Clean, Rename, RenameGlobal, RenameMeta, Return, NodeFlag, Root, local
<1>5. LevelAt(r)'
  BY <1>1, <1>2, <1>3, <1>4 DEF CkptStep
<1>6. \A q \in Rank \ {r} : lvel'[q] = lvel[q] /\ res'[q] = res[q]
  BY DEF CkptStep, Write, CreateMetadata, PostLocal, Discard, Clean, Rename, RenameGlobal,
         RenameMeta, Return, local
<1>7. \E l : Goto(r, l)
  BY DEF CkptStep, Write, CreateMetadata, PostLocal, Discard, Clean, Rename, RenameGlobal,
         RenameMeta, Return
<1> HIDE DEF LevelAt, At, Goto, ControlOK, Exchanging, Committing
<1> QED
  BY <1>5, <1>6, <1>7, LevelLocal

\* So do those of FTI_Finalize ...
LEMMA LevelFin ==
  ASSUME ControlOK, \A q \in Rank : LevelAt(q), NEW r \in Rank, FinStep(r)
  PROVE  \A q \in Rank : LevelAt(q)'
<1>1. UNCHANGED <<lvel, res>>
  BY DEF FinStep, Flush, FinRemoveL4, FinRenameL4, FinRemoveMeta, FinRenameMeta, FinUpdateConf,
         FinClean, DropConf, Drop, local
<1>2. (\E l : Goto(r, l)) /\ LevelAt(r)'
  BY <1>1 DEF FinStep, Flush, FinRemoveL4, FinRenameL4, FinRemoveMeta, FinRenameMeta, FinUpdateConf,
         FinClean, DropConf, Drop, At, Goto, LevelAt, ControlOK, Exchanging, Committing
<1> QED
  BY <1>1, <1>2, LevelLocal

\* ... and of recovery.
LEMMA LevelRecover ==
  ASSUME ControlOK, \A q \in Rank : LevelAt(q), NEW r \in Rank, RecoverStep(r)
  PROVE  \A q \in Rank : LevelAt(q)'
<1>1. UNCHANGED <<lvel, res>>
  BY DEF RecoverStep, CleanL1, FixOwn, FixCopy, DecodeOpen, Decode, Fetch, Recover, local
<1>2. (\E l : Goto(r, l)) /\ LevelAt(r)'
  BY <1>1 DEF RecoverStep, CleanL1, FixOwn, FixCopy, DecodeOpen, Decode, Fetch, Recover,
         At, Goto, LevelAt, ControlOK, Exchanging, Committing
<1> QED
  BY <1>1, <1>2, LevelLocal

\* Nobody passes the second MPI_Allreduce of FTI_Checkpoint at the reject level.
LEMMA LevelCollective ==
  ASSUME ControlOK, \A q \in Rank : LevelAt(q),
         \/ WriteSync \/ PostSync \/ RenameSync \/ FlushSync \/ FinSync
         \/ \E p \in Proc, l \in {2, 3}, bad \in SUBSET Node : Exchange(p, l, bad)
  PROVE  \A q \in Rank : LevelAt(q)'
<1> TAKE q \in Rank
<1> USE DEF LevelAt, AllGoto, AllAt, Exchanging, Committing, ControlOK, Level, Rejected
<1>1. CASE WriteSync
  BY <1>1 DEF WriteSync
<1>2. CASE PostSync
  BY <1>2 DEF PostSync, local
<1>3. CASE RenameSync
  BY <1>3 DEF RenameSync
<1>4. CASE FlushSync
  BY <1>4 DEF FlushSync
<1>5. CASE FinSync
  BY <1>5 DEF FinSync
<1>6. ASSUME NEW p \in Proc, NEW l \in {2, 3}, NEW bad \in SUBSET Node, Exchange(p, l, bad)
      PROVE  LevelAt(q)'
  <2>1. q[2] = p => q \in Group(p)
    BY RankParts DEF Group, Rank
  <2> QED
    BY <1>6, <2>1 DEF Exchange, At
<1> HIDE DEF LevelAt, AllGoto, AllAt, Exchanging, Committing, ControlOK, Level, Rejected
<1> QED
  BY <1>1, <1>2, <1>3, <1>4, <1>5, <1>6

\* The levels of the processes in every step.
LEMMA StepLevel ==
  ASSUME 0 \notin UninitRes, ControlOK, \A q \in Rank : LevelAt(q), [Next]_vars
  PROVE  \A q \in Rank : LevelAt(q)'
<1>1. ASSUME UNCHANGED vars PROVE \A q \in Rank : LevelAt(q)'
  BY <1>1 DEF LevelAt, vars, local
<1>2. ASSUME \A q \in Rank : pc'[q] \in Recovering \cup {"run", "restore", "down"}
      PROVE  \A q \in Rank : LevelAt(q)'
  BY <1>2 DEF LevelAt, Recovering, Exchanging, Committing
<1>3. ASSUME BootFresh \/ BootRecover \/ SkipLevel \/ TryLocal \/ TryGlobal \/ CheckGlobal \/ RecoverSync
      PROVE  \A q \in Rank : pc'[q] \in Recovering \cup {"run", "restore"}
  BY <1>3 DEF BootFresh, BootRecover, SkipLevel, TryLocal, TryGlobal, CheckGlobal, RecoverSync,
              NextLevel, NotRecovered, Check, RecoverEntry, AllGoto, Recovering
<1>4. ASSUME Environment PROVE \A q \in Rank : pc'[q] = "down"
  BY <1>4 DEF Environment, Relaunch, Crash, Reset
<1> QED
  BY <1>1, <1>2, <1>3, <1>4, LevelApp, LevelCkpt, LevelFin, LevelRecover, LevelCollective
  DEF Next, Sync, Ended

\* Where splitRank 0 has mTmpDir filled and its group commits or has exchanged,
\* only its own steps touch mTmpDir or its call.
LEMMA StagedKept ==
  ASSUME Staged, UNCHANGED mtmp,
         \A p \in Proc : pc'[<<0, p>>] \in {"post", "posted"} /\ lvel'[<<0, p>>] # Rejected
           => /\ pc[<<0, p>>] \in {"post", "posted"} /\ lvel[<<0, p>>] # Rejected
              /\ call'[<<0, p>>] = call[<<0, p>>],
         pc'[Root] \in {"clean"} \cup Replaceable
           => pc[Root] \in {"clean"} \cup Replaceable /\ call'[Root] = call[Root]
  PROVE  Staged'
BY DEF Staged

\* Staged is vacuous where nobody exchanges or commits.
LEMMA StagedElsewhere ==
  ASSUME \A r \in Rank : pc'[r] \notin Exchanging \cup Committing
  PROVE  Staged'
BY RankParts DEF Staged, Exchanging, Committing, Replaceable

\* Steps of one process that keep mTmpDir, its call and its level.
LEMMA StagedLocal ==
  ASSUME ControlOK, Staged, NEW r \in Rank, NEW l, Goto(r, l), UNCHANGED <<mtmp, call, lvel>>,
         l \in {"post", "posted"} => pc[r] \in {"post", "posted"},
         l \in {"clean"} \cup Replaceable => pc[r] \in {"clean"} \cup Replaceable
  PROVE  Staged'
<1>1. \A q \in Rank : pc'[q] = IF q = r THEN l ELSE pc[q]
  BY DEF ControlOK, Goto
<1> QED
  BY <1>1, RankParts, StagedKept

\* mTmpDir holds the metadata of the current call from FTI_CreateMetadata to its
\* renaming, unless the checkpoint is rejected.
LEMMA StepStaged ==
  ASSUME TypeInv, \A r \in Rank : LevelAt(r), Staged, [Next]_vars
  PROVE  Staged'
<1>0. ControlOK /\ Lockstep
  BY DEF TypeInv
<1>1. ASSUME NEW r \in Rank, AppStep(r) PROVE Staged'
  <2>1. pc[r] \in Behind
    BY <1>1 DEF AppStep, Follow, Issue, At, Behind
  <2>2. \A q \in Rank : pc[q] \in Behind \cup Ahead
    BY <1>0, <2>1, WhereAll DEF Together, Apart
  <2>3. FinalizeEntry(r) \in Ahead
    BY DEF FinalizeEntry, Ahead, Finishing
  <2>4. \E c, id, l : Enter(r, c, id, l)
    BY <1>1 DEF AppStep, Follow, Issue
  <2>5. \A q \in Rank : pc'[q] \in Behind \cup Ahead
    <3>1. \E x \in Ahead : pc' = [pc EXCEPT ![r] = x]
      BY <2>3, <2>4 DEF Enter, Goto, Ahead
    <3>2. pc \in [Rank -> Where]
      BY <1>0 DEF ControlOK
    <3> QED
      BY <2>2, <3>1, <3>2
  <2> QED
    BY <2>5, StagedElsewhere DEF Behind, Ahead, Finishing, Exchanging, Committing
<1>2. ASSUME NEW r \in Rank, CkptStep(r) PROVE Staged'
  <2>1. ASSUME NEW bad \in BOOLEAN, Write(r, bad) PROVE Staged'
    BY <1>0, <2>1, StagedLocal DEF Write, Replaceable
  <2>2. ASSUME NEW bad \in BOOLEAN, CreateMetadata(r, bad) PROVE Staged'
    <3>1. \A q \in Rank : pc'[q] = IF q = r THEN "post" ELSE pc[q]
      BY <1>0, <2>2 DEF CreateMetadata, Goto, ControlOK
    <3>2. Together(Exchanging)
      BY <1>0, <2>2, WhereAll DEF CreateMetadata, At, Exchanging
    <3>3. pc'[Root] \notin {"clean"} \cup Replaceable
      BY <3>1, <3>2, RankParts DEF Together, Exchanging, Replaceable
    <3>4. ASSUME NEW p \in Proc, pc'[<<0, p>>] \in {"post", "posted"}, lvel'[<<0, p>>] # Rejected
          PROVE  mtmp'[p] = call'[<<0, p>>]
      <4>1. CASE r = <<0, p>>
        <5>1. r[1] = 0 /\ r[2] = p /\ call' = call
          BY <2>2, <4>1 DEF CreateMetadata
        <5>2. ~bad
          BY <1>0, <2>2, <3>4, <4>1 DEF CreateMetadata, ControlOK
        <5> QED
          BY <1>0, <2>2, <4>1, <5>1, <5>2 DEF CreateMetadata, ControlOK
      <4>2. CASE r # <<0, p>>
        <5>1. pc[<<0, p>>] \in {"post", "posted"}
          BY <3>1, <3>4, <4>2, RankParts
        <5>2. lvel[<<0, p>>] # Rejected /\ call' = call
          BY <1>0, <2>2, <3>4, <4>2 DEF CreateMetadata, ControlOK
        <5>3. r[1] = 0 => r[2] # p
          BY <4>2 DEF Rank
        <5>4. mtmp'[p] = mtmp[p]
          BY <1>0, <2>2, <5>3, RankParts DEF CreateMetadata, ControlOK
        <5> QED
          BY <5>1, <5>2, <5>4 DEF Staged
      <4> QED
        BY <4>1, <4>2
    <3> QED
      BY <3>3, <3>4 DEF Staged
  <2>3. ASSUME NEW v \in {0, 1}, PostLocal(r, v) PROVE Staged'
    BY <1>0, <2>3, StagedLocal DEF PostLocal, At, Replaceable
  <2>4. ASSUME Discard(r) PROVE Staged'
    <3>1. \A q \in Rank : pc[q] \in Behind \cup Ahead
      BY <1>0, <2>4, WhereAll DEF Discard, At, Together, Apart, Behind
    <3>2. \A q \in Rank : pc'[q] \in Behind \cup Ahead
      BY <1>0, <2>4, <3>1 DEF Discard, Goto, ControlOK, Behind
    <3> QED
      BY <3>2, StagedElsewhere DEF Behind, Ahead, Finishing, Exchanging, Committing
  <2>5. ASSUME Clean(r) \/ Rename(r) \/ RenameGlobal(r) PROVE Staged'
    <3>1. UNCHANGED <<mtmp, call, lvel>>
      BY <2>5 DEF Clean, Rename, RenameGlobal, local
    <3>2. pc[r] \in {"clean"} \cup Replaceable
          /\ \E l \in {"rename", "renamed", "renameGlobal", "renameMeta"} : Goto(r, l)
      BY <2>5 DEF Clean, Rename, RenameGlobal, At, Replaceable
    <3> QED
      BY <1>0, <3>1, <3>2, StagedLocal
  <2>6. ASSUME RenameMeta(r) PROVE Staged'
    <3>1. r = Root /\ Together(Committing)
      BY <1>0, <2>6, WhereAll DEF RenameMeta, At, LevelAt, Committing
    <3>2. \A q \in Rank : pc'[q] = IF q = r THEN "renamed" ELSE pc[q]
      BY <1>0, <2>6 DEF RenameMeta, Goto, ControlOK
    <3> QED
      BY <3>1, <3>2, RankParts DEF Staged, Together, Committing, Replaceable
  <2>7. ASSUME Return(r) PROVE Staged'
    BY <1>0, <2>7, StagedLocal DEF Return, Replaceable
  <2> QED
    BY <1>2, <2>1, <2>2, <2>3, <2>4, <2>5, <2>6, <2>7 DEF CkptStep
<1>3. ASSUME NEW r \in Rank, FinStep(r) PROVE Staged'
  <2>1. UNCHANGED <<mtmp, call, lvel>>
    BY <1>3 DEF FinStep, Flush, FinRemoveL4, FinRenameL4, FinRemoveMeta, FinRenameMeta,
                FinUpdateConf, FinClean, DropConf, Drop, local
  <2>2. \E l \in Finishing : Goto(r, l)
    BY <1>3 DEF FinStep, Flush, FinRemoveL4, FinRenameL4, FinRemoveMeta, FinRenameMeta,
                FinUpdateConf, FinClean, DropConf, Drop, Finishing
  <2> QED
    BY <1>0, <2>1, <2>2, StagedLocal DEF Finishing, Replaceable
<1>4. ASSUME NEW r \in Rank, RecoverStep(r) PROVE Staged'
  <2>1. UNCHANGED <<mtmp, call, lvel>>
    BY <1>4 DEF RecoverStep, CleanL1, FixOwn, FixCopy, DecodeOpen, Decode, Fetch, Recover, local
  <2>2. \E l \in Recovering \cup {"run"} : Goto(r, l)
    BY <1>4 DEF RecoverStep, CleanL1, FixOwn, FixCopy, DecodeOpen, Decode, Fetch, Recover, Recovering
  <2> QED
    BY <1>0, <2>1, <2>2, StagedLocal DEF Recovering, Replaceable
<1>5. ASSUME WriteSync PROVE Staged'
  BY <1>5, RankParts DEF WriteSync, AllGoto, Staged, Replaceable
<1>6. ASSUME PostSync PROVE Staged'
  <2>1. CASE \A r \in Rank : res[r] = 0
    <3>1. \A r \in Rank : pc[r] = "posted" /\ pc'[r] = "clean" /\ lvel[r] # Rejected
      BY <1>6, <2>1 DEF PostSync, AllAt, AllGoto, LevelAt
    <3>2. \A r \in Rank : call[r] = Len(calls)
      BY <1>0, <1>6, SameCall DEF PostSync, Exchanging
    <3>3. \A p \in Proc : mtmp[p] = call[Root]
      <4>1. TAKE p \in Proc
      <4>2. mtmp[p] = call[<<0, p>>]
        BY <3>1, RankParts DEF Staged
      <4>3. call[<<0, p>>] = call[Root]
        BY <3>2, RankParts
      <4> QED
        BY <4>2, <4>3
    <3>4. UNCHANGED <<mtmp, call>>
      BY <1>6 DEF PostSync, local
    <3> QED
      BY <3>1, <3>3, <3>4, RankParts DEF Staged
  <2>2. CASE ~ \A r \in Rank : res[r] = 0
    BY <1>6, <2>2, StagedElsewhere DEF PostSync, AllGoto, Exchanging, Committing
  <2> QED
    BY <2>1, <2>2
<1>7. ASSUME RenameSync \/ FlushSync \/ FinSync PROVE Staged'
  BY <1>7, StagedElsewhere DEF RenameSync, FlushSync, FinSync, AllGoto, Exchanging, Committing
<1>8. ASSUME NEW p \in Proc, NEW l \in {2, 3}, NEW bad \in SUBSET Node, Exchange(p, l, bad)
      PROVE  Staged'
  <2>1. UNCHANGED <<mtmp, call, lvel>>
    BY <1>8 DEF Exchange
  <2>2. \A q \in Rank : pc'[q] = IF q[2] = p THEN "posted" ELSE pc[q]
    BY <1>8 DEF Exchange
  <2>3. \A q \in Rank : q[2] = p => pc[q] = "post"
    BY <1>8, RankParts DEF Exchange, At, Group, Rank
  <2> QED
    BY <2>1, <2>2, <2>3, RankParts, StagedKept DEF Replaceable
<1>9. ASSUME BootFresh \/ BootRecover \/ SkipLevel \/ TryLocal \/ TryGlobal \/ CheckGlobal \/ RecoverSync
      PROVE  Staged'
  <2>1. \A q \in Rank : pc'[q] \in Recovering \cup {"run", "restore"}
    BY <1>9 DEF BootFresh, BootRecover, SkipLevel, TryLocal, TryGlobal, CheckGlobal, RecoverSync,
                NextLevel, NotRecovered, Check, RecoverEntry, AllGoto, Recovering
  <2> QED
    BY <2>1, StagedElsewhere DEF Recovering, Exchanging, Committing
<1>10. ASSUME Environment PROVE Staged'
  <2>1. \A q \in Rank : pc'[q] = "down"
    BY <1>10 DEF Environment, Relaunch, Crash, Reset
  <2> QED
    BY <2>1, StagedElsewhere DEF Exchanging, Committing
<1>11. ASSUME UNCHANGED vars PROVE Staged'
  BY <1>11 DEF Staged, vars, local
<1> QED
  BY <1>1, <1>2, <1>3, <1>4, <1>5, <1>6, <1>7, <1>8, <1>9, <1>10, <1>11 DEF Next, Sync, Ended

\* Removing metadata keeps the order.
LEMMA ShrinkOrder ==
  ASSUME LevelOrder, \A l \in 1 .. 4, p \in Proc : meta'[l][p] \in {meta[l][p], NoCall}
  PROVE  LevelOrder'
BY DEF LevelOrder

\* Removing metadata keeps what is known of it, as long as splitRank 0 stays in
\* its call and gets no further in it.
LEMMA ShrinkNewest ==
  ASSUME ControlOK, Newest, \A l \in 1 .. 4, p \in Proc : meta'[l][p] \in {meta[l][p], NoCall},
         call'[Root] = call[Root],
         pc'[Root] \in Uncommitted => pc[Root] \in Uncommitted,
         pc'[Root] \in Replaceable => pc[Root] \in Replaceable /\ lvel'[Root] = lvel[Root]
  PROVE  Newest'
<1>1. call[Root] \in Nat
  BY RankParts, IndexType DEF ControlOK
<1>2. \A l \in 1 .. 4, p \in Proc : /\ meta'[l][p] <= call[Root]
                                    /\ pc[Root] \in Uncommitted => meta'[l][p] < call[Root]
                                    /\ pc[Root] \in Replaceable /\ l <= lvel[Root] => meta'[l][p] = NoCall
  <2> TAKE l \in 1 .. 4, p \in Proc
  <2>1. CASE meta'[l][p] = meta[l][p]
    BY <2>1 DEF Newest
  <2>2. CASE meta'[l][p] = NoCall
    <3>1. meta[l][p] \in Nat
      BY IndexType DEF ControlOK
    <3>2. meta[l][p] <= call[Root] /\ (pc[Root] \in Uncommitted => meta[l][p] < call[Root])
      BY DEF Newest
    <3> QED
      BY <1>1, <2>2, <3>1, <3>2 DEF NoCall
  <2> QED
    BY <2>1, <2>2
<1> QED
  BY <1>2 DEF Newest

\* FTI_Clean only removes.
LEMMA CleanShrinks ==
  ASSUME ControlOK, NEW r \in Rank, NEW L, CleanLevels(r, L)
  PROVE  \A l \in 1 .. 4, p \in Proc : meta'[l][p] \in {meta[l][p], NoCall}
BY DEF CleanLevels, NoMeta

\* The newest checkpoint and the order of the levels in a step of the application.
LEMMA OrderApp ==
  ASSUME TypeInv, OrderInv, NEW r \in Rank, AppStep(r)
  PROVE  Newest' /\ LevelOrder'
<1>1. PICK c, id, l : /\ Enter(r, c, id, l)
                      /\ c = call[r] + 1
  BY DEF AppStep, Follow, Issue
<1>2. UNCHANGED meta /\ call' = [call EXCEPT ![r] = c]
  BY <1>1 DEF Enter
<1>3. LevelOrder'
  BY <1>2, ShrinkOrder DEF OrderInv
<1>4. CASE r = Root
  <2>1. call[Root] \in Nat /\ call'[Root] = call[Root] + 1
    BY <1>1, <1>2, <1>4, RankParts, IndexType DEF TypeInv, ControlOK
  <2>2. pc'[Root] \notin Replaceable
    BY <1>1, <1>4, RankParts DEF Enter, Goto, TypeInv, ControlOK, FinalizeEntry, Replaceable
  <2>3. \A l1 \in 1 .. 4, p \in Proc : meta[l1][p] <= call[Root] /\ meta[l1][p] \in Nat
    BY IndexType DEF OrderInv, Newest, TypeInv, ControlOK
  <2> QED
    BY <1>2, <1>3, <2>1, <2>2, <2>3 DEF Newest
<1>5. CASE r # Root
  <2>1. call'[Root] = call[Root] /\ pc'[Root] = pc[Root] /\ lvel'[Root] = lvel[Root]
    BY <1>1, <1>2, <1>5, RankParts DEF Enter, Goto, TypeInv, ControlOK
  <2> QED
    BY <1>2, <1>3, <2>1, ShrinkNewest DEF OrderInv, TypeInv
<1> QED
  BY <1>4, <1>5

\* A step of one process that stays in its call and only removes metadata.
LEMMA OrderLocal ==
  ASSUME TypeInv, OrderInv, NEW r \in Rank, NEW l, Goto(r, l), UNCHANGED <<call, lvel>>,
         \A i \in 1 .. 4, p \in Proc : meta'[i][p] \in {meta[i][p], NoCall},
         l \in Uncommitted => pc[r] \in Uncommitted,
         l \in Replaceable => pc[r] \in Replaceable
  PROVE  Newest' /\ LevelOrder'
<1>1. \A q \in Rank : pc'[q] = IF q = r THEN l ELSE pc[q]
  BY DEF TypeInv, ControlOK, Goto
<1> QED
  BY <1>1, RankParts, ShrinkNewest, ShrinkOrder DEF OrderInv, TypeInv

\* The commit: the new checkpoint is newer than all, and the levels below are empty.
LEMMA OrderCommit ==
  ASSUME TypeInv, OrderInv, NEW r \in Rank, RenameMeta(r)
  PROVE  Newest' /\ LevelOrder'
<1> DEFINE m == lvel[Root]
<1>1. /\ r = Root /\ pc[Root] = "renameMeta" /\ m \in 1 .. 4
      /\ \A p \in Proc : mtmp[p] = call[Root]
  BY RankParts DEF RenameMeta, At, OrderInv, LevelAt, Staged, Committing, Replaceable
<1>2. /\ meta' = [meta EXCEPT ![m] = mtmp]
      /\ call' = call
      /\ pc'[Root] = "renamed"
  BY <1>1, RankParts DEF RenameMeta, Goto, local, TypeInv, ControlOK
<1>3. \A l \in 1 .. 4, p \in Proc :
        /\ meta[l][p] < call[Root] /\ meta[l][p] \in Nat
        /\ l <= m => meta[l][p] = NoCall
  <2>1. pc[Root] \in Uncommitted /\ pc[Root] \in Replaceable
    BY <1>1 DEF Uncommitted, Replaceable
  <2> QED
    BY <2>1, CallNat DEF OrderInv, Newest
<1>4. \A l \in 1 .. 4, p \in Proc : meta'[l][p] = IF l = m THEN call[Root] ELSE meta[l][p]
  BY <1>1, <1>2 DEF TypeInv, ControlOK
<1>5. call[Root] \in Nat
  BY RankParts, IndexType DEF TypeInv, ControlOK
<1> HIDE DEF m
<1>6. Newest'
  BY <1>2, <1>3, <1>4, <1>5 DEF Newest, Uncommitted, Replaceable, Exchanging
<1>7. LevelOrder'
  <2> SUFFICES ASSUME ~KeepLast, NEW i \in 1 .. 4, NEW j \in 1 .. 4, NEW p \in Proc,
                      i < j, meta'[i][p] # NoCall, meta'[j][p] # NoCall
               PROVE  meta'[i][p] > meta'[j][p]
    BY DEF LevelOrder
  <2>1. CASE i = m
    BY <1>3, <1>4, <1>5, <2>1
  <2>2. CASE j = m
    BY <1>1, <1>3, <1>4, <2>2
  <2>3. CASE i # m /\ j # m
    BY <1>4, <2>3 DEF OrderInv, LevelOrder
  <2> QED
    BY <2>1, <2>2, <2>3
<1> QED
  BY <1>6, <1>7

\* The newest checkpoint and the order of the levels within FTI_Checkpoint.
LEMMA OrderCkpt ==
  ASSUME TypeInv, OrderInv, NEW r \in Rank, CkptStep(r)
  PROVE  Newest' /\ LevelOrder'
<1>1. ASSUME NEW bad \in BOOLEAN, Write(r, bad) PROVE Newest' /\ LevelOrder'
  BY <1>1, OrderLocal DEF Write, At, Uncommitted, Replaceable
<1>2. ASSUME NEW bad \in BOOLEAN, CreateMetadata(r, bad) PROVE Newest' /\ LevelOrder'
  <2>1. UNCHANGED <<call, meta>> /\ pc[r] = "meta"
    BY <1>2 DEF CreateMetadata, At
  <2>2. \A q \in Rank : pc'[q] = IF q = r THEN "post" ELSE pc[q]
    BY <1>2 DEF CreateMetadata, Goto, TypeInv, ControlOK
  <2>3. Together(Exchanging)
    BY <2>1, WhereAll DEF TypeInv, Exchanging
  <2>4. pc[Root] \in Uncommitted /\ pc'[Root] \notin Replaceable
    BY <2>2, <2>3, RankParts DEF Together, Exchanging, Uncommitted, Replaceable
  <2> QED
    BY <2>1, <2>4, ShrinkNewest, ShrinkOrder DEF OrderInv, TypeInv
<1>3. ASSUME NEW v \in {0, 1}, PostLocal(r, v) PROVE Newest' /\ LevelOrder'
  BY <1>3, OrderLocal DEF PostLocal, At, Uncommitted, Replaceable, Exchanging
<1>4. ASSUME Discard(r) PROVE Newest' /\ LevelOrder'
  BY <1>4, OrderLocal DEF Discard, At, Uncommitted, Replaceable, Exchanging, local
<1>5. ASSUME Clean(r) PROVE Newest' /\ LevelOrder'
  <2>1. UNCHANGED <<call, lvel>> /\ CleanLevels(r, Cleaned(lvel[r])) /\ pc[r] = "clean"
    BY <1>5 DEF Clean, local, At
  <2>2. \A q \in Rank : pc'[q] = IF q = r THEN IF NodeFlag(r) THEN "rename" ELSE "renamed" ELSE pc[q]
    BY <1>5 DEF Clean, Goto, TypeInv, ControlOK
  <2>3. \A i \in 1 .. 4, p \in Proc : meta'[i][p] \in {meta[i][p], NoCall}
    BY <2>1, CleanShrinks DEF TypeInv
  <2>4. LevelOrder'
    BY <2>3, ShrinkOrder DEF OrderInv
  <2>5. CASE r = Root
    <3>1. lvel[Root] \in 1 .. 4
      BY <2>1, <2>5, RankParts DEF OrderInv, LevelAt, Committing
    <3>2. \A l \in 1 .. 4, p \in Proc : l <= lvel[Root] => meta'[l][p] = NoCall
      BY <2>1, <2>5, <3>1 DEF CleanLevels, Cleaned, NoMeta
    <3>3. call[Root] \in Nat /\ \A l \in 1 .. 4, p \in Proc : meta[l][p] \in Nat
      BY CallNat
    <3>4. \A l \in 1 .. 4, p \in Proc : meta[l][p] < call[Root]
      BY <2>1, <2>5 DEF OrderInv, Newest, Uncommitted
    <3>5. \A l \in 1 .. 4, p \in Proc : meta'[l][p] < call[Root] /\ meta'[l][p] <= call[Root]
      BY <2>3, <3>3, <3>4 DEF NoCall
    <3> QED
      BY <2>1, <2>4, <3>2, <3>5 DEF Newest
  <2>6. CASE r # Root
    BY <2>1, <2>2, <2>3, <2>4, <2>6, RankParts, ShrinkNewest DEF OrderInv, TypeInv
  <2> QED
    BY <2>5, <2>6
<1>6. ASSUME Rename(r) \/ RenameGlobal(r) PROVE Newest' /\ LevelOrder'
  <2>1. UNCHANGED <<call, lvel, meta>> /\ pc[r] \in Replaceable
    BY <1>6 DEF Rename, RenameGlobal, local, At, Replaceable
  <2>2. \E l : Goto(r, l)
    BY <1>6 DEF Rename, RenameGlobal
  <2>3. pc[r] \in Uncommitted
    BY <2>1 DEF Uncommitted
  <2> QED
    BY <2>1, <2>2, <2>3, OrderLocal
<1>7. ASSUME RenameMeta(r) PROVE Newest' /\ LevelOrder'
  BY <1>7, OrderCommit
<1>8. ASSUME Return(r) PROVE Newest' /\ LevelOrder'
  BY <1>8, OrderLocal DEF Return, Uncommitted, Replaceable, Exchanging
<1> QED
  BY <1>1, <1>2, <1>3, <1>4, <1>5, <1>6, <1>7, <1>8 DEF CkptStep

\* The newest checkpoint and the order of the levels within FTI_Finalize.
LEMMA OrderFin ==
  ASSUME TypeInv, OrderInv, NEW r \in Rank, FinStep(r)
  PROVE  Newest' /\ LevelOrder'
<1>1. UNCHANGED <<call, lvel>>
  BY DEF FinStep, Flush, FinRemoveL4, FinRenameL4, FinRemoveMeta, FinRenameMeta, FinUpdateConf,
         FinClean, DropConf, Drop, local
<1>2. \E l \in Finishing : Goto(r, l)
  BY DEF FinStep, Flush, FinRemoveL4, FinRenameL4, FinRemoveMeta, FinRenameMeta, FinUpdateConf,
         FinClean, DropConf, Drop, Finishing
<1>3. Finishing \cap (Uncommitted \cup Replaceable) = {}
  BY DEF Finishing, Uncommitted, Replaceable, Exchanging
<1>4. CASE \A l \in 1 .. 4, p \in Proc : meta'[l][p] \in {meta[l][p], NoCall}
  BY <1>1, <1>2, <1>3, <1>4, OrderLocal
<1>5. CASE FinRenameMeta(r)
  <2>1. pc[r] = "mvMeta" /\ KeepLast
    BY <1>5 DEF FinRenameMeta, At, OrderInv, LevelAt
  <2>2. LevelOrder'
    BY <2>1 DEF LevelOrder
  <2>3. Apart
    BY <2>1, WhereAll DEF TypeInv, Ahead, Finishing
  <2>4. pc[Root] \notin Replaceable
    BY <2>3, RankParts DEF Apart, Behind, Ahead, Finishing, Replaceable
  <2>5. \A q \in Rank : pc'[q] = IF q = r THEN "finConf" ELSE pc[q]
    BY <1>5 DEF FinRenameMeta, Goto, TypeInv, ControlOK
  <2>6. \A l \in 1 .. 4, p \in Proc :
          \E i \in 1 .. 4 : meta'[l][p] \in {meta[i][p], NoCall}
    <3>1. CASE lvel[r] \in 1 .. 3
      <4>1. meta' = [meta EXCEPT ![4] = meta[lvel[r]], ![lvel[r]] = NoMeta]
        BY <1>5, <3>1 DEF FinRenameMeta
      <4>2. \A l \in 1 .. 4, p \in Proc :
              meta'[l][p] = IF l = lvel[r] THEN NoCall
                            ELSE IF l = 4 THEN meta[lvel[r]][p] ELSE meta[l][p]
        BY <3>1, <4>1 DEF NoMeta, TypeInv, ControlOK
      <4> QED
        BY <3>1, <4>2
    <3>2. CASE lvel[r] \notin 1 .. 3
      BY <1>5, <3>2 DEF FinRenameMeta
    <3> QED
      BY <3>1, <3>2
  <2>7. call[Root] \in Nat /\ \A l \in 1 .. 4, p \in Proc : meta[l][p] \in Nat
    BY CallNat
  <2>8. \A l \in 1 .. 4, p \in Proc :
          meta[l][p] <= call[Root] /\ (pc[Root] \in Uncommitted => meta[l][p] < call[Root])
    BY DEF OrderInv, Newest
  <2>9. ASSUME NEW l \in 1 .. 4, NEW p \in Proc
        PROVE  meta'[l][p] <= call[Root] /\ (pc[Root] \in Uncommitted => meta'[l][p] < call[Root])
    <3>1. PICK i \in 1 .. 4 : meta'[l][p] \in {meta[i][p], NoCall}
      BY <2>6
    <3>2. CASE meta'[l][p] = meta[i][p]
      BY <2>8, <3>2
    <3>3. CASE meta'[l][p] = NoCall
      BY <2>7, <2>8, <3>3 DEF NoCall
    <3> QED
      BY <3>1, <3>2, <3>3
  <2>10. pc'[Root] \in Uncommitted => pc[Root] \in Uncommitted
    BY <2>5, RankParts DEF Uncommitted, Replaceable, Exchanging
  <2>11. pc'[Root] \notin Replaceable
    BY <2>4, <2>5, RankParts DEF Replaceable
  <2> QED
    BY <1>1, <2>2, <2>9, <2>10, <2>11 DEF Newest
<1>6. CASE ~FinRenameMeta(r)
  <2>1. ASSUME NEW L, CleanLevels(r, L)
        PROVE  \A l \in 1 .. 4, p \in Proc : meta'[l][p] \in {meta[l][p], NoCall}
    BY <2>1, CleanShrinks DEF TypeInv
  <2>2. FinRemoveMeta(r) => \A l \in 1 .. 4, p \in Proc : meta'[l][p] \in {meta[l][p], NoCall}
    BY DEF FinRemoveMeta, NoMeta, TypeInv, ControlOK
  <2>3. \A l \in 1 .. 4, p \in Proc : meta'[l][p] \in {meta[l][p], NoCall}
    BY <1>6, <2>1, <2>2 DEF FinStep, Flush, FinRemoveL4, FinRenameL4, FinUpdateConf, FinClean,
                            DropConf, Drop
  <2> QED
    BY <1>4, <2>3
<1> QED
  BY <1>5, <1>6

\* The newest checkpoint and the order of the levels while a process recovers.
LEMMA OrderRecover ==
  ASSUME TypeInv, OrderInv, NEW r \in Rank, RecoverStep(r)
  PROVE  Newest' /\ LevelOrder'
<1>1. UNCHANGED <<call, lvel>>
  BY DEF RecoverStep, CleanL1, FixOwn, FixCopy, DecodeOpen, Decode, Fetch, Recover, local
<1>2. \E l \in Recovering \cup {"run"} : Goto(r, l)
  BY DEF RecoverStep, CleanL1, FixOwn, FixCopy, DecodeOpen, Decode, Fetch, Recover, Recovering
<1>3. (Recovering \cup {"run"}) \cap (Uncommitted \cup Replaceable) = {}
  BY DEF Recovering, Uncommitted, Replaceable, Exchanging
<1>4. \A l \in 1 .. 4, p \in Proc : meta'[l][p] \in {meta[l][p], NoCall}
  BY CleanShrinks DEF RecoverStep, CleanL1, FixOwn, FixCopy, DecodeOpen, Decode, Fetch, Recover,
                      TypeInv
<1> QED
  BY <1>1, <1>2, <1>3, <1>4, OrderLocal

\* Where splitRank 0 is after a collective of FTI_Init.
LEMMA BootTo ==
  ASSUME BootFresh \/ BootRecover \/ SkipLevel \/ TryLocal \/ TryGlobal \/ CheckGlobal \/ RecoverSync
  PROVE  pc'[Root] \in Recovering \cup {"run", "restore"}
<1>1. Root \in Rank
  BY RankParts
<1>2. ASSUME NextLevel PROVE pc'[Root] \in {"try", "run"}
  BY <1>1, <1>2 DEF NextLevel, NotRecovered, AllGoto
<1>3. ASSUME NEW l, Check(l) PROVE pc'[Root] \in {"recovered", "fixOwn", "fixCopy", "decodeOpen", "fetch"}
  BY <1>1, <1>3 DEF Check, RecoverEntry
<1>4. CASE BootFresh \/ BootRecover \/ TryGlobal
  BY <1>1, <1>4 DEF BootFresh, BootRecover, TryGlobal, AllGoto, Recovering
<1>5. CASE SkipLevel
  BY <1>2, <1>5 DEF SkipLevel, Recovering
<1>6. CASE TryLocal \/ CheckGlobal
  BY <1>3, <1>6 DEF TryLocal, CheckGlobal, Recovering
<1>7. CASE RecoverSync
  BY <1>1, <1>2, <1>7 DEF RecoverSync, AllGoto, Recovering
<1> QED
  BY <1>4, <1>5, <1>6, <1>7

\* The newest checkpoint and the order of the levels in the steps taken together.
LEMMA OrderSync ==
  ASSUME TypeInv, OrderInv, Sync
  PROVE  Newest' /\ LevelOrder'
<1>1. \A l \in 1 .. 4, p \in Proc : meta'[l][p] \in {meta[l][p], NoCall}
  BY DEF Sync, WriteSync, PostSync, RenameSync, FlushSync, FinSync, Exchange, BootFresh, BootRecover,
         SkipLevel, TryLocal, TryGlobal, CheckGlobal, RecoverSync, NoMeta
<1>2. UNCHANGED call
  BY DEF Sync, WriteSync, PostSync, RenameSync, FlushSync, FinSync, Exchange, BootFresh, BootRecover,
         SkipLevel, TryLocal, TryGlobal, CheckGlobal, RecoverSync, NextLevel, local
<1>3. pc'[Root] \in Uncommitted => pc[Root] \in Uncommitted
  <2>1. CASE WriteSync \/ PostSync \/ RenameSync \/ FlushSync \/ FinSync
    BY <2>1, RankParts DEF WriteSync, PostSync, RenameSync, FlushSync, FinSync, AllAt, AllGoto,
                           Uncommitted, Exchanging, Replaceable
  <2>2. ASSUME NEW p \in Proc, NEW l \in {2, 3}, NEW bad \in SUBSET Node, Exchange(p, l, bad)
        PROVE  pc'[Root] \in Uncommitted => pc[Root] \in Uncommitted
    <3>1. pc'[Root] = IF Root[2] = p THEN "posted" ELSE pc[Root]
      BY <2>2, RankParts DEF Exchange
    <3>2. Root[2] = p => pc[Root] = "post"
      BY <2>2, SizesAssumption DEF Exchange, Group, Node, At, Root
    <3> QED
      BY <3>1, <3>2 DEF Uncommitted, Exchanging
  <2>3. CASE BootFresh \/ BootRecover \/ SkipLevel \/ TryLocal \/ TryGlobal \/ CheckGlobal \/ RecoverSync
    <3>1. pc'[Root] \in Recovering \cup {"run", "restore"}
      BY <2>3, BootTo
    <3> QED
      BY <3>1 DEF Recovering, Uncommitted, Exchanging, Replaceable
  <2> QED
    BY <2>1, <2>2, <2>3 DEF Sync
<1>4. pc'[Root] \in Replaceable => pc[Root] \in Replaceable /\ lvel'[Root] = lvel[Root]
  <2>1. CASE WriteSync \/ PostSync \/ RenameSync \/ FlushSync \/ FinSync
    BY <2>1, RankParts DEF WriteSync, PostSync, RenameSync, FlushSync, FinSync, AllGoto, Replaceable
  <2>2. ASSUME NEW p \in Proc, NEW l \in {2, 3}, NEW bad \in SUBSET Node, Exchange(p, l, bad),
               pc'[Root] \in Replaceable
        PROVE  pc[Root] \in Replaceable /\ lvel'[Root] = lvel[Root]
    BY <2>2, RankParts DEF Exchange, Replaceable
  <2>3. CASE BootFresh \/ BootRecover \/ SkipLevel \/ TryLocal \/ TryGlobal \/ CheckGlobal \/ RecoverSync
    <3>1. pc'[Root] \in Recovering \cup {"run", "restore"}
      BY <2>3, BootTo
    <3> QED
      BY <3>1 DEF Recovering, Replaceable
  <2> QED
    BY <2>1, <2>2, <2>3 DEF Sync
<1> QED
  BY <1>1, <1>2, <1>3, <1>4, ShrinkNewest, ShrinkOrder DEF OrderInv, TypeInv

\* The newest checkpoint and the order of the levels survive crashes.
LEMMA OrderEnvironment ==
  ASSUME TypeInv, OrderInv, Environment
  PROVE  Newest' /\ LevelOrder'
<1>1. UNCHANGED meta /\ call' = [r \in Rank |-> Len(calls)] /\ pc'[Root] = "down"
  BY RankParts DEF Environment, Relaunch, Crash, Reset
<1>2. \A l \in 1 .. 4, p \in Proc : meta[l][p] <= Len(calls)
  BY DEF TypeInv, ControlOK, Index
<1>3. Newest'
  BY <1>1, <1>2, RankParts DEF Newest, Uncommitted, Replaceable, Exchanging
<1> QED
  BY <1>1, <1>3, ShrinkOrder DEF OrderInv

\* OrderInv is inductive relative to TypeInv.
LEMMA OrderStep ==
  ASSUME 0 \notin UninitRes, TypeInv, OrderInv, [Next]_vars
  PROVE  OrderInv'
<1>1. (\A r \in Rank : LevelAt(r)') /\ Staged'
  BY StepLevel, StepStaged DEF OrderInv, TypeInv
<1>2. Newest' /\ LevelOrder'
  <2>1. ASSUME UNCHANGED vars PROVE Newest' /\ LevelOrder'
    BY <2>1 DEF OrderInv, Newest, LevelOrder, vars, local
  <2> QED
    BY <2>1, OrderApp, OrderCkpt, OrderFin, OrderRecover, OrderSync, OrderEnvironment DEF Next, Ended
<1> QED
  BY <1>1, <1>2 DEF OrderInv

\* Whenever two levels have metadata, the lower one describes the newer checkpoint:
\* taking the lowest level that works, FTI_RecoverFiles never prefers an older
\* checkpoint to a newer one it could have had.  This holds through failed
\* attempts, retries, crashes in the middle of a commit and recoveries, for
\* compilers that do not read 0 from the uninitialised res of FTI_PostCkpt.
THEOREM LevelsOrdered ==
  ASSUME 0 \notin UninitRes
  PROVE  Spec => []LevelOrder
<1>1. Init => TypeInv /\ OrderInv
  <2>1. Init => OrderInv
    BY RankParts DEF Init, OrderInv, LevelAt, Staged, Newest, LevelOrder, NoMeta, NoCall,
       Exchanging, Committing, Replaceable, Uncommitted
  <2> QED
    BY <2>1, TypeInit
<1>2. TypeInv /\ OrderInv /\ [Next]_vars => (TypeInv /\ OrderInv)'
  BY TypeStep, OrderStep
<1>3. OrderInv => LevelOrder
  BY DEF OrderInv
<1> QED
  BY <1>1, <1>2, <1>3, PTL DEF Spec

(***************************************************************************)
(* The restart flag, when no call of FTI_Checkpoint fails.                 *)
(***************************************************************************)

Checkpointing == {"write", "wrote", "return"} \cup Exchanging \cup Committing

\* No call fails, and only splitRank 0 takes the flag away.
Passing(r) ==
  /\ pc[r] # "discard"
  /\ pc[r] \in {"wrote", "posted"} => res[r] = 0
  /\ pc[r] \in {"write", "wrote"} \cup Exchanging => lvel[r] # Rejected
  /\ pc[r] = "dropConf" => r = Root

\* The ids that FTI_Snapshot gives begin at 1.
IdsInv ==
  /\ \A i \in 1 .. Len(calls) : calls[i].id # 0
  /\ \A r \in Rank : mem[r].cnt # 0

\* Where splitRank 0 has an id the flag is set, or it is in its first
\* checkpoint, or has taken the flag away.
RootFlag ==
  /\ pc[Root] \in Checkpointing => mem[Root].id # 0
  /\ mem[Root].id # 0 => \/ conf # 0
                         \/ mem[Root].first /\ pc[Root] \in Checkpointing
                         \/ pc[Root] \in {"drop", "finished", "done"}
  /\ pc[Root] \in Recovering \cup {"restore"} => conf # 0
  /\ pc[Root] = "down" => mem[Root].id = 0
  /\ KeepLast /\ pc[Root] \in {"dropConf", "drop"} => mem[Root].id = 0

\* A process that has yet to come back from a checkpoint finds splitRank 0 in
\* it, or the flag set, or no longer wanted.
Trailing ==
  \A r \in Rank : pc[r] = "return" /\ pc[Root] # "return" =>
    /\ mem[Root].id # 0
    /\ conf # 0 \/ (~KeepLast /\ pc[Root] \in {"drop", "finished"})

FlagInv == (\A r \in Rank : Passing(r)) /\ IdsInv /\ RootFlag /\ Trailing /\ RestartFlag

LEMMA PassingLocal ==
  ASSUME ControlOK, \A q \in Rank : Passing(q), NEW r \in Rank, NEW l, Goto(r, l),
         \A q \in Rank \ {r} : lvel'[q] = lvel[q] /\ res'[q] = res[q], Passing(r)'
  PROVE  \A q \in Rank : Passing(q)'
<1>1. \A q \in Rank \ {r} : pc'[q] = pc[q]
  BY DEF ControlOK, Goto
<1> QED
  BY <1>1 DEF Passing

\* The call that a process follows is one that was issued.
LEMMA FollowIndex ==
  ASSUME ControlOK, NEW r \in Rank, Follow(r)
  PROVE  call[r] + 1 \in 1 .. Len(calls)
<1>1. call[r] \in Index
  BY DEF ControlOK
<1>2. call[r] < Len(calls)
  BY DEF Follow
<1>3. Len(calls) \in Nat
  BY DEF ControlOK
<1> QED
  BY <1>1, <1>2, <1>3 DEF Index

\* A call is entered at a level that the application may ask for ...
LEMMA PassingApp ==
  ASSUME ControlOK, \A q \in Rank : Passing(q), NEW r \in Rank, AppStep(r)
  PROVE  \A q \in Rank : Passing(q)'
<1>1. PICK c, id, l : Enter(r, c, id, l) /\ l \in 0 .. 4
  <2>1. CASE Follow(r)
    <3>1. call[r] + 1 \in 1 .. Len(calls)
      BY <2>1, FollowIndex
    <3>2. calls[call[r] + 1].lvl \in 0 .. 4
      BY <3>1, CallType
    <3> QED
      BY <2>1, <3>2 DEF Follow
  <2>2. ASSUME NEW l \in CallLevels \cup {Finalize}, Issue(r, l)
        PROVE  \E c, id, k : Enter(r, c, id, k) /\ k \in 0 .. 4
    <3>1. l \in 0 .. 4
      BY LevelsAssumption DEF Finalize
    <3> QED
      BY <2>2, <3>1 DEF Issue
  <2> QED
    BY <2>1, <2>2 DEF AppStep
<1>2. CASE l = Finalize
  <2>1. Goto(r, FinalizeEntry(r)) /\ UNCHANGED <<lvel, res>>
    BY <1>1, <1>2 DEF Enter
  <2>2. Passing(r)'
    BY <2>1 DEF Passing, FinalizeEntry, Goto, ControlOK, Exchanging
  <2> QED
    BY <2>1, <2>2, PassingLocal
<1>3. CASE l # Finalize
  <2>1. Goto(r, "write") /\ lvel' = [lvel EXCEPT ![r] = l] /\ UNCHANGED res
    BY <1>1, <1>3 DEF Enter
  <2>2. Passing(r)'
    BY <1>1, <2>1 DEF Passing, Goto, ControlOK, Exchanging, Rejected
  <2> QED
    BY <2>1, <2>2, PassingLocal DEF ControlOK
<1> QED
  BY <1>2, <1>3

\* ... and comes through, if neither data nor metadata fail to be written.
LEMMA PassingCkpt ==
  ASSUME Faults \subseteq {"flush"}, ControlOK, \A q \in Rank : Passing(q),
         NEW r \in Rank, CkptStep(r)
  PROVE  \A q \in Rank : Passing(q)'
<1> USE DEF Passing, At, Goto, ControlOK, Exchanging
<1>1. ASSUME NEW bad \in BOOLEAN, Write(r, bad) PROVE Passing(r)'
  BY <1>1 DEF Write, May
<1>2. ASSUME NEW bad \in BOOLEAN, CreateMetadata(r, bad) PROVE Passing(r)'
  BY <1>2 DEF CreateMetadata, May
<1>3. ASSUME NEW v \in {0, 1}, PostLocal(r, v) PROVE Passing(r)'
  BY <1>3 DEF PostLocal
<1>4. ASSUME Discard(r) \/ Clean(r) \/ Rename(r) \/ RenameGlobal(r) \/ RenameMeta(r) \/ Return(r)
      PROVE  Passing(r)'
  BY <1>4 DEF Discard, Clean, Rename, RenameGlobal, RenameMeta, Return
<1>5. Passing(r)'
  BY <1>1, <1>2, <1>3, <1>4 DEF CkptStep
<1>6. \A q \in Rank \ {r} : lvel'[q] = lvel[q] /\ res'[q] = res[q]
  BY DEF CkptStep, Write, CreateMetadata, PostLocal, Discard, Clean, Rename, RenameGlobal,
         RenameMeta, Return, local
<1>7. \E l : Goto(r, l)
  BY DEF CkptStep, Write, CreateMetadata, PostLocal, Discard, Clean, Rename, RenameGlobal,
         RenameMeta, Return
<1> HIDE DEF Passing, At, Goto, ControlOK, Exchanging
<1> QED
  BY <1>5, <1>6, <1>7, PassingLocal

LEMMA PassingElsewhere ==
  ASSUME ControlOK, \A q \in Rank : Passing(q), NEW r \in Rank, FinStep(r) \/ RecoverStep(r)
  PROVE  \A q \in Rank : Passing(q)'
<1>1. UNCHANGED <<lvel, res>>
  BY DEF FinStep, Flush, FinRemoveL4, FinRenameL4, FinRemoveMeta, FinRenameMeta, FinUpdateConf,
         FinClean, DropConf, Drop, RecoverStep, CleanL1, FixOwn, FixCopy, DecodeOpen, Decode,
         Fetch, Recover, local
<1>2. (\E l : Goto(r, l)) /\ Passing(r)'
  <2>1. CASE FinStep(r)
    BY <1>1, <2>1 DEF FinStep, Flush, FinRemoveL4, FinRenameL4, FinRemoveMeta, FinRenameMeta,
       FinUpdateConf, FinClean, DropConf, Drop, At, Goto, Passing, ControlOK, Exchanging
  <2>2. CASE RecoverStep(r)
    BY <1>1, <2>2 DEF RecoverStep, CleanL1, FixOwn, FixCopy, DecodeOpen, Decode, Fetch, Recover,
       At, Goto, Passing, ControlOK, Exchanging
  <2> QED
    BY <2>1, <2>2
<1> QED
  BY <1>1, <1>2, PassingLocal

LEMMA PassingSync ==
  ASSUME Faults \subseteq {"flush"}, ControlOK, \A q \in Rank : Passing(q), Sync \/ Environment
  PROVE  \A q \in Rank : Passing(q)'
<1> TAKE q \in Rank
<1> USE DEF Passing, AllGoto, AllAt, Exchanging, ControlOK
<1>1. CASE WriteSync
  BY <1>1 DEF WriteSync
<1>2. CASE PostSync
  BY <1>2 DEF PostSync
<1>3. CASE RenameSync \/ FlushSync \/ FinSync
  BY <1>3 DEF RenameSync, FlushSync, FinSync
<1>4. ASSUME NEW p \in Proc, NEW l \in {2, 3}, NEW bad \in SUBSET Node, Exchange(p, l, bad)
      PROVE  Passing(q)'
  <2>1. q[2] = p => q \in Group(p)
    BY RankParts DEF Group, Rank
  <2>2. bad = {}
    BY <1>4 DEF Exchange, May
  <2> QED
    BY <1>4, <2>1, <2>2 DEF Exchange, At, Rejected
<1>5. ASSUME pc'[q] \in Recovering \cup {"run", "restore", "down"} PROVE Passing(q)'
  BY <1>5 DEF Recovering
<1>6. CASE BootFresh \/ BootRecover \/ SkipLevel \/ TryLocal \/ TryGlobal \/ CheckGlobal \/ RecoverSync
  BY <1>5, <1>6 DEF BootFresh, BootRecover, SkipLevel, TryLocal, TryGlobal, CheckGlobal, RecoverSync,
                    NextLevel, NotRecovered, Check, RecoverEntry, Recovering
<1>7. CASE Environment
  BY <1>5, <1>7 DEF Environment, Relaunch, Crash, Reset
<1> HIDE DEF Passing, AllGoto, AllAt, Exchanging, ControlOK
<1> QED
  BY <1>1, <1>2, <1>3, <1>4, <1>6, <1>7 DEF Sync

\* The counter of FTI_Snapshot is never 0, and so is no id.
LEMMA IdsStep ==
  ASSUME TypeInv, IdsInv, [Next]_vars
  PROVE  IdsInv'
<1> USE DEF TypeInv
<1>1. ASSUME calls' = calls, \A r \in Rank : mem'[r].cnt # 0 PROVE IdsInv'
  BY <1>1 DEF IdsInv
<1>2. ASSUME calls' = calls, mem' = mem PROVE IdsInv'
  BY <1>1, <1>2 DEF IdsInv
<1>3. ASSUME NEW r \in Rank, AppStep(r) PROVE IdsInv'
  <2>1. \A q \in Rank : mem'[q].cnt = mem[q].cnt
    <3>1. PICK c, id, l : Enter(r, c, id, l)
      BY <1>3 DEF AppStep, Follow, Issue
    <3> DEFINE fst == (mem[r].id = 0)
    <3>2. mem' = mem \/ mem' = [mem EXCEPT ![r] = [[mem[r] EXCEPT !.first = fst] EXCEPT !.id = id]]
      BY <3>1 DEF Enter
    <3> HIDE DEF fst
    <3>3. mem \in [Rank -> [last : Level, id : Nat, cnt : Nat, first : BOOLEAN]]
      BY DEF ControlOK
    <3>4. [[mem[r] EXCEPT !.first = fst] EXCEPT !.id = id].cnt = mem[r].cnt
      BY <3>3
    <3> QED
      BY <3>2, <3>3, <3>4
  <2>2. CASE Follow(r)
    BY <1>1, <2>1, <2>2 DEF Follow, IdsInv
  <2>3. ASSUME NEW l \in CallLevels \cup {Finalize}, Issue(r, l) PROVE IdsInv'
    <3>1. PICK c : c = [id |-> mem[r].cnt, lvl |-> l]
      OBVIOUS
    <3>2. calls' = Append(calls, c) /\ c.id # 0
      BY <2>3, <3>1 DEF Issue, IdsInv
    <3>3. \A i \in 1 .. Len(calls') : calls'[i] = IF i <= Len(calls) THEN calls[i] ELSE c
      BY <3>2 DEF ControlOK
    <3>4. \A i \in 1 .. Len(calls') : i <= Len(calls) => i \in 1 .. Len(calls)
      BY IndexType
    <3> QED
      BY <2>1, <3>2, <3>3, <3>4 DEF IdsInv
  <2> QED
    BY <1>3, <2>2, <2>3 DEF AppStep
<1>4. ASSUME NEW r \in Rank, CkptStep(r) PROVE IdsInv'
  <2>1. CASE Return(r)
    <3>1. mem' = [mem EXCEPT ![r] = [[mem[r] EXCEPT !.last = lvel[r]] EXCEPT !.cnt = mem[r].cnt + 1]]
          /\ calls' = calls
      BY <2>1 DEF Return
    <3>2. mem[r].cnt \in Nat
      BY DEF ControlOK
    <3>3. \A q \in Rank : mem'[q].cnt = IF q = r THEN mem[r].cnt + 1 ELSE mem[q].cnt
      BY <3>1 DEF ControlOK
    <3> QED
      BY <1>1, <3>1, <3>2, <3>3 DEF IdsInv
  <2>2. CASE ~Return(r)
    BY <1>2, <1>4, <2>2 DEF CkptStep, Write, CreateMetadata, PostLocal, Discard, Clean, Rename,
       RenameGlobal, RenameMeta, local
  <2> QED
    BY <2>1, <2>2
<1>5. ASSUME NEW r \in Rank, FinStep(r) \/ RecoverStep(r) PROVE IdsInv'
  BY <1>2, <1>5 DEF FinStep, Flush, FinRemoveL4, FinRenameL4, FinRemoveMeta, FinRenameMeta,
     FinUpdateConf, FinClean, DropConf, Drop, RecoverStep, CleanL1, FixOwn, FixCopy, DecodeOpen,
     Decode, Fetch, Recover, local
<1>6. CASE RecoverSync
  <2>1. CASE \E r \in Rank : res[r] # 0
    BY <1>2, <1>6, <2>1 DEF RecoverSync, NextLevel
  <2>2. CASE \A r \in Rank : res[r] = 0
    <3>1. /\ calls' = calls
          /\ \A r \in Rank : mem'[r].cnt = calls[meta[rlevel][r[2]]].id + 1
      BY <1>6, <2>2 DEF RecoverSync
    <3>2. \A r \in Rank : calls[meta[rlevel][r[2]]].id \in Nat
      <4>1. MetaExists(rlevel) /\ rlevel \in 1 .. 4
        BY <1>6, RankParts DEF RecoverSync, Checked, AllAt, Recovering, ControlOK
      <4> QED
        BY <4>1, MetaNamesCall, RankParts
    <3> QED
      BY <1>1, <3>1, <3>2
  <2> QED
    BY <2>1, <2>2
<1>7. CASE Sync /\ ~RecoverSync
  BY <1>2, <1>7 DEF Sync, WriteSync, PostSync, RenameSync, FlushSync, FinSync, Exchange, BootFresh,
     BootRecover, SkipLevel, NextLevel, TryLocal, TryGlobal, CheckGlobal, local
<1>8. CASE Environment
  BY <1>1, <1>8 DEF Environment, Relaunch, Crash, Reset
<1>9. CASE UNCHANGED vars
  BY <1>2, <1>9 DEF vars, local
<1> QED
  BY <1>3, <1>4, <1>5, <1>6, <1>7, <1>8, <1>9 DEF Next, Ended

\* What a step of another process than splitRank 0 leaves of the flag.
LEMMA FlagOthers ==
  ASSUME ControlOK, FlagInv, NEW r \in Rank, r # Root, NEW l, Goto(r, l), l # "return",
         mem'[Root] = mem[Root], acked' = acked, conf' = conf \/ conf' = 2
  PROVE  RootFlag' /\ Trailing' /\ RestartFlag'
<1>1. pc'[Root] = pc[Root] /\ \A q \in Rank : pc'[q] = "return" => pc[q] = "return"
  BY RankParts DEF ControlOK, Goto
<1> QED
  BY <1>1 DEF FlagInv, RootFlag, Trailing, RestartFlag

\* What a step of splitRank 0 leaves of it that neither ends nor begins a call.
LEMMA FlagRoot ==
  ASSUME ControlOK, FlagInv, NEW l, Goto(Root, l), mem'[Root] = mem[Root], acked' = acked, 
         conf' = conf \/ conf' = 2,
         pc[Root] # "return", l \notin {"return", "down", "dropConf", "drop"},
         l \in Checkpointing <=> pc[Root] \in Checkpointing,
         l \in Recovering \cup {"restore"} => pc[Root] \in Recovering \cup {"restore"},
         pc[Root] \in {"drop", "finished", "done"} => l = "finished"
  PROVE  RootFlag' /\ Trailing' /\ RestartFlag'
<1>1. pc'[Root] = l /\ \A q \in Rank : pc'[q] = "return" => pc[q] = "return"
  BY RankParts DEF ControlOK, Goto
<1>2. RestartFlag'
  BY DEF FlagInv, RestartFlag
<1>3. RootFlag'
  BY <1>1 DEF FlagInv, RootFlag
<1>4. Trailing'
  BY <1>1 DEF FlagInv, Trailing
<1> QED
  BY <1>2, <1>3, <1>4

\* A call of FTI_Checkpoint computes ckptFirst before it sets ckptID.
LEMMA FlagApp ==
  ASSUME ControlOK, FlagInv, NEW r \in Rank, AppStep(r)
  PROVE  RootFlag' /\ Trailing' /\ RestartFlag'
<1>1. PICK c, id, l : Enter(r, c, id, l) /\ id # 0 /\ pc[r] = "run"
  <2>1. CASE Follow(r)
    <3>1. call[r] + 1 \in 1 .. Len(calls)
      BY <2>1, FollowIndex
    <3>2. calls[call[r] + 1].id # 0
      BY <3>1 DEF FlagInv, IdsInv
    <3> QED
      BY <2>1, <3>2 DEF Follow, At
  <2>2. CASE \E l \in CallLevels \cup {Finalize} : Issue(r, l)
    BY <2>2 DEF Issue, At, FlagInv, IdsInv
  <2> QED
    BY <2>1, <2>2 DEF AppStep
<1>2. conf' = conf /\ acked' = acked
  BY <1>1 DEF Enter, history
<1>3. CASE r # Root
  <2>1. mem'[Root] = mem[Root]
    BY <1>1, <1>3, RankParts DEF Enter, ControlOK
  <2>2. \E k : Goto(r, k) /\ k # "return"
    BY <1>1 DEF Enter, FinalizeEntry
  <2> QED
    BY <1>2, <1>3, <2>1, <2>2, FlagOthers
<1>4. CASE r = Root /\ l # Finalize
  <2>1. Goto(Root, "write") /\ mem' = [mem EXCEPT ![Root] = [[mem[Root] EXCEPT !.first = (mem[Root].id = 0)] EXCEPT !.id = id]]
    BY <1>1, <1>4 DEF Enter
  <2>2. mem'[Root].id = id /\ mem'[Root].first = (mem[Root].id = 0)
    BY <2>1, RankParts DEF ControlOK
  <2>3. pc'[Root] = "write" /\ \A q \in Rank : pc'[q] = "return" => pc[q] = "return"
    BY <2>1, RankParts DEF ControlOK, Goto
  <2>4. "write" \in Checkpointing /\ pc[Root] \notin Checkpointing \cup {"drop", "finished", "done", "return"}
    BY <1>1, <1>4 DEF Checkpointing, Exchanging, Committing
  <2>5. RestartFlag'
    BY <1>2 DEF FlagInv, RestartFlag
  <2>6. mem[Root].id # 0 => conf # 0
    BY <2>4 DEF FlagInv, RootFlag
  <2>7. RootFlag'
    <3>1. mem'[Root].id # 0 /\ (conf' # 0 \/ mem'[Root].first)
      BY <1>1, <1>2, <2>2, <2>6
    <3>2. "write" \notin Recovering \cup {"restore", "down", "dropConf", "drop"}
      BY DEF Recovering
    <3> QED
      BY <2>3, <2>4, <3>1, <3>2 DEF RootFlag
  <2>8. Trailing'
    BY <1>1, <1>2, <2>2, <2>3, <2>4 DEF FlagInv, Trailing
  <2> QED
    BY <2>5, <2>7, <2>8
<1>5. CASE r = Root /\ l = Finalize
  <2>1. Goto(Root, FinalizeEntry(Root)) /\ mem' = mem
    BY <1>1, <1>5 DEF Enter
  <2>2. /\ FinalizeEntry(Root) \in {"flush", "finConf", "dropConf"}
        /\ KeepLast /\ FinalizeEntry(Root) = "dropConf" => mem[Root].id = 0
    BY RankParts DEF FinalizeEntry, ControlOK
  <2>3. pc'[Root] = FinalizeEntry(Root) /\ \A q \in Rank : pc'[q] = "return" => pc[q] = "return"
    BY <2>1, <2>2, RankParts DEF ControlOK, Goto
  <2>4. RestartFlag'
    BY <1>2 DEF FlagInv, RestartFlag
  <2>5. RootFlag'
    BY <1>1, <1>2, <1>5, <2>1, <2>2, <2>3
    DEF FlagInv, RootFlag, Checkpointing, Exchanging, Committing, Recovering
  <2>6. Trailing'
    BY <1>1, <1>2, <1>5, <2>1, <2>3 DEF FlagInv, Trailing
  <2> QED
    BY <2>4, <2>5, <2>6
<1> QED
  BY <1>3, <1>4, <1>5

\* splitRank 0 sets the flag when it comes back from its first checkpoint; the
\* checkpoint is done when the last process does.
LEMMA FlagReturn ==
  ASSUME ControlOK, FlagInv, NEW r \in Rank, Return(r)
  PROVE  RootFlag' /\ Trailing' /\ RestartFlag'
<1>1. /\ pc[r] = "return" /\ Goto(r, "run")
      /\ mem' = [mem EXCEPT ![r] = [[mem[r] EXCEPT !.last = lvel[r]] EXCEPT !.cnt = mem[r].cnt + 1]]
      /\ conf' = IF mem[r].first /\ r = Root THEN 1 ELSE conf
      /\ \/ acked' = acked
         \/ /\ \A q \in Rank \ {r} : pc[q] # "return"
            /\ ~(~KeepLast /\ pc[Root] \in {"drop", "finished"})
  BY DEF Return, At, history
<1>2. mem'[Root].id = mem[Root].id /\ mem'[Root].first = mem[Root].first
  BY <1>1, RankParts DEF ControlOK
<1>3. /\ pc'[r] = "run" /\ \A q \in Rank \ {r} : pc'[q] = pc[q]
  BY <1>1 DEF ControlOK, Goto
<1>4. conf' = 1 \/ conf' = conf
  BY <1>1
<1>5. CASE r = Root
  <2>1. "return" \in Checkpointing /\ "return" \notin {"drop", "finished", "done"}
    BY DEF Checkpointing
  <2>2. mem[Root].id # 0
    BY <1>1, <1>5, <2>1 DEF FlagInv, RootFlag
  <2>3. conf' # 0
    BY <1>1, <1>5, <2>2 DEF FlagInv, RootFlag
  <2>4. RootFlag'
    BY <1>2, <1>3, <1>5, <2>3 DEF RootFlag, Checkpointing, Exchanging, Committing, Recovering
  <2> QED
    BY <1>2, <2>2, <2>3, <2>4 DEF RestartFlag, Trailing
<1>6. CASE r # Root
  <2>1. pc'[Root] = pc[Root] /\ conf' = conf
    BY <1>1, <1>3, <1>6, RankParts
  <2>2. RootFlag' /\ Trailing'
    BY <1>2, <1>3, <2>1 DEF FlagInv, RootFlag, Trailing
  <2>3. RestartFlag'
    BY <1>1, <1>6, <2>1, RankParts DEF FlagInv, RestartFlag, Trailing
  <2> QED
    BY <2>2, <2>3
<1> QED
  BY <1>5, <1>6

LEMMA FlagCkpt ==
  ASSUME ControlOK, FlagInv, NEW r \in Rank, CkptStep(r)
  PROVE  RootFlag' /\ Trailing' /\ RestartFlag'
<1>1. CASE Return(r)
  BY <1>1, FlagReturn
<1>2. CASE ~Return(r)
  <2>1. ~Discard(r)
    BY DEF Discard, At, FlagInv, Passing
  <2>2. UNCHANGED <<conf, mem, acked>>
    BY <1>2 DEF CkptStep, Write, CreateMetadata, PostLocal, Discard, Clean, Rename, RenameGlobal,
       RenameMeta, local, history
  <2>3. /\ pc[r] \in Checkpointing \ {"return"}
        /\ \E l : Goto(r, l) /\ l \in Checkpointing \ {"return"}
    BY <1>2, <2>1 DEF CkptStep, Write, CreateMetadata, PostLocal, Clean, Rename, RenameGlobal,
       RenameMeta, At, Checkpointing, Exchanging, Committing
  <2>4. \A l \in Checkpointing \ {"return"} :
          l \notin Recovering \cup {"return", "down", "dropConf", "drop", "finished", "done", "restore"}
    BY DEF Checkpointing, Exchanging, Committing, Recovering
  <2>5. CASE r # Root
    BY <2>2, <2>3, <2>5, FlagOthers
  <2>6. CASE r = Root
    BY <2>2, <2>3, <2>4, <2>6, FlagRoot
  <2> QED
    BY <2>5, <2>6
<1> QED
  BY <1>1, <1>2

\* The flag is taken away together with the checkpoint it is about.
LEMMA FlagFin ==
  ASSUME ControlOK, FlagInv, NEW r \in Rank, FinStep(r)
  PROVE  RootFlag' /\ Trailing' /\ RestartFlag'
<1>1. CASE DropConf(r)
  <2>1. r = Root /\ pc[Root] = "dropConf" /\ Goto(Root, "drop") /\ conf' = 0 /\ mem' = mem
        /\ acked'.call = NoCall
    BY <1>1 DEF DropConf, At, local, FlagInv, Passing
  <2>2. pc'[Root] = "drop" /\ \A q \in Rank : pc'[q] = "return" => pc[q] = "return"
    BY <2>1, RankParts DEF ControlOK, Goto
  <2>3. RootFlag'
    BY <2>1, <2>2 DEF FlagInv, RootFlag, Checkpointing, Exchanging, Committing, Recovering
  <2>4. Trailing'
    BY <2>1, <2>2 DEF FlagInv, RootFlag, Trailing
  <2> QED
    BY <2>1, <2>3, <2>4 DEF RestartFlag
<1>2. CASE ~DropConf(r)
  <2>1. mem' = mem /\ acked' = acked /\ (conf' = conf \/ conf' = 2)
    BY <1>2 DEF FinStep, Flush, FinRemoveL4, FinRenameL4, FinRemoveMeta, FinRenameMeta,
       FinUpdateConf, FinClean, Drop, local, history
  <2>2. /\ pc[r] \in Finishing \ {"finished"}
        /\ \E l : Goto(r, l) /\ l \in Finishing \ {"dropConf", "drop"}
                  /\ (pc[r] = "drop" => l = "finished")
    BY <1>2 DEF FinStep, Flush, FinRemoveL4, FinRenameL4, FinRemoveMeta, FinRenameMeta,
       FinUpdateConf, FinClean, Drop, At, Finishing
  <2>3. \A l \in Finishing :
          l \notin Recovering \cup Checkpointing \cup {"return", "down", "done", "restore"}
    BY DEF Finishing, Checkpointing, Exchanging, Committing, Recovering
  <2>4. CASE r # Root
    BY <2>1, <2>2, <2>3, <2>4, FlagOthers
  <2>5. CASE r = Root
    BY <2>1, <2>2, <2>3, <2>5, FlagRoot
  <2> QED
    BY <2>4, <2>5
<1> QED
  BY <1>1, <1>2

LEMMA FlagRecover ==
  ASSUME ControlOK, FlagInv, NEW r \in Rank, RecoverStep(r)
  PROVE  RootFlag' /\ Trailing' /\ RestartFlag'
<1>1. mem' = mem /\ acked' = acked /\ conf' = conf
  BY DEF RecoverStep, CleanL1, FixOwn, FixCopy, DecodeOpen, Decode, Fetch, Recover, local, history
<1>2. /\ pc[r] \in Recovering \cup {"restore"}
      /\ \E l : Goto(r, l) /\ l \in Recovering \cup {"run"}
  BY DEF RecoverStep, CleanL1, FixOwn, FixCopy, DecodeOpen, Decode, Fetch, Recover, At, Recovering
<1>3. \A l \in Recovering \cup {"restore", "run"} :
        l \notin Checkpointing \cup {"return", "down", "dropConf", "drop", "finished", "done"}
  BY DEF Checkpointing, Exchanging, Committing, Recovering
<1>4. CASE r # Root
  BY <1>1, <1>2, <1>3, <1>4, FlagOthers
<1>5. CASE r = Root
  BY <1>1, <1>2, <1>3, <1>5, FlagRoot
<1> QED
  BY <1>4, <1>5

\* The collectives of FTI_Checkpoint and FTI_Finalize.
LEMMA FlagCollective ==
  ASSUME ControlOK, FlagInv, \/ WriteSync \/ PostSync \/ RenameSync \/ FlushSync \/ FinSync
                             \/ \E p \in Proc, l \in {2, 3}, bad \in SUBSET Node : Exchange(p, l, bad)
  PROVE  RootFlag' /\ Trailing' /\ RestartFlag'
<1>1. /\ mem' = mem /\ conf' = conf
      /\ acked'.call # NoCall => acked.call # NoCall
  BY DEF WriteSync, PostSync, RenameSync, FlushSync, FinSync, Exchange, local, history
<1>2. RestartFlag'
  BY <1>1 DEF FlagInv, RestartFlag
<1>3. ASSUME NEW p \in Proc, NEW l \in {2, 3}, NEW bad \in SUBSET Node, Exchange(p, l, bad)
      PROVE  RootFlag' /\ Trailing'
  <2>1. \A r \in Rank : pc'[r] = pc[r] \/ (pc[r] = "post" /\ pc'[r] = "posted")
    <3>1. \A r \in Rank : r[2] = p => r \in Group(p)
      BY RankParts DEF Group, Rank
    <3> QED
      BY <1>3, <3>1 DEF Exchange, At
  <2>2. RootFlag'
    BY <1>1, <2>1, RankParts DEF FlagInv, RootFlag, Checkpointing, Exchanging, Recovering
  <2>3. Trailing'
    BY <1>1, <2>1, RankParts DEF FlagInv, Trailing
  <2> QED
    BY <2>2, <2>3
<1>4. ASSUME WriteSync \/ PostSync \/ RenameSync \/ FlushSync \/ FinSync
      PROVE  RootFlag' /\ Trailing'
  <2>1. /\ pc[Root] \in Checkpointing <=> pc'[Root] \in Checkpointing
        /\ pc'[Root] \notin Recovering \cup {"restore", "down", "dropConf", "drop"}
        /\ pc[Root] \in {"drop", "finished", "done"} => pc'[Root] = "done"
        /\ \A r \in Rank : pc'[r] = "return" => pc'[Root] = "return"
    <3> USE RankParts DEF AllAt, AllGoto, Checkpointing, Exchanging, Committing, Recovering
    <3>1. CASE WriteSync
      BY <3>1 DEF WriteSync
    <3>2. CASE PostSync
      BY <3>2 DEF PostSync, FlagInv, Passing
    <3>3. CASE RenameSync
      BY <3>3 DEF RenameSync
    <3>4. CASE FlushSync
      BY <3>4 DEF FlushSync
    <3>5. CASE FinSync
      BY <3>5 DEF FinSync
    <3> QED
      BY <1>4, <3>1, <3>2, <3>3, <3>4, <3>5
  <2>2. RootFlag'
    BY <1>1, <2>1 DEF FlagInv, RootFlag
  <2>3. Trailing'
    BY <2>1 DEF Trailing
  <2> QED
    BY <2>2, <2>3
<1> QED
  BY <1>2, <1>3, <1>4

\* The collectives of FTI_Init, crashes and new launches: the flag stays as it
\* is, and only with it is there anything to recover.
LEMMA FlagBoot ==
  ASSUME ControlOK, FlagInv,
         \/ BootFresh \/ BootRecover \/ SkipLevel \/ TryLocal \/ TryGlobal \/ CheckGlobal \/ RecoverSync
         \/ Environment
  PROVE  RootFlag' /\ Trailing' /\ RestartFlag'
<1> USE RankParts
<1>1. conf' = conf
  BY DEF BootFresh, BootRecover, SkipLevel, TryLocal, TryGlobal, CheckGlobal, RecoverSync,
     Environment, Relaunch, Crash
<1>2. CASE Environment
  <2>1. /\ \A r \in Rank : pc'[r] = "down" /\ mem'[r].id = 0
        /\ acked' = acked
    BY <1>2 DEF Environment, Relaunch, Crash, Reset, history
  <2> QED
    BY <1>1, <2>1
    DEF FlagInv, RootFlag, Trailing, RestartFlag, Checkpointing, Exchanging, Committing, Recovering
<1>3. CASE BootFresh
  <2>1. /\ pc[Root] = "down" /\ \A r \in Rank : pc'[r] = "run"
        /\ mem' = mem /\ acked'.call = NoCall
    BY <1>3 DEF BootFresh, AllAt, AllGoto, local
  <2> QED
    BY <1>1, <2>1
    DEF FlagInv, RootFlag, Trailing, RestartFlag, Checkpointing, Exchanging, Committing, Recovering
<1>4. ASSUME BootRecover \/ SkipLevel \/ TryLocal \/ TryGlobal \/ CheckGlobal \/ RecoverSync
      PROVE  RootFlag' /\ Trailing' /\ RestartFlag'
  <2>1. conf # 0
    <3>1. CASE BootRecover
      BY <3>1 DEF BootRecover
    <3>2. CASE ~BootRecover
      <4>1. pc[Root] \in Recovering
        BY <1>4, <3>2 DEF SkipLevel, TryLocal, TryGlobal, CheckGlobal, RecoverSync, AllAt, Recovering
      <4> QED
        BY <4>1 DEF FlagInv, RootFlag
    <3> QED
      BY <3>1, <3>2
  <2>2. \A r \in Rank : pc'[r] \in Recovering \cup {"restore", "run"}
    BY <1>4 DEF BootRecover, SkipLevel, TryLocal, TryGlobal, CheckGlobal, RecoverSync,
       NextLevel, NotRecovered, Check, RecoverEntry, AllGoto, Recovering
  <2> QED
    BY <1>1, <2>1, <2>2
    DEF RootFlag, Trailing, RestartFlag, Checkpointing, Exchanging, Committing, Recovering
<1> QED
  BY <1>2, <1>3, <1>4

\* FlagInv is inductive relative to TypeInv.
LEMMA FlagStep ==
  ASSUME Faults \subseteq {"flush"}, TypeInv, FlagInv, [Next]_vars
  PROVE  FlagInv'
<1>1. ControlOK /\ IdsInv'
  BY IdsStep DEF TypeInv, FlagInv
<1>2. CASE UNCHANGED vars
  BY <1>1, <1>2 DEF vars, local, history, FlagInv, Passing, RootFlag, Trailing, RestartFlag
<1>3. ASSUME NEW r \in Rank, AppStep(r) \/ CkptStep(r) \/ FinStep(r) \/ RecoverStep(r)
      PROVE  FlagInv'
  <2>1. \A q \in Rank : Passing(q)'
    BY <1>1, <1>3, PassingApp, PassingCkpt, PassingElsewhere DEF FlagInv
  <2>2. RootFlag' /\ Trailing' /\ RestartFlag'
    BY <1>1, <1>3, FlagApp, FlagCkpt, FlagFin, FlagRecover
  <2> QED
    BY <1>1, <2>1, <2>2 DEF FlagInv
<1>4. CASE Sync \/ Environment
  <2>1. \A q \in Rank : Passing(q)'
    BY <1>1, <1>4, PassingSync DEF FlagInv
  <2>2. RootFlag' /\ Trailing' /\ RestartFlag'
    BY <1>1, <1>4, FlagCollective, FlagBoot DEF Sync
  <2> QED
    BY <1>1, <2>1, <2>2 DEF FlagInv
<1> QED
  BY <1>2, <1>3, <1>4 DEF Next, Ended

\* Once a checkpoint is done the configuration file tells the next launch to
\* recover, through crashes, recoveries and the end of earlier executions, if
\* no call of FTI_Checkpoint fails.  If the first one does the flag is lost
\* (api.c:1101).
THEOREM FlagIsSet ==
  ASSUME Faults \subseteq {"flush"}
  PROVE  Spec => []RestartFlag
<1>1. Init => TypeInv /\ FlagInv
  <2>1. Init => FlagInv
    BY RankParts DEF Init, FlagInv, Passing, IdsInv, RootFlag, Trailing, RestartFlag, NoCall,
       Checkpointing, Exchanging, Committing, Recovering
  <2> QED
    BY <2>1, TypeInit
<1>2. TypeInv /\ FlagInv /\ [Next]_vars => (TypeInv /\ FlagInv)'
  BY TypeStep, FlagStep
<1>3. FlagInv => RestartFlag
  BY DEF FlagInv
<1> QED
  BY <1>1, <1>2, <1>3, PTL DEF Spec

=============================================================================

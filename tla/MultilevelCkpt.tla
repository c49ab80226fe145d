--------------------------- MODULE MultilevelCkpt ---------------------------
(***************************************************************************)
(* The multilevel checkpoint protocol of FTI when every level is processed *)
(* inline (no dedicated head processes) with POSIX files: FTI_Init,        *)
(* FTI_Checkpoint, FTI_Recover and FTI_Finalize as the application         *)
(* processes execute them, the directories they move files through, node   *)
(* failures, I/O failures, crashes of the job and restarts.                *)
(*                                                                         *)
(* N nodes, K processes per node.  The processes of one local number p     *)
(* form one group, a ring over the nodes (FTI_Topo.left, right).  MPI      *)
(* collectives are single actions, enabled when every process waits in     *)
(* them; everything else is interleaved process by process.                *)
(*                                                                         *)
(* A file is known by its name (its kind, the rank in the name and the     *)
(* checkpoint id in the name) and by the call of FTI_Checkpoint whose data *)
(* it holds.  Ids repeat (a call that failed, or was lost in a crash, is   *)
(* retried under the same id); calls are numbered in the order of their    *)
(* start and never repeat.  A truncated or partly written file fails the   *)
(* size or MD5 test of FTI_CheckFile and is modelled as absent.            *)
(***************************************************************************)
EXTENDS Integers, Sequences, FiniteSets

CONSTANTS
  N,            \* number of nodes, all in one sector
  K,            \* processes per node
  CallLevels,   \* levels the application asks for
  MaxCalls,     \* bound: calls of FTI_Checkpoint
  MaxCrash,     \* bound: crashes and relaunches of the job
  MaxLost,      \* bound: nodes lost in one crash
  MaxFault,     \* bound: I/O failures
  Faults,       \* which I/O operations may fail
  UninitRes,    \* values read from FTI_PostCkpt's res when no case assigned it
  Short,        \* processes whose file is smaller than the largest of the group
  KeepLast      \* keep_last_ckpt

ASSUME SizesAssumption == N \in Nat \ {0} /\ K \in Nat \ {0}
ASSUME LevelsAssumption == CallLevels \subseteq 1..4
ASSUME BoundsAssumption == {MaxCalls, MaxCrash, MaxLost, MaxFault} \subseteq Nat
ASSUME FaultsAssumption == Faults \subseteq {"write", "meta", "post", "flush"}
ASSUME UninitAssumption == UninitRes \subseteq {0, 1} /\ UninitRes # {}
ASSUME KeepAssumption == KeepLast \in BOOLEAN

Node == 0 .. N - 1
Proc == 0 .. K - 1
Rank == Node \X Proc
Root == <<0, 0>>                        \* splitRank 0
NodeFlag(r) == r[2] = 0                 \* the process that renames for its node
Right(n) == (n + 1) % N
Left(n) == (n + N - 1) % N
Group(p) == Node \X {p}

ASSUME ShortAssumption == Short \subseteq Rank

Finalize == 0                           \* the "level" of a call of FTI_Finalize
Rejected == 6                           \* FTI_REJW - FTI_BASE
NoCall == 0
Lost == -1                              \* what a missing file yields

VARIABLES
  calls,     \* the application's calls: <<[id, lvl], ...>>
  conf,      \* restart:failure of the configuration file
  tmp,       \* lTmpDir of each node: a set of files
  dir,       \* FTI_Ckpt[1..3].dir of each node
  gtmp,      \* gTmpDir
  gdir,      \* FTI_Ckpt[4].dir
  mtmp,      \* mTmpDir: the call each group's metadata file describes
  meta,      \* FTI_Ckpt[1..4].metaDir, likewise
  pc,        \* where each process is
  call,      \* the call each process is in, or came back from last
  res,       \* its local result, 0 for FTI_SCES
  lvel,      \* FTI_Exec.ckptLvel
  mem,       \* FTI_Exec: lastCkptLvel, ckptID, ckptCnt; ckptFirst
  loaded,    \* the call whose data FTI_Recover read, NoCall before
  rlevel,    \* the level FTI_RecoverFiles is trying
  erased,    \* the erasures FTI_CheckErasures found there
  crashes,   \* crashes and relaunches so far
  faults,    \* I/O failures so far
  acked,     \* history: the last checkpoint every process completed, its level
  hurt,      \* history: nodes wiped since then
  open,      \* history: nodes that crashed inside FTI_Decode since then
  torn       \* history: levels that crashes caught being replaced since then

disk == <<tmp, dir, gtmp, gdir>>
local == <<call, res, lvel, mem, loaded>>
recov == <<rlevel, erased>>
history == <<acked, hurt, open, torn>>
vars == <<calls, conf, disk, mtmp, meta, pc, local, recov, crashes, faults, history>>

-----------------------------------------------------------------------------
(* Files *)

File == [kind : {"Rank", "Pcof", "RSed"}, rank : Rank, call : Nat]

\* Ckpt<id>-Rank<r>.fti, Ckpt<id>-Pcof<r>.fti, Ckpt<id>-RSed<r>.fti
Holding(k, r, c) == [kind |-> k, rank |-> r, call |-> c]

SameName(f, g) ==
  f.kind = g.kind /\ f.rank = g.rank /\ calls[f.call].id = calls[g.call].id

\* Writing a file replaces the one of the same name; failing to write it
\* leaves nothing usable under that name.
Without(S, f) == {g \in S : ~SameName(f, g)}
Put(S, f) == Without(S, f) \cup {f}

\* The content found in S under the name made of k, r and the id.
Content(S, k, r, id) ==
  LET found == {f \in S : f.kind = k /\ f.rank = r /\ calls[f.call].id = id}
  IN IF found = {} THEN Lost ELSE (CHOOSE f \in found : TRUE).call

\* Mutant: the checksum is not compared, the name is enough.
IntactByName(S, f) == \E g \in S : SameName(f, g)

\* FTI_CheckFile: present, of the recorded size, with the recorded checksum.
Intact(S, f) == f \in S

NoFiles == [n \in Node |-> {}]
NoMeta == [p \in Proc |-> NoCall]

-----------------------------------------------------------------------------
(* I/O failures *)

May(kind, bad) == bad => kind \in Faults /\ faults < MaxFault
Count(bad) == faults' = IF bad THEN faults + 1 ELSE faults

At(r, l) == pc[r] = l
AllAt(l) == \A r \in Rank : pc[r] = l
Goto(r, l) == pc' = [pc EXCEPT ![r] = l]
AllGoto(l) == pc' = [r \in Rank |-> l]

-----------------------------------------------------------------------------
(* FTI_Checkpoint and the start of FTI_Finalize *)

\* Where FTI_Finalize begins: flush the last checkpoint, go straight to the
\* restart flag, or clean up.
FinalizeEntry(r) ==
  CASE KeepLast /\ mem[r].id > 0 /\ mem[r].last # 4 -> "flush"
    [] KeepLast /\ mem[r].id > 0 /\ mem[r].last = 4 -> IF r = Root THEN "finConf" ELSE "finClean"
    [] OTHER -> IF r = Root THEN "dropConf" ELSE "drop"

\* Mutant: ckptFirst is computed after ckptID has been set.
EnterFirstLate(r, c, id, l) ==
  /\ call' = [call EXCEPT ![r] = c]
  /\ loaded' = [loaded EXCEPT ![r] = NoCall]
  /\ IF l = Finalize
       THEN /\ Goto(r, FinalizeEntry(r))
            /\ UNCHANGED <<lvel, mem>>
       ELSE /\ Goto(r, "write")
            /\ lvel' = [lvel EXCEPT ![r] = l]
            /\ mem' = [mem EXCEPT ![r].first = (id = 0), ![r].id = id]
  /\ UNCHANGED <<conf, disk, mtmp, meta, res, recov, crashes, faults, history>>


Enter(r, c, id, l) ==
  /\ call' = [call EXCEPT ![r] = c]
  /\ loaded' = [loaded EXCEPT ![r] = NoCall]
  /\ IF l = Finalize
       THEN /\ Goto(r, FinalizeEntry(r))
            /\ UNCHANGED <<lvel, mem>>
       ELSE /\ Goto(r, "write")
            /\ lvel' = [lvel EXCEPT ![r] = l]
            /\ mem' = [mem EXCEPT ![r].first = (mem[r].id = 0), ![r].id = id]
  /\ UNCHANGED <<conf, disk, mtmp, meta, res, recov, crashes, faults, history>>

Ckpts == {i \in DOMAIN calls : calls[i].lvl # Finalize}

\* The first process to make the application's next call.  As in FTI_Snapshot
\* the id is ckptCnt.
Issue(r, l) ==
  /\ At(r, "run")
  /\ call[r] = Len(calls)
  /\ l # Finalize => Cardinality(Ckpts) < MaxCalls
  /\ calls' = Append(calls, [id |-> mem[r].cnt, lvl |-> l])
  /\ Enter(r, Len(calls) + 1, mem[r].cnt, l)

\* The other processes make the same call.
Follow(r) ==
  /\ At(r, "run")
  /\ call[r] < Len(calls)
  /\ Enter(r, call[r] + 1, calls[call[r] + 1].id, calls[call[r] + 1].lvl)
  /\ UNCHANGED calls

\* FTI_WriteCkpt up to its MPI_Allreduce: L4 goes to gTmpDir, the rest to lTmpDir.
Write(r, bad) ==
  LET f == Holding("Rank", r, call[r])
      New(S) == IF bad THEN Without(S, f) ELSE Put(S, f)
  IN /\ At(r, "write")
     /\ May("write", bad)
     /\ Count(bad)
     /\ IF lvel[r] = 4
          THEN gtmp' = New(gtmp) /\ UNCHANGED tmp
          ELSE tmp' = [tmp EXCEPT ![r[1]] = New(@)] /\ UNCHANGED gtmp
     /\ res' = [res EXCEPT ![r] = IF bad THEN 1 ELSE 0]
     /\ Goto(r, "wrote")
     /\ UNCHANGED <<calls, conf, dir, gdir, mtmp, meta, call, lvel, mem, loaded,
                    recov, crashes, history>>

\* Mutant: the reject token is used as a level without subtracting FTI_BASE.
WriteSyncToken ==
  /\ AllAt("wrote")
  /\ IF \A r \in Rank : res[r] = 0
       THEN AllGoto("meta") /\ UNCHANGED lvel
       ELSE AllGoto("post") /\ lvel' = [r \in Rank |-> 996]
  /\ UNCHANGED <<calls, conf, disk, mtmp, meta, call, res, mem, loaded, recov,
                 crashes, faults, history>>

\* "every process must succeed": otherwise all continue at the reject level.
WriteSync ==
  /\ AllAt("wrote")
  /\ IF \A r \in Rank : res[r] = 0
       THEN AllGoto("meta") /\ UNCHANGED lvel
       ELSE AllGoto("post") /\ lvel' = [r \in Rank |-> Rejected]
  /\ UNCHANGED <<calls, conf, disk, mtmp, meta, call, res, mem, loaded, recov,
                 crashes, faults, history>>

\* FTI_CreateMetadata: the group's first process writes the group's file, and
\* it alone learns of a failure.
CreateMetadata(r, bad) ==
  /\ At(r, "meta")
  /\ May("meta", bad)
  /\ bad => r[1] = 0
  /\ Count(bad)
  /\ mtmp' = IF r[1] = 0
               THEN [mtmp EXCEPT ![r[2]] = IF bad THEN NoCall ELSE call[r]]
               ELSE mtmp
  /\ lvel' = IF bad THEN [lvel EXCEPT ![r] = Rejected] ELSE lvel
  /\ Goto(r, "post")
  /\ UNCHANGED <<calls, conf, disk, meta, call, res, mem, loaded, recov, crashes, history>>

\* FTI_PostCkpt at L1 and L4 (nothing to do) and at the reject level, which no
\* case of the switch covers.
PostLocal(r, v) ==
  /\ At(r, "post")
  /\ lvel[r] \in {1, 4, Rejected}
  /\ v \in IF lvel[r] = Rejected THEN UninitRes ELSE {0}
  /\ res' = [res EXCEPT ![r] = v]
  /\ Goto(r, "posted")
  /\ UNCHANGED <<calls, conf, disk, mtmp, meta, call, lvel, mem, loaded, recov,
                 crashes, faults, history>>

\* What the exchange of a group leaves on node n: FTI_Ptner stores a copy of
\* the left node's file, FTI_RSenc an encoded file.
Encoded(n, p, l) ==
  Holding(IF l = 2 THEN "Pcof" ELSE "RSed", <<n, p>>, call[<<n, p>>])

\* FTI_Ptner (L2) and FTI_RSenc (L3) of one whole group.  The failures
\* modelled are those of the last operation a process executes, after which
\* nobody waits for it: at L2 receiving, for odd group ranks; at L3 any.
Exchange(p, l, bad) ==
  /\ \A r \in Group(p) : At(r, "post") /\ lvel[r] = l
  /\ \A r \in Group(p) : Intact(tmp[r[1]], Holding("Rank", r, call[r]))
  /\ May("post", bad # {})
  /\ bad \subseteq (IF l = 2 THEN {n \in Node : n % 2 = 1} ELSE Node)
  /\ Count(bad # {})
  /\ tmp' = [n \in Node |->
               IF n \in bad THEN Without(tmp[n], Encoded(n, p, l))
                            ELSE Put(tmp[n], Encoded(n, p, l))]
  /\ res' = [r \in Rank |-> IF r[2] = p THEN IF r[1] \in bad THEN 1 ELSE 0 ELSE res[r]]
  /\ pc' = [r \in Rank |-> IF r[2] = p THEN "posted" ELSE pc[r]]
  /\ UNCHANGED <<calls, conf, dir, gtmp, gdir, mtmp, meta, call, lvel, mem, loaded,
                 recov, crashes, history>>

PostSync ==
  /\ AllAt("posted")
  /\ AllGoto(IF \A r \in Rank : res[r] = 0 THEN "clean" ELSE "discard")
  /\ UNCHANGED <<calls, conf, disk, mtmp, meta, local, recov, crashes, faults, history>>

\* Mutant: a failed checkpoint is cleaned up as if its level were to be replaced.
DiscardBelow(r) ==
  /\ At(r, "discard")
  /\ mtmp' = IF r = Root THEN NoMeta ELSE mtmp
  /\ gtmp' = IF r = Root THEN {} ELSE gtmp
  /\ tmp' = IF NodeFlag(r) THEN [tmp EXCEPT ![r[1]] = {}] ELSE tmp
  /\ dir' = [l \in 1 .. 3 |->
               IF l <= lvel[r] /\ NodeFlag(r) THEN [dir[l] EXCEPT ![r[1]] = {}] ELSE dir[l]]
  /\ Goto(r, "run")
  /\ UNCHANGED <<calls, conf, gdir, meta, local, recov, crashes, faults, history>>

\* FTI_Clean(0) and the return of FTI_NSCS; no barrier follows.
Discard(r) ==
  /\ At(r, "discard")
  /\ mtmp' = IF r = Root THEN NoMeta ELSE mtmp
  /\ gtmp' = IF r = Root THEN {} ELSE gtmp
  /\ tmp' = IF NodeFlag(r) THEN [tmp EXCEPT ![r[1]] = {}] ELSE tmp
  /\ Goto(r, "run")
  /\ UNCHANGED <<calls, conf, dir, gdir, meta, local, recov, crashes, faults, history>>

\* Mutant: only the level itself is emptied, not the lower ones.
CleanedAlone(l) == IF l > 4 THEN 1 .. 3 ELSE {l}

\* The levels FTI_Clean(l) empties.
Cleaned(l) == IF l > 4 THEN 1 .. 3 ELSE 1 .. l

\* FTI_Clean(L) by process r, for a set L of levels.
CleanLevels(r, L) ==
  /\ dir' = [l \in 1 .. 3 |->
               IF l \in L /\ NodeFlag(r) THEN [dir[l] EXCEPT ![r[1]] = {}] ELSE dir[l]]
  /\ gdir' = IF 4 \in L /\ r = Root THEN {} ELSE gdir
  /\ meta' = [l \in 1 .. 4 |-> IF l \in L /\ r = Root THEN NoMeta ELSE meta[l]]

Clean(r) ==
  /\ At(r, "clean")
  /\ CleanLevels(r, Cleaned(lvel[r]))
  /\ Goto(r, IF NodeFlag(r) THEN "rename" ELSE "renamed")
  /\ UNCHANGED <<calls, conf, tmp, gtmp, mtmp, local, recov, crashes, faults, history>>

\* nodeFlag: lTmpDir becomes the level's directory (not for inline L4).
Rename(r) ==
  LET n == r[1]
      l == lvel[r]
  IN /\ At(r, "rename")
     /\ IF l \in 1 .. 3
          THEN /\ dir' = [dir EXCEPT ![l][n] = tmp[n]]
               /\ tmp' = [tmp EXCEPT ![n] = {}]
          ELSE UNCHANGED <<dir, tmp>>
     /\ Goto(r, IF r = Root THEN "renameGlobal" ELSE "renamed")
     /\ UNCHANGED <<calls, conf, gtmp, gdir, mtmp, meta, local, recov, crashes, faults, history>>

\* globalFlag: gTmpDir becomes the L4 directory ...
RenameGlobal(r) ==
  /\ At(r, "renameGlobal")
  /\ IF lvel[r] = 4
       THEN gdir' = gtmp /\ gtmp' = {}
       ELSE UNCHANGED <<gdir, gtmp>>
  /\ Goto(r, "renameMeta")
  /\ UNCHANGED <<calls, conf, tmp, dir, mtmp, meta, local, recov, crashes, faults, history>>

\* ... and mTmpDir the level's metadata directory.  FTI_Ckpt has no element
\* Rejected: that rename has no usable target.
RenameMeta(r) ==
  /\ At(r, "renameMeta")
  /\ IF lvel[r] \in 1 .. 4
       THEN /\ meta' = [meta EXCEPT ![lvel[r]] = mtmp]
            /\ mtmp' = NoMeta
       ELSE UNCHANGED <<meta, mtmp>>
  /\ Goto(r, "renamed")
  /\ UNCHANGED <<calls, conf, disk, local, recov, crashes, faults, history>>

\* Mutant: the barrier waits for splitRank 0 only.
RenameSyncRoot ==
  /\ At(Root, "renamed")
  /\ AllGoto("return")
  /\ UNCHANGED <<calls, conf, disk, mtmp, meta, local, recov, crashes, faults, history>>

RenameSync ==
  /\ AllAt("renamed")
  /\ AllGoto("return")
  /\ UNCHANGED <<calls, conf, disk, mtmp, meta, local, recov, crashes, faults, history>>

\* The rest of FTI_Checkpoint: lastCkptLvel, the restart flag after the first
\* checkpoint, and the counter of FTI_Snapshot.
Return(r) ==
  LET last == \A q \in Rank \ {r} : pc[q] # "return"
      given_up == ~KeepLast /\ pc[Root] \in {"drop", "finished"}
  IN /\ At(r, "return")
     /\ mem' = [mem EXCEPT ![r].last = lvel[r], ![r].cnt = @ + 1]
     /\ conf' = IF mem[r].first /\ r = Root THEN 1 ELSE conf
     /\ Goto(r, "run")
     /\ IF last /\ ~given_up
          THEN /\ acked' = [call |-> call[r], lvl |-> lvel[r]]
               /\ hurt' = {} /\ open' = {} /\ torn' = {}
          ELSE UNCHANGED history
     /\ UNCHANGED <<calls, disk, mtmp, meta, call, res, lvel, loaded, recov, crashes, faults>>

-----------------------------------------------------------------------------
(* FTI_Finalize *)

\* FTI_Flush(lastCkptLvel): each process copies its file to gTmpDir; the
\* result of the copy is ignored.
Flush(r, bad) ==
  LET l == mem[r].last
      f == Holding("Rank", r, meta[l][r[2]])
  IN /\ At(r, "flush")
     /\ May("flush", bad)
     /\ Count(bad)
     /\ gtmp' = IF l \in 1 .. 3 /\ ~bad /\ f \in dir[l][r[1]] THEN Put(gtmp, f) ELSE gtmp
     /\ Goto(r, "flushed")
     /\ UNCHANGED <<calls, conf, tmp, dir, gdir, mtmp, meta, local, recov, crashes, history>>

FlushSync ==
  /\ AllAt("flushed")
  /\ pc' = [r \in Rank |-> IF r = Root THEN "rmL4" ELSE "finClean"]
  /\ UNCHANGED <<calls, conf, disk, mtmp, meta, local, recov, crashes, faults, history>>

\* splitRank 0 alone: remove the L4 directory, rename gTmpDir to it, ...
FinRemoveL4(r) ==
  /\ At(r, "rmL4")
  /\ gdir' = {}
  /\ Goto(r, "mvL4")
  /\ UNCHANGED <<calls, conf, tmp, dir, gtmp, mtmp, meta, local, recov, crashes, faults, history>>

FinRenameL4(r) ==
  /\ At(r, "mvL4")
  /\ gdir' = gtmp
  /\ gtmp' = {}
  /\ Goto(r, "rmMeta")
  /\ UNCHANGED <<calls, conf, tmp, dir, mtmp, meta, local, recov, crashes, faults, history>>

\* ... remove the L4 metadata, rename that of level ckptLvel to it.
FinRemoveMeta(r) ==
  /\ At(r, "rmMeta")
  /\ meta' = [meta EXCEPT ![4] = NoMeta]
  /\ Goto(r, "mvMeta")
  /\ UNCHANGED <<calls, conf, disk, mtmp, local, recov, crashes, faults, history>>

FinRenameMeta(r) ==
  /\ At(r, "mvMeta")
  /\ meta' = IF lvel[r] \in 1 .. 3
               THEN [meta EXCEPT ![4] = meta[lvel[r]], ![lvel[r]] = NoMeta]
               ELSE meta
  /\ Goto(r, "finConf")
  /\ UNCHANGED <<calls, conf, disk, mtmp, local, recov, crashes, faults, history>>

FinUpdateConf(r) ==
  /\ At(r, "finConf")
  /\ conf' = 2
  /\ Goto(r, "finClean")
  /\ UNCHANGED <<calls, disk, mtmp, meta, local, recov, crashes, faults, history>>

\* Mutant: the L4 directories go as well.
FinCleanAll(r) ==
  /\ At(r, "finClean")
  /\ CleanLevels(r, 1 .. 4)
  /\ Goto(r, "finished")
  /\ UNCHANGED <<calls, conf, tmp, gtmp, mtmp, local, recov, crashes, faults, history>>

\* FTI_Clean(6); nothing makes it wait for splitRank 0.
FinClean(r) ==
  /\ At(r, "finClean")
  /\ CleanLevels(r, 1 .. 3)
  /\ Goto(r, "finished")
  /\ UNCHANGED <<calls, conf, tmp, gtmp, mtmp, local, recov, crashes, faults, history>>

\* No checkpoint to keep: flag 0, FTI_Clean(5).
DropConf(r) ==
  /\ At(r, "dropConf")
  /\ conf' = 0
  /\ acked' = [call |-> NoCall, lvl |-> 0]
  /\ Goto(r, "drop")
  /\ UNCHANGED <<calls, disk, mtmp, meta, local, recov, crashes, faults, hurt, open, torn>>

Drop(r) ==
  /\ At(r, "drop")
  /\ CleanLevels(r, 1 .. 4)
  /\ Goto(r, "finished")
  /\ UNCHANGED <<calls, conf, tmp, gtmp, mtmp, local, recov, crashes, faults, history>>

\* The last barrier.  The kept checkpoint now belongs on the PFS.
FinSync ==
  /\ AllAt("finished")
  /\ AllGoto("done")
  /\ acked' = IF acked.call # NoCall THEN [acked EXCEPT !.lvl = 4] ELSE acked
  /\ UNCHANGED <<calls, conf, disk, mtmp, meta, local, recov, crashes, faults, hurt, open, torn>>

-----------------------------------------------------------------------------
(* Crash, relaunch and recovery *)

\* The highest level whose directories are being replaced once process r, whose
\* ckptLvel is l, has come this far.
Replacing(l, r) ==
  CASE pc[r] \in {"rename", "renameGlobal", "renameMeta", "renamed"} -> IF l > 4 THEN 3 ELSE l
    [] pc[r] \in {"finConf", "finClean", "finished"} -> IF mem[r].last = 4 THEN 3 ELSE 4
    [] pc[r] \in {"rmL4", "mvL4", "rmMeta", "mvMeta", "dropConf", "drop"} -> 4
    [] OTHER -> 0

Reset ==
  /\ pc' = [r \in Rank |-> "down"]
  /\ call' = [r \in Rank |-> Len(calls)]
  /\ res' = [r \in Rank |-> 0]
  /\ lvel' = [r \in Rank |-> 0]
  /\ mem' = [r \in Rank |-> [last |-> 0, id |-> 0, cnt |-> 1, first |-> FALSE]]
  /\ loaded' = [r \in Rank |-> NoCall]
  /\ rlevel' = 1
  /\ erased' = {}
  /\ crashes' = crashes + 1

\* The job dies and the nodes in F lose their local storage.
Crash(F) ==
  /\ crashes < MaxCrash
  /\ Cardinality(F) <= MaxLost
  /\ \A r \in Rank : pc[r] \notin {"down", "done"}
  /\ tmp' = [n \in Node |-> IF n \in F THEN {} ELSE tmp[n]]
  /\ dir' = [l \in 1 .. 3 |-> [n \in Node |-> IF n \in F THEN {} ELSE dir[l][n]]]
  /\ Reset
  /\ hurt' = hurt \cup F
  /\ open' = open \cup {n \in Node : \E p \in Proc : pc[<<n, p>>] = "decode"}
  /\ torn' = torn \cup {Replacing(lvel[r], r) : r \in Rank}
  /\ UNCHANGED <<calls, conf, gtmp, gdir, mtmp, meta, faults, acked>>

\* A finished job is launched again.
Relaunch ==
  /\ crashes < MaxCrash
  /\ AllAt("done")
  /\ Reset
  /\ UNCHANGED <<calls, conf, disk, mtmp, meta, faults, history>>

\* FTI_Init with failure = 0: a new execution id, so new and empty directories.
BootFresh ==
  /\ AllAt("down")
  /\ conf = 0
  /\ tmp' = NoFiles /\ dir' = [l \in 1 .. 3 |-> NoFiles] /\ gtmp' = {} /\ gdir' = {}
  /\ mtmp' = NoMeta /\ meta' = [l \in 1 .. 4 |-> NoMeta]
  /\ AllGoto("run")
  /\ acked' = [call |-> NoCall, lvl |-> 0]
  /\ UNCHANGED <<calls, conf, local, recov, crashes, faults, hurt, open, torn>>

\* FTI_Init with failure # 0: FTI_RecoverFiles, from level 1 up.
BootRecover ==
  /\ AllAt("down")
  /\ conf # 0
  /\ AllGoto("try")
  /\ UNCHANGED <<calls, conf, disk, mtmp, meta, local, recov, crashes, faults, history>>

MetaExists(l) == \A p \in Proc : meta[l][p] # NoCall
MetaMissing(l) == \A p \in Proc : meta[l][p] = NoCall

\* The file of kind k that the metadata of level l expects of process r.
Expected(k, r, l) == Holding(k, r, meta[l][r[2]])

\* FTI_CheckErasures for one group: the files missing at level l.
Erasures(p, l) ==
  CASE l = 4 -> {f \in {Expected("Rank", r, 4) : r \in Group(p)} : ~Intact(gdir, f)}
    [] OTHER -> {f \in {Expected(k, r, l) : k \in (CASE l = 1 -> {"Rank"}
                                                     [] l = 2 -> {"Rank", "Pcof"}
                                                     [] l = 3 -> {"Rank", "RSed"}),
                                            r \in Group(p)} :
                   ~Intact(dir[l][f.rank[1]], f)}

\* Mutant: at L2 a process looks for its copy on its own node.
RecoverableSameNode(E, p, l) ==
  CASE l \in {1, 4} -> E = {}
    [] l = 2 -> \A n \in Node :
                  ~(/\ Expected("Rank", <<n, p>>, 2) \in E
                    /\ Expected("Pcof", <<n, p>>, 2) \in E)
    [] l = 3 -> Cardinality(E) <= N

\* FTI_RecoverL1..L4: can the group do without the files in E?
Recoverable(E, p, l) ==
  CASE l \in {1, 4} -> E = {}
    [] l = 2 -> \A n \in Node :
                  ~(/\ Expected("Rank", <<n, p>>, 2) \in E
                    /\ Expected("Pcof", <<Right(n), p>>, 2) \in E)
    [] l = 3 -> Cardinality(E) <= N

NotRecovered ==
  /\ AllGoto("run")
  /\ lvel' = [r \in Rank |-> 0]
  /\ acked' = [call |-> NoCall, lvl |-> 0]
  /\ UNCHANGED <<rlevel, hurt, open, torn>>

\* Mutant: after the last level the search starts again.
NextLevelAround ==
  /\ rlevel' = (rlevel % 4) + 1
  /\ AllGoto("try")
  /\ erased' = {}
  /\ UNCHANGED <<lvel, history, call, mem, loaded>>

\* The next level, or FTI_NREC after the last.
NextLevel ==
  /\ IF rlevel = 4
       THEN NotRecovered
       ELSE /\ rlevel' = rlevel + 1
            /\ AllGoto("try")
            /\ UNCHANGED <<lvel, history>>
  /\ erased' = {}
  /\ UNCHANGED <<call, mem, loaded>>

SkipLevel ==
  /\ AllAt("try")
  /\ MetaMissing(rlevel)
  /\ NextLevel
  /\ UNCHANGED <<calls, conf, disk, mtmp, meta, res, crashes, faults>>

\* Where process r goes once its group knows the erasures E.
RecoverEntry(r, E, l) ==
  IF ~Recoverable(E, r[2], l) \/ (E = {} /\ l # 4)
    THEN "recovered"
    ELSE CASE l = 2 -> IF Expected("Rank", r, 2) \in E THEN "fixOwn" ELSE "fixCopy"
           [] l = 3 -> "decodeOpen"
           [] OTHER -> "fetch"

Check(l) ==
  /\ erased' = UNION {Erasures(p, l) : p \in Proc}
  /\ pc' = [r \in Rank |-> RecoverEntry(r, Erasures(r[2], l), l)]
  /\ res' = [r \in Rank |-> IF Recoverable(Erasures(r[2], l), r[2], l) THEN 0 ELSE 1]

TryLocal ==
  /\ AllAt("try")
  /\ rlevel < 4
  /\ MetaExists(rlevel)
  /\ Check(rlevel)
  /\ UNCHANGED <<calls, conf, disk, mtmp, meta, call, lvel, mem, loaded, rlevel,
                 crashes, faults, history>>

\* L4 first removes what is left of L1, then a barrier.
TryGlobal ==
  /\ AllAt("try")
  /\ rlevel = 4
  /\ MetaExists(4)
  /\ AllGoto("cleanL1")
  /\ UNCHANGED <<calls, conf, disk, mtmp, meta, local, recov, crashes, faults, history>>

\* Mutant: L4 removes what it is about to recover from.
CleanL1All(r) ==
  /\ At(r, "cleanL1")
  /\ CleanLevels(r, 1 .. 4)
  /\ Goto(r, "cleanedL1")
  /\ UNCHANGED <<calls, conf, tmp, gtmp, mtmp, local, recov, crashes, faults, history>>

CleanL1(r) ==
  /\ At(r, "cleanL1")
  /\ CleanLevels(r, {1})
  /\ Goto(r, "cleanedL1")
  /\ UNCHANGED <<calls, conf, tmp, gtmp, mtmp, local, recov, crashes, faults, history>>

CheckGlobal ==
  /\ AllAt("cleanedL1")
  /\ Check(4)
  /\ UNCHANGED <<calls, conf, disk, mtmp, meta, call, lvel, mem, loaded, rlevel,
                 crashes, faults, history>>

\* FTI_RecoverL2, first half: a process without its own file takes the copy of
\* its right neighbour.
FixOwn(r) ==
  LET n == r[1]
      copy == Content(dir[2][Right(n)], "Pcof", <<Right(n), r[2]>>, calls[meta[2][r[2]]].id)
  IN /\ At(r, "fixOwn")
     /\ copy # Lost
     /\ dir' = [dir EXCEPT ![2][n] = Put(@, Holding("Rank", r, copy))]
     /\ Goto(r, "fixCopy")
     /\ UNCHANGED <<calls, conf, tmp, gtmp, gdir, mtmp, meta, local, recov, crashes,
                    faults, history>>

\* Second half: a process without the copy takes its left neighbour's file, once
\* that one has its own.
FixCopy(r) ==
  LET n == r[1]
      left == <<Left(n), r[2]>>
      orig == Content(dir[2][Left(n)], "Rank", left, calls[meta[2][r[2]]].id)
  IN /\ At(r, "fixCopy")
     /\ pc[left] # "fixOwn"
     /\ orig # Lost
     /\ dir' = IF Expected("Pcof", r, 2) \in erased
                 THEN [dir EXCEPT ![2][n] = Put(@, Holding("Pcof", r, orig))]
                 ELSE dir
     /\ Goto(r, "recovered")
     /\ UNCHANGED <<calls, conf, tmp, gtmp, gdir, mtmp, meta, local, recov, crashes,
                    faults, history>>

\* FTI_Decode: the survivors' files are padded to the largest size, in place.
DecodeOpen(r) ==
  LET own == Expected("Rank", r, 3)
  IN /\ At(r, "decodeOpen")
     /\ dir' = IF r \in Short THEN [dir EXCEPT ![3][r[1]] = Without(@, own)] ELSE dir
     /\ Goto(r, "decode")
     /\ UNCHANGED <<calls, conf, tmp, gtmp, gdir, mtmp, meta, local, recov, crashes,
                    faults, history>>

\* Once the whole group takes part: the missing files are rebuilt, the others
\* cut back to their size.
Decode(r) ==
  /\ At(r, "decode")
  /\ \A q \in Group(r[2]) : pc[q] # "decodeOpen"
  /\ dir' = [dir EXCEPT ![3][r[1]] = Put(Put(@, Expected("Rank", r, 3)), Expected("RSed", r, 3))]
  /\ Goto(r, "recovered")
  /\ UNCHANGED <<calls, conf, tmp, gtmp, gdir, mtmp, meta, local, recov, crashes,
                 faults, history>>

\* FTI_RecoverL4Posix: the L4 file is copied into the L1 directory.
Fetch(r) ==
  /\ At(r, "fetch")
  /\ dir' = [dir EXCEPT ![1][r[1]] = Put(@, Expected("Rank", r, 4))]
  /\ Goto(r, "recovered")
  /\ UNCHANGED <<calls, conf, tmp, gtmp, gdir, mtmp, meta, local, recov, crashes,
                 faults, history>>

\* The MPI_Allreduce of FTI_RecoverFiles.
RecoverSync ==
  /\ AllAt("recovered")
  /\ IF \E r \in Rank : res[r] # 0
       THEN NextLevel
       ELSE LET Id(r) == calls[meta[rlevel][r[2]]].id
            IN /\ AllGoto("restore")
               /\ lvel' = [r \in Rank |-> rlevel]
               /\ mem' = [r \in Rank |-> [last |-> rlevel, id |-> Id(r), cnt |-> Id(r) + 1,
                                          first |-> FALSE]]
               /\ acked' = [call |-> meta[rlevel][0], lvl |-> rlevel]
               /\ hurt' = {} /\ open' = {} /\ torn' = {}
               /\ UNCHANGED <<call, loaded, recov>>
  /\ UNCHANGED <<calls, conf, disk, mtmp, meta, res, crashes, faults>>

\* FTI_Recover: loads the file of that name without checking it again; at L4
\* the copy in the L1 directory if there is one.
Recover(r) ==
  LET In(S) == Content(S, "Rank", r, mem[r].id)
      n == r[1]
  IN /\ At(r, "restore")
     /\ loaded' = [loaded EXCEPT ![r] =
                     IF lvel[r] # 4 THEN In(dir[lvel[r]][n])
                     ELSE IF In(dir[1][n]) # Lost THEN In(dir[1][n]) ELSE In(gdir)]
     /\ Goto(r, "run")
     /\ UNCHANGED <<calls, conf, disk, mtmp, meta, call, res, lvel, mem, recov,
                    crashes, faults, history>>

-----------------------------------------------------------------------------

Init ==
  /\ calls = <<>>
  /\ conf = 0
  /\ tmp = NoFiles /\ dir = [l \in 1 .. 3 |-> NoFiles] /\ gtmp = {} /\ gdir = {}
  /\ mtmp = NoMeta /\ meta = [l \in 1 .. 4 |-> NoMeta]
  /\ pc = [r \in Rank |-> "run"]
  /\ call = [r \in Rank |-> 0]
  /\ res = [r \in Rank |-> 0]
  /\ lvel = [r \in Rank |-> 0]
  /\ mem = [r \in Rank |-> [last |-> 0, id |-> 0, cnt |-> 1, first |-> FALSE]]
  /\ loaded = [r \in Rank |-> NoCall]
  /\ rlevel = 1
  /\ erased = {}
  /\ crashes = 0
  /\ faults = 0
  /\ acked = [call |-> NoCall, lvl |-> 0]
  /\ hurt = {} /\ open = {} /\ torn = {}

\* The application calls of process r.
AppStep(r) == Follow(r) \/ \E l \in CallLevels \cup {Finalize} : Issue(r, l)

\* The steps of process r inside FTI_Checkpoint.
CkptStep(r) ==
  \/ \E bad \in BOOLEAN : Write(r, bad) \/ CreateMetadata(r, bad)
  \/ \E v \in {0, 1} : PostLocal(r, v)
  \/ Discard(r) \/ Clean(r) \/ Rename(r) \/ RenameGlobal(r) \/ RenameMeta(r) \/ Return(r)

\* The steps of process r inside FTI_Finalize.
FinStep(r) ==
  \/ \E bad \in BOOLEAN : Flush(r, bad)
  \/ FinRemoveL4(r) \/ FinRenameL4(r) \/ FinRemoveMeta(r) \/ FinRenameMeta(r)
  \/ FinUpdateConf(r) \/ FinClean(r) \/ DropConf(r) \/ Drop(r)

\* The steps of process r while it recovers.
RecoverStep(r) ==
  CleanL1(r) \/ FixOwn(r) \/ FixCopy(r) \/ DecodeOpen(r) \/ Decode(r) \/ Fetch(r) \/ Recover(r)

\* The steps several processes take together.
Sync ==
  \/ WriteSync \/ PostSync \/ RenameSync \/ FlushSync \/ FinSync
  \/ \E p \in Proc, l \in {2, 3}, bad \in SUBSET Node : Exchange(p, l, bad)
  \/ BootFresh \/ BootRecover \/ SkipLevel \/ TryLocal \/ TryGlobal \/ CheckGlobal \/ RecoverSync

Environment == Relaunch \/ \E F \in SUBSET Node : Crash(F)

\* The finished job is not launched again.
Ended == AllAt("done") /\ UNCHANGED vars

Next ==
  \/ \E r \in Rank : AppStep(r) \/ CkptStep(r) \/ FinStep(r) \/ RecoverStep(r)
  \/ Sync
  \/ Environment
  \/ Ended

Spec == Init /\ [][Next]_vars

\* Every process is scheduled and every collective completes; nothing obliges
\* the application to make another call, nor the job to crash.
Progress(r) == Follow(r) \/ CkptStep(r) \/ FinStep(r) \/ RecoverStep(r)

FairSpec ==
  /\ Spec
  /\ \A r \in Rank : WF_vars(Progress(r))
  /\ WF_vars(Sync)
-----------------------------------------------------------------------------
(* Properties *)

Where == {"run", "write", "wrote", "meta", "post", "posted", "discard", "clean", "rename",
          "renameGlobal", "renameMeta", "renamed", "return",
          "flush", "flushed", "rmL4", "mvL4", "rmMeta", "mvMeta", "finConf", "finClean",
          "dropConf", "drop", "finished", "done", "down",
          "try", "fixOwn", "fixCopy", "decodeOpen", "decode", "cleanL1", "cleanedL1",
          "fetch", "recovered", "restore"}

Index == 0 .. Len(calls)

Level == 0 .. 4 \cup {Rejected}

ControlOK ==
  /\ calls \in Seq([id : Nat, lvl : 0 .. 4])
  /\ conf \in {0, 1, 2}
  /\ mtmp \in [Proc -> Index]
  /\ meta \in [1 .. 4 -> [Proc -> Index]]
  /\ pc \in [Rank -> Where]
  /\ call \in [Rank -> Index]
  /\ res \in [Rank -> {0, 1}]
  /\ lvel \in [Rank -> Level]
  /\ mem \in [Rank -> [last : Level, id : Nat, cnt : Nat, first : BOOLEAN]]
  /\ rlevel \in 1 .. 4
  /\ crashes \in Nat /\ faults \in Nat
  /\ acked \in [call : Index, lvl : Level]

FilesOK ==
  /\ tmp \in [Node -> SUBSET File]
  /\ dir \in [1 .. 3 -> [Node -> SUBSET File]]
  /\ gtmp \in SUBSET File /\ gdir \in SUBSET File
  /\ erased \in SUBSET File
  /\ loaded \in [Rank -> Nat \cup {Lost}]
  /\ hurt \in SUBSET Node /\ open \in SUBSET Node /\ torn \in SUBSET (0 .. 4)

\* Type invariant.
TypeOK == ControlOK /\ FilesOK

\* FTI_RecoverFiles takes the lowest level that works "because of reliability";
\* that this is also the newest checkpoint rests on every commit removing the
\* metadata of all lower levels first, through failed calls, crashes in the
\* middle of a commit and recoveries.
LevelOrder ==
  ~KeepLast =>
    \A i, j \in 1 .. 4, p \in Proc :
      i < j /\ meta[i][p] # NoCall /\ meta[j][p] # NoCall => meta[i][p] > meta[j][p]

\* FTI_Recover opens a file by name and does not check it.  Names repeat when an
\* id is used again, and L4 has two candidates: every process must still load
\* the data of the same checkpoint.  (Once one process is in FTI_Finalize the
\* files may be gone before a slower one has read them.)
RestoredTogether ==
  calls # <<>> /\ calls[Len(calls)].lvl # Finalize =>
    \A q, r \in Rank :
      loaded[q] # NoCall /\ loaded[r] # NoCall => loaded[q] = loaded[r] /\ loaded[r] # Lost

\* All files of checkpoint c at level l, and the metadata that describes them.
Stored(c, l) ==
  /\ l \in 1 .. 4
  /\ \A p \in Proc : meta[l][p] = c
  /\ \A p \in Proc : Erasures(p, l) = {}

Harmless(l) ==
  /\ l = 4 \/ (hurt = {} /\ open = {})
  /\ \A t \in torn : t < l
  /\ \A r \in Rank : Replacing(lvel[r], r) < l

\* A checkpoint FTI_Checkpoint reported as done is there, complete, at its level
\* - or a newer one is, at that level or above - unless a node that holds it
\* fails or its replacement is under way; failed attempts do not touch it.
AckedIsStored ==
  acked.call # NoCall /\ Harmless(acked.lvl) =>
    \E c \in acked.call .. Len(calls), l \in acked.lvl .. 4 : Stored(c, l)

\* Once a checkpoint is done the configuration file tells the next launch to
\* recover.
RestartFlag == acked.call # NoCall => conf # 0

\* keep_last_ckpt: after FTI_Finalize the last checkpoint is on the PFS.
KeptAtEnd ==
  AllAt("done") /\ KeepLast /\ acked.call # NoCall => conf = 2 /\ Stored(acked.call, 4)

\* The node losses a level survives, for a ring of N: its reliability.
Survives(l, F) ==
  CASE l = 1 -> F = {}
    [] l = 2 -> \A n \in F : Right(n) \notin F
    [] l = 3 -> 2 * Cardinality(F) <= N
    [] OTHER -> TRUE

\* A step that ends a recovery (or decides there is none).
RecoveryEnds ==
  /\ pc[Root] \in {"down", "try", "recovered"}
  /\ pc'[Root] \in {"restore", "run"}

\* Whatever happened since the last completed checkpoint - failed attempts,
\* node losses its level survives, crashes during recovery - a restart gets
\* back that checkpoint or a later one.  Two windows are excepted: a crash while
\* a checkpoint of its level or above is being put in its place (torn), and a
\* crash while FTI_Decode has the survivors' files open (open).
Durable ==
  [][ /\ RecoveryEnds
      /\ conf # 0 /\ acked.call # NoCall
      /\ \A t \in torn : t < acked.lvl
      /\ Survives(acked.lvl, hurt \cup open)
      => acked'.call >= acked.call ]_vars

\* A call of the library returns on every process, through crashes, lost nodes and
\* recoveries, as long as no operation fails: with a failure that only one process
\* knows of, that of the metadata, the others may wait for ever in their exchange.
CallReturns ==
  \A r \in Rank : (pc[r] \notin {"run", "done"} \/ call[r] < Len(calls))
                  ~> (pc[r] \in {"run", "done"} /\ call[r] = Len(calls))
=============================================================================

---------------------------- MODULE FtiffRestart ----------------------------
(***************************************************************************)
(* Crash and restart of a job that writes incremental checkpoints in the   *)
(* FTI-FF format.  FTI-FF keeps no metadata beside the files: at a restart *)
(* every process looks into its directory for a file with its rank in the  *)
(* name (FTIFF_CheckL1RecoverInit and the others, src/src/ftiff.c), level  *)
(* by level from 1 (FTI_RecoverFiles, src/src/recover.c), and reads the    *)
(* variables from it (FTIFF_ReadDbFTIFF, FTIFF_Recover).                   *)
(*                                                                         *)
(* A crash stops all processes between any two of their steps and may take *)
(* the local directories of some nodes with it.  Recovery at one level is  *)
(* one step.  Level 3 is left out, it is never written here.               *)
(***************************************************************************)
EXTENDS IncrementalCkpt, Functions

CONSTANTS
  MaxCrash,   \* bound: crashes
  MaxLost     \* bound: nodes lost with all crashes

ASSUME RestartBounds == MaxCrash \in Nat /\ MaxLost \in Nat

VARIABLES
  tries,     \* the level recovery tries next, 0 outside of FTI_Init
  restored,  \* [Rank -> the file FTI_Recover has loaded, until the next call]
  crashes,   \* crashes so far
  lost,      \* nodes lost since the last checkpoint was committed
  losses,    \* nodes lost so far
  torn       \* a crash found two checkpoints in the directories of one level

restartVars == <<tries, restored, crashes, lost, losses, torn>>
allVars == <<vars, restartVars>>

NoFile == File("none", 0, 0)

RestartInit ==
  /\ Init
  /\ tries = 0
  /\ restored = [r \in Rank |-> NoFile]
  /\ crashes = 0 /\ losses = 0
  /\ lost = {}
  /\ torn = FALSE

Work ==
  /\ IcpStep
  /\ restored' = [r \in Rank |-> NoFile]
  /\ lost' = IF done' = done THEN lost ELSE {}
  /\ UNCHANGED <<tries, crashes, losses, torn>>

(* Some node has removed its old files or renamed its new ones, and some   *)
(* node has yet to rename.                                                 *)
Committing ==
  /\ \E r \in Rank : pc[r] \in {"rename", "barrier"}
  /\ \E r \in Rank : pc[r] \in {"clean", "rename"}

(* A directory holds two files of one process: the temporary directory was *)
(* not empty when a checkpoint was begun after a restart.                  *)
Leftover ==
  \E l \in Level, r \in Rank : \E f, g \in dir[l][r] : f.kind = g.kind /\ f # g

Crash ==
  /\ crashes < MaxCrash /\ ~torn   \* bound: nothing is said of later crashes
  /\ format = "ftiff"
  /\ \E gone \in SUBSET Rank :
       /\ losses + Cardinality(gone) <= MaxLost
       /\ losses' = losses + Cardinality(gone)
       /\ lost' = lost \cup gone
       /\ ltmp' = [r \in Rank |-> IF r \in gone THEN {} ELSE ltmp[r]]
       /\ dir' = [l \in Level |-> [r \in Rank |->
            IF l < 4 /\ r \in gone THEN {} ELSE dir[l][r]]]
  /\ crashes' = crashes + 1
  /\ torn' = (torn \/ Committing \/ Leftover)
  /\ AllGoto("down")
  /\ tries' = 0
  /\ restored' = [r \in Rank |-> NoFile]
  /\ call' = [r \in Rank |-> Len(plan)]
  /\ icp' = [r \in Rank |-> Idle]
  /\ id' = [r \in Rank |-> 0]
  /\ lvel' = [r \in Rank |-> 0]
  /\ last' = [r \in Rank |-> 0]
  /\ offline' = [r \in Rank |-> FALSE]
  /\ token' = [r \in Rank |-> None]
  /\ answer' = [r \in Rank |-> None]
  /\ UNCHANGED <<format, plan, flag, gtmp, done, faults>>

(* FTI_Init: recover if the restart flag is set.                           *)
Restart ==
  /\ AllAt("down") /\ tries = 0
  /\ IF flag THEN tries' = 1 /\ UNCHANGED pc
             ELSE AllGoto("run") /\ UNCHANGED tries
  /\ UNCHANGED <<format, plan, call, memory, heads, flag, disk, done, faults,
                 restored, crashes, lost, losses, torn>>

---------------------------------------------------------------------------

(* The checksum of the file is that of the data it holds.                  *)
Sound(f) == f.kind # "none" /\ f.vars = Var /\ f.stale = {}

(* The file of kind k that readdir finds first in files.                   *)
Found(files, k) ==
  IF \E f \in files : f.kind = k THEN {f \in files : f.kind = k} ELSE {NoFile}

(* Recovery from level l: process r reads the data from file name[r], with *)
(* checkpoint id i[r].  The level counts as recovered before the files are *)
(* read: a process that cannot read its own starts without data.           *)
Recovered(l, i, name) ==
  /\ id' = i
  /\ lvel' = [r \in Rank |-> l]
  /\ last' = [r \in Rank |-> l]
  /\ restored' = [r \in Rank |-> IF Sound(name[r]) THEN name[r] ELSE NoFile]
  /\ tries' = 0
  /\ AllGoto("run")
  /\ UNCHANGED icp

NotFrom(l) ==
  /\ tries' = IF l = 1 THEN 2 ELSE 4
  /\ UNCHANGED <<pc, memory, restored>>

StillDown == UNCHANGED <<format, plan, call, heads, flag, ltmp, gtmp, done,
                         faults, crashes, losses, torn>>

(* Mutant: every process goes by its own result, it is not summed.         *)
RecoverL1Alone ==
  /\ tries = 1
  /\ \E name \in [Rank -> UNION {Found(dir[1][r], "ckpt") : r \in Rank}] :
       /\ \A r \in Rank : name[r] \in Found(dir[1][r], "ckpt")
       /\ IF \E r \in Rank : Sound(name[r])
          THEN Recovered(1, [r \in Rank |-> name[r].id], name)
          ELSE NotFrom(1)
  /\ StillDown /\ UNCHANGED <<dir, lost>>

(* FTIFF_CheckL1RecoverInit: every process must find a sound file, and     *)
(* keeps the name and the id of the one it finds.                          *)
RecoverL1 ==
  /\ tries = 1
  /\ \E name \in [Rank -> UNION {Found(dir[1][r], "ckpt") : r \in Rank}] :
       /\ \A r \in Rank : name[r] \in Found(dir[1][r], "ckpt")
       /\ IF \A r \in Rank : Sound(name[r])
          THEN Recovered(1, [r \in Rank |-> name[r].id], name)
          ELSE NotFrom(1)
  /\ StillDown /\ UNCHANGED <<dir, lost>>

(* What process r reports of the files of kind k in its directory of level *)
(* 2: a sound one, or none.  The search ends at the first unsound file.    *)
Reported(r, k) ==
  {f \in Found(dir[2][r], k) : Sound(f)} \cup
  (IF Found(dir[2][r], k) # {NoFile} /\ \A f \in dir[2][r] : Sound(f)
   THEN {} ELSE {NoFile})

(* The average of the ids that the processes report, in integers.          *)
AverageId(i) ==
  SumFunctionOnSet(i, Rank) \div Cardinality({r \in Rank : i[r] > 0})

Named(files, k, i) == {f \in files : f.kind = k /\ f.id = i}

(* The directories of level 2 when what is missing has been taken from the *)
(* neighbours, by the name made of id i: a lost file from the copy on the  *)
(* right node, a lost copy from the left node.                             *)
Rebuilt(own, copy, i) ==
  [r \in Rank |-> Put(dir[2][r],
     (IF own[r] # NoFile THEN {}
      ELSE As("ckpt", Named(dir[2][Right(r)], "copy", i)))
     \cup
     (IF copy[r] # NoFile THEN {}
      ELSE As("copy", Named(dir[2][Left(r)], "ckpt", i))))]

(* The file of r with id i, if it is there.                                *)
Mine(d, r, i) ==
  IF Named(d[r], "ckpt", i) = {} THEN NoFile
  ELSE CHOOSE f \in Named(d[r], "ckpt", i) : TRUE

(* FTIFF_CheckL2RecoverInit and the exchange in FTI_RecoverL2.  A process  *)
(* waits for ever for a file that its neighbour has under another id.      *)
RecoverL2 ==
  /\ tries = 2
  /\ \E own, copy \in [Rank -> (UNION {dir[2][r] : r \in Rank}) \cup {NoFile}],
        ids \in [Rank -> {f.id : f \in UNION {dir[2][r] : r \in Rank}} \cup {0}] :
       /\ \A r \in Rank :
            /\ own[r] \in Reported(r, "ckpt")
            /\ copy[r] \in Reported(r, "copy")
            /\ ids[r] \in IF {own[r], copy[r]} = {NoFile} THEN {0}
                          ELSE {f.id : f \in {own[r], copy[r]} \ {NoFile}}
       /\ IF \A r \in Rank : own[r] # NoFile \/ copy[Right(r)] # NoFile
          THEN \E i \in 1 .. MaxCalls : \E d \in {Rebuilt(own, copy, i)} :
                 /\ i = AverageId(ids)
                 /\ \A r \in Rank :
                      /\ own[r] = NoFile => Named(d[r], "ckpt", i) # {}
                      /\ copy[r] = NoFile => Named(d[r], "copy", i) # {}
                 /\ dir' = [dir EXCEPT ![2] = d]
                 /\ lost' = IF done.lvl = 2 THEN {} ELSE lost
                 /\ Recovered(2, [r \in Rank |-> i], [r \in Rank |-> Mine(d, r, i)])
          ELSE NotFrom(2) /\ UNCHANGED <<dir, lost>>
  /\ StillDown

(* FTI_RecoverL4: the local directories of level 1 are removed, then       *)
(* filled with the files on the PFS, from which the data are read.         *)
RecoverL4 ==
  /\ tries = 4
  /\ \E name \in [Rank -> UNION {Found(dir[4][r], "ckpt") : r \in Rank}] :
       /\ \A r \in Rank : name[r] \in Found(dir[4][r], "ckpt")
       /\ IF \A r \in Rank : Sound(name[r])
          THEN /\ dir' = [dir EXCEPT ![1] = [r \in Rank |-> {name[r]}]]
               /\ Recovered(4, [r \in Rank |-> name[r].id], name)
          ELSE /\ dir' = [dir EXCEPT ![1] = [r \in Rank |-> {}]]
               /\ Recovered(0, [r \in Rank |-> 0], [r \in Rank |-> NoFile])
  /\ StillDown /\ UNCHANGED lost

(* Every call made and nothing left to do.                                 *)
Finished ==
  /\ \A r \in Rank : At(r, "run") /\ call[r] = MaxCalls /\ token[r] = None
  /\ UNCHANGED allVars

RestartNext ==
  Work \/ Crash \/ Restart \/ RecoverL1 \/ RecoverL2 \/ RecoverL4 \/ Finished

RestartSpec == RestartInit /\ [][RestartNext]_allVars

---------------------------------------------------------------------------
(* Properties *)

(* Type invariant; also, an iCP is open exactly inside of a call, and a     *)
(* level is being tried only while the job is down.                        *)
TypeOK ==
  /\ format \in Formats
  /\ plan \in Seq(CallLevels) /\ Len(plan) <= MaxCalls
  /\ call \in [Rank -> 0 .. MaxCalls]
  /\ \A r \in Rank : icp[r].wrote \subseteq Var /\ icp[r].status \in {"NINI", "ACTV", "FAIL"}
  /\ \A r \in Rank : (icp[r].status = "NINI") <=> pc[r] \in {"run", "down"}
  /\ lvel \in [Rank -> 0 .. Reject] /\ last \in [Rank -> 0 .. 4]
  /\ tries \in {0, 1, 2, 4} /\ (tries # 0 => AllAt("down"))
  /\ faults \in 0 .. MaxFault /\ crashes \in 0 .. MaxCrash /\ losses \in 0 .. MaxLost

(* No checkpoint that a restart looks for lacks a variable, whatever the   *)
(* processes added, skipped and failed to write, and wherever a crash hit: *)
(* FTI_FinalizeICP commits for all or for none (api.c:1571).  A file that  *)
(* a crash left in a temporary directory is renamed with those of the next *)
(* checkpoint, and is not meant; when level 2 is rebuilt from two          *)
(* checkpoints, nothing is said of what is made of them.                   *)
CommittedWhole ==
  (torn => AllAt("down")) =>
    \A l \in Level, r \in Rank : \A f \in dir[l][r] :
      (\A g \in dir[l][r] : g.call <= f.call) => f.vars = Var

(* The next execution looks for checkpoints whenever there are any: as soon *)
(* as process 0 is past its first checkpoint that did not fail, or one is  *)
(* stored, the restart flag is written, although earlier calls failed and  *)
(* gave their ids back (api.c:1760).                                       *)
FlagSet ==
  At(Root, "run") /\ (id[Root] > 0 \/ (done.call > 0 /\ crashes = 0)) => flag

(* Between two calls a process is owed one answer by its head, or none,    *)
(* and it knows which: it never waits in FTI_InitICP for an answer that    *)
(* does not come, nor leaves one behind for a later call (api.c:1344).     *)
OneAnswer ==
  \A r \in Rank : At(r, "run") =>
    /\ offline[r] <=> (token[r] # None \/ answer[r] # None)
    /\ token[r] = None \/ answer[r] = None

(* The processes agree on the checkpoint they are at: after the same       *)
(* number of calls, some of which failed for some of the processes only,   *)
(* they have the same id and level.                                        *)
Agreed ==
  \A r, s \in Rank :
    At(r, "run") /\ At(s, "run") /\ call[r] = call[s] /\ ~torn
      => id[r] = id[s] /\ lvel[r] = lvel[s]

(* When a checkpoint is taken for stored, every process has its file in the *)
(* directory of the level: the temporary directories into which processes  *)
(* ahead of the others already write the next checkpoint are not removed   *)
(* under them (checkpoint.c:356).                                          *)
DoneIsStored ==
  [][done' # done => \A r \in Rank : \E f \in dir'[done'.lvl][r] :
                       f.kind = "ckpt" /\ f.call = done'.call]_allVars

Restarted == \E r \in Rank : restored[r] # NoFile

(* The lost nodes are within what the level of the last checkpoint bears.  *)
Bearable ==
  CASE done.lvl = 1 -> lost = {}
    [] done.lvl = 2 -> \A r \in lost : Right(r) \notin lost
    [] OTHER -> TRUE

(* The end of FTI_Init and FTI_Recover in an execution that has to recover. *)
EndsRestart == tries # 0 /\ \A r \in Rank : pc'[r] = "run"

(* A restart gives all processes the data of one checkpoint, unless a      *)
(* crash has hit between the renames of a checkpoint, or a directory holds *)
(* a leftover: FTI-FF takes the file that readdir finds first, compares no *)
(* ids at level 1 and averages them at level 2 (ftiff.c:1773, 2265).       *)
RestoredTogether ==
  torn \/ (Restarted => \A r, s \in Rank : restored[r].call = restored[s].call)

(* A restart gives every process the data of the last checkpoint that was  *)
(* committed, or of a newer one, if its level bears the nodes lost since.  *)
NewestRestored ==
  [][EndsRestart /\ done.call > 0 /\ Bearable /\ ~torn
       => \A r \in Rank : restored'[r].call >= done.call]_allVars

=============================================================================

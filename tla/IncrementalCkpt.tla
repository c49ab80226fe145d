-------------------------- MODULE IncrementalCkpt --------------------------
(***************************************************************************)
(* Incremental checkpoints: FTI_InitICP, FTI_AddVarICP and FTI_FinalizeICP *)
(* (src/src/api.c) over the POSIX and FTI-FF back ends                     *)
(* (src/src/incremental-checkpoint.c), and the post-processing they start  *)
(* (FTI_PostCkpt, src/src/checkpoint.c).                                   *)
(*                                                                         *)
(* N processes, one per node, all in one group, make the same sequence of  *)
(* calls.  FTI_InitICP and FTI_AddVarICP are local: processes open their   *)
(* files and add variables at their own pace, and FTI_FinalizeICP is where *)
(* they find out about each other.  A file is abstracted to its name (kind *)
(* and id), the call that wrote it, the variables it holds and those of    *)
(* them whose value changed between FTI_InitICP and their FTI_AddVarICP.   *)
(*                                                                         *)
(* The heads' work on an asynchronous level is one step (HeadProtocol has  *)
(* the detail), and so are the exchange of the files and the sum of its    *)
(* results.  dCP and MPI-IO are left out.  The id of a call is one more    *)
(* than the process's ckptID, as in FTI_Snapshot.                          *)
(***************************************************************************)
EXTENDS Integers, Sequences, FiniteSets

CONSTANTS
  N,          \* processes, nodes and size of the group
  Var,        \* the protected variables
  Formats,    \* values of ioMode: subset of {"posix", "ftiff"}
  CallLevels, \* levels the application asks for
  Async,      \* those the heads post-process
  Computes,   \* the application computes on between FTI_InitICP and FTI_AddVarICP
  MaxCalls,   \* bound: calls of FTI_InitICP
  MaxFault,   \* bound: failing operations
  Faults,     \* which may fail: subset of {"open","write","close","meta","post"}
  UninitRes   \* values read from FTI_PostCkpt's res when no case assigned it

ASSUME IcpSizes == N \in Nat \ {0, 1} /\ MaxCalls \in Nat /\ MaxFault \in Nat
ASSUME IcpFormats == Formats \subseteq {"posix", "ftiff"} /\ Formats # {}
ASSUME IcpLevels == CallLevels \subseteq {1, 2, 4} /\ Async \subseteq CallLevels
ASSUME IcpComputes == Computes \in BOOLEAN
ASSUME IcpFaults == Faults \subseteq {"open", "write", "close", "meta", "post"}
ASSUME IcpUninit == UninitRes \subseteq {0, 1} /\ UninitRes # {}

Rank == 0 .. N - 1
Root == 0           \* the process with splitRank 0
Level == 1 .. 4
None == 0           \* no token, no answer
Reject == 6         \* FTI_REJW - FTI_BASE as a level or token; FTI_NSCS
Left(r) == (r + N - 1) % N
Right(r) == (r + 1) % N

VARIABLES
  format,   \* ioMode, read from the configuration file
  plan,     \* the levels of the calls begun so far, by the fastest process
  call,     \* [Rank -> Nat]: calls the process has begun
  pc,       \* [Rank -> where the process is]
  icp,      \* [Rank -> iCPInfo and the result of this call]
  id,       \* [Rank -> ckptID]
  lvel,     \* [Rank -> ckptLvel]
  last,     \* [Rank -> lastCkptLvel]
  offline,  \* [Rank -> wasLastOffline]
  token,    \* [Rank -> what the process sent to its head]
  answer,   \* [Rank -> what the head sent back]
  flag,     \* the restart flag in the configuration file
  ltmp,     \* [Rank -> files in the node's local temporary directory]
  gtmp,     \* [Rank -> files of the process in the global temporary directory]
  dir,      \* [Level -> [Rank -> files on the node (4: of the process, on the PFS)]]
  done,     \* the last checkpoint committed: its call and its level
  faults    \* failing operations so far

memory == <<icp, id, lvel, last>>
heads == <<offline, token, answer>>
disk == <<ltmp, gtmp, dir>>
vars == <<format, plan, call, pc, memory, heads, flag, disk, done, faults>>

Idle == [status |-> "NINI", result |-> FALSE, wrote |-> {}, ok |-> FALSE,
         lastId |-> 0, lastLvel |-> 0, first |-> FALSE]
File(k, i, c) == [kind |-> k, id |-> i, call |-> c, vars |-> {}, stale |-> {}]
Inline(l) == l \notin Async
OnPfs(l) == l = 4 /\ Inline(l)

(* One operation of kind k fails, or not. *)
May(k, bad) == bad => k \in Faults /\ faults < MaxFault
Count(bad) == faults' = faults + (IF bad THEN 1 ELSE 0)

At(r, where) == pc[r] = where
AllAt(where) == \A r \in Rank : At(r, where)
Goto(r, where) == pc' = [pc EXCEPT ![r] = where]
AllGoto(where) == pc' = [r \in Rank |-> where]

Init ==
  /\ format \in Formats
  /\ plan = <<>>
  /\ call = [r \in Rank |-> 0]
  /\ pc = [r \in Rank |-> "run"]
  /\ icp = [r \in Rank |-> Idle]
  /\ id = [r \in Rank |-> 0]
  /\ lvel = [r \in Rank |-> 0]
  /\ last = [r \in Rank |-> 0]
  /\ offline = [r \in Rank |-> FALSE]
  /\ token = [r \in Rank |-> None]
  /\ answer = [r \in Rank |-> None]
  /\ flag = FALSE
  /\ ltmp = [r \in Rank |-> {}]
  /\ gtmp = [r \in Rank |-> {}]
  /\ dir = [l \in Level |-> [r \in Rank |-> {}]]
  /\ done = [call |-> 0, lvl |-> 0]
  /\ faults = 0

---------------------------------------------------------------------------
(* FTI_InitICP *)

(* The level of the next call: the fastest process decides, the others     *)
(* make the same call.                                                     *)
Planned(r) ==
  IF call[r] = Len(plan) THEN CallLevels ELSE {plan[call[r] + 1]}

(* Mutant: a rejection is taken for the level that was post-processed.     *)
AwaitAny(r) ==
  /\ offline[r] => answer[r] # None
  /\ last' = [last EXCEPT ![r] = IF offline[r] THEN answer[r] ELSE @]
  /\ answer' = [answer EXCEPT ![r] = None]
  /\ UNCHANGED <<offline, token>>

(* The answer of the head that the previous call left outstanding; note    *)
(* that wasLastOffline is not reset here.                                  *)
Await(r) ==
  /\ offline[r] => answer[r] # None
  /\ last' = [last EXCEPT ![r] =
       IF offline[r] /\ answer[r] # Reject THEN answer[r] ELSE @]
  /\ answer' = [answer EXCEPT ![r] = None]
  /\ UNCHANGED <<offline, token>>

(* New files replace those of the same name and leave any other.           *)
Put(files, new) ==
  {g \in files : \A f \in new : <<g.kind, g.id>> # <<f.kind, f.id>>} \cup new

(* Mutant: the first checkpoint is told by the id already set, as in       *)
(* FTI_Checkpoint.                                                         *)
BegunLate(r, bad) ==
  [Idle EXCEPT !.status = IF bad THEN "FAIL" ELSE "ACTV",
               !.lastId = id[r], !.lastLvel = lvel[r], !.first = call[r] = 0]

Begun(r, bad) ==
  [Idle EXCEPT !.status = IF bad THEN "FAIL" ELSE "ACTV",
               !.lastId = id[r], !.lastLvel = lvel[r], !.first = id[r] = 0]

InitICP(r) ==
  /\ At(r, "run") /\ call[r] < MaxCalls
  /\ \E l \in Planned(r), bad \in BOOLEAN :
       /\ May("open", bad) /\ Count(bad)
       /\ Await(r)
       /\ plan' = IF call[r] = Len(plan) THEN Append(plan, l) ELSE plan
       /\ call' = [call EXCEPT ![r] = @ + 1]
       /\ icp' = [icp EXCEPT ![r] = Begun(r, bad)]
       /\ id' = [id EXCEPT ![r] = @ + 1]
       /\ lvel' = [lvel EXCEPT ![r] = l]
       /\ \E f \in {File("ckpt", id[r] + 1, call[r] + 1)} :
            IF bad THEN UNCHANGED <<ltmp, gtmp>>
            ELSE IF OnPfs(l)
            THEN gtmp' = [gtmp EXCEPT ![r] = Put(@, {f})] /\ UNCHANGED ltmp
            ELSE ltmp' = [ltmp EXCEPT ![r] = Put(@, {f})] /\ UNCHANGED gtmp
  /\ Goto(r, "icp")
  /\ UNCHANGED <<format, flag, dir, done>>

---------------------------------------------------------------------------
(* FTI_AddVarICP *)

(* The open file of this call, with variable v written; changed: the       *)
(* application has computed on since FTI_InitICP, and v has a new value.   *)
Written(r, v, changed, files) ==
  {IF f.call = call[r] /\ f.kind = "ckpt"
   THEN [f EXCEPT !.vars = @ \cup {v}, !.stale = IF changed THEN @ \cup {v} ELSE @]
   ELSE f : f \in files}

(* Only a write that succeeds is counted; it also sets the result of the   *)
(* call, which a later failing write leaves alone.                         *)
Counted(i, v, bad) ==
  IF bad THEN i ELSE [i EXCEPT !.result = TRUE, !.wrote = @ \cup {v}]

AddVarICP(r) ==
  /\ At(r, "icp") /\ icp[r].status = "ACTV"
  /\ \E v \in Var \ icp[r].wrote, bad, changed \in BOOLEAN :
       /\ May("write", bad) /\ Count(bad)
       /\ bad => format = "posix"     \* an FTI-FF write that fails aborts
       /\ changed => Computes /\ format = "ftiff" /\ ~bad
       /\ icp' = [icp EXCEPT ![r] = Counted(@, v, bad)]
       /\ IF bad THEN UNCHANGED <<ltmp, gtmp>>
          ELSE /\ ltmp' = [ltmp EXCEPT ![r] = Written(r, v, changed, @)]
               /\ gtmp' = [gtmp EXCEPT ![r] = Written(r, v, changed, @)]
  /\ UNCHANGED <<format, plan, call, pc, id, lvel, last, heads, flag, dir, done>>

---------------------------------------------------------------------------
(* FTI_FinalizeICP: the sum, the files, the metadata *)

FinalizeICP(r) ==
  /\ At(r, "icp")
  /\ Goto(r, "sum")
  /\ UNCHANGED <<format, plan, call, memory, heads, flag, disk, done, faults>>

(* Mutant: nobody asks whether all variables were added.                   *)
AllAddedUnasked == \A r \in Rank : icp[r].result

(* Both sums of the MPI_Allreduce.                                         *)
AllAdded == \A r \in Rank : icp[r].result /\ icp[r].wrote = Var

SumICP ==
  /\ AllAt("sum")
  /\ icp' = [r \in Rank |-> IF AllAdded THEN icp[r]
                            ELSE [icp[r] EXCEPT !.status = "FAIL"]]
  /\ AllGoto("close")
  /\ UNCHANGED <<format, plan, call, id, lvel, last, heads, flag, disk, done,
                 faults>>

(* The result of closing the file or of writing the metadata.              *)
Closed(i, ok) == [i EXCEPT !.ok = ok, !.status = IF ok THEN @ ELSE "FAIL"]

(* FTI_FinalizePosixICP, FTI_FinalizeFtiffICP: an iCP that failed leaves   *)
(* its file open, and fclose may fail.                                     *)
CloseICP(r) ==
  /\ At(r, "close")
  /\ \E bad \in BOOLEAN :
       /\ May("close", bad) /\ Count(bad)
       /\ bad => format = "posix" /\ icp[r].status = "ACTV"
       /\ \E ok \in {~bad /\ icp[r].status = "ACTV"} :
            /\ icp' = [icp EXCEPT ![r] = Closed(@, ok)]
            /\ Goto(r, IF ok /\ format = "posix" THEN "meta" ELSE "post")
  /\ UNCHANGED <<format, plan, call, id, lvel, last, heads, flag, disk, done>>

(* FTI_CreateMetadata is collective in the group, and only its first       *)
(* process, which writes the file, learns that this failed.                *)
MetaICP ==
  /\ AllAt("meta")
  /\ \E bad \in BOOLEAN :
       /\ May("meta", bad) /\ Count(bad)
       /\ icp' = [icp EXCEPT ![Root] = Closed(@, ~bad)]
  /\ AllGoto("post")
  /\ UNCHANGED <<format, plan, call, id, lvel, last, heads, flag, disk, done>>

---------------------------------------------------------------------------
(* FTI_FinalizeICP: the end of the call *)

(* Mutant: the id is given back only by the processes that failed first.   *)
GivenBackFirst(r) == icp[r].wrote = Var /\ icp[r].result

(* A process takes the checkpoint for written when its own file and        *)
(* metadata are; the result of the post-processing is not looked at.       *)
Taken(r) == icp[r].ok

(* What a call leaves in the process that makes it: its id and level, or   *)
(* those the process had when the call began.                              *)
Ended(r) ==
  /\ lvel' = [lvel EXCEPT ![r] = IF Taken(r) THEN @ ELSE icp[r].lastLvel]
  /\ id' = [id EXCEPT ![r] = IF Taken(r) THEN @ ELSE icp[r].lastId]
  /\ flag' = (flag \/ (Taken(r) /\ icp[r].first /\ r = Root))
  /\ icp' = [icp EXCEPT ![r] = Idle]
  /\ Goto(r, "run")

(* Mutant: a call that failed does not wait for the head, which answers.   *)
SendICPForgets(r) ==
  /\ At(r, "post") /\ ~Inline(lvel[r])
  /\ offline' = [offline EXCEPT ![r] = icp[r].status # "FAIL"]
  /\ token' = [token EXCEPT ![r] =
       IF icp[r].status = "FAIL" THEN Reject ELSE lvel[r]]
  /\ Ended(r)
  /\ UNCHANGED <<format, plan, call, last, answer, disk, done, faults>>

(* An asynchronous level: tell the head and return.                        *)
SendICP(r) ==
  /\ At(r, "post") /\ ~Inline(lvel[r])
  /\ offline' = [offline EXCEPT ![r] = TRUE]
  /\ token' = [token EXCEPT ![r] =
       IF icp[r].status = "FAIL" THEN Reject ELSE lvel[r]]
  /\ Ended(r)
  /\ UNCHANGED <<format, plan, call, last, answer, disk, done, faults>>

(* An inline level: the process enters FTI_PostCkpt, at the reject level   *)
(* when the iCP failed.                                                    *)
PostICP(r) ==
  /\ At(r, "post") /\ Inline(lvel[r])
  /\ offline' = [offline EXCEPT ![r] = FALSE]
  /\ lvel' = [lvel EXCEPT ![r] = IF icp[r].status = "FAIL" THEN Reject ELSE @]
  /\ Goto(r, "sync")
  /\ UNCHANGED <<format, plan, call, icp, id, last, token, answer, flag, disk,
                 done, faults>>

---------------------------------------------------------------------------
(* FTI_PostCkpt *)

(* The file of this call on the node of r.                                 *)
ThisCall(r) == {f \in ltmp[r] : f.kind = "ckpt" /\ f.call = call[r]}

As(k, files) == {[f EXCEPT !.kind = k] : f \in files}

(* What post-processing level l leaves in the local temporary directories: *)
(* at level 2 the partner's copy beside the node's own file.               *)
WithCopies(l) ==
  IF l # 2 THEN ltmp
  ELSE [r \in Rank |-> Put(ltmp[r], As("copy", ThisCall(Left(r))))]

(* The exchange, and the sum of its results; no case of the switch assigns *)
(* the result of a process at the reject level.                            *)
SyncPost ==
  /\ AllAt("sync")
  /\ \E bad \in BOOLEAN, res \in [{r \in Rank : lvel[r] = Reject} -> UninitRes] :
       /\ May("post", bad) /\ Count(bad)
       /\ IF bad \/ \E r \in DOMAIN res : res[r] # 0
          THEN AllGoto("discard") /\ UNCHANGED ltmp
          ELSE AllGoto("clean") /\ ltmp' = WithCopies(lvel[Root])
  /\ UNCHANGED <<format, plan, call, memory, heads, flag, gtmp, dir, done>>

(* FTI_Clean(0): every node its own directory, splitRank 0 the global one. *)
DiscardICP(r) ==
  /\ At(r, "discard")
  /\ ltmp' = [ltmp EXCEPT ![r] = {}]
  /\ gtmp' = IF r = Root THEN [q \in Rank |-> {}] ELSE gtmp
  /\ Ended(r)
  /\ UNCHANGED <<format, plan, call, last, heads, dir, done, faults>>

(* Mutant: only the directory of the level itself is removed.              *)
CleanedSame(l, r) ==
  [k \in Level |-> [q \in Rank |->
     IF k = l /\ (q = r \/ (k = 4 /\ r = Root)) THEN {} ELSE dir[k][q]]]

(* FTI_Clean(l) on the node of r: its directories of levels up to l, and   *)
(* by splitRank 0 the one on the PFS.                                      *)
Cleaned(l, r) ==
  [k \in Level |-> [q \in Rank |->
     IF IF k = 4 THEN l = 4 /\ r = Root ELSE k <= l /\ q = r
     THEN {} ELSE dir[k][q]]]

CleanICP(r) ==
  /\ At(r, "clean")
  /\ dir' = Cleaned(lvel[r], r)
  /\ Goto(r, "rename")
  /\ UNCHANGED <<format, plan, call, memory, heads, flag, ltmp, gtmp, done, faults>>

(* Mutant: the local directory is renamed by the first process only.       *)
RenameICPFirst(r) ==
  /\ At(r, "rename")
  /\ IF lvel[r] = 4 \/ r # Root
     THEN UNCHANGED <<ltmp, gtmp, dir>>
     ELSE /\ dir' = [dir EXCEPT ![lvel[r]][r] = ltmp[r]]
          /\ ltmp' = [ltmp EXCEPT ![r] = {}]
          /\ UNCHANGED gtmp
  /\ Goto(r, "barrier")
  /\ UNCHANGED <<format, plan, call, memory, heads, flag, done, faults>>

(* lTmpDir becomes the directory of the level on every node, or gTmpDir    *)
(* that on the PFS.                                                        *)
RenameICP(r) ==
  /\ At(r, "rename")
  /\ IF lvel[r] = 4
     THEN /\ dir' = IF r = Root THEN [dir EXCEPT ![4] = gtmp] ELSE dir
          /\ gtmp' = IF r = Root THEN [q \in Rank |-> {}] ELSE gtmp
          /\ UNCHANGED ltmp
     ELSE IF lvel[r] = Reject    \* FTI_Ckpt has no such element
     THEN UNCHANGED <<ltmp, gtmp, dir>>
     ELSE /\ dir' = [dir EXCEPT ![lvel[r]][r] = ltmp[r]]
          /\ ltmp' = [ltmp EXCEPT ![r] = {}]
          /\ UNCHANGED gtmp
  /\ Goto(r, "barrier")
  /\ UNCHANGED <<format, plan, call, memory, heads, flag, done, faults>>

BarrierICP ==
  /\ AllAt("barrier")
  /\ AllGoto("end")
  /\ done' = [call |-> call[Root], lvl |-> lvel[Root]]
  /\ UNCHANGED <<format, plan, call, memory, heads, flag, disk, faults>>

(* FTI_PostCkpt has succeeded.                                             *)
EndICP(r) ==
  /\ At(r, "end")
  /\ last' = [last EXCEPT ![r] = lvel[r]]
  /\ Ended(r)
  /\ UNCHANGED <<format, plan, call, heads, disk, done, faults>>

(* The heads, once every process has sent its token: they post-process the *)
(* level or discard the files, and answer.  Level 4 copies the files of    *)
(* the call to the PFS and leaves the local directory as level 1.          *)
HeadsICP ==
  /\ \A r \in Rank : token[r] # None
  /\ \E bad \in BOOLEAN, l \in {token[Root]} :
       /\ May("post", bad) /\ Count(bad)
       /\ IF bad \/ \E r \in Rank : token[r] = Reject
          THEN /\ answer' = [r \in Rank |-> Reject]
               /\ gtmp' = [r \in Rank |-> {}]
               /\ UNCHANGED <<dir, done>>
          ELSE /\ answer' = [r \in Rank |-> l]
               /\ dir' = [k \in Level |->
                    IF k = 4 /\ l = 4 THEN [r \in Rank |-> ThisCall(r)]
                    ELSE IF k = l \/ (l = 4 /\ k = 1) THEN WithCopies(l)
                    ELSE IF k < l THEN [r \in Rank |-> {}] ELSE dir[k]]
               /\ done' = [call |-> call[Root], lvl |-> l]
               /\ UNCHANGED gtmp
  /\ token' = [r \in Rank |-> None]
  /\ ltmp' = [r \in Rank |-> {}]
  /\ UNCHANGED <<format, plan, call, pc, memory, offline, flag>>

---------------------------------------------------------------------------

IcpStep ==
  \/ \E r \in Rank :
       InitICP(r) \/ AddVarICP(r) \/ FinalizeICP(r)
       \/ CloseICP(r) \/ SendICP(r) \/ PostICP(r) \/ DiscardICP(r)
       \/ CleanICP(r) \/ RenameICP(r) \/ EndICP(r)
  \/ SumICP \/ MetaICP \/ SyncPost \/ BarrierICP \/ HeadsICP

Spec == Init /\ [][IcpStep]_vars
=============================================================================

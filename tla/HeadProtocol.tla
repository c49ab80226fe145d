---------------------------- MODULE HeadProtocol ----------------------------
(***************************************************************************)
(* Asynchronous post-processing in FTI.  One process per node is the head: *)
(* it listens for the requests of the application processes of its node    *)
(* (FTI_Listen, FTI_HandleCkptRequest) and post-processes the checkpoint   *)
(* while they compute.  Before the next checkpoint, or in FTI_Finalize, a  *)
(* process waits for its head's answer.  Some levels may still be inline:  *)
(* then the application processes run FTI_PostCkpt themselves.             *)
(*                                                                         *)
(* Process <<n, 0>> is the head of node n, <<n, 1>> .. <<n, A>> are its    *)
(* application processes; those with equal second part form a group.       *)
(* FTI_COMM_WORLD joins the heads, or the application processes.  MPI      *)
(* collectives are single actions; a message goes into the queue of its    *)
(* sender, receiver and tag.  A checkpoint is the number of the call that  *)
(* took it; a directory maps each process whose file it holds to the call  *)
(* the file is from.  Levels that are not yet stored, and what L2 and L3   *)
(* add to the files, are the subject of MultilevelCkpt.                    *)
(***************************************************************************)
EXTENDS Integers, Sequences, FiniteSets

CONSTANTS
  N,            \* number of nodes
  A,            \* application processes per node
  CallLevels,   \* levels the application asks for
  Async,        \* levels post-processed by the heads
  MaxCalls,     \* bound: calls of FTI_Checkpoint
  MaxFault,     \* bound: I/O failures
  Faults        \* which I/O operations may fail

ASSUME SizesAssumption == N \in Nat \ {0} /\ A \in Nat \ {0}
ASSUME LevelsAssumption == CallLevels \subseteq 1 .. 4 /\ Async \subseteq 2 .. 4
ASSUME BoundsAssumption == MaxCalls \in Nat /\ MaxFault \in Nat
ASSUME FaultsAssumption == Faults \subseteq {"write", "meta", "post", "flush"}

Node == 0 .. N - 1
Group == 1 .. A
Apps == Node \X Group
Heads == Node \X {0}
Who == Apps \cup Heads
AmIaHead(x) == x[2] = 0
World(x) == IF AmIaHead(x) THEN Heads ELSE Apps   \* FTI_COMM_WORLD of x
SplitRoot(x) == x \in {<<0, 0>>, <<0, 1>>}        \* splitRank 0 of its world
NodeFlag(x) == x[2] \in {0, 1}                    \* cleans and renames for its node
Body(h) == {h[1]} \X Group

Finalize == 0
Rejected == 6         \* FTI_REJW - FTI_BASE
NSCS == -1            \* FTI_NSCS
NoCall == 0

VARIABLES
  calls,      \* the levels of the application's calls, Finalize the last
  pc,         \* where each process is
  call,       \* the call it is in (a head: whose request it serves)
  res,        \* its local result, 0 for FTI_SCES
  lvel,       \* FTI_Exec.ckptLvel
  prev,       \* the local lastCkptLvel of FTI_Checkpoint
  last,       \* FTI_Exec.lastCkptLvel
  offline,    \* FTI_Exec.wasLastOffline
  first,      \* ckptID is still 0; ckptFirst
  conf,       \* restart:failure of the configuration file
  ckptTag,    \* requests from each application process to its head
  finalTag,   \* whether its FTI_ENDW is under way
  answers,    \* the answers to it (general tag)
  tmp,        \* lTmpDir: whose file of which call
  dir,        \* FTI_Ckpt[1..3].dir
  gtmp, gdir, \* gTmpDir, FTI_Ckpt[4].dir
  mtmp, meta, \* mTmpDir, FTI_Ckpt[1..4].metaDir, by group
  faults,     \* I/O failures so far
  acked       \* history: the last checkpoint put in its place, its level

disk == <<tmp, dir, gtmp, gdir>>
metas == <<mtmp, meta>>
net == <<ckptTag, finalTag, answers>>
exec == <<prev, last, offline, first>>
vars == <<calls, pc, call, res, lvel, exec, conf, net, disk, metas, faults, acked>>

NoFiles == [r \in Apps |-> NoCall]
NoMeta == [p \in Group |-> NoCall]

May(kind, bad) == bad => kind \in Faults /\ faults < MaxFault
Count(bad) == faults' = IF bad THEN faults + 1 ELSE faults

At(x, l) == pc[x] = l
AllAt(W, l) == \A x \in W : pc[x] = l
Goto(x, l) == pc' = [pc EXCEPT ![x] = l]
Together(W, l) == pc' = [x \in Who |-> IF x \in W THEN l ELSE pc[x]]

-----------------------------------------------------------------------------
(* FTI_Checkpoint and FTI_Finalize of an application process *)

\* Mutant: the process does not wait for its head.
EnterAtOnce(r, l) ==
  /\ call' = [call EXCEPT ![r] = @ + 1]
  /\ res' = [res EXCEPT ![r] = 0]
  /\ first' = [first EXCEPT ![r] = IF l = Finalize THEN @
                                   ELSE [fresh |-> FALSE, ckpt |-> @.fresh]]
  /\ Goto(r, IF l = Finalize THEN "endw" ELSE "write")
  /\ UNCHANGED <<lvel, prev, last, offline, conf, net, disk, metas, faults, acked>>

\* ckptFirst is taken from ckptID, which is then set; a process with an answer
\* due waits for it.
Enter(r, l) ==
  /\ call' = [call EXCEPT ![r] = @ + 1]
  /\ res' = [res EXCEPT ![r] = 0]
  /\ first' = [first EXCEPT ![r] = IF l = Finalize THEN @
                                   ELSE [fresh |-> FALSE, ckpt |-> @.fresh]]
  /\ Goto(r, IF offline[r] THEN "await" ELSE IF l = Finalize THEN "endw" ELSE "write")
  /\ UNCHANGED <<lvel, prev, last, offline, conf, net, disk, metas, faults, acked>>

\* The first process to make the application's next call ...
Issue(r, l) ==
  /\ At(r, "run")
  /\ call[r] = Len(calls)
  /\ l # Finalize => Len(calls) < MaxCalls
  /\ calls' = Append(calls, l)
  /\ Enter(r, l)

\* ... and the others, which make the same one.
Follow(r) ==
  /\ At(r, "run")
  /\ call[r] < Len(calls)
  /\ Enter(r, calls[call[r] + 1])
  /\ UNCHANGED calls

\* Mutant: a failure is stored as if it were a level.
AwaitUnchecked(r) ==
  /\ At(r, "await")
  /\ answers[r] # <<>>
  /\ answers' = [answers EXCEPT ![r] = Tail(@)]
  /\ last' = [last EXCEPT ![r] = Head(answers[r])]
  /\ Goto(r, IF calls[call[r]] = Finalize THEN "endw" ELSE "write")
  /\ UNCHANGED <<calls, call, res, lvel, prev, offline, first, conf, ckptTag, finalTag,
                 disk, metas, faults, acked>>

\* The blocking receive of the head's answer.
Await(r) ==
  /\ At(r, "await")
  /\ answers[r] # <<>>
  /\ answers' = [answers EXCEPT ![r] = Tail(@)]
  /\ last' = [last EXCEPT ![r] = IF Head(answers[r]) # NSCS THEN Head(answers[r]) ELSE @]
  /\ Goto(r, IF calls[call[r]] = Finalize THEN "endw" ELSE "write")
  /\ UNCHANGED <<calls, call, res, lvel, prev, offline, first, conf, ckptTag, finalTag,
                 disk, metas, faults, acked>>

\* FTI_WriteCkpt up to its MPI_Allreduce.  Only an inline L4 goes to gTmpDir.
Write(r, bad) ==
  LET l == calls[call[r]]
      file == IF bad THEN NoCall ELSE call[r]
  IN /\ At(r, "write")
     /\ May("write", bad)
     /\ Count(bad)
     /\ prev' = [prev EXCEPT ![r] = lvel[r]]
     /\ lvel' = [lvel EXCEPT ![r] = l]
     /\ IF l = 4 /\ l \notin Async
          THEN gtmp' = [gtmp EXCEPT ![r] = file] /\ UNCHANGED tmp
          ELSE tmp' = [tmp EXCEPT ![r] = file] /\ UNCHANGED gtmp
     /\ res' = [res EXCEPT ![r] = IF bad THEN 1 ELSE 0]
     /\ Goto(r, "wrote")
     /\ UNCHANGED <<calls, call, last, offline, first, conf, net, dir, gdir, metas, acked>>

WriteSync ==
  /\ AllAt(Apps, "wrote")
  /\ IF \A r \in Apps : res[r] = 0
       THEN Together(Apps, "meta") /\ UNCHANGED res
       ELSE /\ Together(Apps, "send")
            /\ res' = [x \in Who |-> IF x \in Apps THEN 1 ELSE res[x]]
  /\ UNCHANGED <<calls, call, lvel, exec, conf, net, disk, metas, faults, acked>>

\* FTI_CreateMetadata: the group's first process writes the group's file, and it
\* alone learns of a failure.
CreateMetadata(r, bad) ==
  /\ At(r, "meta")
  /\ May("meta", bad)
  /\ bad => r[1] = 0
  /\ Count(bad)
  /\ mtmp' = IF r[1] = 0
               THEN [mtmp EXCEPT ![r[2]] = IF bad THEN NoCall ELSE call[r]]
               ELSE mtmp
  /\ res' = [res EXCEPT ![r] = IF bad THEN 1 ELSE 0]
  /\ Goto(r, "send")
  /\ UNCHANGED <<calls, call, lvel, exec, conf, net, disk, meta, acked>>

\* The end of FTI_Checkpoint: after the first one splitRank 0 sets the restart flag.
Flag(r) == conf' = IF first[r].ckpt /\ r = <<0, 1>> THEN 1 ELSE conf

\* Mutant: the process does not remember that an answer is due.
SendAsyncForgotten(r) ==
  /\ At(r, "send")
  /\ lvel[r] \in Async
  /\ ckptTag' = [ckptTag EXCEPT ![r] =
                   Append(@, [lvl |-> IF res[r] = 0 THEN lvel[r] ELSE Rejected,
                              call |-> call[r]])]
  /\ lvel' = IF res[r] = 0 THEN lvel ELSE [lvel EXCEPT ![r] = prev[r]]
  /\ IF res[r] = 0 THEN Flag(r) ELSE UNCHANGED conf
  /\ Goto(r, "run")
  /\ UNCHANGED <<calls, call, res, prev, last, offline, first, finalTag, answers, disk,
                 metas, faults, acked>>

\* Asynchronous level: the request, or its rejection, goes to the head and the
\* call is over.
SendAsync(r) ==
  /\ At(r, "send")
  /\ lvel[r] \in Async
  /\ offline' = [offline EXCEPT ![r] = TRUE]
  /\ ckptTag' = [ckptTag EXCEPT ![r] =
                   Append(@, [lvl |-> IF res[r] = 0 THEN lvel[r] ELSE Rejected,
                              call |-> call[r]])]
  /\ lvel' = IF res[r] = 0 THEN lvel ELSE [lvel EXCEPT ![r] = prev[r]]
  /\ IF res[r] = 0 THEN Flag(r) ELSE UNCHANGED conf
  /\ Goto(r, "run")
  /\ UNCHANGED <<calls, call, res, prev, last, first, finalTag, answers, disk, metas,
                 faults, acked>>

\* Mutant: the process goes on waiting for answers to asynchronous checkpoints.
StartInlineOffline(r) ==
  /\ At(r, "send")
  /\ lvel[r] \notin Async
  /\ lvel' = IF res[r] = 0 THEN lvel ELSE [lvel EXCEPT ![r] = Rejected]
  /\ Goto(r, "post")
  /\ UNCHANGED <<calls, call, res, prev, last, offline, first, conf, net, disk, metas,
                 faults, acked>>

\* Inline level: the process post-processes itself, a failed one at the reject
\* level.
StartInline(r) ==
  /\ At(r, "send")
  /\ lvel[r] \notin Async
  /\ offline' = [offline EXCEPT ![r] = FALSE]
  /\ lvel' = IF res[r] = 0 THEN lvel ELSE [lvel EXCEPT ![r] = Rejected]
  /\ Goto(r, "post")
  /\ UNCHANGED <<calls, call, res, prev, last, first, conf, net, disk, metas, faults, acked>>

\* Mutant: lastCkptLvel keeps the level of an earlier checkpoint.
ReturnInlineStale(r) ==
  /\ At(r, "return")
  /\ IF res[r] = 0 THEN Flag(r) ELSE UNCHANGED conf
  /\ Goto(r, "run")
  /\ UNCHANGED <<calls, call, res, lvel, exec, net, disk, metas, faults, acked>>

\* The end of a call whose post-processing was inline.
ReturnInline(r) ==
  /\ At(r, "return")
  /\ IF res[r] = 0
       THEN last' = [last EXCEPT ![r] = lvel[r]] /\ Flag(r)
       ELSE UNCHANGED <<last, conf>>
  /\ Goto(r, "run")
  /\ UNCHANGED <<calls, call, res, lvel, prev, offline, first, net, disk, metas, faults, acked>>

-----------------------------------------------------------------------------
(* FTI_PostCkpt, by the heads or by the application processes *)

\* Whose files x post-processes.
Mine(x) == IF AmIaHead(x) THEN Body(x) ELSE {x}

\* FTI_Local, FTI_Ptner, FTI_RSenc or FTI_Flush.  A head copies its node's files
\* to gTmpDir; FTI_Flush does not look at whether that worked.  (At the reject
\* level no case assigns the result; here it is not 0.)
\* A failure at L2 or L3 is one of the last operation, for which nobody waits.
Post(x, bad, lost) ==
  LET flush == lvel[x] = 4 /\ AmIaHead(x)
  IN /\ At(x, "post")
     /\ bad => lvel[x] \in {2, 3}
     /\ lvel[x] \in {2, 3} => \A r \in Mine(x) : tmp[r] = call[x]
     /\ lost => flush
     /\ May("post", bad) /\ May("flush", lost) /\ Count(bad \/ lost)
     /\ res' = [res EXCEPT ![x] = IF bad \/ lvel[x] = Rejected THEN 1 ELSE 0]
     /\ gtmp' = IF flush
                  THEN [r \in Apps |-> IF r \notin Mine(x) THEN gtmp[r]
                                       ELSE IF lost THEN NoCall ELSE tmp[r]]
                  ELSE gtmp
     /\ Goto(x, "posted")
     /\ UNCHANGED <<calls, call, lvel, exec, conf, net, tmp, dir, gdir, metas, acked>>

PostSync(W) ==
  /\ AllAt(W, "posted")
  /\ Together(W, IF \A x \in W : res[x] = 0 THEN "clean" ELSE "discard")
  /\ UNCHANGED <<calls, call, res, lvel, exec, conf, net, disk, metas, faults, acked>>

\* Where a process goes when FTI_PostCkpt is over.
After(x) == IF AmIaHead(x) THEN "answer" ELSE "return"

\* Mutant: the level's directories are removed along with the temporary ones.
DiscardLevel(x) ==
  /\ At(x, "discard")
  /\ tmp' = [r \in Apps |-> IF NodeFlag(x) /\ r[1] = x[1] THEN NoCall ELSE tmp[r]]
  /\ dir' = [l \in 1 .. 3 |-> [r \in Apps |-> IF l = lvel[x] /\ r[1] = x[1] THEN NoCall ELSE dir[l][r]]]
  /\ gtmp' = IF SplitRoot(x) THEN NoFiles ELSE gtmp
  /\ mtmp' = IF SplitRoot(x) THEN NoMeta ELSE mtmp
  /\ res' = [res EXCEPT ![x] = 1]
  /\ Goto(x, After(x))
  /\ UNCHANGED <<calls, call, lvel, exec, conf, net, gdir, meta, faults, acked>>

\* FTI_Clean(0), without a barrier.
Discard(x) ==
  /\ At(x, "discard")
  /\ tmp' = [r \in Apps |-> IF NodeFlag(x) /\ r[1] = x[1] THEN NoCall ELSE tmp[r]]
  /\ gtmp' = IF SplitRoot(x) THEN NoFiles ELSE gtmp
  /\ mtmp' = IF SplitRoot(x) THEN NoMeta ELSE mtmp
  /\ res' = [res EXCEPT ![x] = 1]
  /\ Goto(x, After(x))
  /\ UNCHANGED <<calls, call, lvel, exec, conf, net, dir, gdir, meta, faults, acked>>

\* FTI_Clean for the levels in L.
CleanLevels(x, L) ==
  /\ dir' = [l \in 1 .. 3 |->
               [r \in Apps |-> IF l \in L /\ NodeFlag(x) /\ r[1] = x[1] THEN NoCall ELSE dir[l][r]]]
  /\ gdir' = IF 4 \in L /\ SplitRoot(x) THEN NoFiles ELSE gdir
  /\ meta' = [l \in 1 .. 4 |-> IF l \in L /\ SplitRoot(x) THEN NoMeta ELSE meta[l]]

Clean(x) ==
  /\ At(x, "clean")
  /\ CleanLevels(x, 1 .. lvel[x])
  /\ Goto(x, IF NodeFlag(x) THEN "rename" ELSE "renamed")
  /\ UNCHANGED <<calls, call, res, lvel, exec, conf, net, tmp, gtmp, mtmp, faults, acked>>

\* lTmpDir becomes the level's directory; after an asynchronous L4, that of L1.
Rename(x) ==
  LET l == IF lvel[x] = 4 THEN 1 ELSE lvel[x]
      here(r) == r[1] = x[1]
  IN /\ At(x, "rename")
     /\ IF lvel[x] = 4 /\ 4 \notin Async
          THEN UNCHANGED <<tmp, dir>>
          ELSE /\ dir' = [dir EXCEPT ![l] = [r \in Apps |-> IF here(r) THEN tmp[r] ELSE @[r]]]
               /\ tmp' = [r \in Apps |-> IF here(r) THEN NoCall ELSE tmp[r]]
     /\ Goto(x, IF SplitRoot(x) THEN "renameGlobal" ELSE "renamed")
     /\ UNCHANGED <<calls, call, res, lvel, exec, conf, net, gtmp, gdir, metas, faults, acked>>

RenameGlobal(x) ==
  /\ At(x, "renameGlobal")
  /\ IF lvel[x] = 4
       THEN gdir' = gtmp /\ gtmp' = NoFiles
       ELSE UNCHANGED <<gdir, gtmp>>
  /\ meta' = [meta EXCEPT ![lvel[x]] = mtmp]
  /\ mtmp' = NoMeta
  /\ Goto(x, "renamed")
  /\ UNCHANGED <<calls, call, res, lvel, exec, conf, net, tmp, dir, faults, acked>>

\* The barrier: the checkpoint is in its place.
RenameSync(W) ==
  /\ AllAt(W, "renamed")
  /\ pc' = [x \in Who |-> IF x \in W THEN After(x) ELSE pc[x]]
  /\ \E x \in W : acked' = [call |-> call[x], lvl |-> lvel[x]]
  /\ UNCHANGED <<calls, call, res, lvel, exec, conf, net, disk, metas, faults>>

-----------------------------------------------------------------------------
(* The head *)

\* FTI_Listen sees a request: FTI_HandleCkptRequest blocks until every process of
\* the node has sent one.
Listen(h) ==
  /\ At(h, "listen")
  /\ \E r \in Body(h) : ckptTag[r] # <<>>
  /\ Goto(h, "collect")
  /\ UNCHANGED <<calls, call, res, lvel, exec, conf, net, disk, metas, faults, acked>>

\* Mutant: the reject token is kept as it came, FTI_BASE included.
CollectToken(h) ==
  LET tokens == {Head(ckptTag[r]).lvl : r \in Body(h)}
      l == IF Rejected \in tokens THEN 996 ELSE CHOOSE t \in tokens : TRUE
  IN /\ At(h, "collect")
     /\ \A r \in Body(h) : ckptTag[r] # <<>>
     /\ ckptTag' = [r \in Apps |-> IF r \in Body(h) THEN Tail(ckptTag[r]) ELSE ckptTag[r]]
     /\ call' = [call EXCEPT ![h] = Head(ckptTag[<<h[1], 1>>]).call]
     /\ lvel' = [lvel EXCEPT ![h] = l]
     /\ res' = [res EXCEPT ![h] = IF l = 996 THEN 1 ELSE 0]
     /\ Goto(h, "agree")
     /\ UNCHANGED <<calls, exec, conf, finalTag, answers, disk, metas, faults, acked>>

\* The level all of them ask for, or the reject level when one of them rejects.
Collect(h) ==
  LET tokens == {Head(ckptTag[r]).lvl : r \in Body(h)}
      l == IF Rejected \in tokens THEN Rejected ELSE CHOOSE t \in tokens : TRUE
  IN /\ At(h, "collect")
     /\ \A r \in Body(h) : ckptTag[r] # <<>>
     /\ ckptTag' = [r \in Apps |-> IF r \in Body(h) THEN Tail(ckptTag[r]) ELSE ckptTag[r]]
     /\ call' = [call EXCEPT ![h] = Head(ckptTag[<<h[1], 1>>]).call]
     /\ lvel' = [lvel EXCEPT ![h] = l]
     /\ res' = [res EXCEPT ![h] = IF l = Rejected THEN 1 ELSE 0]
     /\ Goto(h, "agree")
     /\ UNCHANGED <<calls, exec, conf, finalTag, answers, disk, metas, faults, acked>>

\* The heads' MPI_Allreduce.
Agree ==
  /\ AllAt(Heads, "agree")
  /\ Together(Heads, IF \A h \in Heads : res[h] = 0 THEN "post" ELSE "discard")
  /\ UNCHANGED <<calls, call, res, lvel, exec, conf, net, disk, metas, faults, acked>>

\* Mutant: the heads try a failed checkpoint again and do not report it.
AnswerRetry(h) ==
  /\ At(h, "answer")
  /\ answers' = [r \in Apps |-> IF r \in Body(h) /\ res[h] = 0
                                  THEN Append(answers[r], lvel[h]) ELSE answers[r]]
  /\ Goto(h, IF res[h] = 0 THEN "listen" ELSE "post")
  /\ UNCHANGED <<calls, call, res, lvel, exec, conf, ckptTag, finalTag, disk, metas,
                 faults, acked>>

\* The answer to every process of the node.
Answer(h) ==
  /\ At(h, "answer")
  /\ answers' = [r \in Apps |->
                   IF r \in Body(h)
                     THEN Append(answers[r], IF res[h] = 0 THEN lvel[h] ELSE NSCS)
                     ELSE answers[r]]
  /\ Goto(h, "listen")
  /\ UNCHANGED <<calls, call, res, lvel, exec, conf, ckptTag, finalTag, disk, metas,
                 faults, acked>>

\* A final message counts only when no request is pending; then the head waits
\* for those of all its processes.
ListenFinal(h) ==
  /\ At(h, "listen")
  /\ \A r \in Body(h) : ckptTag[r] = <<>>
  /\ \E r \in Body(h) : finalTag[r]
  /\ Goto(h, "ending")
  /\ UNCHANGED <<calls, call, res, lvel, exec, conf, net, disk, metas, faults, acked>>

EndListen(h) ==
  /\ At(h, "ending")
  /\ \A r \in Body(h) : finalTag[r]
  /\ finalTag' = [r \in Apps |-> r \notin Body(h) /\ finalTag[r]]
  /\ Goto(h, "finished")
  /\ UNCHANGED <<calls, call, res, lvel, exec, conf, ckptTag, answers, disk, metas,
                 faults, acked>>

-----------------------------------------------------------------------------
(* FTI_Finalize, without keep_last_ckpt *)

SendEnd(r) ==
  /\ At(r, "endw")
  /\ finalTag' = [finalTag EXCEPT ![r] = TRUE]
  /\ Goto(r, IF r = <<0, 1>> THEN "dropConf" ELSE "drop")
  /\ UNCHANGED <<calls, call, res, lvel, exec, conf, ckptTag, answers, disk, metas,
                 faults, acked>>

DropConf(r) ==
  /\ At(r, "dropConf")
  /\ conf' = 0
  /\ Goto(r, "drop")
  /\ UNCHANGED <<calls, call, res, lvel, exec, net, disk, metas, faults, acked>>

\* FTI_Clean(5).
Drop(r) ==
  /\ At(r, "drop")
  /\ CleanLevels(r, 1 .. 4)
  /\ Goto(r, "finished")
  /\ UNCHANGED <<calls, call, res, lvel, exec, conf, net, tmp, gtmp, mtmp, faults, acked>>

\* The last barrier, of all processes and heads.
FinSync ==
  /\ AllAt(Who, "finished")
  /\ Together(Who, "done")
  /\ UNCHANGED <<calls, call, res, lvel, exec, conf, net, disk, metas, faults, acked>>

-----------------------------------------------------------------------------

Init ==
  /\ calls = <<>>
  /\ pc = [x \in Who |-> IF AmIaHead(x) THEN "listen" ELSE "run"]
  /\ call = [x \in Who |-> 0]
  /\ res = [x \in Who |-> 0]
  /\ lvel = [x \in Who |-> 0]
  /\ prev = [r \in Apps |-> 0]
  /\ last = [r \in Apps |-> 0]
  /\ offline = [r \in Apps |-> FALSE]
  /\ first = [r \in Apps |-> [fresh |-> TRUE, ckpt |-> FALSE]]
  /\ conf = 0
  /\ ckptTag = [r \in Apps |-> <<>>]
  /\ finalTag = [r \in Apps |-> FALSE]
  /\ answers = [r \in Apps |-> <<>>]
  /\ tmp = NoFiles /\ dir = [l \in 1 .. 3 |-> NoFiles] /\ gtmp = NoFiles /\ gdir = NoFiles
  /\ mtmp = NoMeta /\ meta = [l \in 1 .. 4 |-> NoMeta]
  /\ faults = 0
  /\ acked = [call |-> NoCall, lvl |-> 0]

\* The steps of application process r once it has been called.
AppStep(r) ==
  \/ Follow(r) \/ Await(r)
  \/ \E bad \in BOOLEAN : Write(r, bad) \/ CreateMetadata(r, bad)
  \/ SendAsync(r) \/ StartInline(r) \/ ReturnInline(r)
  \/ SendEnd(r) \/ DropConf(r) \/ Drop(r)

\* The steps of x inside FTI_PostCkpt.
PostStep(x) ==
  \/ \E bad, lost \in BOOLEAN : Post(x, bad, lost)
  \/ Discard(x) \/ Clean(x) \/ Rename(x) \/ RenameGlobal(x)

HeadStep(h) == Listen(h) \/ Collect(h) \/ Answer(h) \/ ListenFinal(h) \/ EndListen(h)

Sync ==
  \/ WriteSync \/ Agree \/ FinSync
  \/ \E W \in {Apps, Heads} : PostSync(W) \/ RenameSync(W)

Ended == AllAt(Who, "done") /\ UNCHANGED vars

Next ==
  \/ \E r \in Apps : AppStep(r) \/ \E l \in CallLevels \cup {Finalize} : Issue(r, l)
  \/ \E x \in Who : PostStep(x)
  \/ \E h \in Heads : HeadStep(h)
  \/ Sync
  \/ Ended

Spec == Init /\ [][Next]_vars

\* Every process runs and every collective completes; nothing obliges the
\* application to call the library again.
FairSpec ==
  /\ Spec
  /\ \A r \in Apps : WF_vars(AppStep(r) \/ PostStep(r))
  /\ \A h \in Heads : WF_vars(HeadStep(h) \/ PostStep(h))
  /\ WF_vars(Sync)
-----------------------------------------------------------------------------
(* Properties *)

Where == {"run", "await", "write", "wrote", "meta", "send", "post", "posted", "discard",
          "clean", "rename", "renameGlobal", "renamed", "return", "listen", "collect",
          "agree", "answer", "ending", "endw", "dropConf", "drop", "finished", "done"}

Level == 0 .. 4 \cup {Rejected}

Index == 0 .. Len(calls)

\* Type invariant.
TypeOK ==
  /\ calls \in Seq(0 .. 4)
  /\ pc \in [Who -> Where]
  /\ call \in [Who -> Index]
  /\ res \in [Who -> {0, 1}]
  /\ lvel \in [Who -> Level]
  /\ prev \in [Apps -> Level] /\ last \in [Apps -> 0 .. 4]
  /\ offline \in [Apps -> BOOLEAN]
  /\ first \in [Apps -> [fresh : BOOLEAN, ckpt : BOOLEAN]]
  /\ conf \in {0, 1}
  /\ ckptTag \in [Apps -> Seq([lvl : (1 .. 4) \cup {Rejected}, call : Index])]
  /\ finalTag \in [Apps -> BOOLEAN]
  /\ answers \in [Apps -> Seq((1 .. 4) \cup {NSCS})]
  /\ tmp \in [Apps -> Index] /\ gtmp \in [Apps -> Index] /\ gdir \in [Apps -> Index]
  /\ dir \in [1 .. 3 -> [Apps -> Index]]
  /\ mtmp \in [Group -> Index] /\ meta \in [1 .. 4 -> [Group -> Index]]
  /\ faults \in Nat
  /\ acked \in [call : Index, lvl : 0 .. 4]

\* "Send msg. to avoid checkpoint collision": a process never writes into the
\* temporary directories while the head of its node still works on them.
NoCollision ==
  \A h \in Heads, r \in Apps :
    /\ r \in Body(h)
    /\ pc[h] \in {"agree", "post", "posted", "discard", "clean", "rename", "renameGlobal", "renamed"}
    => pc[r] \notin {"wrote", "meta", "send", "drop", "finished"}

\* All files of checkpoint c at level l, and the metadata that describes them.
Stored(c, l) ==
  /\ \A p \in Group : meta[l][p] = c
  /\ \A r \in Apps : IF l = 4 THEN gdir[r] = c ELSE dir[l][r] = c

\* No process has begun to replace level l, nor to clean up at the end.
Undisturbed(l) ==
  \A x \in Who :
    /\ pc[x] \in {"rename", "renameGlobal", "renamed"} => lvel[x] < l
    /\ pc[x] \notin {"finished", "done"} \/ AmIaHead(x)

\* A checkpoint the heads have put in its place stays there, complete, until a
\* newer one of its level or above replaces it; failed ones do not touch it.
AckedIsStored ==
  acked.call # NoCall /\ Undisturbed(acked.lvl) =>
    \E c \in acked.call .. Len(calls), l \in acked.lvl .. 4 : Stored(c, l)

\* FTI_Finalize acts on lastCkptLvel, which each process learns from its own head
\* or its own inline post-processing: all know the level of the last checkpoint
\* that was put in its place.
LastLevelKnown ==
  \A r \in Apps :
    pc[r] \in {"endw", "dropConf", "drop", "finished", "done"} => last[r] = acked.lvl

\* Every request is served and every answer received: between a process and its
\* head there is never more than one message, a head that waits for the end misses
\* no request, and no answer is left when it stops.
NoStrayMessages ==
  \A h \in Heads : \A r \in Body(h) :
    /\ Len(ckptTag[r]) + Len(answers[r]) <= 1
    /\ pc[h] \in {"ending", "finished", "done"} => ckptTag[r] = <<>>
    /\ pc[h] \in {"finished", "done"} => answers[r] = <<>>

\* The heads stop once every process has called FTI_Finalize, and no call of the
\* library blocks forever on a head.
HeadsStop ==
  /\ (calls # <<>> /\ calls[Len(calls)] = Finalize) ~> AllAt(Who, "done")
  /\ \A r \in Apps : (pc[r] # "run" \/ call[r] < Len(calls))
                     ~> (pc[r] \in {"run", "done"} /\ call[r] = Len(calls))
=============================================================================

------------------------- MODULE FtiffRestartProofs -------------------------
(***************************************************************************)
(* Proofs about FtiffRestart, for every number of processes, every set of  *)
(* variables, levels and faults, and every number of calls, crashes and    *)
(* lost nodes: type correctness, the answers of the heads and the restart  *)
(* flag; then, that the processes agree on their checkpoints, that what is *)
(* committed is stored and whole, and that a restart gives all processes   *)
(* one checkpoint.                                                         *)
(***************************************************************************)
EXTENDS FtiffRestart, FiniteSetTheorems, TLAPS

Idling == {"run", "down"}
Adding == {"icp", "sum", "close", "meta", "post"}
Rejectable == {"sync", "discard"}
Storing == {"clean", "rename", "barrier", "end"}
Where == Idling \cup Adding \cup Rejectable \cup Storing

Files == [kind : {"ckpt", "copy"}, id : Nat, call : Nat, vars : SUBSET Var, stale : SUBSET Var]
Loaded == Files \cup {NoFile}
Iterations == [status : {"NINI", "ACTV", "FAIL"}, result : BOOLEAN, wrote : SUBSET Var,
               ok : BOOLEAN, lastId : Nat, lastLvel : 0 .. Reject, first : BOOLEAN]

(* What the processes hold ... *)
MemoryOK ==
  /\ plan \in Seq(CallLevels) /\ Len(plan) <= MaxCalls
  /\ call \in [Rank -> 0 .. Len(plan)]
  /\ pc \in [Rank -> Where]
  /\ icp \in [Rank -> Iterations]
  /\ id \in [Rank -> Nat]
  /\ lvel \in [Rank -> 0 .. Reject]
  /\ last \in [Rank -> 0 .. 4]
  /\ offline \in [Rank -> BOOLEAN]
  /\ token \in [Rank -> CallLevels \cup {None, Reject}]
  /\ answer \in [Rank -> CallLevels \cup {None, Reject}]

(* ... what is in the directories ... *)
DiskOK ==
  /\ ltmp \in [Rank -> SUBSET Files]
  /\ gtmp \in [Rank -> SUBSET Files]
  /\ dir \in [Level -> [Rank -> SUBSET Files]]
  /\ restored \in [Rank -> Loaded]

(* ... and the rest. *)
CountOK ==
  /\ format \in Formats
  /\ faults \in 0 .. MaxFault
  /\ crashes \in 0 .. MaxCrash
  /\ losses \in 0 .. MaxLost
  /\ tries \in {0, 1, 2, 4}
  /\ tries # 0 => \A r \in Rank : pc[r] = "down"

(* An iCP is open exactly inside of a call; its level is one that was      *)
(* asked for, unless it failed, and then it is not stored.                 *)
CallOK ==
  \A r \in Rank :
    /\ icp[r].status = "NINI" <=> pc[r] \in Idling
    /\ pc[r] \in Adding \cup Storing => lvel[r] \in CallLevels
    /\ pc[r] \in Rejectable => lvel[r] \in CallLevels \cup {Reject}

TypeInv == MemoryOK /\ DiskOK /\ CountOK /\ CallOK

(* Between two calls a message is under way if the last call was one for   *)
(* the heads; inside of a call and while the job is down there is none,    *)
(* and inline post-processing leaves none behind.                          *)
AnswerInv ==
  \A r \in Rank :
    /\ pc[r] = "run" => /\ offline[r] <=> (token[r] # None \/ answer[r] # None)
                        /\ token[r] = None \/ answer[r] = None
    /\ pc[r] # "run" => token[r] = None /\ answer[r] = None
    /\ pc[r] \in {"down"} \cup Rejectable \cup Storing => ~offline[r]

(* What process 0 knows of the restart flag: an earlier checkpoint has set *)
(* it, or the current one will, when it is taken.                          *)
FlagInv ==
  /\ tries # 0 => flag
  /\ pc[Root] \in Idling /\ id[Root] # 0 => flag
  /\ pc[Root] \notin Idling =>
       /\ icp[Root].lastId # 0 => flag
       /\ icp[Root].first <=> icp[Root].lastId = 0
  /\ pc[Root] = "meta" => icp[Root].ok /\ icp[Root].status # "FAIL"
  /\ pc[Root] = "post" /\ icp[Root].status # "FAIL" => icp[Root].ok
  /\ pc[Root] \in Rejectable /\ lvel[Root] # Reject => icp[Root].ok
  /\ pc[Root] \in Storing => icp[Root].ok
  /\ token[Root] \notin {None, Reject} => flag
  /\ done.call # 0 /\ crashes = 0 => flag \/ pc[Root] = "end"

---------------------------------------------------------------------------
(* The ring of processes, and constants *)

LEMMA RankFacts == Root \in Rank /\ Rank \subseteq Nat
BY IcpSizes DEF Rank, Root

(* The neighbours of a process are processes. *)
LEMMA Neighbours == \A r \in Rank : Left(r) \in Rank /\ Right(r) \in Rank
BY IcpSizes DEF Rank, Left, Right

LEMMA LevelFacts == CallLevels \subseteq {1, 2, 4} /\ CallLevels \subseteq Level
                    /\ CallLevels \subseteq 0 .. Reject /\ None \notin CallLevels
                    /\ Reject \notin CallLevels /\ Reject = 6 /\ None = 0 /\ Root = 0
                    /\ \A l \in CallLevels : l = 1 \/ l = 2 \/ l = 4
BY IcpLevels DEF Level, Reject, None, Root

(* A level that is not a rejection is one that FTI knows. *)
LEMMA LevelRange ==
  \A x \in CallLevels \cup {None, Reject} : x # Reject => x \in 0 .. 4
BY IcpLevels DEF None, Reject

LEMMA NoFileType == NoFile \in Loaded /\ NoFile.id = 0 /\ ~Sound(NoFile)
BY DEF NoFile, File, Loaded, Sound

(* Files keep their type under everything that is done with them. *)
LEMMA FilesKept ==
  ASSUME NEW S \in SUBSET Files, NEW T \in SUBSET Files, NEW k \in {"ckpt", "copy"}, NEW i
  PROVE  /\ Put(S, T) \in SUBSET Files
         /\ As(k, S) \in SUBSET Files
         /\ Named(S, k, i) \in SUBSET Files
         /\ Found(S, k) \in SUBSET Loaded
<1>1. Put(S, T) \in SUBSET Files BY DEF Put
<1>2. As(k, S) \in SUBSET Files BY DEF As, Files
<1>3. Named(S, k, i) \in SUBSET Files BY DEF Named
<1>4. Found(S, k) \in SUBSET Loaded BY NoFileType DEF Found, Loaded
<1> QED BY <1>1, <1>2, <1>3, <1>4

---------------------------------------------------------------------------
(* Type correctness *)

LEMMA TypeInit == RestartInit => TypeInv
<1> SUFFICES ASSUME RestartInit PROVE TypeInv OBVIOUS
<1> USE LevelFacts, RankFacts DEF RestartInit, Init
<1>1. MemoryOK BY IcpSizes DEF MemoryOK, Where, Idling, Iterations, Idle
<1>2. DiskOK BY NoFileType DEF DiskOK
<1>3. CountOK BY IcpSizes, RestartBounds DEF CountOK
<1>4. CallOK BY DEF CallOK, Idle, Idling, Adding, Storing, Rejectable
<1> QED BY <1>1, <1>2, <1>3, <1>4 DEF TypeInv

(* One process's record of its call, changed in the ways the steps do. *)
LEMMA IterationsKept ==
  ASSUME NEW i \in Iterations, NEW v \in Var, NEW bad \in BOOLEAN
  PROVE  /\ Counted(i, v, bad) \in Iterations
         /\ Counted(i, v, bad).status = i.status
BY DEF Iterations, Counted

LEMMA ClosedType ==
  \A i \in Iterations, ok \in BOOLEAN :
    /\ Closed(i, ok) \in Iterations
    /\ Closed(i, ok).ok = ok
    /\ Closed(i, ok).status = IF ok THEN i.status ELSE "FAIL"
    /\ Closed(i, ok).lastId = i.lastId /\ Closed(i, ok).first = i.first
BY DEF Closed, Iterations

LEMMA FailType ==
  \A i \in Iterations :
    /\ [i EXCEPT !.status = "FAIL"] \in Iterations
    /\ [i EXCEPT !.status = "FAIL"].status = "FAIL"
    /\ [i EXCEPT !.status = "FAIL"].lastId = i.lastId
    /\ [i EXCEPT !.status = "FAIL"].first = i.first
BY DEF Iterations

LEMMA IdleType == Idle \in Iterations /\ Idle.status = "NINI"
BY LevelFacts DEF Idle, Iterations

(* FTI_InitICP: the level is one the application asks for. *)
LEMMA PlannedType ==
  ASSUME MemoryOK, NEW r \in Rank, NEW l \in Planned(r)
  PROVE  l \in CallLevels
BY DEF MemoryOK, Planned

LEMMA MemoryInit ==
  ASSUME TypeInv, NEW r \in Rank, InitICP(r)
  PROVE  MemoryOK' /\ CallOK'
<1> USE LevelFacts
<1>1. PICK l \in Planned(r), bad \in BOOLEAN :
        /\ Await(r)
        /\ plan' = IF call[r] = Len(plan) THEN Append(plan, l) ELSE plan
        /\ call' = [call EXCEPT ![r] = @ + 1]
        /\ icp' = [icp EXCEPT ![r] = Begun(r, bad)]
        /\ id' = [id EXCEPT ![r] = @ + 1]
        /\ lvel' = [lvel EXCEPT ![r] = l]
  BY DEF InitICP
<1>2. l \in CallLevels BY PlannedType DEF TypeInv
<1>3. Begun(r, bad) \in Iterations /\ Begun(r, bad).status # "NINI"
  BY DEF TypeInv, MemoryOK, Begun, Idle, Iterations
<1>4. pc' = [pc EXCEPT ![r] = "icp"] /\ call[r] < MaxCalls BY DEF InitICP, Goto
<1>5. /\ plan' \in Seq(CallLevels) /\ Len(plan') <= MaxCalls
      /\ call' \in [Rank -> 0 .. Len(plan')]
  BY <1>1, <1>2, <1>4, IcpSizes DEF TypeInv, MemoryOK
<1>6. /\ offline' \in [Rank -> BOOLEAN] /\ last' \in [Rank -> 0 .. 4]
      /\ token' \in [Rank -> CallLevels \cup {None, Reject}]
      /\ answer' \in [Rank -> CallLevels \cup {None, Reject}]
  <2>1. answer[r] \in CallLevels \cup {None, Reject} /\ last[r] \in 0 .. 4
    BY DEF TypeInv, MemoryOK
  <2>2. answer[r] # Reject => answer[r] \in 0 .. 4 BY <2>1, LevelRange
  <2>3. last' \in [Rank -> 0 .. 4] BY <1>1, <2>1, <2>2 DEF TypeInv, MemoryOK, Await
  <2>4. None \in CallLevels \cup {None, Reject} BY DEF None, Reject
  <2>5. answer' \in [Rank -> CallLevels \cup {None, Reject}]
    BY <1>1, <2>4 DEF TypeInv, MemoryOK, Await
  <2> QED BY <1>1, <2>3, <2>5 DEF TypeInv, MemoryOK, Await
<1>7. MemoryOK' BY <1>1, <1>2, <1>3, <1>4, <1>5, <1>6 DEF TypeInv, MemoryOK, Where, Adding
<1>8. CallOK'
  BY <1>1, <1>2, <1>3, <1>4
  DEF TypeInv, MemoryOK, CallOK, Idling, Adding, Storing, Rejectable
<1> QED BY <1>7, <1>8

(* What Ended leaves in the process. *)
LEMMA MemoryEnded ==
  ASSUME TypeInv, NEW r \in Rank, Ended(r)
  PROVE  /\ lvel' \in [Rank -> 0 .. Reject] /\ id' \in [Rank -> Nat]
         /\ icp' \in [Rank -> Iterations] /\ pc' \in [Rank -> Where]
         /\ CallOK'
<1>1. /\ lvel' \in [Rank -> 0 .. Reject] /\ id' \in [Rank -> Nat]
      /\ icp' \in [Rank -> Iterations] /\ pc' \in [Rank -> Where]
  BY IdleType DEF TypeInv, MemoryOK, Ended, Goto, Iterations, Where, Idling
<1>2. CallOK'
  BY IdleType
  DEF TypeInv, MemoryOK, CallOK, Ended, Goto, Idling, Adding, Storing, Rejectable
<1> QED BY <1>1, <1>2

LEMMA MemoryRank ==
  ASSUME TypeInv, NEW r \in Rank,
         \/ AddVarICP(r) \/ FinalizeICP(r) \/ CloseICP(r) \/ SendICP(r) \/ PostICP(r)
         \/ DiscardICP(r) \/ CleanICP(r) \/ RenameICP(r) \/ EndICP(r)
  PROVE  MemoryOK' /\ CallOK'
<1> USE LevelFacts DEF memory, heads, disk
<1>1. CASE AddVarICP(r)
  <2>1. PICK v \in Var, bad \in BOOLEAN : icp' = [icp EXCEPT ![r] = Counted(icp[r], v, bad)]
    BY <1>1 DEF AddVarICP
  <2>2. Counted(icp[r], v, bad) \in Iterations
        /\ Counted(icp[r], v, bad).status = icp[r].status
    <3>1. icp[r] \in Iterations BY DEF TypeInv, MemoryOK
    <3> QED BY <3>1, IterationsKept
  <2>3. icp' \in [Rank -> Iterations] /\ \A q \in Rank : icp'[q].status = icp[q].status
    BY <2>1, <2>2 DEF TypeInv, MemoryOK
  <2> QED BY <1>1, <2>3 DEF AddVarICP, TypeInv, MemoryOK, CallOK
<1>2. CASE FinalizeICP(r)
  BY <1>2 DEF FinalizeICP, Goto, At, TypeInv, MemoryOK, CallOK, Where, Idling, Adding, Storing,
              Rejectable
<1>3. CASE CloseICP(r)
  <2>1. PICK bad, ok \in BOOLEAN :
          /\ icp' = [icp EXCEPT ![r] = Closed(icp[r], ok)]
          /\ pc' = [pc EXCEPT ![r] = IF ok /\ format = "posix" THEN "meta" ELSE "post"]
    BY <1>3 DEF CloseICP, Goto
  <2>2. icp' \in [Rank -> Iterations]
    BY <2>1, ClosedType DEF TypeInv, MemoryOK
  <2>3. icp[r] \in Iterations /\ icp[r].status # "NINI"
    BY <1>3 DEF TypeInv, MemoryOK, CallOK, CloseICP, At, Idling
  <2>4. \A q \in Rank : icp'[q].status = "NINI" <=> icp[q].status = "NINI"
    <3>1. Closed(icp[r], ok).status # "NINI" BY <2>3, ClosedType
    <3>2. icp'[r] = Closed(icp[r], ok) BY <2>1 DEF TypeInv, MemoryOK
    <3>3. \A q \in Rank : q # r => icp'[q] = icp[q] BY <2>1 DEF TypeInv, MemoryOK
    <3> QED BY <2>3, <3>1, <3>2, <3>3
  <2>5. \A q \in Rank : pc[q] = "close" => pc[q] \in Adding BY DEF Adding
  <2>6. \A q \in Rank : pc'[q] = pc[q] \/ (q = r /\ pc'[q] \in {"meta", "post"})
    BY <2>1 DEF TypeInv, MemoryOK
  <2>7. pc' \in [Rank -> Where]
    BY <2>1 DEF TypeInv, MemoryOK, Where, Adding
  <2>8. MemoryOK' BY <1>3, <2>2, <2>7 DEF CloseICP, TypeInv, MemoryOK
  <2>9. CallOK'
    BY <1>3, <2>4, <2>6
    DEF CloseICP, At, TypeInv, CallOK, Idling, Adding, Storing, Rejectable
  <2> QED BY <2>8, <2>9
<1>4. CASE SendICP(r)
  <2>1. /\ offline' \in [Rank -> BOOLEAN]
        /\ token' \in [Rank -> CallLevels \cup {None, Reject}]
    BY <1>4 DEF SendICP, At, TypeInv, MemoryOK, CallOK, Adding
  <2> QED BY <1>4, <2>1, MemoryEnded DEF SendICP, TypeInv, MemoryOK
<1>5. CASE PostICP(r)
  <2>1. MemoryOK'
    BY <1>5 DEF PostICP, Goto, TypeInv, MemoryOK, Where, Rejectable
  <2>2. CallOK'
    BY <1>5
    DEF PostICP, Goto, At, TypeInv, MemoryOK, CallOK, Idling, Adding, Storing, Rejectable
  <2> QED BY <2>1, <2>2
<1>6. CASE DiscardICP(r)
  BY <1>6, MemoryEnded DEF DiscardICP, TypeInv, MemoryOK
<1>7. CASE CleanICP(r)
  BY <1>7 DEF CleanICP, Goto, At, TypeInv, MemoryOK, CallOK, Where, Idling, Adding, Storing,
              Rejectable
<1>8. CASE RenameICP(r)
  BY <1>8 DEF RenameICP, Goto, At, TypeInv, MemoryOK, CallOK, Where, Idling, Adding, Storing,
              Rejectable
<1>9. CASE EndICP(r)
  <2>1. lvel[r] \in CallLevels
    BY <1>9 DEF EndICP, At, TypeInv, CallOK, Storing
  <2>2. lvel[r] \in 0 .. 4 BY <2>1, LevelRange, LevelFacts
  <2>3. last' \in [Rank -> 0 .. 4]
    BY <1>9, <2>2 DEF EndICP, TypeInv, MemoryOK
  <2> QED BY <1>9, <2>3, MemoryEnded DEF EndICP, TypeInv, MemoryOK
<1> QED BY <1>1, <1>2, <1>3, <1>4, <1>5, <1>6, <1>7, <1>8, <1>9

(* The collectives.  A rejected checkpoint is not stored, as its result is *)
(* never 0.                                                                *)
LEMMA MemoryAll ==
  ASSUME TypeInv, 0 \notin UninitRes,
         SumICP \/ MetaICP \/ SyncPost \/ BarrierICP \/ HeadsICP
  PROVE  MemoryOK' /\ CallOK'
<1> USE LevelFacts, RankFacts DEF memory, heads, disk
<1>1. CASE SumICP
  <2>1. \A r \in Rank : icp[r] \in Iterations /\ icp[r].status # "NINI"
    BY <1>1 DEF SumICP, AllAt, At, TypeInv, MemoryOK, CallOK, Idling
  <2>2. icp' = [r \in Rank |-> IF AllAdded THEN icp[r] ELSE [icp[r] EXCEPT !.status = "FAIL"]]
    BY <1>1 DEF SumICP
  <2>3. icp' \in [Rank -> Iterations] BY <2>1, <2>2, FailType
  <2>4. \A r \in Rank : icp'[r].status # "NINI" BY <2>1, <2>2, FailType
  <2>5. MemoryOK'
    BY <1>1, <2>3 DEF SumICP, AllGoto, TypeInv, MemoryOK, Where, Adding
  <2>6. CallOK'
    BY <1>1, <2>4
    DEF SumICP, AllAt, At, AllGoto, TypeInv, CallOK, Idling, Adding, Storing, Rejectable
  <2> QED BY <2>5, <2>6
<1>2. CASE MetaICP
  <2>1. PICK bad \in BOOLEAN : icp' = [icp EXCEPT ![Root] = Closed(icp[Root], ~bad)]
    BY <1>2 DEF MetaICP
  <2>2. \A r \in Rank : icp[r] \in Iterations /\ icp[r].status # "NINI"
    BY <1>2 DEF MetaICP, AllAt, At, TypeInv, MemoryOK, CallOK, Idling
  <2>3. Closed(icp[Root], ~bad) \in Iterations /\ Closed(icp[Root], ~bad).status # "NINI"
    BY <2>2, ClosedType
  <2>4. icp' \in [Rank -> Iterations] /\ \A r \in Rank : icp'[r].status # "NINI"
    BY <2>1, <2>2, <2>3 DEF TypeInv, MemoryOK
  <2>5. MemoryOK'
    BY <1>2, <2>4 DEF MetaICP, AllGoto, TypeInv, MemoryOK, Where, Adding
  <2>6. CallOK'
    BY <1>2, <2>4
    DEF MetaICP, AllAt, At, AllGoto, TypeInv, CallOK, Idling, Adding, Storing, Rejectable
  <2> QED BY <2>5, <2>6
<1>3. CASE SyncPost
  <2>1. \/ AllGoto("discard")
        \/ AllGoto("clean") /\ \A r \in Rank : lvel[r] # Reject
    BY <1>3 DEF SyncPost
  <2>2. MemoryOK'
    BY <1>3, <2>1 DEF SyncPost, AllGoto, TypeInv, MemoryOK, Where, Storing, Rejectable
  <2>3. CallOK'
    BY <1>3, <2>1
    DEF SyncPost, AllAt, At, AllGoto, TypeInv, CallOK, Idling, Adding, Storing, Rejectable
  <2> QED BY <2>2, <2>3
<1>4. CASE BarrierICP
  <2>1. MemoryOK' BY <1>4 DEF BarrierICP, AllGoto, TypeInv, MemoryOK, Where, Storing
  <2>2. CallOK'
    BY <1>4
    DEF BarrierICP, AllAt, At, AllGoto, TypeInv, CallOK, Idling, Adding, Storing, Rejectable
  <2> QED BY <2>1, <2>2
<1>5. CASE HeadsICP
  <2>1. token[Root] \in CallLevels \cup {None, Reject} BY DEF TypeInv, MemoryOK
  <2>2. /\ answer' \in [Rank -> CallLevels \cup {None, Reject}]
        /\ token' \in [Rank -> CallLevels \cup {None, Reject}]
    BY <1>5, <2>1 DEF HeadsICP
  <2> QED BY <1>5, <2>2 DEF HeadsICP, TypeInv, MemoryOK, CallOK
<1> QED BY <1>1, <1>2, <1>3, <1>4, <1>5

(* What a recovery leaves in the processes. *)
LEMMA MemoryRecovered ==
  ASSUME TypeInv, tries # 0, NEW l \in 0 .. 4, NEW i \in [Rank -> Nat], NEW name,
         Recovered(l, i, name), StillDown
  PROVE  MemoryOK' /\ CallOK'
<1> USE LevelFacts DEF heads
<1>1. MemoryOK'
  BY DEF Recovered, StillDown, AllGoto, TypeInv, MemoryOK, Where, Idling
<1>2. CallOK'
  BY DEF Recovered, StillDown, AllGoto, TypeInv, CountOK, CallOK, Idling, Adding, Storing,
         Rejectable
<1> QED BY <1>1, <1>2

LEMMA MemoryNot ==
  ASSUME TypeInv, NEW l, NotFrom(l), StillDown
  PROVE  MemoryOK' /\ CallOK'
BY DEF NotFrom, StillDown, memory, heads, TypeInv, MemoryOK, CallOK

(* The files that recovery finds. *)
LEMMA NamesType ==
  ASSUME TypeInv, NEW l \in Level, NEW name,
         \A r \in Rank : name[r] \in Found(dir[l][r], "ckpt")
  PROVE  \A r \in Rank : name[r] \in Loaded /\ name[r].id \in Nat
<1> SUFFICES ASSUME NEW r \in Rank PROVE name[r] \in Loaded /\ name[r].id \in Nat OBVIOUS
<1>1. dir[l][r] \in SUBSET Files BY DEF TypeInv, DiskOK
<1>2. Found(dir[l][r], "ckpt") \in SUBSET Loaded BY <1>1, FilesKept
<1> QED BY <1>2, NoFileType DEF Files, Loaded

LEMMA MemoryRestart ==
  ASSUME TypeInv,
         Crash \/ Restart \/ RecoverL1 \/ RecoverL2 \/ RecoverL4 \/ Finished
  PROVE  MemoryOK' /\ CallOK'
<1> USE LevelFacts DEF memory, heads, disk
<1>1. CASE Crash
  <2>1. MemoryOK'
    BY <1>1, IdleType DEF Crash, AllGoto, TypeInv, MemoryOK, Where, Idling
  <2>2. CallOK'
    BY <1>1, IdleType DEF Crash, AllGoto, CallOK, Idling, Adding, Storing, Rejectable
  <2> QED BY <2>1, <2>2
<1>2. CASE Restart
  <2>1. MemoryOK' BY <1>2 DEF Restart, AllGoto, TypeInv, MemoryOK, Where, Idling
  <2>2. CallOK'
    BY <1>2
    DEF Restart, AllAt, At, AllGoto, TypeInv, CallOK, Idling, Adding, Storing, Rejectable
  <2> QED BY <2>1, <2>2
<1>3. CASE RecoverL1
  <2>1. PICK name :
          /\ \A r \in Rank : name[r] \in Found(dir[1][r], "ckpt")
          /\ Recovered(1, [r \in Rank |-> name[r].id], name) \/ NotFrom(1)
    BY <1>3 DEF RecoverL1
  <2>2. [r \in Rank |-> name[r].id] \in [Rank -> Nat] BY <2>1, NamesType DEF Level
  <2>3. tries # 0 /\ StillDown BY <1>3 DEF RecoverL1
  <2>4. CASE NotFrom(1) BY <2>3, <2>4, MemoryNot
  <2>5. CASE Recovered(1, [r \in Rank |-> name[r].id], name)
    BY <2>2, <2>3, <2>5, MemoryRecovered
  <2> QED BY <2>1, <2>4, <2>5
<1>4. CASE RecoverL2
  <2>1. \/ NotFrom(2)
        \/ \E i \in 1 .. MaxCalls : \E name : Recovered(2, [r \in Rank |-> i], name)
    BY <1>4 DEF RecoverL2
  <2>2. \A i \in 1 .. MaxCalls : [r \in Rank |-> i] \in [Rank -> Nat] BY IcpSizes
  <2>3. tries # 0 /\ StillDown BY <1>4 DEF RecoverL2
  <2>4. CASE NotFrom(2) BY <2>3, <2>4, MemoryNot
  <2>5. ASSUME NEW i \in 1 .. MaxCalls, NEW name, Recovered(2, [r \in Rank |-> i], name)
        PROVE  MemoryOK' /\ CallOK'
    BY <2>2, <2>3, <2>5, MemoryRecovered
  <2> QED BY <2>1, <2>4, <2>5
<1>5. CASE RecoverL4
  <2>1. PICK name :
          /\ \A r \in Rank : name[r] \in Found(dir[4][r], "ckpt")
          /\ \/ Recovered(4, [r \in Rank |-> name[r].id], name)
             \/ Recovered(0, [r \in Rank |-> 0], [r \in Rank |-> NoFile])
    BY <1>5 DEF RecoverL4
  <2>2. [r \in Rank |-> name[r].id] \in [Rank -> Nat] BY <2>1, NamesType DEF Level
  <2>3. [r \in Rank |-> 0] \in [Rank -> Nat] OBVIOUS
  <2>4. tries # 0 /\ StillDown BY <1>5 DEF RecoverL4
  <2>5. CASE Recovered(4, [r \in Rank |-> name[r].id], name)
    BY <2>2, <2>4, <2>5, MemoryRecovered
  <2>6. CASE Recovered(0, [r \in Rank |-> 0], [r \in Rank |-> NoFile])
    BY <2>3, <2>4, <2>6, MemoryRecovered
  <2> QED BY <2>1, <2>5, <2>6
<1>6. CASE Finished
  BY <1>6 DEF Finished, allVars, vars, TypeInv, MemoryOK, CallOK
<1> QED BY <1>1, <1>2, <1>3, <1>4, <1>5, <1>6

(* The directories.  FTI_AddVarICP changes a file, and post-processing adds *)
(* copies of files.                                                        *)
LEMMA WrittenType ==
  ASSUME NEW r, NEW v \in Var, NEW changed \in BOOLEAN, NEW S \in SUBSET Files
  PROVE  Written(r, v, changed, S) \in SUBSET Files
<1>1. \A f \in S :
        [f EXCEPT !.vars = @ \cup {v}, !.stale = IF changed THEN @ \cup {v} ELSE @] \in Files
  BY DEF Files
<1> QED BY <1>1 DEF Written

LEMMA CopiesType ==
  ASSUME TypeInv, NEW l
  PROVE  WithCopies(l) \in [Rank -> SUBSET Files]
<1>1. ASSUME NEW r \in Rank
      PROVE  Put(ltmp[r], As("copy", ThisCall(Left(r)))) \in SUBSET Files
  <2>1. ltmp[r] \in SUBSET Files /\ ltmp[Left(r)] \in SUBSET Files
    BY Neighbours DEF TypeInv, DiskOK
  <2>2. ThisCall(Left(r)) \in SUBSET Files BY <2>1 DEF ThisCall
  <2>3. As("copy", ThisCall(Left(r))) \in SUBSET Files BY <2>2, FilesKept
  <2> QED BY <2>1, <2>3, FilesKept
<1> QED BY <1>1 DEF WithCopies, TypeInv, DiskOK

LEMMA DiskWork ==
  ASSUME TypeInv, Work
  PROVE  DiskOK'
<1> DEFINE D == [Rank -> SUBSET Files]
<1> USE LevelFacts, RankFacts DEF disk
<1>0. /\ ltmp \in D /\ gtmp \in D /\ dir \in [Level -> D]
      /\ restored' \in [Rank -> Loaded]
  BY NoFileType DEF TypeInv, DiskOK, Work
<1> SUFFICES ltmp' \in D /\ gtmp' \in D /\ dir' \in [Level -> D] BY <1>0 DEF DiskOK
<1>1. ASSUME NEW r \in Rank, InitICP(r) PROVE ltmp' \in D /\ gtmp' \in D /\ dir' \in [Level -> D]
  <2> DEFINE f == File("ckpt", id[r] + 1, call[r] + 1)
  <2>1. f \in Files BY DEF TypeInv, MemoryOK, File, Files
  <2>2. Put(ltmp[r], {f}) \in SUBSET Files /\ Put(gtmp[r], {f}) \in SUBSET Files
    <3>1. ltmp[r] \in SUBSET Files /\ gtmp[r] \in SUBSET Files /\ {f} \in SUBSET Files
      BY <1>0, <2>1
    <3> HIDE DEF f
    <3> QED BY <3>1, FilesKept
  <2> HIDE DEF f
  <2>3. /\ ltmp' = ltmp \/ ltmp' = [ltmp EXCEPT ![r] = Put(@, {f})]
        /\ gtmp' = gtmp \/ gtmp' = [gtmp EXCEPT ![r] = Put(@, {f})]
        /\ dir' = dir
    BY <1>1 DEF InitICP, f
  <2> QED BY <1>0, <2>2, <2>3
<1>2. ASSUME NEW r \in Rank, AddVarICP(r)
      PROVE  ltmp' \in D /\ gtmp' \in D /\ dir' \in [Level -> D]
  <2>1. PICK v \in Var, bad \in BOOLEAN, changed \in BOOLEAN :
          IF bad THEN UNCHANGED <<ltmp, gtmp>>
          ELSE /\ ltmp' = [ltmp EXCEPT ![r] = Written(r, v, changed, ltmp[r])]
               /\ gtmp' = [gtmp EXCEPT ![r] = Written(r, v, changed, gtmp[r])]
    BY <1>2 DEF AddVarICP
  <2>2. ltmp[r] \in SUBSET Files /\ gtmp[r] \in SUBSET Files BY <1>0
  <2>3. /\ Written(r, v, changed, ltmp[r]) \in SUBSET Files
        /\ Written(r, v, changed, gtmp[r]) \in SUBSET Files
    BY <2>2, WrittenType
  <2>4. dir' = dir BY <1>2 DEF AddVarICP
  <2> QED BY <1>0, <2>1, <2>3, <2>4
<1>3. ASSUME NEW r \in Rank,
             FinalizeICP(r) \/ CloseICP(r) \/ SendICP(r) \/ PostICP(r) \/ EndICP(r)
      PROVE  ltmp' \in D /\ gtmp' \in D /\ dir' \in [Level -> D]
  BY <1>0, <1>3 DEF FinalizeICP, CloseICP, SendICP, PostICP, EndICP
<1>4. ASSUME NEW r \in Rank, DiscardICP(r)
      PROVE  ltmp' \in D /\ gtmp' \in D /\ dir' \in [Level -> D]
  BY <1>0, <1>4 DEF DiscardICP
<1>5. ASSUME NEW r \in Rank, CleanICP(r)
      PROVE  ltmp' \in D /\ gtmp' \in D /\ dir' \in [Level -> D]
  <2>1. Cleaned(lvel[r], r) \in [Level -> D] BY <1>0 DEF Cleaned
  <2> QED BY <1>0, <1>5, <2>1 DEF CleanICP
<1>6. ASSUME NEW r \in Rank, RenameICP(r)
      PROVE  ltmp' \in D /\ gtmp' \in D /\ dir' \in [Level -> D]
  <2>1. CASE lvel[r] = 4
    <3>1. dir' \in {dir, [dir EXCEPT ![4] = gtmp]} /\ ltmp' = ltmp
          /\ gtmp' \in {gtmp, [q \in Rank |-> {}]}
      BY <1>6, <2>1 DEF RenameICP
    <3>2. gtmp' \in D BY <1>0, <3>1
    <3>3. [dir EXCEPT ![4] = gtmp] \in [Level -> D] BY <1>0
    <3> QED BY <1>0, <3>1, <3>2, <3>3
  <2>2. CASE lvel[r] = Reject BY <1>0, <1>6, <2>2 DEF RenameICP
  <2>3. CASE lvel[r] \notin {4, Reject}
    <3>1. lvel[r] \in Level
      BY <1>6, <2>3 DEF RenameICP, At, TypeInv, CallOK, Storing
    <3>2. /\ dir' = [dir EXCEPT ![lvel[r]] = [dir[lvel[r]] EXCEPT ![r] = ltmp[r]]]
          /\ ltmp' = [ltmp EXCEPT ![r] = {}]
          /\ gtmp' = gtmp
      BY <1>6, <2>3 DEF RenameICP
    <3>3. [dir[lvel[r]] EXCEPT ![r] = ltmp[r]] \in D BY <1>0, <3>1
    <3>4. dir' \in [Level -> D] BY <1>0, <3>1, <3>2, <3>3
    <3> QED BY <1>0, <3>2, <3>4
  <2> QED BY <2>1, <2>2, <2>3
<1>7. CASE SumICP \/ MetaICP \/ BarrierICP
  BY <1>0, <1>7 DEF SumICP, MetaICP, BarrierICP
<1>8. CASE SyncPost
  <2>1. ltmp' = ltmp \/ ltmp' = WithCopies(lvel[Root]) BY <1>8 DEF SyncPost
  <2>2. ltmp' \in D BY <1>0, <2>1, CopiesType
  <2> QED BY <1>0, <1>8, <2>2 DEF SyncPost
<1>9. CASE HeadsICP
  <2>1. \A r \in Rank : ThisCall(r) \in SUBSET Files BY <1>0 DEF ThisCall
  <2>2. WithCopies(token[Root]) \in D BY CopiesType
  <2>3. dir' \in [Level -> D]
    <3>1. \/ dir' = dir
          \/ \E l \in {token[Root]} :
               dir' = [k \in Level |->
                        IF k = 4 /\ l = 4 THEN [r \in Rank |-> ThisCall(r)]
                        ELSE IF k = l \/ (l = 4 /\ k = 1) THEN WithCopies(l)
                        ELSE IF k < l THEN [r \in Rank |-> {}] ELSE dir[k]]
      BY <1>9 DEF HeadsICP
    <3>2. [r \in Rank |-> ThisCall(r)] \in D BY <2>1
    <3> QED BY <1>0, <2>2, <3>1, <3>2
  <2> QED BY <1>0, <1>9, <2>3 DEF HeadsICP
<1> QED BY <1>1, <1>2, <1>3, <1>4, <1>5, <1>6, <1>7, <1>8, <1>9 DEF Work, IcpStep

(* What recovery from level 2 rebuilds. *)
LEMMA RebuiltType ==
  ASSUME TypeInv, NEW own, NEW copy, NEW i
  PROVE  Rebuilt(own, copy, i) \in [Rank -> SUBSET Files]
<1>1. ASSUME NEW r \in Rank PROVE Rebuilt(own, copy, i)[r] \in SUBSET Files
  <2> DEFINE a == As("ckpt", Named(dir[2][Right(r)], "copy", i))
             b == As("copy", Named(dir[2][Left(r)], "ckpt", i))
             T == (IF own[r] # NoFile THEN {} ELSE a) \cup (IF copy[r] # NoFile THEN {} ELSE b)
  <2>1. /\ dir[2][r] \in SUBSET Files
        /\ dir[2][Right(r)] \in SUBSET Files /\ dir[2][Left(r)] \in SUBSET Files
    BY Neighbours DEF TypeInv, DiskOK, Level
  <2>2. a \in SUBSET Files
    <3>1. Named(dir[2][Right(r)], "copy", i) \in SUBSET Files BY <2>1, FilesKept
    <3> QED BY <3>1, FilesKept
  <2>3. b \in SUBSET Files
    <3>1. Named(dir[2][Left(r)], "ckpt", i) \in SUBSET Files BY <2>1, FilesKept
    <3> QED BY <3>1, FilesKept
  <2>4. T \in SUBSET Files
    <3> HIDE DEF a, b
    <3> QED BY <2>2, <2>3
  <2>5. Put(dir[2][r], T) \in SUBSET Files
    <3> HIDE DEF T
    <3> QED BY <2>1, <2>4, FilesKept
  <2>6. Rebuilt(own, copy, i)[r] = Put(dir[2][r], T) BY DEF Rebuilt
  <2> HIDE DEF T
  <2> QED BY <2>5, <2>6
<1> QED BY <1>1 DEF Rebuilt

LEMMA DiskRestart ==
  ASSUME TypeInv,
         Crash \/ Restart \/ RecoverL1 \/ RecoverL2 \/ RecoverL4 \/ Finished
  PROVE  DiskOK'
<1> DEFINE D == [Rank -> SUBSET Files]
<1> USE LevelFacts, NoFileType DEF disk
<1>0. /\ ltmp \in D /\ gtmp \in D /\ dir \in [Level -> D]
      /\ restored \in [Rank -> Loaded]
  BY DEF TypeInv, DiskOK
<1>1. CASE Crash
  <2>1. /\ ltmp' \in D /\ dir' \in [Level -> D] BY <1>0, <1>1 DEF Crash
  <2> QED BY <1>0, <1>1, <2>1 DEF Crash, DiskOK
<1>2. CASE Restart BY <1>0, <1>2 DEF Restart, DiskOK
<1>3. CASE RecoverL1
  <2>1. PICK name :
          /\ \A r \in Rank : name[r] \in Found(dir[1][r], "ckpt")
          /\ \/ restored' = [r \in Rank |-> IF Sound(name[r]) THEN name[r] ELSE NoFile]
             \/ restored' = restored
    BY <1>3 DEF RecoverL1, Recovered, NotFrom
  <2>2. \A r \in Rank : name[r] \in Loaded BY <2>1, NamesType DEF Level
  <2>3. restored' \in [Rank -> Loaded] BY <1>0, <2>1, <2>2
  <2> QED BY <1>0, <1>3, <2>3 DEF RecoverL1, StillDown, DiskOK
<1>4. CASE RecoverL2
  <2>1. \/ dir' = dir /\ restored' = restored
        \/ \E own, copy, i :
             /\ dir' = [dir EXCEPT ![2] = Rebuilt(own, copy, i)]
             /\ restored' = [r \in Rank |-> LET f == Mine(Rebuilt(own, copy, i), r, i)
                                           IN IF Sound(f) THEN f ELSE NoFile]
    BY <1>4 DEF RecoverL2, Recovered, NotFrom
  <2>2. ASSUME NEW own, NEW copy, NEW i
        PROVE  /\ Rebuilt(own, copy, i) \in D
               /\ \A r \in Rank : Mine(Rebuilt(own, copy, i), r, i) \in Loaded
    <3>1. Rebuilt(own, copy, i) \in D BY RebuiltType
    <3>2. ASSUME NEW r \in Rank PROVE Mine(Rebuilt(own, copy, i), r, i) \in Loaded
      <4>1. Rebuilt(own, copy, i)[r] \in SUBSET Files BY <3>1
      <4>2. Named(Rebuilt(own, copy, i)[r], "ckpt", i) \in SUBSET Files BY <4>1, FilesKept
      <4> QED BY <4>2 DEF Mine, Loaded
    <3> QED BY <3>1, <3>2
  <2>3. dir' \in [Level -> D] BY <1>0, <2>1, <2>2
  <2>4. restored' \in [Rank -> Loaded] BY <1>0, <2>1, <2>2
  <2> QED BY <1>0, <1>4, <2>3, <2>4 DEF RecoverL2, StillDown, DiskOK
<1>5. CASE RecoverL4
  <2>1. PICK name :
          /\ \A r \in Rank : name[r] \in Found(dir[4][r], "ckpt")
          /\ \/ /\ \A r \in Rank : Sound(name[r])
                /\ dir' = [dir EXCEPT ![1] = [r \in Rank |-> {name[r]}]]
                /\ restored' = [r \in Rank |-> IF Sound(name[r]) THEN name[r] ELSE NoFile]
             \/ /\ dir' = [dir EXCEPT ![1] = [r \in Rank |-> {}]]
                /\ Recovered(0, [r \in Rank |-> 0], [r \in Rank |-> NoFile])
    BY <1>5 DEF RecoverL4, Recovered
  <2>2. \A r \in Rank : name[r] \in Loaded BY <2>1, NamesType DEF Level
  <2>3. /\ (\A r \in Rank : Sound(name[r])) => [r \in Rank |-> {name[r]}] \in D
        /\ [r \in Rank |-> {}] \in D
    BY <2>2 DEF Loaded
  <2>4. dir' \in [Level -> D] BY <1>0, <2>1, <2>3
  <2>5. restored' \in [Rank -> Loaded] BY <2>1, <2>2 DEF Recovered
  <2> QED BY <1>0, <1>5, <2>4, <2>5 DEF RecoverL4, StillDown, DiskOK
<1>6. CASE Finished BY <1>0, <1>6 DEF Finished, allVars, restartVars, vars, DiskOK
<1> QED BY <1>1, <1>2, <1>3, <1>4, <1>5, <1>6

(* The counters: every fault, crash and lost node is counted. *)
LEMMA CountWork ==
  ASSUME TypeInv, AnswerInv, Work
  PROVE  CountOK'
<1> USE IcpSizes DEF CountOK
<1>1. format' = format /\ faults' \in 0 .. MaxFault
  <2>1. ASSUME NEW bad \in BOOLEAN, NEW k, May(k, bad), Count(bad)
        PROVE  faults' \in 0 .. MaxFault
    BY <2>1 DEF TypeInv, May, Count
  <2>2. ASSUME NEW r \in Rank,
               InitICP(r) \/ AddVarICP(r) \/ CloseICP(r)
        PROVE  format' = format /\ faults' \in 0 .. MaxFault
    BY <2>1, <2>2 DEF InitICP, AddVarICP, CloseICP
  <2>3. ASSUME NEW r \in Rank,
               \/ FinalizeICP(r) \/ SendICP(r) \/ PostICP(r) \/ DiscardICP(r)
               \/ CleanICP(r) \/ RenameICP(r) \/ EndICP(r)
        PROVE  format' = format /\ faults' \in 0 .. MaxFault
    BY <2>3 DEF FinalizeICP, SendICP, PostICP, DiscardICP, CleanICP, RenameICP, EndICP, TypeInv
  <2>4. CASE MetaICP \/ SyncPost \/ HeadsICP
    BY <2>1, <2>4 DEF MetaICP, SyncPost, HeadsICP
  <2>5. CASE SumICP \/ BarrierICP
    BY <2>5 DEF SumICP, BarrierICP, TypeInv
  <2> QED BY <2>2, <2>3, <2>4, <2>5 DEF Work, IcpStep
<1>2. tries = 0
  <2>1. ASSUME NEW r \in Rank,
               \/ InitICP(r) \/ AddVarICP(r) \/ FinalizeICP(r) \/ CloseICP(r) \/ SendICP(r)
               \/ PostICP(r) \/ DiscardICP(r) \/ CleanICP(r) \/ RenameICP(r) \/ EndICP(r)
        PROVE  pc[r] # "down"
    BY <2>1 DEF InitICP, AddVarICP, FinalizeICP, CloseICP, SendICP, PostICP, DiscardICP,
                CleanICP, RenameICP, EndICP, At
  <2>2. ASSUME SumICP \/ MetaICP \/ SyncPost \/ BarrierICP PROVE pc[Root] # "down"
    BY <2>2, RankFacts DEF SumICP, MetaICP, SyncPost, BarrierICP, AllAt, At
  <2>3. ASSUME HeadsICP PROVE pc[Root] # "down"
    <3>1. token[Root] # None BY <2>3, RankFacts DEF HeadsICP
    <3> QED BY <3>1, RankFacts DEF AnswerInv
  <2>4. \E r \in Rank : pc[r] # "down" BY <2>1, <2>2, <2>3, RankFacts DEF Work, IcpStep
  <2> QED BY <2>4 DEF TypeInv
<1> QED BY <1>1, <1>2 DEF Work, TypeInv

LEMMA CountRestart ==
  ASSUME TypeInv,
         Crash \/ Restart \/ RecoverL1 \/ RecoverL2 \/ RecoverL4 \/ Finished
  PROVE  CountOK'
<1> USE RestartBounds DEF CountOK
<1>1. CASE Crash
  <2>1. PICK gone \in SUBSET Rank :
          losses + Cardinality(gone) <= MaxLost /\ losses' = losses + Cardinality(gone)
    BY <1>1 DEF Crash
  <2>2. Cardinality(gone) \in Nat
    <3>1. IsFiniteSet(Rank) BY IcpSizes, FS_Interval DEF Rank
    <3>2. IsFiniteSet(gone) BY <3>1, FS_Subset
    <3> QED BY <3>2, FS_CardinalityType
  <2> QED BY <1>1, <2>1, <2>2 DEF Crash, TypeInv
<1>2. CASE Restart BY <1>2 DEF Restart, AllAt, At, AllGoto, TypeInv
<1>3. CASE RecoverL1
  BY <1>3 DEF RecoverL1, Recovered, NotFrom, StillDown, TypeInv
<1>4. CASE RecoverL2
  <2>1. tries' = 0 \/ (tries' = 4 /\ pc' = pc) BY <1>4 DEF RecoverL2, Recovered, NotFrom
  <2> QED BY <1>4, <2>1 DEF RecoverL2, StillDown, TypeInv
<1>5. CASE RecoverL4
  <2>1. tries' = 0 BY <1>5 DEF RecoverL4, Recovered
  <2> QED BY <1>5, <2>1 DEF RecoverL4, StillDown, TypeInv
<1>6. CASE Finished BY <1>6 DEF Finished, allVars, restartVars, vars, TypeInv
<1> QED BY <1>1, <1>2, <1>3, <1>4, <1>5, <1>6

---------------------------------------------------------------------------
(* The answers of the heads *)

(* A step of process r leaves the messages of the others alone. *)
LEMMA AnswerRank ==
  ASSUME TypeInv, AnswerInv, NEW r \in Rank,
         \/ InitICP(r) \/ AddVarICP(r) \/ FinalizeICP(r) \/ CloseICP(r) \/ SendICP(r)
         \/ PostICP(r) \/ DiscardICP(r) \/ CleanICP(r) \/ RenameICP(r) \/ EndICP(r)
  PROVE  AnswerInv'
<1> DEFINE Others == \A q \in Rank : q # r =>
             /\ pc'[q] = pc[q] /\ answer'[q] = answer[q]
             /\ offline'[q] = offline[q] /\ token'[q] = token[q]
           Own == /\ pc'[r] = "run" => /\ offline'[r] <=> (token'[r] # None \/ answer'[r] # None)
                                       /\ token'[r] = None \/ answer'[r] = None
                  /\ pc'[r] # "run" => token'[r] = None /\ answer'[r] = None
                  /\ pc'[r] \in {"down"} \cup Rejectable \cup Storing => ~offline'[r]
<1>0. /\ pc \in [Rank -> Where] /\ offline \in [Rank -> BOOLEAN]
      /\ token \in [Rank -> CallLevels \cup {None, Reject}]
      /\ answer \in [Rank -> CallLevels \cup {None, Reject}]
  BY DEF TypeInv, MemoryOK
<1>1. ASSUME Others, Own PROVE AnswerInv'
  <2>1. ASSUME NEW q \in Rank, q # r
        PROVE  /\ pc'[q] = "run" => /\ offline'[q] <=> (token'[q] # None \/ answer'[q] # None)
                                    /\ token'[q] = None \/ answer'[q] = None
               /\ pc'[q] # "run" => token'[q] = None /\ answer'[q] = None
               /\ pc'[q] \in {"down"} \cup Rejectable \cup Storing => ~offline'[q]
    <3>1. /\ pc'[q] = pc[q] /\ answer'[q] = answer[q]
          /\ offline'[q] = offline[q] /\ token'[q] = token[q]
      BY <1>1, <2>1
    <3> QED BY <3>1 DEF AnswerInv
  <2> QED BY <1>1, <2>1 DEF AnswerInv
<1> USE DEF heads, At, Goto
<1>2. CASE InitICP(r)
  <2>1. Await(r) /\ pc' = [pc EXCEPT ![r] = "icp"] /\ pc[r] = "run" BY <1>2 DEF InitICP
  <2>2. /\ answer' = [answer EXCEPT ![r] = None] /\ token' = token /\ offline' = offline
        /\ offline[r] => answer[r] # None
    BY <2>1 DEF Await
  <2>3. token[r] = None
    <3>1. /\ offline[r] <=> (token[r] # None \/ answer[r] # None)
          /\ token[r] = None \/ answer[r] = None
      BY <2>1 DEF AnswerInv
    <3> QED BY <2>2, <3>1
  <2>4. Others BY <1>0, <2>1, <2>2
  <2>5. Own BY <1>0, <2>1, <2>2, <2>3 DEF Rejectable, Storing
  <2> QED BY <1>1, <2>4, <2>5
<1>3. CASE FinalizeICP(r) \/ CloseICP(r)
  <2>1. /\ token' = token /\ answer' = answer /\ offline' = offline /\ pc[r] # "run"
        /\ \E w \in {"sum", "meta", "post"} : pc' = [pc EXCEPT ![r] = w]
    BY <1>3 DEF FinalizeICP, CloseICP
  <2>2. Others BY <1>0, <2>1
  <2>3. Own BY <1>0, <2>1 DEF AnswerInv, Rejectable, Storing
  <2> QED BY <1>1, <2>2, <2>3
<1>4. CASE CleanICP(r) \/ RenameICP(r)
  <2>1. /\ token' = token /\ answer' = answer /\ offline' = offline /\ pc[r] \in Storing
        /\ pc[r] # "run" /\ \E w \in {"rename", "barrier"} : pc' = [pc EXCEPT ![r] = w]
    BY <1>4 DEF CleanICP, RenameICP, Storing
  <2>2. Others BY <1>0, <2>1
  <2>3. Own BY <1>0, <2>1 DEF AnswerInv, Rejectable, Storing
  <2> QED BY <1>1, <2>2, <2>3
<1>5. CASE AddVarICP(r) BY <1>5 DEF AddVarICP, AnswerInv
<1>6. CASE SendICP(r)
  <2>1. lvel[r] # None
    <3>1. lvel[r] \in CallLevels BY <1>6 DEF SendICP, TypeInv, CallOK, Adding
    <3> QED BY <3>1, LevelFacts
  <2>2. /\ pc' = [pc EXCEPT ![r] = "run"] /\ offline' = [offline EXCEPT ![r] = TRUE]
        /\ answer' = answer /\ pc[r] = "post"
        /\ \E t \in {Reject, lvel[r]} : token' = [token EXCEPT ![r] = t]
    BY <1>6 DEF SendICP, Ended
  <2>3. answer[r] = None BY <2>2 DEF AnswerInv
  <2>4. Others BY <1>0, <2>2
  <2>5. /\ pc'[r] = "run" /\ offline'[r] = TRUE /\ token'[r] # None /\ answer'[r] = None
    BY <1>0, <2>1, <2>2, <2>3, LevelFacts
  <2>6. Own BY <2>5 DEF Rejectable, Storing
  <2> QED BY <1>1, <2>4, <2>6
<1>7. CASE PostICP(r)
  <2>1. /\ pc' = [pc EXCEPT ![r] = "sync"] /\ offline' = [offline EXCEPT ![r] = FALSE]
        /\ token' = token /\ answer' = answer /\ pc[r] # "run"
    BY <1>7 DEF PostICP
  <2>2. Others BY <1>0, <2>1
  <2>3. Own BY <1>0, <2>1 DEF AnswerInv, Rejectable, Storing
  <2> QED BY <1>1, <2>2, <2>3
<1>8. CASE DiscardICP(r) \/ EndICP(r)
  <2>1. /\ pc' = [pc EXCEPT ![r] = "run"] /\ offline' = offline /\ token' = token
        /\ answer' = answer /\ pc[r] \in {"discard", "end"}
    BY <1>8 DEF DiscardICP, EndICP, Ended
  <2>2. ~offline[r] /\ token[r] = None /\ answer[r] = None
    BY <2>1 DEF AnswerInv, Rejectable, Storing
  <2>3. Others BY <1>0, <2>1
  <2>4. pc'[r] = "run" /\ ~offline'[r] /\ token'[r] = None /\ answer'[r] = None
    BY <1>0, <2>1, <2>2
  <2>5. Own BY <2>4 DEF Rejectable, Storing
  <2> QED BY <1>1, <2>3, <2>5
<1> QED BY <1>2, <1>3, <1>4, <1>5, <1>6, <1>7, <1>8

(* The collectives of a call find no message under way, and the heads      *)
(* answer all processes at once, between two calls.                        *)
LEMMA AnswerAll ==
  ASSUME TypeInv, AnswerInv,
         SumICP \/ MetaICP \/ SyncPost \/ BarrierICP \/ HeadsICP
  PROVE  AnswerInv'
<1> USE LevelFacts, RankFacts DEF heads
<1>1. CASE SumICP \/ MetaICP
  <2>1. /\ token' = token /\ answer' = answer /\ offline' = offline
        /\ \E w \in {"close", "post"} : pc' = [r \in Rank |-> w]
        /\ \A r \in Rank : pc[r] # "run"
    BY <1>1 DEF SumICP, MetaICP, AllAt, At, AllGoto
  <2> QED BY <2>1 DEF AnswerInv, Rejectable, Storing
<1>2. CASE SyncPost \/ BarrierICP
  <2>1. /\ token' = token /\ answer' = answer /\ offline' = offline
        /\ \E w \in {"discard", "clean", "end"} : pc' = [r \in Rank |-> w]
        /\ \A r \in Rank : pc[r] # "run" /\ pc[r] \in Rejectable \cup Storing
    BY <1>2 DEF SyncPost, BarrierICP, AllAt, At, AllGoto, Rejectable, Storing
  <2> QED BY <2>1 DEF AnswerInv
<1>3. CASE HeadsICP
  <2>1. \A r \in Rank : token[r] # None BY <1>3 DEF HeadsICP
  <2>2. \A r \in Rank : pc[r] = "run" /\ offline[r] BY <2>1 DEF AnswerInv
  <2>3. /\ pc' = pc /\ offline' = offline /\ token' = [r \in Rank |-> None]
        /\ \E a \in {Reject, token[Root]} : answer' = [r \in Rank |-> a]
    BY <1>3 DEF HeadsICP
  <2>4. \A r \in Rank : answer'[r] # None BY <2>1, <2>3
  <2> QED BY <2>2, <2>3, <2>4 DEF AnswerInv, Rejectable, Storing
<1> QED BY <1>1, <1>2, <1>3

(* A crash takes the messages with the heads; a restart sends none. *)
LEMMA AnswerRestart ==
  ASSUME TypeInv, AnswerInv,
         Crash \/ Restart \/ RecoverL1 \/ RecoverL2 \/ RecoverL4 \/ Finished
  PROVE  AnswerInv'
<1>1. CASE Crash BY <1>1 DEF Crash, AllGoto, AnswerInv
<1>2. CASE Finished BY <1>2 DEF Finished, allVars, vars, heads, AnswerInv
<1>3. ASSUME UNCHANGED heads, pc' = pc PROVE AnswerInv' BY <1>3 DEF heads, AnswerInv
<1>4. ASSUME UNCHANGED heads, \A r \in Rank : pc[r] = "down", AllGoto("run")
      PROVE  AnswerInv'
  BY <1>4 DEF heads, AllGoto, AnswerInv, Rejectable, Storing
<1>5. CASE Restart
  BY <1>3, <1>4, <1>5 DEF Restart, AllAt, At
<1>6. CASE RecoverL1 \/ RecoverL2 \/ RecoverL4
  <2>1. \A r \in Rank : pc[r] = "down"
    BY <1>6 DEF RecoverL1, RecoverL2, RecoverL4, TypeInv, CountOK
  <2>2. UNCHANGED heads BY <1>6 DEF RecoverL1, RecoverL2, RecoverL4, StillDown
  <2>3. pc' = pc \/ AllGoto("run")
    BY <1>6 DEF RecoverL1, RecoverL2, RecoverL4, Recovered, NotFrom
  <2> QED BY <1>3, <1>4, <2>1, <2>2, <2>3
<1> QED BY <1>1, <1>2, <1>5, <1>6

---------------------------------------------------------------------------
(* The restart flag *)

LEMMA FlagInit == RestartInit => FlagInv
BY RankFacts DEF RestartInit, Init, FlagInv, Idling, Rejectable, Storing

(* A process that is not process 0 leaves all of it alone. *)
LEMMA FlagOthers ==
  ASSUME TypeInv, FlagInv, NEW r \in Rank, r # Root, Work,
         \/ InitICP(r) \/ AddVarICP(r) \/ FinalizeICP(r) \/ CloseICP(r) \/ SendICP(r)
         \/ PostICP(r) \/ DiscardICP(r) \/ CleanICP(r) \/ RenameICP(r) \/ EndICP(r)
  PROVE  FlagInv'
<1> USE RankFacts DEF memory, heads, Goto
<1>0. /\ pc \in [Rank -> Where] /\ icp \in [Rank -> Iterations] /\ id \in [Rank -> Nat]
      /\ lvel \in [Rank -> 0 .. Reject] /\ token \in [Rank -> CallLevels \cup {None, Reject}]
  BY DEF TypeInv, MemoryOK
<1>1. done' = done /\ (flag => flag') /\ tries' = tries /\ crashes' = crashes
  <2>1. tries' = tries /\ crashes' = crashes BY DEF Work
  <2>2. done' = done
    BY DEF InitICP, AddVarICP, FinalizeICP, CloseICP, SendICP, PostICP, DiscardICP, CleanICP,
           RenameICP, EndICP
  <2>3. flag' = flag \/ Ended(r)
    BY DEF InitICP, AddVarICP, FinalizeICP, CloseICP, SendICP, PostICP, DiscardICP, CleanICP,
           RenameICP, EndICP
  <2>4. Ended(r) => (flag => flag') BY DEF Ended
  <2> QED BY <2>1, <2>2, <2>3, <2>4
<1>2. pc'[Root] = pc[Root] /\ id'[Root] = id[Root]
  BY <1>0 DEF InitICP, AddVarICP, FinalizeICP, CloseICP, SendICP, PostICP, DiscardICP,
              CleanICP, RenameICP, EndICP, Ended
<1>3. icp'[Root] = icp[Root]
  BY <1>0 DEF InitICP, AddVarICP, FinalizeICP, CloseICP, SendICP, PostICP, DiscardICP,
              CleanICP, RenameICP, EndICP, Ended
<1>4. lvel'[Root] = lvel[Root] /\ token'[Root] = token[Root]
  BY <1>0 DEF InitICP, Await, AddVarICP, FinalizeICP, CloseICP, SendICP, PostICP, DiscardICP,
              CleanICP, RenameICP, EndICP, Ended
<1> QED BY <1>1, <1>2, <1>3, <1>4 DEF FlagInv

(* The end of a call: a checkpoint that process 0 takes for written sets   *)
(* the flag, unless an earlier one has.                                    *)
LEMMA FlagEnded ==
  ASSUME TypeInv, FlagInv, Ended(Root), pc[Root] \notin Idling
  PROVE  /\ pc'[Root] = "run"
         /\ id'[Root] # 0 => flag'
         /\ icp[Root].ok => flag'
         /\ flag => flag'
<1> USE RankFacts
<1>1. /\ icp[Root].lastId # 0 => flag
      /\ icp[Root].first <=> icp[Root].lastId = 0
  BY DEF FlagInv
<1>2. /\ flag' = (flag \/ (icp[Root].ok /\ icp[Root].first))
      /\ id'[Root] = IF icp[Root].ok THEN id[Root] ELSE icp[Root].lastId
      /\ pc'[Root] = "run"
  BY DEF Ended, Taken, Goto, TypeInv, MemoryOK
<1> QED BY <1>1, <1>2

LEMMA FlagRoot ==
  ASSUME TypeInv, FlagInv, Work,
         \/ InitICP(Root) \/ AddVarICP(Root) \/ FinalizeICP(Root) \/ CloseICP(Root)
         \/ SendICP(Root) \/ PostICP(Root) \/ DiscardICP(Root) \/ CleanICP(Root)
         \/ RenameICP(Root) \/ EndICP(Root)
  PROVE  FlagInv'
<1> USE RankFacts DEF memory, heads, Goto, At
<1>0. /\ pc \in [Rank -> Where] /\ icp \in [Rank -> Iterations] /\ id \in [Rank -> Nat]
      /\ lvel \in [Rank -> 0 .. Reject] /\ token \in [Rank -> CallLevels \cup {None, Reject}]
  BY DEF TypeInv, MemoryOK
<1>1. done' = done /\ tries' = tries /\ crashes' = crashes
  BY DEF Work, InitICP, AddVarICP, FinalizeICP, CloseICP, SendICP, PostICP, DiscardICP,
         CleanICP, RenameICP, EndICP
<1>2. CASE InitICP(Root)
  <2>1. PICK bad \in BOOLEAN : icp' = [icp EXCEPT ![Root] = Begun(Root, bad)]
    BY <1>2 DEF InitICP
  <2>2. /\ Begun(Root, bad).lastId = id[Root]
        /\ Begun(Root, bad).first = (id[Root] = 0)
    BY DEF Begun, Idle
  <2>3. icp'[Root].lastId = id[Root] /\ (icp'[Root].first <=> id[Root] = 0)
    BY <1>0, <2>1, <2>2
  <2>4. pc'[Root] = "icp" /\ flag' = flag /\ pc[Root] = "run" /\ token'[Root] = token[Root]
    BY <1>0, <1>2 DEF InitICP, Await
  <2> QED BY <1>1, <2>3, <2>4 DEF FlagInv, Idling, Rejectable, Storing
<1>3. CASE AddVarICP(Root)
  <2>1. PICK v \in Var, bad \in BOOLEAN : icp' = [icp EXCEPT ![Root] = Counted(icp[Root], v, bad)]
    BY <1>3 DEF AddVarICP
  <2>2. /\ Counted(icp[Root], v, bad).lastId = icp[Root].lastId
        /\ Counted(icp[Root], v, bad).first = icp[Root].first
    BY <1>0 DEF Counted, Iterations
  <2>3. icp'[Root].lastId = icp[Root].lastId /\ icp'[Root].first = icp[Root].first
    BY <1>0, <2>1, <2>2
  <2>4. pc' = pc /\ pc[Root] = "icp" /\ flag' = flag /\ token' = token BY <1>3 DEF AddVarICP
  <2> QED BY <1>1, <2>3, <2>4 DEF FlagInv, Idling, Rejectable, Storing
<1>4. CASE FinalizeICP(Root)
  <2>1. /\ pc'[Root] = "sum" /\ pc[Root] = "icp" /\ icp' = icp /\ flag' = flag
        /\ token' = token
    BY <1>0, <1>4 DEF FinalizeICP
  <2> QED BY <1>1, <2>1 DEF FlagInv, Idling, Rejectable, Storing
<1>5. CASE CloseICP(Root)
  <2>1. PICK ok \in BOOLEAN :
          /\ ok => icp[Root].status = "ACTV"
          /\ icp' = [icp EXCEPT ![Root] = Closed(icp[Root], ok)]
          /\ pc' = [pc EXCEPT ![Root] = IF ok /\ format = "posix" THEN "meta" ELSE "post"]
    BY <1>5 DEF CloseICP
  <2>2. icp'[Root] = Closed(icp[Root], ok) BY <1>0, <2>1
  <2>3. /\ icp'[Root].ok = ok
        /\ icp'[Root].status = IF ok THEN icp[Root].status ELSE "FAIL"
        /\ icp'[Root].lastId = icp[Root].lastId /\ icp'[Root].first = icp[Root].first
    BY <1>0, <2>2, ClosedType
  <2>4. /\ pc'[Root] = (IF ok /\ format = "posix" THEN "meta" ELSE "post")
        /\ pc[Root] = "close" /\ flag' = flag /\ token' = token
    BY <1>0, <1>5, <2>1 DEF CloseICP
  <2>5. pc'[Root] \in {"meta", "post"} /\ (pc'[Root] = "meta" => ok) BY <2>4
  <2> QED BY <1>1, <2>1, <2>3, <2>4, <2>5 DEF FlagInv, Idling, Rejectable, Storing
<1>6. CASE SendICP(Root)
  <2>1. /\ Ended(Root) /\ pc[Root] = "post"
        /\ token'[Root] # Reject => icp[Root].status # "FAIL"
    BY <1>0, <1>6 DEF SendICP
  <2>2. token'[Root] # Reject => icp[Root].ok BY <2>1 DEF FlagInv
  <2>3. /\ pc'[Root] = "run"
        /\ id'[Root] # 0 => flag'
        /\ icp[Root].ok => flag'
        /\ flag => flag'
    BY <2>1, FlagEnded DEF Idling
  <2> QED BY <1>1, <2>1, <2>2, <2>3 DEF FlagInv, Idling, Rejectable, Storing
<1>7. CASE PostICP(Root)
  <2>1. /\ pc'[Root] = "sync" /\ pc[Root] = "post" /\ icp' = icp /\ flag' = flag
        /\ token' = token
        /\ lvel'[Root] # Reject => icp[Root].status # "FAIL"
    BY <1>0, <1>7 DEF PostICP
  <2> QED BY <1>1, <2>1 DEF FlagInv, Idling, Rejectable, Storing
<1>8. CASE DiscardICP(Root)
  <2>1. Ended(Root) /\ pc[Root] = "discard" /\ token' = token BY <1>8 DEF DiscardICP
  <2>2. pc'[Root] = "run" /\ (id'[Root] # 0 => flag') /\ (flag => flag')
    BY <2>1, FlagEnded DEF Idling
  <2> QED BY <1>1, <2>1, <2>2 DEF FlagInv, Idling, Rejectable, Storing
<1>9. CASE CleanICP(Root) \/ RenameICP(Root)
  <2>1. /\ pc[Root] \in {"clean", "rename"} /\ pc'[Root] \in {"rename", "barrier"}
        /\ icp' = icp /\ flag' = flag /\ token' = token
    BY <1>0, <1>9 DEF CleanICP, RenameICP
  <2> QED BY <1>1, <2>1 DEF FlagInv, Idling, Rejectable, Storing
<1>10. CASE EndICP(Root)
  <2>1. Ended(Root) /\ pc[Root] = "end" /\ token' = token BY <1>10 DEF EndICP
  <2>2. flag' BY <2>1, FlagEnded DEF FlagInv, Idling, Storing
  <2>3. pc'[Root] = "run" BY <2>1, FlagEnded DEF Idling
  <2> QED BY <2>2, <2>3 DEF FlagInv, Idling, Rejectable, Storing
<1> QED BY <1>2, <1>3, <1>4, <1>5, <1>6, <1>7, <1>8, <1>9, <1>10

(* A checkpoint is stored by processes that took it for written, or by the *)
(* heads after process 0 has sent a level and set the flag.                *)
LEMMA FlagAll ==
  ASSUME TypeInv, FlagInv, Work, 0 \notin UninitRes,
         SumICP \/ MetaICP \/ SyncPost \/ BarrierICP \/ HeadsICP
  PROVE  FlagInv'
<1> USE RankFacts DEF memory, heads, AllAt, At, AllGoto
<1>0. /\ icp \in [Rank -> Iterations] /\ tries' = tries /\ crashes' = crashes
  BY DEF TypeInv, MemoryOK, Work
<1>1. CASE SumICP
  <2>1. icp'[Root] = icp[Root] \/ icp'[Root] = [icp[Root] EXCEPT !.status = "FAIL"]
    BY <1>1 DEF SumICP
  <2>2. icp'[Root].lastId = icp[Root].lastId /\ icp'[Root].first = icp[Root].first
    BY <1>0, <2>1, FailType
  <2>3. /\ pc[Root] = "sum" /\ pc'[Root] = "close" /\ flag' = flag /\ token' = token
        /\ done' = done
    BY <1>1 DEF SumICP
  <2> QED BY <1>0, <2>2, <2>3 DEF FlagInv, Idling, Rejectable, Storing
<1>2. CASE MetaICP
  <2>1. PICK ok \in BOOLEAN : icp' = [icp EXCEPT ![Root] = Closed(icp[Root], ok)]
    BY <1>2 DEF MetaICP
  <2>2. icp'[Root] = Closed(icp[Root], ok) BY <1>0, <2>1
  <2>3. /\ icp'[Root].status # "FAIL" => icp'[Root].ok
        /\ icp'[Root].lastId = icp[Root].lastId /\ icp'[Root].first = icp[Root].first
    BY <1>0, <2>2, ClosedType
  <2>4. /\ pc[Root] = "meta" /\ pc'[Root] = "post" /\ flag' = flag /\ token' = token
        /\ done' = done
    BY <1>2 DEF MetaICP
  <2> QED BY <1>0, <2>3, <2>4 DEF FlagInv, Idling, Rejectable, Storing
<1>3. CASE SyncPost
  <2>1. /\ pc[Root] = "sync" /\ icp' = icp /\ lvel' = lvel /\ flag' = flag
        /\ token' = token /\ done' = done
    BY <1>3 DEF SyncPost
  <2>2. pc'[Root] = "discard" \/ (pc'[Root] = "clean" /\ lvel[Root] # Reject)
    BY <1>3 DEF SyncPost
  <2>3. lvel[Root] # Reject => icp[Root].ok BY <2>1 DEF FlagInv, Rejectable
  <2> QED BY <1>0, <2>1, <2>2, <2>3 DEF FlagInv, Idling, Rejectable, Storing
<1>4. CASE BarrierICP
  <2>1. /\ pc[Root] = "barrier" /\ pc'[Root] = "end" /\ icp' = icp /\ flag' = flag
        /\ token' = token
    BY <1>4 DEF BarrierICP
  <2> QED BY <1>0, <2>1 DEF FlagInv, Idling, Rejectable, Storing
<1>5. CASE HeadsICP
  <2>1. /\ pc' = pc /\ icp' = icp /\ id' = id /\ lvel' = lvel /\ flag' = flag
        /\ token'[Root] = None /\ token[Root] # None
        /\ done' = done \/ token[Root] # Reject
    BY <1>5 DEF HeadsICP
  <2> QED BY <1>0, <2>1 DEF FlagInv
<1> QED BY <1>1, <1>2, <1>3, <1>4, <1>5

(* A restart tries to recover only with the flag, and nothing resets it. *)
LEMMA FlagRestart ==
  ASSUME TypeInv, FlagInv,
         Crash \/ Restart \/ RecoverL1 \/ RecoverL2 \/ RecoverL4 \/ Finished
  PROVE  FlagInv'
<1> USE RankFacts DEF memory, heads, AllAt, At, AllGoto
<1>1. CASE Crash
  <2>1. /\ pc'[Root] = "down" /\ id'[Root] = 0 /\ token'[Root] = None /\ tries' = 0
        /\ crashes' # 0
    BY <1>1 DEF Crash, TypeInv, CountOK
  <2> QED BY <2>1 DEF FlagInv, Idling, Rejectable, Storing
<1>2. CASE Restart
  <2>1. /\ pc[Root] = "down" /\ pc'[Root] \in {"down", "run"} /\ id' = id /\ flag' = flag
        /\ token' = token /\ done' = done /\ crashes' = crashes
        /\ tries' # 0 => flag
    BY <1>2 DEF Restart
  <2> QED BY <2>1 DEF FlagInv, Idling, Rejectable, Storing
<1>3. CASE RecoverL1 \/ RecoverL2 \/ RecoverL4
  <2>1. tries # 0 BY <1>3 DEF RecoverL1, RecoverL2, RecoverL4
  <2>2. flag BY <2>1 DEF FlagInv
  <2>3. flag' = flag BY <1>3 DEF RecoverL1, RecoverL2, RecoverL4, StillDown
  <2>4. pc[Root] = "down" BY <2>1 DEF TypeInv, CountOK
  <2>5. pc'[Root] \in {"down", "run"}
    BY <1>3, <2>4 DEF RecoverL1, RecoverL2, RecoverL4, Recovered, NotFrom
  <2> QED BY <2>2, <2>3, <2>5 DEF FlagInv, Idling, Rejectable, Storing
<1>4. CASE Finished BY <1>4 DEF Finished, allVars, restartVars, vars, FlagInv
<1> QED BY <1>1, <1>2, <1>3, <1>4

---------------------------------------------------------------------------
(* The theorems *)

LEMMA AnswerInit == RestartInit => AnswerInv
BY DEF RestartInit, Init, AnswerInv, Rejectable, Storing

(* Both invariants together: each needs the other. *)
LEMMA Step ==
  ASSUME TypeInv, AnswerInv, 0 \notin UninitRes, [RestartNext]_allVars
  PROVE  TypeInv' /\ AnswerInv'
<1>1. CASE Work
  <2>1. IcpStep BY <1>1 DEF Work
  <2>2. CASE \E r \in Rank : InitICP(r)
    BY <1>1, <2>2, MemoryInit, DiskWork, CountWork, AnswerRank DEF TypeInv
  <2>3. ASSUME NEW r \in Rank,
               \/ AddVarICP(r) \/ FinalizeICP(r) \/ CloseICP(r) \/ SendICP(r) \/ PostICP(r)
               \/ DiscardICP(r) \/ CleanICP(r) \/ RenameICP(r) \/ EndICP(r)
        PROVE  TypeInv' /\ AnswerInv'
    <3>1. MemoryOK' /\ CallOK' BY <2>3, MemoryRank
    <3>2. DiskOK' /\ CountOK' BY <1>1, DiskWork, CountWork
    <3>3. AnswerInv' BY <2>3, AnswerRank
    <3> QED BY <3>1, <3>2, <3>3 DEF TypeInv
  <2>4. CASE SumICP \/ MetaICP \/ SyncPost \/ BarrierICP \/ HeadsICP
    BY <1>1, <2>4, MemoryAll, DiskWork, CountWork, AnswerAll DEF TypeInv
  <2> QED BY <2>1, <2>2, <2>3, <2>4 DEF IcpStep
<1>2. CASE Crash \/ Restart \/ RecoverL1 \/ RecoverL2 \/ RecoverL4 \/ Finished
  BY <1>2, MemoryRestart, DiskRestart, CountRestart, AnswerRestart DEF TypeInv
<1>3. CASE UNCHANGED allVars
  <2> USE <1>3 DEF allVars, restartVars, vars, memory, heads, disk
  <2>1. MemoryOK' BY DEF TypeInv, MemoryOK
  <2>2. DiskOK' BY DEF TypeInv, DiskOK
  <2>3. CountOK' BY DEF TypeInv, CountOK
  <2>4. CallOK' BY DEF TypeInv, CallOK
  <2>5. AnswerInv' BY DEF AnswerInv
  <2> QED BY <2>1, <2>2, <2>3, <2>4, <2>5 DEF TypeInv
<1> QED BY <1>1, <1>2, <1>3 DEF RestartNext

LEMMA FlagStep ==
  ASSUME TypeInv, FlagInv, 0 \notin UninitRes, [RestartNext]_allVars
  PROVE  FlagInv'
<1>1. CASE Work
  <2>1. ASSUME NEW r \in Rank,
               \/ InitICP(r) \/ AddVarICP(r) \/ FinalizeICP(r) \/ CloseICP(r) \/ SendICP(r)
               \/ PostICP(r) \/ DiscardICP(r) \/ CleanICP(r) \/ RenameICP(r) \/ EndICP(r)
        PROVE  FlagInv'
    <3>1. CASE r = Root BY <1>1, <2>1, <3>1, FlagRoot
    <3>2. CASE r # Root BY <1>1, <2>1, <3>2, FlagOthers
    <3> QED BY <3>1, <3>2
  <2>2. CASE SumICP \/ MetaICP \/ SyncPost \/ BarrierICP \/ HeadsICP
    BY <1>1, <2>2, FlagAll
  <2>3. IcpStep BY <1>1 DEF Work
  <2> QED BY <2>1, <2>2, <2>3 DEF IcpStep
<1>2. CASE Crash \/ Restart \/ RecoverL1 \/ RecoverL2 \/ RecoverL4 \/ Finished
  BY <1>2, FlagRestart
<1>3. CASE UNCHANGED allVars
  BY <1>3 DEF allVars, restartVars, vars, memory, heads, FlagInv
<1> QED BY <1>1, <1>2, <1>3 DEF RestartNext

LEMMA Always == ASSUME 0 \notin UninitRes PROVE RestartSpec => [](TypeInv /\ AnswerInv)
<1>1. RestartInit => TypeInv /\ AnswerInv BY TypeInit, AnswerInit
<1>2. TypeInv /\ AnswerInv /\ [RestartNext]_allVars => (TypeInv /\ AnswerInv)' BY Step
<1> QED BY <1>1, <1>2, PTL DEF RestartSpec

(* Every state is well typed, if what FTI_PostCkpt reads from the result   *)
(* that it has not assigned at the reject level is never 0, that is, if a  *)
(* rejected checkpoint is discarded (checkpoint.c:278): an iCP is open     *)
(* exactly inside of a call, a level is tried only while the job is down,  *)
(* and the last level is one of the levels that there are.                 *)
THEOREM TypeCorrect == ASSUME 0 \notin UninitRes PROVE RestartSpec => []TypeOK
<1>1. TypeInv => TypeOK
  <2> SUFFICES ASSUME TypeInv PROVE TypeOK OBVIOUS
  <2> USE DEF TypeInv
  <2>1. call \in [Rank -> 0 .. MaxCalls] BY IcpSizes DEF MemoryOK
  <2>2. \A r \in Rank : icp[r].wrote \subseteq Var /\ icp[r].status \in {"NINI", "ACTV", "FAIL"}
    BY DEF MemoryOK, Iterations
  <2>3. \A r \in Rank : (icp[r].status = "NINI") <=> pc[r] \in {"run", "down"}
    BY DEF CallOK, Idling
  <2>4. tries # 0 => AllAt("down") BY DEF CountOK, AllAt, At
  <2> QED BY <2>1, <2>2, <2>3, <2>4 DEF TypeOK, MemoryOK, CountOK
<1> QED BY <1>1, Always, PTL

(* Between two calls a process is owed one answer by its head or none, and *)
(* it knows which, whatever fails in the calls, in whatever order the      *)
(* processes make them, and wherever crashes hit: FTI_InitICP waits for an *)
(* answer exactly when one will come, although it resets nothing           *)
(* (api.c:1344).                                                           *)
THEOREM AnswersMatch == ASSUME 0 \notin UninitRes PROVE RestartSpec => []OneAnswer
<1>1. AnswerInv => OneAnswer BY DEF AnswerInv, OneAnswer, At
<1> QED BY <1>1, Always, PTL

(* The next execution looks for checkpoints whenever there are any: as     *)
(* soon as process 0 is past its first checkpoint that did not fail, or    *)
(* one is stored, the restart flag is in the configuration file, although  *)
(* only the call whose id was the first to be 1 writes it (api.c:1760) and *)
(* failed calls give their ids back.                                       *)
THEOREM FlagIsSet == ASSUME 0 \notin UninitRes PROVE RestartSpec => []FlagSet
<1>1. RestartInit => FlagInv BY FlagInit
<1>2. TypeInv /\ FlagInv /\ [RestartNext]_allVars => FlagInv' BY FlagStep
<1>3. TypeInv /\ FlagInv => FlagSet
  <2>1. ASSUME TypeInv, FlagInv, At(Root, "run"),
               id[Root] > 0 \/ (done.call > 0 /\ crashes = 0)
        PROVE  flag
    <3>1. id[Root] # 0 \/ (done.call # 0 /\ crashes = 0)
      BY <2>1, RankFacts DEF TypeInv, MemoryOK
    <3> QED BY <2>1, <3>1 DEF FlagInv, At, Idling
  <2> QED BY <2>1 DEF FlagSet
<1> QED BY <1>1, <1>2, <1>3, Always, PTL DEF RestartSpec

-----------------------------------------------------------------------------
(* What is stored, and what a restart gives back. *)

(* No process of a group ends a call otherwise than the others: of the     *)
(* metadata only process 0 learns that they could not be written, and a    *)
(* process whose fclose fails leaves the others behind.  FTI-FF has        *)
(* neither.                                                                *)
Even == format = "ftiff" \/ ("meta" \notin Faults /\ "close" \notin Faults)

Opening == {"icp", "sum"}
Moving == {"clean", "rename", "barrier"}
Using == Adding \cup {"sync", "clean", "rename"}   \* the temporary directory

(* The MPI_Allreduce of FTI_FinalizeICP that r has been through.           *)
Round(r) == IF pc[r] \in Opening THEN call[r] - 1 ELSE call[r]

Valid(r) == icp[r].status = "ACTV"
Asked(r) == token[r] \notin {None, Reject}

(* Where a process is tells what it knows of its call.                     *)
CallInfo(r) ==
  /\ pc[r] \notin Idling => call[r] >= 1 /\ id[r] = icp[r].lastId + 1
  /\ pc[r] \in Adding \cup Storing => lvel[r] = plan[call[r]]
  /\ pc[r] \in Rejectable => lvel[r] = IF Valid(r) THEN plan[call[r]] ELSE Reject
  /\ pc[r] \in Rejectable \cup Storing => Inline(plan[call[r]])
  /\ pc[r] \in Storing => Valid(r)
  /\ pc[r] = "meta" => format = "posix" /\ Valid(r)
  /\ pc[r] \in Opening /\ icp[r].result => Valid(r)
  /\ pc[r] \in {"meta", "post"} \cup Rejectable \cup Storing => (icp[r].ok <=> Valid(r))
  /\ pc[r] \notin Idling \cup Opening /\ Valid(r) => icp[r].wrote = Var
  /\ pc[r] = "down" => format = "ftiff"
  /\ Asked(r) => call[r] >= 1 /\ token[r] = plan[call[r]] /\ ~Inline(token[r])

(* The processes are in the same round; those that move directories are    *)
(* all of them, and so are those that are down.                            *)
Lockstep ==
  \A q, r \in Rank :
    /\ Round(q) = Round(r)
    /\ pc[q] \in Moving => pc[r] \in Moving
    /\ pc[q] = "down" => pc[r] = "down"

CtlInv == Lockstep /\ \A r \in Rank : CallInfo(r)

(* The id and the level that r will have at the end of its round.          *)
Settled(r) ==
  IF pc[r] \in Idling THEN <<id[r], lvel[r]>>
  ELSE IF pc[r] \notin Opening /\ Valid(r) THEN <<id[r], plan[call[r]]>>
  ELSE <<icp[r].lastId, icp[r].lastLvel>>

AgreeInv == Even /\ ~torn => \A q, r \in Rank : Settled(q) = Settled(r)

(* The file of the call of r, on its way to the directory of its level: on *)
(* the node, where it stays for the head after the call; and in FTI-FF,    *)
(* the partner's copy.  On the PFS, process 0 may have removed it.         *)
Has(files, k, r) == \E f \in files : f.kind = k /\ f.call = call[r] /\ f.id = id[r]

TmpInfo(r) ==
  /\ pc[r] \in Using /\ Valid(r) /\ ~OnPfs(lvel[r]) => Has(ltmp[r], "ckpt", r)
  /\ pc[r] \in Using \cup {"barrier"} /\ Valid(r) /\ OnPfs(lvel[r]) /\ gtmp[r] # {}
       => Has(gtmp[r], "ckpt", r)
  /\ Asked(r) => Has(ltmp[r], "ckpt", r)
  /\ ~torn /\ format = "ftiff" /\ pc[r] \in {"clean", "rename"} /\ lvel[r] = 2
       => Has(ltmp[r], "copy", r)
  /\ pc[r] = "barrier" /\ lvel[r] # 4 => Has(dir[lvel[r]][r], "ckpt", r)

TmpInv == \A r \in Rank : TmpInfo(r)

(* In the directories of one level there is one checkpoint, unless one of  *)
(* them holds a leftover.                                                  *)
Kinds(l) == IF l = 2 THEN {"ckpt", "copy"} ELSE {"ckpt"}

Single(D) == \A r \in Rank : \A f, g \in D[r] : f.kind = g.kind => f = g

Uniform(l, D) ==
  \A q, r \in Rank : \A f \in D[q], g \in D[r] :
    f.kind \in Kinds(l) /\ g.kind \in Kinds(l) => f.call = g.call /\ f.id = g.id

Neat(l) == Single(dir[l]) => Uniform(l, dir[l])

(* While the directories are moved: below the level of the checkpoint they *)
(* are empty, above it they are as before, and at it they are the new ones *)
(* where they have been renamed.                                           *)
New(files, l, r) ==
  \A k \in Kinds(l) : (\E f \in files : f.kind = k) => Has(files, k, r)

Kept ==
  \A l \in Level, r \in Rank :
    /\ pc[r] \notin Moving => Neat(l)
    /\ pc[r] = "down" => Single(dir[l])
    /\ AllAt("clean") => Neat(l)
    /\ pc[r] \in Moving /\ l > lvel[r] => Neat(l)
    /\ pc[r] \in {"rename", "barrier"} /\ l < lvel[r] => dir[l][r] = {}

Renamed ==
  \A r \in Rank : pc[r] = "barrier" =>
    /\ lvel[r] # 4 => New(dir[lvel[r]][r], lvel[r], r)
    /\ lvel[r] = 4 /\ r = Root => \A q \in Rank : New(dir[4][q], 4, q)

DirInv == format = "ftiff" /\ ~torn => Kept /\ Renamed

StoreInv == CtlInv /\ AgreeInv /\ TmpInv /\ DirInv /\ RestoredTogether

(* The file of the call a process is in holds what the process has added;  *)
(* its head is only asked to store one that holds all.                     *)
TmpWhole(r, f) ==
  /\ f.call <= call[r]
  /\ f.call = call[r] /\ pc[r] \notin Idling =>
       IF f.kind = "ckpt" THEN icp[r].wrote \subseteq f.vars ELSE f.vars = Var
  /\ f.call = call[r] /\ Asked(r) => f.vars = Var

WholeTmp == \A r \in Rank : \A f \in ltmp[r] \cup gtmp[r] : TmpWhole(r, f)

WholeInv == WholeTmp /\ CommittedWhole

---------------------------------------------------------------------------
(* The steps of one process *)

RankStep(r) ==
  \/ InitICP(r) \/ AddVarICP(r) \/ FinalizeICP(r) \/ CloseICP(r) \/ SendICP(r)
  \/ PostICP(r) \/ DiscardICP(r) \/ CleanICP(r) \/ RenameICP(r) \/ EndICP(r)

LEMMA Typed ==
  ASSUME TypeInv
  PROVE  /\ plan \in Seq(CallLevels) /\ call \in [Rank -> 0 .. Len(plan)]
         /\ pc \in [Rank -> Where] /\ icp \in [Rank -> Iterations]
         /\ id \in [Rank -> Nat] /\ lvel \in [Rank -> 0 .. Reject]
         /\ token \in [Rank -> CallLevels \cup {None, Reject}]
         /\ ltmp \in [Rank -> SUBSET Files] /\ gtmp \in [Rank -> SUBSET Files]
         /\ dir \in [Level -> [Rank -> SUBSET Files]]
BY DEF TypeInv, MemoryOK, DiskOK

LEMMA CallRange == TypeInv => \A r \in Rank : call[r] \in 0 .. Len(plan) /\ call[r] \in Nat
BY DEF TypeInv, MemoryOK

(* A step of process r leaves what the others hold alone; what they have on *)
(* the PFS it may remove.  The plan only grows.                            *)
LEMMA OthersMemory ==
  ASSUME TypeInv, NEW r \in Rank, RankStep(r), NEW q \in Rank, q # r
  PROVE  /\ pc'[q] = pc[q] /\ call'[q] = call[q] /\ icp'[q] = icp[q] /\ id'[q] = id[q]
         /\ lvel'[q] = lvel[q] /\ token'[q] = token[q]
<1> USE Typed DEF Goto, RankStep, memory, heads
<1>1. pc'[q] = pc[q]
  BY DEF InitICP, AddVarICP, FinalizeICP, CloseICP, SendICP, PostICP, DiscardICP, CleanICP,
         RenameICP, EndICP, Ended
<1>2. call'[q] = call[q]
  BY DEF InitICP, AddVarICP, FinalizeICP, CloseICP, SendICP, PostICP, DiscardICP, CleanICP,
         RenameICP, EndICP
<1>3. icp'[q] = icp[q]
  BY DEF InitICP, AddVarICP, FinalizeICP, CloseICP, SendICP, PostICP, DiscardICP, CleanICP,
         RenameICP, EndICP, Ended
<1>4. id'[q] = id[q]
  BY DEF InitICP, AddVarICP, FinalizeICP, CloseICP, SendICP, PostICP, DiscardICP, CleanICP,
         RenameICP, EndICP, Ended
<1>5. lvel'[q] = lvel[q]
  BY DEF InitICP, AddVarICP, FinalizeICP, CloseICP, SendICP, PostICP, DiscardICP, CleanICP,
         RenameICP, EndICP, Ended
<1>6. token'[q] = token[q]
  BY DEF InitICP, Await, AddVarICP, FinalizeICP, CloseICP, SendICP, PostICP, DiscardICP,
         CleanICP, RenameICP, EndICP
<1> QED BY <1>1, <1>2, <1>3, <1>4, <1>5, <1>6

LEMMA OthersDisk ==
  ASSUME TypeInv, NEW r \in Rank, RankStep(r), NEW q \in Rank, q # r
  PROVE  ltmp'[q] = ltmp[q] /\ (gtmp'[q] = gtmp[q] \/ gtmp'[q] = {})
<1> USE Typed DEF RankStep, disk
<1>1. ltmp'[q] = ltmp[q]
  BY DEF InitICP, AddVarICP, FinalizeICP, CloseICP, SendICP, PostICP, DiscardICP, CleanICP,
         RenameICP, EndICP
<1>2. gtmp'[q] = gtmp[q] \/ gtmp'[q] = {}
  BY DEF InitICP, AddVarICP, FinalizeICP, CloseICP, SendICP, PostICP, DiscardICP, CleanICP,
         RenameICP, EndICP
<1> QED BY <1>1, <1>2

LEMMA PlanGrows ==
  ASSUME TypeInv, NEW r \in Rank, RankStep(r)
  PROVE  format' = format /\ \A c \in 1 .. Len(plan) : plan'[c] = plan[c]
<1> USE Typed, LevelFacts DEF RankStep
<1>1. format' = format
  BY DEF InitICP, AddVarICP, FinalizeICP, CloseICP, SendICP, PostICP, DiscardICP, CleanICP,
         RenameICP, EndICP
<1>2. CASE InitICP(r)
  <2>1. PICK l \in Planned(r) :
          plan' = IF call[r] = Len(plan) THEN Append(plan, l) ELSE plan
    BY <1>2 DEF InitICP
  <2>2. l \in CallLevels BY PlannedType DEF TypeInv
  <2>3. \A c \in 1 .. Len(plan) : plan'[c] = plan[c] BY <2>1, <2>2
  <2> QED BY <1>1, <2>3
<1>3. CASE ~InitICP(r)
  <2>1. plan' = plan
    BY <1>3 DEF AddVarICP, FinalizeICP, CloseICP, SendICP, PostICP, DiscardICP, CleanICP,
                RenameICP, EndICP
  <2> QED BY <1>1, <2>1
<1> QED BY <1>2, <1>3

LEMMA InitFacts ==
  ASSUME TypeInv, AnswerInv, NEW r \in Rank, InitICP(r)
  PROVE  /\ pc[r] = "run" /\ pc'[r] = "icp" /\ call'[r] = call[r] + 1 /\ id'[r] = id[r] + 1
         /\ icp'[r].status \in {"ACTV", "FAIL"} /\ icp'[r].result = FALSE
         /\ icp'[r].wrote = {}
         /\ icp'[r].lastId = id[r] /\ icp'[r].lastLvel = lvel[r]
         /\ lvel'[r] = plan'[call'[r]] /\ lvel'[r] \in CallLevels
         /\ token'[r] = None /\ dir' = dir /\ done' = done
<1> USE Typed, LevelFacts
<1>1. PICK l \in Planned(r), bad \in BOOLEAN :
        /\ plan' = IF call[r] = Len(plan) THEN Append(plan, l) ELSE plan
        /\ icp' = [icp EXCEPT ![r] = Begun(r, bad)]
        /\ lvel' = [lvel EXCEPT ![r] = l]
  BY DEF InitICP
<1>2. l \in CallLevels BY PlannedType DEF TypeInv
<1>3. /\ pc[r] = "run" /\ pc'[r] = "icp" /\ call'[r] = call[r] + 1 /\ id'[r] = id[r] + 1
      /\ dir' = dir /\ done' = done
  BY DEF InitICP, Goto, At
<1>4. /\ icp'[r].status \in {"ACTV", "FAIL"} /\ icp'[r].result = FALSE
      /\ icp'[r].wrote = {}
      /\ icp'[r].lastId = id[r] /\ icp'[r].lastLvel = lvel[r]
  BY <1>1 DEF Begun, Idle
<1>5. lvel'[r] = l BY <1>1
<1>6. plan'[call[r] + 1] = l
  <2>1. CASE call[r] = Len(plan) BY <1>1, <1>2, <2>1
  <2>2. CASE call[r] # Len(plan)
    <3>1. Planned(r) = {plan[call[r] + 1]} BY <2>2 DEF Planned
    <3> QED BY <1>1, <2>2, <3>1
  <2> QED BY <2>1, <2>2
<1>7. token'[r] = None
  <2>1. token' = token /\ (offline[r] => answer[r] # None) BY DEF InitICP, Await
  <2>2. /\ offline[r] <=> (token[r] # None \/ answer[r] # None)
        /\ token[r] = None \/ answer[r] = None
    BY <1>3 DEF AnswerInv
  <2> QED BY <2>1, <2>2
<1> QED BY <1>2, <1>3, <1>4, <1>5, <1>6, <1>7

LEMMA AddFacts ==
  ASSUME TypeInv, NEW r \in Rank, AddVarICP(r)
  PROVE  /\ pc[r] = "icp" /\ pc'[r] = "icp" /\ call'[r] = call[r] /\ id'[r] = id[r]
         /\ lvel'[r] = lvel[r] /\ token'[r] = token[r] /\ dir' = dir /\ done' = done
         /\ icp[r].status = "ACTV" /\ icp'[r].status = "ACTV"
         /\ icp'[r].lastId = icp[r].lastId /\ icp'[r].lastLvel = icp[r].lastLvel
<1> USE Typed
<1>1. PICK v \in Var, bad \in BOOLEAN : icp' = [icp EXCEPT ![r] = Counted(icp[r], v, bad)]
  BY DEF AddVarICP
<1>2. icp[r] \in Iterations /\ icp'[r] = Counted(icp[r], v, bad) BY <1>1
<1>3. /\ icp'[r].status = icp[r].status
      /\ icp'[r].lastId = icp[r].lastId /\ icp'[r].lastLvel = icp[r].lastLvel
  BY <1>2 DEF Counted, Iterations
<1>4. /\ pc[r] = "icp" /\ pc'[r] = "icp" /\ call'[r] = call[r] /\ id'[r] = id[r]
      /\ lvel'[r] = lvel[r] /\ token'[r] = token[r] /\ dir' = dir /\ done' = done
      /\ icp[r].status = "ACTV"
  BY DEF AddVarICP, At, heads
<1> QED BY <1>3, <1>4

LEMMA CloseFacts ==
  ASSUME TypeInv, NEW r \in Rank, CloseICP(r)
  PROVE  /\ pc[r] = "close" /\ pc'[r] \in {"meta", "post"}
         /\ pc'[r] = "meta" => format = "posix" /\ icp'[r].status = "ACTV"
         /\ call'[r] = call[r] /\ id'[r] = id[r] /\ lvel'[r] = lvel[r]
         /\ token'[r] = token[r] /\ dir' = dir /\ ltmp' = ltmp /\ gtmp' = gtmp
         /\ done' = done
         /\ icp'[r].status = "ACTV" => icp[r].status = "ACTV"
         /\ icp'[r].ok <=> icp'[r].status = "ACTV"
         /\ icp'[r].wrote = icp[r].wrote
         /\ icp'[r].lastId = icp[r].lastId /\ icp'[r].lastLvel = icp[r].lastLvel
         /\ Even => icp'[r].status = "ACTV" <=> icp[r].status = "ACTV"
<1> USE Typed
<1>1. PICK bad \in BOOLEAN, ok \in BOOLEAN :
        /\ bad => "close" \in Faults /\ format = "posix"
        /\ ok <=> ~bad /\ icp[r].status = "ACTV"
        /\ icp' = [icp EXCEPT ![r] = Closed(icp[r], ok)]
        /\ pc' = [pc EXCEPT ![r] = IF ok /\ format = "posix" THEN "meta" ELSE "post"]
  BY DEF CloseICP, Goto, May
<1>2. icp[r] \in Iterations /\ icp'[r] = Closed(icp[r], ok) BY <1>1
<1>3. /\ icp'[r].ok = ok
      /\ icp'[r].status = IF ok THEN icp[r].status ELSE "FAIL"
      /\ icp'[r].lastId = icp[r].lastId
  BY <1>2, ClosedType
<1>4. icp'[r].lastLvel = icp[r].lastLvel /\ icp'[r].wrote = icp[r].wrote
  BY <1>2 DEF Closed, Iterations
<1>5. /\ pc[r] = "close" /\ call'[r] = call[r] /\ id'[r] = id[r] /\ lvel'[r] = lvel[r]
      /\ token'[r] = token[r] /\ dir' = dir /\ ltmp' = ltmp /\ gtmp' = gtmp /\ done' = done
  BY DEF CloseICP, At, heads, disk
<1>6. pc'[r] = IF ok /\ format = "posix" THEN "meta" ELSE "post" BY <1>1
<1>7. Even => ~bad BY <1>1 DEF Even
<1> QED BY <1>1, <1>3, <1>4, <1>5, <1>6, <1>7

LEMMA EndedFacts ==
  ASSUME TypeInv, NEW r \in Rank, Ended(r)
  PROVE  /\ pc'[r] = "run" /\ icp'[r] = Idle
         /\ id'[r] = IF icp[r].ok THEN id[r] ELSE icp[r].lastId
         /\ lvel'[r] = IF icp[r].ok THEN lvel[r] ELSE icp[r].lastLvel
BY Typed DEF Ended, Taken, Goto

LEMMA SendFacts ==
  ASSUME TypeInv, NEW r \in Rank, SendICP(r)
  PROVE  /\ pc[r] = "post" /\ ~Inline(lvel[r]) /\ Ended(r)
         /\ token'[r] = IF icp[r].status = "FAIL" THEN Reject ELSE lvel[r]
         /\ call'[r] = call[r] /\ dir' = dir /\ ltmp' = ltmp /\ gtmp' = gtmp /\ done' = done
BY Typed DEF SendICP, At, disk

LEMMA PostFacts ==
  ASSUME TypeInv, NEW r \in Rank, PostICP(r)
  PROVE  /\ pc[r] = "post" /\ pc'[r] = "sync" /\ Inline(lvel[r])
         /\ lvel'[r] = IF icp[r].status = "FAIL" THEN Reject ELSE lvel[r]
         /\ call'[r] = call[r] /\ id'[r] = id[r] /\ icp'[r] = icp[r] /\ token'[r] = token[r]
         /\ dir' = dir /\ ltmp' = ltmp /\ gtmp' = gtmp /\ done' = done
BY Typed DEF PostICP, Goto, At, disk

(* Steps that leave the process's memory as it is, or end its call.        *)
LEMMA MoveFacts ==
  ASSUME TypeInv, NEW r \in Rank, FinalizeICP(r) \/ CleanICP(r) \/ RenameICP(r)
  PROVE  /\ \/ pc[r] = "icp" /\ pc'[r] = "sum" /\ dir' = dir
            \/ pc[r] = "clean" /\ pc'[r] = "rename"
            \/ pc[r] = "rename" /\ pc'[r] = "barrier"
         /\ call'[r] = call[r] /\ id'[r] = id[r] /\ icp'[r] = icp[r] /\ token'[r] = token[r]
         /\ lvel'[r] = lvel[r] /\ done' = done
BY Typed DEF FinalizeICP, CleanICP, RenameICP, Goto, At, memory, heads, disk

LEMMA LastFacts ==
  ASSUME TypeInv, NEW r \in Rank, DiscardICP(r) \/ EndICP(r)
  PROVE  /\ pc[r] \in {"discard", "end"} /\ Ended(r)
         /\ call'[r] = call[r] /\ token'[r] = token[r] /\ dir' = dir /\ done' = done
BY Typed DEF DiscardICP, EndICP, At, heads, disk

---------------------------------------------------------------------------
(* The processes keep in step *)

LEMMA CtlInit == RestartInit => CtlInv
BY RankFacts, LevelFacts
DEF RestartInit, Init, CtlInv, Lockstep, CallInfo, Round, Asked, Valid, Idling, Adding, Storing,
    Rejectable, Opening, Moving

(* One process moves on in its round; whether the processes move           *)
(* directories, and whether they are down, stays as it is.                 *)
LEMMA LockRank ==
  ASSUME TypeInv, Lockstep, NEW r \in Rank, RankStep(r),
         Round(r)' = Round(r), pc[r] # "down", pc'[r] # "down",
         pc'[r] \in Moving <=> pc[r] \in Moving
  PROVE  Lockstep'
<1>1. \A q \in Rank : q # r => Round(q)' = Round(q) /\ pc'[q] = pc[q]
  BY OthersMemory DEF Round
<1>2. \A q \in Rank :
        /\ Round(q)' = Round(q)
        /\ pc'[q] \in Moving <=> pc[q] \in Moving
        /\ pc'[q] = "down" <=> pc[q] = "down"
  BY <1>1
<1> QED BY <1>2 DEF Lockstep

LEMMA InfoOthers ==
  ASSUME TypeInv, CtlInv, NEW r \in Rank, RankStep(r), NEW q \in Rank, q # r
  PROVE  CallInfo(q)'
<1>1. /\ pc'[q] = pc[q] /\ call'[q] = call[q] /\ icp'[q] = icp[q] /\ id'[q] = id[q]
      /\ lvel'[q] = lvel[q] /\ token'[q] = token[q] /\ format' = format
  BY OthersMemory, PlanGrows
<1>2. call[q] >= 1 => plan'[call'[q]] = plan[call[q]]
  <2>1. call[q] \in 0 .. Len(plan) BY CallRange
  <2> QED BY <1>1, <2>1, PlanGrows
<1>3. CallInfo(q) BY DEF CtlInv
<1>4. pc[q] \notin Idling \/ Asked(q) => call[q] >= 1 BY <1>3 DEF CallInfo
<1> QED BY <1>1, <1>2, <1>3, <1>4
    DEF CallInfo, Asked, Valid, Idling, Adding, Storing, Rejectable, Opening

LEMMA CtlRank ==
  ASSUME TypeInv, AnswerInv, CtlInv, NEW r \in Rank, RankStep(r)
  PROVE  CtlInv'
<1> USE LevelFacts DEF RankStep
<1>0. /\ CallInfo(r) /\ Lockstep /\ call[r] \in 0 .. Len(plan) /\ call[r] \in Nat
      /\ icp[r] \in Iterations /\ lvel[r] \in 0 .. Reject
  BY CallRange, Typed DEF CtlInv
<1>1. format' = format /\ (call[r] >= 1 => plan'[call[r]] = plan[call[r]])
  BY <1>0, PlanGrows
<1>2. ASSUME CallInfo(r)', Round(r)' = Round(r), pc[r] # "down", pc'[r] # "down",
             pc'[r] \in Moving <=> pc[r] \in Moving
      PROVE  CtlInv'
  <2>1. Lockstep' BY <1>0, <1>2, LockRank
  <2>2. \A q \in Rank : CallInfo(q)' BY <1>2, InfoOthers
  <2> QED BY <2>1, <2>2 DEF CtlInv
<1> USE DEF Idling, Adding, Storing, Rejectable, Opening, Moving
<1>3. CASE InitICP(r)
  <2>0. /\ pc[r] = "run" /\ pc'[r] = "icp" /\ call'[r] = call[r] + 1 /\ id'[r] = id[r] + 1
        /\ icp'[r].lastId = id[r] /\ ~icp'[r].result
        /\ lvel'[r] = plan'[call'[r]] /\ token'[r] = None
    BY <1>3, InitFacts
  <2>1. CallInfo(r)' BY <1>0, <2>0 DEF CallInfo, Asked
  <2>2. Round(r)' = Round(r) BY <1>0, <2>0 DEF Round
  <2> QED BY <1>2, <1>3, <2>1, <2>2, InitFacts
<1>4. CASE AddVarICP(r)
  <2>1. CallInfo(r)' BY <1>0, <1>1, <1>4, AddFacts DEF CallInfo, Asked, Valid
  <2>2. Round(r)' = Round(r) BY <1>0, <1>4, AddFacts DEF Round
  <2> QED BY <1>2, <1>4, <2>1, <2>2, AddFacts
<1>5. CASE CloseICP(r)
  <2>1. CallInfo(r)' BY <1>0, <1>1, <1>5, CloseFacts DEF CallInfo, Asked, Valid
  <2>2. Round(r)' = Round(r) BY <1>0, <1>5, CloseFacts DEF Round
  <2> QED BY <1>2, <1>5, <2>1, <2>2, CloseFacts
<1>6. CASE SendICP(r)
  <2>1. pc[r] = "post" /\ pc'[r] = "run" /\ call'[r] = call[r] BY <1>6, SendFacts, EndedFacts
  <2>2. Asked(r)' => call'[r] >= 1 /\ token'[r] = plan'[call'[r]] /\ ~Inline(token'[r])
    BY <1>0, <1>1, <1>6, <2>1, SendFacts DEF CallInfo, Asked, Inline
  <2>3. CallInfo(r)' BY <2>1, <2>2 DEF CallInfo
  <2>4. Round(r)' = Round(r) BY <1>0, <2>1 DEF Round
  <2> QED BY <1>2, <2>1, <2>3, <2>4
<1>7. CASE PostICP(r)
  <2>1. icp[r].status # "NINI" BY <1>7, PostFacts DEF TypeInv, CallOK
  <2>2. icp[r].status = "FAIL" <=> ~Valid(r) BY <1>0, <2>1 DEF Iterations, Valid
  <2>3. CallInfo(r)' BY <1>0, <1>1, <1>7, <2>2, PostFacts DEF CallInfo, Asked, Valid
  <2>4. Round(r)' = Round(r) BY <1>0, <1>7, PostFacts DEF Round
  <2> QED BY <1>2, <1>7, <2>3, <2>4, PostFacts
<1>8. CASE FinalizeICP(r) \/ CleanICP(r) \/ RenameICP(r)
  <2>1. CallInfo(r)' BY <1>0, <1>1, <1>8, MoveFacts DEF CallInfo, Asked, Valid
  <2>2. Round(r)' = Round(r) BY <1>0, <1>8, MoveFacts DEF Round
  <2> QED BY <1>2, <1>8, <2>1, <2>2, MoveFacts
<1>9. CASE DiscardICP(r) \/ EndICP(r)
  <2>1. /\ pc[r] \in {"discard", "end"} /\ pc'[r] = "run" /\ call'[r] = call[r]
        /\ token'[r] = token[r]
    BY <1>9, LastFacts, EndedFacts
  <2>2. token[r] = None BY <2>1 DEF AnswerInv
  <2>3. CallInfo(r)' BY <2>1, <2>2 DEF CallInfo, Asked
  <2>4. Round(r)' = Round(r) BY <1>0, <2>1 DEF Round
  <2> QED BY <1>2, <2>1, <2>3, <2>4
<1> QED BY <1>3, <1>4, <1>5, <1>6, <1>7, <1>8, <1>9

(* The collectives: all processes are at the same place, in the same call. *)
LEMMA AllSum ==
  ASSUME TypeInv, SumICP, NEW r \in Rank
  PROVE  /\ pc[r] = "sum" /\ pc'[r] = "close"
         /\ icp'[r].status = IF AllAdded THEN icp[r].status ELSE "FAIL"
         /\ icp'[r].lastId = icp[r].lastId /\ icp'[r].lastLvel = icp[r].lastLvel
         /\ icp'[r].wrote = icp[r].wrote
BY Typed DEF SumICP, AllAt, At, AllGoto, Iterations

LEMMA AllMeta ==
  ASSUME TypeInv, MetaICP, NEW r \in Rank
  PROVE  /\ pc[r] = "meta" /\ pc'[r] = "post"
         /\ icp'[r].status = "ACTV" => icp[r].status = "ACTV"
         /\ icp[r].ok /\ icp[r].status = "ACTV" => (icp'[r].ok <=> icp'[r].status = "ACTV")
         /\ icp'[r].lastId = icp[r].lastId /\ icp'[r].lastLvel = icp[r].lastLvel
         /\ icp'[r].wrote = icp[r].wrote
         /\ Even /\ format = "posix" /\ icp[r].ok => icp'[r].status = icp[r].status
<1> USE Typed, RankFacts
<1>1. PICK bad \in BOOLEAN :
        /\ bad => "meta" \in Faults
        /\ icp' = [icp EXCEPT ![Root] = Closed(icp[Root], ~bad)]
  BY DEF MetaICP, May
<1>2. pc[r] = "meta" /\ pc'[r] = "post" BY DEF MetaICP, AllAt, At, AllGoto
<1>3. CASE r # Root BY <1>1, <1>2, <1>3
<1>4. CASE r = Root
  <2>1. icp[r] \in Iterations /\ icp'[r] = Closed(icp[r], ~bad) BY <1>1, <1>4
  <2>2. /\ icp'[r].ok <=> ~bad
        /\ icp'[r].status = IF ~bad THEN icp[r].status ELSE "FAIL"
        /\ icp'[r].lastId = icp[r].lastId
    BY <2>1, ClosedType
  <2>3. icp'[r].lastLvel = icp[r].lastLvel /\ icp'[r].wrote = icp[r].wrote
    BY <2>1 DEF Closed, Iterations
  <2>4. Even /\ format = "posix" => ~bad BY <1>1 DEF Even
  <2> QED BY <1>2, <2>2, <2>3, <2>4
<1> QED BY <1>3, <1>4

(* After a collective the processes are at one place, in the same call.    *)
LEMMA LockAll ==
  ASSUME TypeInv, CtlInv, NEW from, NEW to,
         \A r \in Rank : pc[r] = from /\ pc'[r] = to /\ call'[r] = call[r]
  PROVE  Lockstep' /\ \A q, r \in Rank : call[q] = call[r]
<1>1. ASSUME NEW q \in Rank, NEW r \in Rank PROVE call[q] = call[r] /\ Round(q)' = Round(r)'
  <2>1. call[q] \in Nat /\ call[r] \in Nat BY CallRange
  <2>2. Round(q) = Round(r) BY DEF CtlInv, Lockstep
  <2>3. call[q] = call[r] BY <2>1, <2>2 DEF Round
  <2> QED BY <2>3 DEF Round
<1> QED BY <1>1 DEF Lockstep

(* What FTI_PostCkpt makes of a checkpoint all of whose results are 0: no  *)
(* process is at the reject level.                                         *)
LEMMA AllSync ==
  ASSUME TypeInv, CtlInv, 0 \notin UninitRes, SyncPost
  PROVE  /\ \A r \in Rank : pc[r] = "sync"
         /\ \/ /\ \A r \in Rank : pc'[r] = "discard"
               /\ ltmp' = ltmp
            \/ /\ \A r \in Rank : pc'[r] = "clean" /\ Valid(r)
               /\ ltmp' = WithCopies(lvel[Root])
<1>1. PICK bad \in BOOLEAN, res \in [{r \in Rank : lvel[r] = Reject} -> UninitRes] :
        IF bad \/ \E r \in DOMAIN res : res[r] # 0
        THEN AllGoto("discard") /\ UNCHANGED ltmp
        ELSE AllGoto("clean") /\ ltmp' = WithCopies(lvel[Root])
  BY DEF SyncPost
<1>2. \A r \in Rank : pc[r] = "sync" BY DEF SyncPost, AllAt, At
<1>3. CASE bad \/ \E r \in DOMAIN res : res[r] # 0
  BY <1>1, <1>2, <1>3 DEF AllGoto
<1>4. CASE ~(bad \/ \E r \in DOMAIN res : res[r] # 0)
  <2>1. \A r \in Rank : lvel[r] # Reject BY <1>4
  <2>2. \A r \in Rank : Valid(r) BY <1>2, <2>1 DEF CtlInv, CallInfo, Rejectable
  <2> QED BY <1>1, <1>2, <1>4, <2>2 DEF AllGoto
<1> QED BY <1>3, <1>4

LEMMA CtlAll ==
  ASSUME TypeInv, AnswerInv, CtlInv, 0 \notin UninitRes,
         SumICP \/ MetaICP \/ SyncPost \/ BarrierICP \/ HeadsICP
  PROVE  CtlInv'
<1> USE LevelFacts DEF Idling, Adding, Storing, Rejectable, Opening, Moving
<1>0. /\ \A r \in Rank : CallInfo(r) /\ call[r] \in 0 .. Len(plan) /\ call[r] \in Nat
      /\ Lockstep
  BY CallRange DEF CtlInv
<1>1. /\ format' = format /\ plan' = plan
      /\ ~HeadsICP => call' = call /\ id' = id /\ lvel' = lvel /\ token' = token
  BY DEF SumICP, MetaICP, SyncPost, BarrierICP, HeadsICP, memory, heads
<1>2. CASE SumICP
  <2>0. ~HeadsICP
    BY <1>2, RankFacts DEF SumICP, AllAt, At, HeadsICP, AnswerInv
  <2>1. Lockstep'
    <3>1. \A r \in Rank : pc[r] = "sum" /\ pc'[r] = "close" /\ call'[r] = call[r]
      BY <1>1, <1>2, <2>0, AllSum
    <3> QED BY <3>1, LockAll
  <2>2. ASSUME NEW r \in Rank PROVE CallInfo(r)'
    <3>1. AllAdded => icp[r].wrote = Var BY DEF AllAdded
    <3>2. icp'[r].status = "ACTV" => icp'[r].wrote = Var BY <1>2, <3>1, AllSum
    <3>3. pc[r] = "sum" /\ pc'[r] = "close" BY <1>2, AllSum
    <3>4. icp'[r].lastId = icp[r].lastId BY <1>2, AllSum
    <3> QED BY <1>0, <1>1, <2>0, <3>2, <3>3, <3>4 DEF CallInfo, Asked, Valid
  <2> QED BY <2>1, <2>2 DEF CtlInv
<1>3. CASE MetaICP
  <2>0. ~HeadsICP
    BY <1>3, RankFacts DEF MetaICP, AllAt, At, HeadsICP, AnswerInv
  <2>1. Lockstep'
    <3>1. \A r \in Rank : pc[r] = "meta" /\ pc'[r] = "post" /\ call'[r] = call[r]
      BY <1>1, <1>3, <2>0, AllMeta
    <3> QED BY <3>1, LockAll
  <2>2. ASSUME NEW r \in Rank PROVE CallInfo(r)'
    <3>1. pc[r] = "meta" /\ pc'[r] = "post" /\ icp'[r].lastId = icp[r].lastId
          /\ icp'[r].wrote = icp[r].wrote
      BY <1>3, AllMeta
    <3>2. icp[r].status = "ACTV" /\ icp[r].ok BY <1>0, <3>1 DEF CallInfo, Valid
    <3>3. icp'[r].ok <=> icp'[r].status = "ACTV" BY <1>3, <3>2, AllMeta
    <3> QED BY <1>0, <1>1, <2>0, <3>1, <3>2, <3>3 DEF CallInfo, Asked, Valid
  <2> QED BY <2>1, <2>2 DEF CtlInv
<1>4. CASE SyncPost
  <2>0. ~HeadsICP
    BY <1>4, RankFacts DEF SyncPost, AllAt, At, HeadsICP, AnswerInv
  <2>1. icp' = icp BY <1>4 DEF SyncPost, memory
  <2>2. CASE \A r \in Rank : pc[r] = "sync" /\ pc'[r] = "discard"
    <3>1. Lockstep' BY <1>1, <2>0, <2>2, LockAll
    <3>2. \A r \in Rank : CallInfo(r)'
      BY <1>0, <1>1, <2>0, <2>1, <2>2 DEF CallInfo, Asked, Valid
    <3> QED BY <3>1, <3>2 DEF CtlInv
  <2>3. CASE \A r \in Rank : pc[r] = "sync" /\ pc'[r] = "clean" /\ Valid(r)
    <3>1. Lockstep' BY <1>1, <2>0, <2>3, LockAll
    <3>2. \A r \in Rank : CallInfo(r)'
      BY <1>0, <1>1, <2>0, <2>1, <2>3 DEF CallInfo, Asked, Valid
    <3> QED BY <3>1, <3>2 DEF CtlInv
  <2> QED BY <1>4, <2>2, <2>3, AllSync
<1>5. CASE BarrierICP
  <2>0. ~HeadsICP
    BY <1>5, RankFacts DEF BarrierICP, AllAt, At, HeadsICP, AnswerInv
  <2>1. icp' = icp /\ \A r \in Rank : pc[r] = "barrier" /\ pc'[r] = "end"
    BY <1>5 DEF BarrierICP, AllAt, At, AllGoto, memory
  <2>2. Lockstep' BY <1>1, <2>0, <2>1, LockAll
  <2>3. \A r \in Rank : CallInfo(r)'
    BY <1>0, <1>1, <2>0, <2>1 DEF CallInfo, Asked, Valid
  <2> QED BY <2>2, <2>3 DEF CtlInv
<1>6. CASE HeadsICP
  <2>1. /\ pc' = pc /\ call' = call /\ icp' = icp /\ id' = id /\ lvel' = lvel
        /\ \A r \in Rank : token'[r] = None
    BY <1>6 DEF HeadsICP, memory
  <2>2. Lockstep' BY <1>0, <2>1 DEF Lockstep, Round
  <2>3. \A r \in Rank : CallInfo(r)'
    BY <1>0, <1>1, <2>1 DEF CallInfo, Asked, Valid
  <2> QED BY <2>2, <2>3 DEF CtlInv
<1> QED BY <1>2, <1>3, <1>4, <1>5, <1>6

(* A crash takes all processes down at once, and they come back together.  *)
LEMMA CtlTogether ==
  ASSUME TypeInv', format' = format, NEW where \in {"down", "run"}, where = "down" => format = "ftiff",
         \A r \in Rank : pc'[r] = where /\ token'[r] = None,
         \A q, r \in Rank : call'[q] = call'[r]
  PROVE  CtlInv'
<1>1. Lockstep' BY DEF Lockstep, Round, Opening
<1>2. \A r \in Rank : CallInfo(r)'
  BY DEF CallInfo, Asked, Idling, Adding, Storing, Rejectable, Opening
<1> QED BY <1>1, <1>2 DEF CtlInv

LEMMA RestartFacts ==
  ASSUME TypeInv, AnswerInv, CtlInv, Restart \/ RecoverL1 \/ RecoverL2 \/ RecoverL4
  PROVE  /\ \A r \in Rank : pc[r] = "down" /\ token[r] = None
         /\ format = "ftiff"
         /\ pc' = pc \/ AllGoto("run")
         /\ format' = format /\ token' = token /\ call' = call /\ plan' = plan
         /\ ltmp' = ltmp /\ gtmp' = gtmp /\ torn' = torn
         /\ \A q, r \in Rank : call[q] = call[r]
<1>1. \A r \in Rank : pc[r] = "down"
  BY DEF Restart, AllAt, At, RecoverL1, RecoverL2, RecoverL4, TypeInv, CountOK
<1>2. /\ \A r \in Rank : token[r] = None
      /\ format = "ftiff"
  BY <1>1, RankFacts DEF AnswerInv, CtlInv, CallInfo
<1>3. pc' = pc \/ AllGoto("run")
  BY DEF Restart, RecoverL1, RecoverL2, RecoverL4, Recovered, NotFrom
<1>4. /\ format' = format /\ token' = token /\ call' = call /\ plan' = plan
      /\ ltmp' = ltmp /\ gtmp' = gtmp /\ torn' = torn
  BY DEF Restart, RecoverL1, RecoverL2, RecoverL4, StillDown, heads, disk
<1>5. \A q, r \in Rank : call[q] = call[r]
  BY <1>1 DEF CtlInv, Lockstep, Round, Opening
<1> QED BY <1>1, <1>2, <1>3, <1>4, <1>5

LEMMA CtlRestart ==
  ASSUME TypeInv, AnswerInv, CtlInv, TypeInv',
         Crash \/ Restart \/ RecoverL1 \/ RecoverL2 \/ RecoverL4
  PROVE  CtlInv'
<1>1. CASE Crash
  BY <1>1, CtlTogether DEF Crash, AllGoto
<1>2. CASE Restart \/ RecoverL1 \/ RecoverL2 \/ RecoverL4
  <2>1. CASE pc' = pc BY <1>2, <2>1, RestartFacts, CtlTogether
  <2>2. CASE AllGoto("run") BY <1>2, <2>2, RestartFacts, CtlTogether DEF AllGoto
  <2> QED BY <1>2, <2>1, <2>2, RestartFacts
<1> QED BY <1>1, <1>2

---------------------------------------------------------------------------
(* The processes agree *)

LEMMA AgreeInit == RestartInit => AgreeInv
BY DEF RestartInit, Init, AgreeInv, Settled, Idling

LEMMA SettledOthers ==
  ASSUME TypeInv, CtlInv, NEW r \in Rank, RankStep(r), NEW q \in Rank, q # r
  PROVE  Settled(q)' = Settled(q)
<1>1. /\ pc'[q] = pc[q] /\ call'[q] = call[q] /\ icp'[q] = icp[q] /\ id'[q] = id[q]
      /\ lvel'[q] = lvel[q]
  BY OthersMemory
<1>2. call[q] >= 1 => plan'[call'[q]] = plan[call[q]]
  <2>1. call[q] \in 0 .. Len(plan) BY CallRange
  <2> QED BY <1>1, <2>1, PlanGrows
<1>3. pc[q] \notin Idling => call[q] >= 1 BY DEF CtlInv, CallInfo
<1> QED BY <1>1, <1>2, <1>3 DEF Settled, Valid

(* A call ends with the id and the level that were settled by its sum.     *)
LEMMA SettledEnded ==
  ASSUME TypeInv, CtlInv, NEW r \in Rank, Ended(r), pc[r] \in {"post", "discard", "end"}
  PROVE  Settled(r)' = Settled(r)
<1> USE DEF Idling, Adding, Opening, Rejectable, Storing
<1>1. CallInfo(r) BY DEF CtlInv
<1>2. Settled(r)' = <<id'[r], lvel'[r]>> BY EndedFacts DEF Settled
<1>3. CASE Valid(r)
  <2>1. icp[r].ok /\ lvel[r] = plan[call[r]] BY <1>1, <1>3 DEF CallInfo
  <2>2. id'[r] = id[r] /\ lvel'[r] = plan[call[r]] BY <2>1, EndedFacts
  <2> QED BY <1>2, <1>3, <2>2 DEF Settled
<1>4. CASE ~Valid(r)
  <2>1. ~icp[r].ok BY <1>1, <1>4 DEF CallInfo
  <2>2. id'[r] = icp[r].lastId /\ lvel'[r] = icp[r].lastLvel BY <2>1, EndedFacts
  <2> QED BY <1>2, <1>4, <2>2 DEF Settled
<1> QED BY <1>3, <1>4

LEMMA SettledRank ==
  ASSUME TypeInv, AnswerInv, CtlInv, NEW r \in Rank, RankStep(r), Even
  PROVE  Settled(r)' = Settled(r)
<1> USE LevelFacts DEF RankStep, Idling, Opening
<1>0. /\ CallInfo(r) /\ call[r] \in 0 .. Len(plan) BY CallRange DEF CtlInv
<1>1. call[r] >= 1 => plan'[call[r]] = plan[call[r]] BY <1>0, PlanGrows
<1>2. CASE InitICP(r)
  <2>1. /\ pc[r] = "run" /\ pc'[r] = "icp"
        /\ icp'[r].lastId = id[r] /\ icp'[r].lastLvel = lvel[r]
    BY <1>2, InitFacts
  <2> QED BY <2>1 DEF Settled
<1>3. CASE AddVarICP(r)
  <2>1. /\ pc[r] = "icp" /\ pc'[r] = "icp"
        /\ icp'[r].lastId = icp[r].lastId /\ icp'[r].lastLvel = icp[r].lastLvel
    BY <1>3, AddFacts
  <2> QED BY <2>1 DEF Settled
<1>4. CASE CloseICP(r)
  <2>1. /\ pc[r] = "close" /\ pc'[r] \in {"meta", "post"}
        /\ call'[r] = call[r] /\ id'[r] = id[r]
        /\ icp'[r].status = "ACTV" <=> icp[r].status = "ACTV"
        /\ icp'[r].lastId = icp[r].lastId /\ icp'[r].lastLvel = icp[r].lastLvel
    BY <1>4, CloseFacts
  <2>2. plan'[call'[r]] = plan[call[r]] BY <1>0, <1>1, <2>1 DEF CallInfo
  <2> QED BY <2>1, <2>2 DEF Settled, Valid
<1>5. CASE SendICP(r) BY <1>5, SendFacts, SettledEnded
<1>6. CASE DiscardICP(r) \/ EndICP(r) BY <1>6, LastFacts, SettledEnded
<1>7. CASE PostICP(r)
  <2>1. /\ pc[r] = "post" /\ pc'[r] = "sync" /\ call'[r] = call[r] /\ id'[r] = id[r]
        /\ icp'[r] = icp[r]
    BY <1>7, PostFacts
  <2>2. plan'[call'[r]] = plan[call[r]] BY <1>0, <1>1, <2>1 DEF CallInfo
  <2> QED BY <2>1, <2>2 DEF Settled, Valid
<1>8. CASE FinalizeICP(r) \/ CleanICP(r) \/ RenameICP(r)
  <2>1. /\ \/ pc[r] = "icp" /\ pc'[r] = "sum"
           \/ pc[r] = "clean" /\ pc'[r] = "rename"
           \/ pc[r] = "rename" /\ pc'[r] = "barrier"
        /\ call'[r] = call[r] /\ id'[r] = id[r] /\ icp'[r] = icp[r]
    BY <1>8, MoveFacts
  <2>2. plan'[call'[r]] = plan[call[r]] BY <1>0, <1>1, <2>1 DEF CallInfo
  <2> QED BY <2>1, <2>2 DEF Settled, Valid
<1> QED BY <1>2, <1>3, <1>4, <1>5, <1>6, <1>7, <1>8

LEMMA AgreeRank ==
  ASSUME TypeInv, AnswerInv, CtlInv, AgreeInv, NEW r \in Rank, RankStep(r), torn' = torn
  PROVE  AgreeInv'
<1>1. format' = format BY PlanGrows
<1>2. ASSUME Even PROVE \A q \in Rank : Settled(q)' = Settled(q)
  BY <1>2, SettledOthers, SettledRank
<1> QED BY <1>1, <1>2 DEF AgreeInv, Even

(* At the sum all processes settle for the checkpoint, or all for the one  *)
(* before it.                                                              *)
LEMMA AgreeSum ==
  ASSUME TypeInv, AnswerInv, CtlInv, AgreeInv, SumICP, torn' = torn
  PROVE  AgreeInv'
<1> USE DEF Idling, Opening
<1>1. /\ format' = format /\ plan' = plan /\ call' = call /\ id' = id
  BY DEF SumICP
<1>2. ASSUME Even, ~torn, NEW q \in Rank, NEW r \in Rank PROVE Settled(q)' = Settled(r)'
  <2>1. /\ pc[q] = "sum" /\ pc[r] = "sum" /\ pc'[q] = "close" /\ pc'[r] = "close"
        /\ icp'[q].lastId = icp[q].lastId /\ icp'[q].lastLvel = icp[q].lastLvel
        /\ icp'[r].lastId = icp[r].lastId /\ icp'[r].lastLvel = icp[r].lastLvel
    BY AllSum
  <2>2. icp[q].lastId = icp[r].lastId /\ icp[q].lastLvel = icp[r].lastLvel
    <3>1. Settled(q) = Settled(r) BY <1>2 DEF AgreeInv
    <3> QED BY <2>1, <3>1 DEF Settled
  <2>3. CASE AllAdded
    <3>1. icp'[q].status = icp[q].status /\ icp'[r].status = icp[r].status
      BY <2>3, AllSum
    <3>2. Valid(q) /\ Valid(r)
      BY <2>1, <2>3 DEF AllAdded, CtlInv, CallInfo
    <3>3. id[q] = id[r] BY <2>1, <2>2 DEF CtlInv, CallInfo
    <3>4. call[q] = call[r]
      <4>1. Round(q) = Round(r) /\ call[q] \in Nat /\ call[r] \in Nat
        BY CallRange DEF CtlInv, Lockstep
      <4> QED BY <2>1, <4>1 DEF Round
    <3> QED BY <1>1, <2>1, <3>1, <3>2, <3>3, <3>4 DEF Settled, Valid
  <2>4. CASE ~AllAdded
    <3>1. icp'[q].status = "FAIL" /\ icp'[r].status = "FAIL" BY <2>4, AllSum
    <3> QED BY <2>1, <2>2, <3>1 DEF Settled, Valid
  <2> QED BY <2>3, <2>4
<1> QED BY <1>1, <1>2 DEF AgreeInv, Even

LEMMA AgreeAll ==
  ASSUME TypeInv, AnswerInv, CtlInv, AgreeInv, 0 \notin UninitRes, torn' = torn,
         MetaICP \/ SyncPost \/ BarrierICP \/ HeadsICP
  PROVE  AgreeInv'
<1> USE DEF Idling, Opening
<1>1. /\ format' = format /\ plan' = plan /\ call' = call /\ id' = id /\ lvel' = lvel
  BY DEF MetaICP, SyncPost, BarrierICP, HeadsICP, memory
<1>2. ASSUME Even PROVE \A r \in Rank : Settled(r)' = Settled(r)
  <2>1. CASE MetaICP
    <3> SUFFICES ASSUME NEW r \in Rank PROVE Settled(r)' = Settled(r) OBVIOUS
    <3>1. pc[r] = "meta" /\ pc'[r] = "post" BY <2>1, AllMeta
    <3>2. format = "posix" /\ Valid(r) /\ icp[r].ok BY <3>1 DEF CtlInv, CallInfo
    <3>3. icp'[r].status = icp[r].status BY <1>2, <2>1, <3>2, AllMeta
    <3> QED BY <1>1, <3>1, <3>2, <3>3 DEF Settled, Valid
  <2>2. CASE SyncPost
    <3>1. icp' = icp BY <2>2 DEF SyncPost, memory
    <3>2. \A r \in Rank : pc[r] = "sync" /\ pc'[r] \in {"discard", "clean"} BY <2>2, AllSync
    <3> QED BY <1>1, <3>1, <3>2 DEF Settled, Valid
  <2>3. CASE BarrierICP
    <3>1. icp' = icp /\ \A r \in Rank : pc[r] = "barrier" /\ pc'[r] = "end"
      BY <2>3 DEF BarrierICP, AllAt, At, AllGoto, memory
    <3> QED BY <1>1, <3>1 DEF Settled, Valid
  <2>4. CASE HeadsICP
    <3>1. icp' = icp /\ pc' = pc BY <2>4 DEF HeadsICP, memory
    <3> QED BY <1>1, <3>1 DEF Settled, Valid
  <2> QED BY <2>1, <2>2, <2>3, <2>4
<1> QED BY <1>1, <1>2 DEF AgreeInv, Even

(* What a restart finds is one checkpoint. *)
LEMMA SoundFound ==
  ASSUME NEW S, NEW k, NEW f \in Found(S, k), Sound(f)
  PROVE  f \in S /\ f.kind = k
BY DEF Found, Sound, NoFile, File

LEMMA DownUniform ==
  ASSUME CtlInv, DirInv, ~torn, \A r \in Rank : pc[r] = "down", NEW l \in Level
  PROVE  Single(dir[l]) /\ Uniform(l, dir[l])
<1>1. format = "ftiff" BY RankFacts DEF CtlInv, CallInfo
<1> QED BY <1>1, RankFacts DEF DirInv, Kept, Moving, Neat

LEMMA SameFiles ==
  ASSUME NEW l \in Level, Uniform(l, dir[l]), NEW name,
         \A r \in Rank : name[r] \in Found(dir[l][r], "ckpt"),
         \A r \in Rank : Sound(name[r])
  PROVE  \A q, r \in Rank : name[q].id = name[r].id /\ name[q].call = name[r].call
<1>1. \A r \in Rank : name[r] \in dir[l][r] /\ name[r].kind = "ckpt" BY SoundFound
<1>2. "ckpt" \in Kinds(l) BY DEF Kinds
<1> QED BY <1>1, <1>2 DEF Uniform

(* What the recoveries do. *)
LEMMA RecoverL1Facts ==
  ASSUME RecoverL1
  PROVE  /\ dir' = dir
         /\ \/ NotFrom(1)
            \/ \E name : /\ \A r \in Rank : name[r] \in Found(dir[1][r], "ckpt")
                         /\ \A r \in Rank : Sound(name[r])
                         /\ Recovered(1, [r \in Rank |-> name[r].id], name)
BY DEF RecoverL1

LEMMA RecoverL4Facts ==
  ASSUME RecoverL4
  PROVE  \/ \E name : /\ \A r \in Rank : name[r] \in Found(dir[4][r], "ckpt")
                      /\ \A r \in Rank : Sound(name[r])
                      /\ dir' = [dir EXCEPT ![1] = [r \in Rank |-> {name[r]}]]
                      /\ Recovered(4, [r \in Rank |-> name[r].id], name)
         \/ /\ dir' = [dir EXCEPT ![1] = [r \in Rank |-> {}]]
            /\ Recovered(0, [r \in Rank |-> 0], [r \in Rank |-> NoFile])
BY DEF RecoverL4

(* Level 2, when every process has its file or a neighbour has the copy.   *)
Exchanged(own, copy, i) ==
  /\ \A r \in Rank : /\ own[r] \in Reported(r, "ckpt")
                     /\ copy[r] \in Reported(r, "copy")
                     /\ own[r] # NoFile \/ copy[Right(r)] # NoFile
  /\ dir' = [dir EXCEPT ![2] = Rebuilt(own, copy, i)]
  /\ Recovered(2, [r \in Rank |-> i], [r \in Rank |-> Mine(Rebuilt(own, copy, i), r, i)])

LEMMA RecoverL2Facts ==
  ASSUME RecoverL2
  PROVE  \/ NotFrom(2) /\ dir' = dir
         \/ \E own, copy, i : Exchanged(own, copy, i)
<1>1. PICK own, copy \in [Rank -> (UNION {dir[2][r] : r \in Rank}) \cup {NoFile}],
           ids \in [Rank -> {f.id : f \in UNION {dir[2][r] : r \in Rank}} \cup {0}] :
        /\ \A r \in Rank :
             /\ own[r] \in Reported(r, "ckpt")
             /\ copy[r] \in Reported(r, "copy")
             /\ ids[r] \in IF {own[r], copy[r]} = {NoFile} THEN {0}
                           ELSE {f.id : f \in {own[r], copy[r]} \ {NoFile}}
        /\ IF \A r \in Rank : own[r] # NoFile \/ copy[Right(r)] # NoFile
           THEN \E i \in 1 .. MaxCalls : \E d \in {Rebuilt(own, copy, i)} :
                  /\ i = AverageId(ids)
                  /\ \A r \in Rank :
                       /\ own[r] = NoFile => Named(d[r], "ckpt", i) # {}
                       /\ copy[r] = NoFile => Named(d[r], "copy", i) # {}
                  /\ dir' = [dir EXCEPT ![2] = d]
                  /\ lost' = IF done.lvl = 2 THEN {} ELSE lost
                  /\ Recovered(2, [r \in Rank |-> i], [r \in Rank |-> Mine(d, r, i)])
           ELSE NotFrom(2) /\ UNCHANGED <<dir, lost>>
  BY Zenon DEF RecoverL2
<1>2. CASE \A r \in Rank : own[r] # NoFile \/ copy[Right(r)] # NoFile
  <2>1. PICK i \in 1 .. MaxCalls : \E d \in {Rebuilt(own, copy, i)} :
          /\ dir' = [dir EXCEPT ![2] = d]
          /\ Recovered(2, [r \in Rank |-> i], [r \in Rank |-> Mine(d, r, i)])
    BY <1>1, <1>2, Zenon
  <2>2. PICK d \in {Rebuilt(own, copy, i)} :
          /\ dir' = [dir EXCEPT ![2] = d]
          /\ Recovered(2, [r \in Rank |-> i], [r \in Rank |-> Mine(d, r, i)])
    BY <2>1, Zenon
  <2>3. d = Rebuilt(own, copy, i) OBVIOUS
  <2>4. /\ dir' = [dir EXCEPT ![2] = Rebuilt(own, copy, i)]
        /\ Recovered(2, [r \in Rank |-> i],
                     [r \in Rank |-> Mine(Rebuilt(own, copy, i), r, i)])
    BY <2>2, <2>3, Zenon
  <2>5. \A r \in Rank : /\ own[r] \in Reported(r, "ckpt")
                        /\ copy[r] \in Reported(r, "copy")
                        /\ own[r] # NoFile \/ copy[Right(r)] # NoFile
    BY <1>1, <1>2
  <2>6. Exchanged(own, copy, i) BY <2>4, <2>5, Zenon DEF Exchanged
  <2> QED BY <2>6, Zenon
<1>3. CASE ~\A r \in Rank : own[r] # NoFile \/ copy[Right(r)] # NoFile
  BY <1>1, <1>3
<1> QED BY <1>2, <1>3

LEMMA AgreeRestart ==
  ASSUME TypeInv, AnswerInv, CtlInv, AgreeInv, DirInv,
         Crash \/ Restart \/ RecoverL1 \/ RecoverL2 \/ RecoverL4
  PROVE  AgreeInv'
<1> USE DEF Idling
<1>1. CASE Crash
  <2>1. \A r \in Rank : pc'[r] = "down" /\ id'[r] = 0 /\ lvel'[r] = 0
    BY <1>1 DEF Crash, AllGoto
  <2> QED BY <2>1 DEF AgreeInv, Settled
<1>2. ASSUME Restart \/ RecoverL1 \/ RecoverL2 \/ RecoverL4,
             ~torn => \A q, r \in Rank : id'[q] = id'[r] /\ lvel'[q] = lvel'[r]
      PROVE  AgreeInv'
  <2>1. torn' = torn /\ \A r \in Rank : pc'[r] \in Idling
    BY <1>2, RestartFacts DEF AllGoto
  <2> QED BY <1>2, <2>1 DEF AgreeInv, Settled
<1>3. ASSUME Restart \/ RecoverL1 \/ RecoverL2 \/ RecoverL4, id' = id, lvel' = lvel
      PROVE  AgreeInv'
  <2>1. format = "ftiff" /\ \A r \in Rank : pc[r] = "down" BY <1>3, RestartFacts
  <2>2. ~torn => \A q, r \in Rank : id[q] = id[r] /\ lvel[q] = lvel[r]
    <3> SUFFICES ASSUME ~torn, NEW q \in Rank, NEW r \in Rank
                 PROVE  id[q] = id[r] /\ lvel[q] = lvel[r]
      OBVIOUS
    <3>1. Settled(q) = Settled(r) BY <2>1 DEF AgreeInv, Even
    <3> QED BY <2>1, <3>1 DEF Settled
  <2> QED BY <1>2, <1>3, <2>2
<1>4. CASE Restart BY <1>3, <1>4 DEF Restart, memory
<1>5. ASSUME NEW l \in Level, NEW name, NEW m, RecoverL1 \/ RecoverL4,
             \A r \in Rank : name[r] \in Found(dir[l][r], "ckpt"),
             \A r \in Rank : Sound(name[r]),
             Recovered(m, [r \in Rank |-> name[r].id], name)
      PROVE  AgreeInv'
  <2>1. ~torn => Uniform(l, dir[l]) BY <1>5, RestartFacts, DownUniform
  <2>2. ~torn => \A q, r \in Rank : name[q].id = name[r].id BY <1>5, <2>1, SameFiles
  <2>3. \A r \in Rank : id'[r] = name[r].id /\ lvel'[r] = m BY <1>5 DEF Recovered
  <2> QED BY <1>2, <1>5, <2>2, <2>3
<1>6. CASE RecoverL1
  <2>1. CASE NotFrom(1) BY <1>3, <1>6, <2>1 DEF NotFrom, memory
  <2>2. CASE ~NotFrom(1)
    <3>1. PICK name : /\ \A r \in Rank : name[r] \in Found(dir[1][r], "ckpt")
                      /\ \A r \in Rank : Sound(name[r])
                      /\ Recovered(1, [r \in Rank |-> name[r].id], name)
      BY <1>6, <2>2, RecoverL1Facts
    <3>2. 1 \in Level BY DEF Level
    <3> QED BY <1>5, <1>6, <3>1, <3>2
  <2> QED BY <2>1, <2>2
<1>7. CASE RecoverL2
  <2>1. CASE NotFrom(2) BY <1>3, <1>7, <2>1 DEF NotFrom, memory
  <2>2. CASE ~NotFrom(2)
    <3>1. PICK i, name : Recovered(2, [r \in Rank |-> i], name)
      BY <1>7, <2>2, RecoverL2Facts DEF Exchanged
    <3>2. \A r \in Rank : id'[r] = i /\ lvel'[r] = 2 BY <3>1 DEF Recovered
    <3> QED BY <1>2, <1>7, <3>2
  <2> QED BY <2>1, <2>2
<1>8. CASE RecoverL4
  <2>1. CASE Recovered(0, [r \in Rank |-> 0], [r \in Rank |-> NoFile])
    <3>1. \A r \in Rank : id'[r] = 0 /\ lvel'[r] = 0 BY <2>1 DEF Recovered
    <3> QED BY <1>2, <1>8, <3>1
  <2>2. CASE ~Recovered(0, [r \in Rank |-> 0], [r \in Rank |-> NoFile])
    <3>1. PICK name : /\ \A r \in Rank : name[r] \in Found(dir[4][r], "ckpt")
                      /\ \A r \in Rank : Sound(name[r])
                      /\ Recovered(4, [r \in Rank |-> name[r].id], name)
      BY <1>8, <2>2, RecoverL4Facts
    <3>2. 4 \in Level BY DEF Level
    <3> QED BY <1>5, <1>8, <3>1, <3>2
  <2> QED BY <2>1, <2>2
<1> QED BY <1>1, <1>4, <1>6, <1>7, <1>8

---------------------------------------------------------------------------
(* The files of a call *)

LEMMA PutFacts ==
  ASSUME NEW S, NEW T
  PROVE  /\ T \subseteq Put(S, T) /\ Put(S, T) \subseteq S \cup T
         /\ \A g \in S : (\A f \in T : f.kind # g.kind) => g \in Put(S, T)
BY DEF Put

LEMMA AsFacts ==
  ASSUME NEW S \in SUBSET Files, NEW k
  PROVE  /\ \A f \in S : [f EXCEPT !.kind = k] \in As(k, S)
         /\ \A g \in As(k, S) : \E f \in S :
              /\ g = [f EXCEPT !.kind = k]
              /\ g.kind = k /\ g.call = f.call /\ g.id = f.id
              /\ g.vars = f.vars /\ g.stale = f.stale
BY DEF As, Files

(* The name of a file and the call that wrote it stay when a variable is   *)
(* written to it.                                                          *)
LEMMA WrittenHas ==
  ASSUME NEW S \in SUBSET Files, NEW q, NEW v, NEW changed, NEW k, NEW r, Has(S, k, r)
  PROVE  Has(Written(q, v, changed, S), k, r)
<1>1. PICK f \in S : f.kind = k /\ f.call = call[r] /\ f.id = id[r] BY DEF Has
<1> DEFINE g == [f EXCEPT !.vars = @ \cup {v}, !.stale = IF changed THEN @ \cup {v} ELSE @]
           h == IF f.call = call[q] /\ f.kind = "ckpt" THEN g ELSE f
<1>2. h \in Written(q, v, changed, S) BY DEF Written
<1>3. h.kind = k /\ h.call = call[r] /\ h.id = id[r] BY <1>1 DEF Files
<1> HIDE DEF h
<1> QED BY <1>2, <1>3 DEF Has

LEMMA CopyFacts ==
  ASSUME TypeInv, NEW r \in Rank, NEW l
  PROVE  /\ \A f \in ltmp[r] : f.kind = "ckpt" => f \in WithCopies(l)[r]
         /\ l = 2 => \A f \in ThisCall(Left(r)) :
                       [f EXCEPT !.kind = "copy"] \in WithCopies(l)[r]
<1>1. ltmp[r] \in SUBSET Files /\ ThisCall(Left(r)) \in SUBSET Files
  <2>1. Left(r) \in Rank BY Neighbours
  <2> QED BY <2>1, Typed DEF ThisCall
<1>2. CASE l # 2 BY <1>2 DEF WithCopies
<1>3. CASE l = 2
  <2> DEFINE T == As("copy", ThisCall(Left(r)))
  <2>1. WithCopies(l)[r] = Put(ltmp[r], T) BY <1>3 DEF WithCopies
  <2>2. /\ \A f \in T : f.kind = "copy"
        /\ \A f \in ThisCall(Left(r)) : [f EXCEPT !.kind = "copy"] \in T
    <3> DEFINE S == ThisCall(Left(r))
    <3>1. S \in SUBSET Files BY <1>1
    <3> HIDE DEF S
    <3>2. /\ \A f \in S : [f EXCEPT !.kind = "copy"] \in As("copy", S)
          /\ \A g \in As("copy", S) : g.kind = "copy"
      BY <3>1, AsFacts
    <3> QED BY <3>2 DEF S
  <2> HIDE DEF T
  <2> QED BY <2>1, <2>2, PutFacts
<1> QED BY <1>2, <1>3

LEMMA TmpInit == RestartInit => TmpInv
BY RankFacts, LevelFacts
DEF RestartInit, Init, TmpInv, TmpInfo, Asked, Using, Adding

(* The directories of the others. *)
LEMMA OthersDir ==
  ASSUME TypeInv, NEW r \in Rank, RankStep(r), NEW q \in Rank, q # r, NEW l \in Level, l # 4
  PROVE  dir'[l][q] = dir[l][q]
<1> USE Typed DEF RankStep
<1>1. CASE CleanICP(r)
  <2>1. dir' = Cleaned(lvel[r], r) BY <1>1 DEF CleanICP
  <2> QED BY <2>1 DEF Cleaned
<1>2. CASE RenameICP(r)
  <2>1. \/ dir' = dir
        \/ dir' = [dir EXCEPT ![4] = gtmp]
        \/ dir' = [dir EXCEPT ![lvel[r]] = [dir[lvel[r]] EXCEPT ![r] = ltmp[r]]]
    BY <1>2 DEF RenameICP
  <2>2. CASE dir' = [dir EXCEPT ![lvel[r]] = [dir[lvel[r]] EXCEPT ![r] = ltmp[r]]]
    <3>1. CASE l = lvel[r]
      <4>1. dir'[l] = [dir[l] EXCEPT ![r] = ltmp[r]] BY <2>2, <3>1
      <4> QED BY <4>1
    <3>2. CASE l # lvel[r] BY <2>2, <3>2
    <3> QED BY <3>1, <3>2
  <2>3. CASE dir' \in {dir, [dir EXCEPT ![4] = gtmp]} BY <2>3
  <2> QED BY <2>1, <2>2, <2>3
<1>3. CASE ~CleanICP(r) /\ ~RenameICP(r)
  <2>1. dir' = dir
    BY <1>3 DEF InitICP, AddVarICP, FinalizeICP, CloseICP, SendICP, PostICP, DiscardICP,
                EndICP, disk
  <2> QED BY <2>1
<1> QED BY <1>1, <1>2, <1>3

LEMMA TmpOthers ==
  ASSUME TypeInv, TmpInv, NEW r \in Rank, RankStep(r), torn' = torn, NEW q \in Rank, q # r
  PROVE  TmpInfo(q)'
<1>1. /\ pc'[q] = pc[q] /\ call'[q] = call[q] /\ icp'[q] = icp[q] /\ id'[q] = id[q]
      /\ lvel'[q] = lvel[q] /\ token'[q] = token[q] /\ format' = format
      /\ ltmp'[q] = ltmp[q] /\ (gtmp'[q] = gtmp[q] \/ gtmp'[q] = {})
  BY OthersMemory, OthersDisk, PlanGrows
<1>2. pc[q] = "barrier" /\ lvel[q] # 4 => dir'[lvel[q]][q] = dir[lvel[q]][q]
  <2>1. pc[q] = "barrier" => lvel[q] \in Level
    BY LevelFacts DEF TypeInv, CallOK, Storing
  <2> QED BY <2>1, OthersDir
<1>3. TmpInfo(q) BY DEF TmpInv
<1>4. /\ Valid(q)' <=> Valid(q)
      /\ Asked(q)' <=> Asked(q)
      /\ OnPfs(lvel[q])' <=> OnPfs(lvel[q])
  BY <1>1 DEF Valid, Asked, OnPfs, Inline
<1>5. \A S, k : (\E f \in S : f.kind = k /\ f.call = call'[q] /\ f.id = id'[q]) <=> Has(S, k, q)
  BY <1>1 DEF Has
<1>6. /\ pc'[q] \in Using /\ Valid(q)' /\ ~OnPfs(lvel[q])' => Has(ltmp[q], "ckpt", q)'
      /\ Asked(q)' => Has(ltmp[q], "ckpt", q)'
      /\ ~torn' /\ format' = "ftiff" /\ pc'[q] \in {"clean", "rename"} /\ lvel'[q] = 2
           => Has(ltmp[q], "copy", q)'
  BY <1>1, <1>3, <1>4, <1>5 DEF TmpInfo, Has
<1>7. pc'[q] \in Using \cup {"barrier"} /\ Valid(q)' /\ OnPfs(lvel[q])' /\ gtmp'[q] # {}
        => Has(gtmp[q], "ckpt", q)'
  BY <1>1, <1>3, <1>4, <1>5 DEF TmpInfo, Has
<1>8. pc'[q] = "barrier" /\ lvel'[q] # 4 => Has(dir[lvel[q]][q], "ckpt", q)'
  BY <1>1, <1>2, <1>3, <1>5 DEF TmpInfo, Has
<1> QED BY <1>6, <1>7, <1>8 DEF TmpInfo

(* The file that FTI_InitICP opens has the id and the call of the process. *)
LEMMA OpenedFile ==
  ASSUME TypeInv, AnswerInv, NEW r \in Rank, InitICP(r), icp'[r].status = "ACTV"
  PROVE  IF OnPfs(lvel'[r]) THEN Has(gtmp[r], "ckpt", r)' ELSE Has(ltmp[r], "ckpt", r)'
<1> USE Typed
<1> DEFINE f == File("ckpt", id[r] + 1, call[r] + 1)
<1>1. PICK l \in Planned(r), bad \in BOOLEAN :
        /\ icp' = [icp EXCEPT ![r] = Begun(r, bad)]
        /\ lvel' = [lvel EXCEPT ![r] = l]
        /\ IF bad THEN UNCHANGED <<ltmp, gtmp>>
           ELSE IF OnPfs(l)
           THEN gtmp' = [gtmp EXCEPT ![r] = Put(@, {f})] /\ UNCHANGED ltmp
           ELSE ltmp' = [ltmp EXCEPT ![r] = Put(@, {f})] /\ UNCHANGED gtmp
  BY DEF InitICP
<1>2. ~bad
  <2>1. icp'[r] = Begun(r, bad) BY <1>1
  <2> QED BY <2>1 DEF Begun, Idle
<1>3. f.kind = "ckpt" /\ f.id = id'[r] /\ f.call = call'[r]
  BY InitFacts DEF File
<1> HIDE DEF f
<1>4. lvel'[r] = l BY <1>1
<1>5. CASE OnPfs(l)
  <2>1. gtmp'[r] = Put(gtmp[r], {f}) BY <1>1, <1>2, <1>5
  <2>2. f \in gtmp'[r] BY <2>1, PutFacts
  <2> QED BY <1>3, <1>4, <1>5, <2>2 DEF Has
<1>6. CASE ~OnPfs(l)
  <2>1. ltmp'[r] = Put(ltmp[r], {f}) BY <1>1, <1>2, <1>6
  <2>2. f \in ltmp'[r] BY <2>1, PutFacts
  <2> QED BY <1>3, <1>4, <1>6, <2>2 DEF Has
<1> QED BY <1>5, <1>6

LEMMA AddedFiles ==
  ASSUME TypeInv, NEW r \in Rank, AddVarICP(r)
  PROVE  /\ Has(ltmp[r], "ckpt", r) => Has(ltmp[r], "ckpt", r)'
         /\ Has(gtmp[r], "ckpt", r) => Has(gtmp[r], "ckpt", r)'
         /\ gtmp'[r] # {} => gtmp[r] # {}
<1> USE Typed
<1>1. PICK v \in Var, bad \in BOOLEAN, changed \in BOOLEAN :
        IF bad THEN UNCHANGED <<ltmp, gtmp>>
        ELSE /\ ltmp' = [ltmp EXCEPT ![r] = Written(r, v, changed, @)]
             /\ gtmp' = [gtmp EXCEPT ![r] = Written(r, v, changed, @)]
  BY DEF AddVarICP
<1>2. call'[r] = call[r] /\ id'[r] = id[r] BY AddFacts
<1>3. CASE bad BY <1>1, <1>2, <1>3 DEF Has
<1>4. CASE ~bad
  <2>1. /\ ltmp'[r] = Written(r, v, changed, ltmp[r])
        /\ gtmp'[r] = Written(r, v, changed, gtmp[r])
    BY <1>1, <1>4
  <2>2. Has(ltmp[r], "ckpt", r) => Has(Written(r, v, changed, ltmp[r]), "ckpt", r)
    <3>1. ltmp[r] \in SUBSET Files OBVIOUS
    <3> QED BY <3>1, WrittenHas
  <2>3. Has(gtmp[r], "ckpt", r) => Has(Written(r, v, changed, gtmp[r]), "ckpt", r)
    <3>1. gtmp[r] \in SUBSET Files OBVIOUS
    <3> QED BY <3>1, WrittenHas
  <2>4. gtmp'[r] # {} => gtmp[r] # {} BY <2>1 DEF Written
  <2>5. Has(ltmp[r], "ckpt", r) => Has(ltmp[r], "ckpt", r)' BY <1>2, <2>1, <2>2 DEF Has
  <2>6. Has(gtmp[r], "ckpt", r) => Has(gtmp[r], "ckpt", r)' BY <1>2, <2>1, <2>3 DEF Has
  <2> QED BY <2>4, <2>5, <2>6
<1> QED BY <1>3, <1>4

LEMMA TmpOwn ==
  ASSUME TypeInv, AnswerInv, CtlInv, TmpInv, NEW r \in Rank, RankStep(r), torn' = torn
  PROVE  TmpInfo(r)'
<1> USE LevelFacts DEF RankStep, Using, Adding
<1>0. TmpInfo(r) /\ CallInfo(r) BY DEF TmpInv, CtlInv
<1>a. format' = format BY PlanGrows
<1>b. ASSUME token'[r] = None PROVE ~Asked(r)' BY <1>b DEF Asked
<1>1. CASE InitICP(r)
  <2>1. pc'[r] = "icp" /\ token'[r] = None BY <1>1, InitFacts
  <2>2. Valid(r)' => IF OnPfs(lvel'[r]) THEN Has(gtmp[r], "ckpt", r)' ELSE Has(ltmp[r], "ckpt", r)'
    BY <1>1, OpenedFile DEF Valid
  <2> QED BY <1>b, <2>1, <2>2 DEF TmpInfo, OnPfs
<1>2. CASE AddVarICP(r)
  <2>1. /\ pc'[r] = "icp" /\ pc[r] = "icp" /\ lvel'[r] = lvel[r] /\ token'[r] = token[r]
        /\ Valid(r)
    BY <1>2, AddFacts DEF Valid
  <2>2. token[r] = None BY <2>1 DEF AnswerInv
  <2>3. /\ Has(ltmp[r], "ckpt", r) => Has(ltmp[r], "ckpt", r)'
        /\ Has(gtmp[r], "ckpt", r) => Has(gtmp[r], "ckpt", r)'
        /\ gtmp'[r] # {} => gtmp[r] # {}
    BY <1>2, AddedFiles
  <2> QED BY <1>0, <1>b, <2>1, <2>2, <2>3 DEF TmpInfo, OnPfs
<1>3. CASE CloseICP(r)
  <2>1. /\ pc[r] = "close" /\ pc'[r] \in {"meta", "post"} /\ lvel'[r] = lvel[r]
        /\ token'[r] = token[r] /\ call'[r] = call[r] /\ id'[r] = id[r]
        /\ ltmp' = ltmp /\ gtmp' = gtmp
        /\ Valid(r)' => Valid(r)
    BY <1>3, CloseFacts DEF Valid
  <2>2. token[r] = None BY <2>1 DEF AnswerInv
  <2>3. /\ Has(ltmp[r], "ckpt", r) => Has(ltmp[r], "ckpt", r)'
        /\ Has(gtmp[r], "ckpt", r) => Has(gtmp[r], "ckpt", r)'
    BY <2>1 DEF Has
  <2> QED BY <1>0, <1>b, <2>1, <2>2, <2>3 DEF TmpInfo, OnPfs
<1>4. CASE SendICP(r)
  <2>1. /\ pc[r] = "post" /\ pc'[r] = "run" /\ ltmp' = ltmp /\ call'[r] = call[r]
        /\ token'[r] = IF icp[r].status = "FAIL" THEN Reject ELSE lvel[r]
        /\ id'[r] = IF icp[r].ok THEN id[r] ELSE icp[r].lastId
        /\ ~Inline(lvel[r])
    BY <1>4, SendFacts, EndedFacts
  <2>2. icp[r].status \in {"ACTV", "FAIL"}
    <3>1. icp[r] \in Iterations BY Typed
    <3>2. icp[r].status # "NINI" BY <2>1 DEF TypeInv, CallOK, Idling
    <3> QED BY <3>1, <3>2 DEF Iterations
  <2>3. Asked(r)' => Has(ltmp[r], "ckpt", r)'
    <3>1. Asked(r)' => Valid(r) BY <2>1, <2>2 DEF Asked, Valid
    <3>2. Valid(r) => icp[r].ok BY <1>0, <2>1 DEF CallInfo
    <3>3. Valid(r) => Has(ltmp[r], "ckpt", r) BY <1>0, <2>1 DEF TmpInfo, OnPfs
    <3>4. Valid(r) => id'[r] = id[r] BY <2>1, <3>2
    <3> QED BY <2>1, <3>1, <3>3, <3>4 DEF Has
  <2> QED BY <2>1, <2>3 DEF TmpInfo
<1>5. CASE PostICP(r)
  <2>1. /\ pc[r] = "post" /\ pc'[r] = "sync"
        /\ lvel'[r] = IF icp[r].status = "FAIL" THEN Reject ELSE lvel[r]
        /\ token'[r] = token[r] /\ call'[r] = call[r] /\ id'[r] = id[r]
        /\ ltmp' = ltmp /\ gtmp' = gtmp /\ icp'[r] = icp[r]
    BY <1>5, PostFacts
  <2>2. token[r] = None BY <2>1 DEF AnswerInv
  <2>3. Valid(r)' => Valid(r) /\ lvel'[r] = lvel[r] BY <2>1 DEF Valid
  <2>4. /\ Has(ltmp[r], "ckpt", r) => Has(ltmp[r], "ckpt", r)'
        /\ Has(gtmp[r], "ckpt", r) => Has(gtmp[r], "ckpt", r)'
    BY <2>1 DEF Has
  <2> QED BY <1>0, <1>b, <2>1, <2>2, <2>3, <2>4 DEF TmpInfo, OnPfs
<1>6. CASE DiscardICP(r) \/ EndICP(r)
  <2>1. pc[r] \in {"discard", "end"} /\ pc'[r] = "run" /\ token'[r] = token[r]
    BY <1>6, LastFacts, EndedFacts
  <2>2. token[r] = None BY <2>1 DEF AnswerInv
  <2> QED BY <1>b, <2>1, <2>2 DEF TmpInfo
<1>7. CASE FinalizeICP(r) \/ CleanICP(r)
  <2>1. /\ \/ pc[r] = "icp" /\ pc'[r] = "sum"
           \/ pc[r] = "clean" /\ pc'[r] = "rename"
        /\ call'[r] = call[r] /\ id'[r] = id[r] /\ icp'[r] = icp[r] /\ token'[r] = token[r]
        /\ lvel'[r] = lvel[r]
    BY <1>7, MoveFacts DEF FinalizeICP, CleanICP, At
  <2>2. ltmp' = ltmp /\ gtmp' = gtmp BY <1>7 DEF FinalizeICP, CleanICP, disk
  <2>3. token[r] = None BY <2>1 DEF AnswerInv
  <2>4. /\ Has(ltmp[r], "ckpt", r) => Has(ltmp[r], "ckpt", r)'
        /\ Has(ltmp[r], "copy", r) => Has(ltmp[r], "copy", r)'
        /\ Has(gtmp[r], "ckpt", r) => Has(gtmp[r], "ckpt", r)'
    BY <2>1, <2>2 DEF Has
  <2> QED BY <1>0, <1>a, <1>b, <2>1, <2>2, <2>3, <2>4 DEF TmpInfo, OnPfs, Valid
<1>8. CASE RenameICP(r)
  <2>1. /\ pc[r] = "rename" /\ pc'[r] = "barrier"
        /\ call'[r] = call[r] /\ id'[r] = id[r] /\ icp'[r] = icp[r] /\ token'[r] = token[r]
        /\ lvel'[r] = lvel[r]
    BY <1>8, MoveFacts DEF RenameICP, At
  <2>2. token[r] = None BY <2>1 DEF AnswerInv
  <2>3. Valid(r) /\ lvel[r] \in CallLevels
    BY <1>0, <2>1 DEF CallInfo, Storing, TypeInv, CallOK
  <2>4. CASE lvel[r] = 4
    <3>1. gtmp' \in {gtmp, [q \in Rank |-> {}]} BY <1>8, <2>4 DEF RenameICP
    <3>2. gtmp'[r] = gtmp[r] \/ gtmp'[r] = {} BY <3>1
    <3>3. Has(gtmp[r], "ckpt", r) /\ gtmp'[r] = gtmp[r] => Has(gtmp[r], "ckpt", r)'
      BY <2>1 DEF Has
    <3> QED BY <1>0, <1>b, <2>1, <2>2, <2>3, <2>4, <3>2, <3>3 DEF TmpInfo, OnPfs
  <2>5. CASE lvel[r] # 4
    <3>1. dir' = [dir EXCEPT ![lvel[r]] = [dir[lvel[r]] EXCEPT ![r] = ltmp[r]]]
      BY <1>8, <2>3, <2>5 DEF RenameICP
    <3>2. dir'[lvel[r]] = [dir[lvel[r]] EXCEPT ![r] = ltmp[r]] BY <2>3, <3>1, Typed
    <3>3. dir[lvel[r]] \in [Rank -> SUBSET Files] BY <2>3, Typed
    <3>4. dir'[lvel[r]][r] = ltmp[r] BY <3>2, <3>3
    <3>5. Has(ltmp[r], "ckpt", r) BY <1>0, <2>1, <2>3, <2>5 DEF TmpInfo, OnPfs
    <3>6. Has(dir[lvel[r]][r], "ckpt", r)' BY <2>1, <3>4, <3>5 DEF Has
    <3> QED BY <1>b, <2>1, <2>2, <2>5, <3>6 DEF TmpInfo, OnPfs
  <2> QED BY <2>4, <2>5
<1> QED BY <1>1, <1>2, <1>3, <1>4, <1>5, <1>6, <1>7, <1>8

LEMMA TmpRank ==
  ASSUME TypeInv, AnswerInv, CtlInv, TmpInv, NEW r \in Rank, RankStep(r), torn' = torn
  PROVE  TmpInv'
BY TmpOwn, TmpOthers DEF TmpInv

(* The partner's file is of the same checkpoint, as the processes agree.   *)
LEMMA SyncSame ==
  ASSUME TypeInv, CtlInv, AgreeInv, NEW where \in {"sync", "barrier"} \cup Storing,
         \A r \in Rank : pc[r] \in Moving \cup {where} /\ Valid(r)
  PROVE  /\ \A q, r \in Rank : call[q] = call[r]
         /\ \A q, r \in Rank : lvel[q] = lvel[r]
         /\ Even /\ ~torn => \A q, r \in Rank : id[q] = id[r]
<1> USE DEF Idling, Opening, Moving, Storing, Rejectable
<1>1. \A r \in Rank : pc[r] \notin Idling /\ pc[r] \notin Opening OBVIOUS
<1>2. ASSUME NEW q \in Rank, NEW r \in Rank PROVE call[q] = call[r]
  BY <1>1 DEF CtlInv, Lockstep, Round
<1>3. \A r \in Rank : lvel[r] = plan[call[r]] BY DEF CtlInv, CallInfo
<1>4. ASSUME NEW q \in Rank, NEW r \in Rank PROVE lvel[q] = lvel[r] BY <1>2, <1>3
<1>5. ASSUME NEW q \in Rank, NEW r \in Rank, Even, ~torn PROVE id[q] = id[r]
  <2>1. Settled(q) = Settled(r) BY <1>5 DEF AgreeInv
  <2> QED BY <1>1, <2>1 DEF Settled
<1> QED BY <1>2, <1>4, <1>5

LEMMA TmpSync ==
  ASSUME TypeInv, AnswerInv, CtlInv, AgreeInv, TmpInv, 0 \notin UninitRes, SyncPost,
         torn' = torn
  PROVE  TmpInv'
<1> SUFFICES ASSUME NEW r \in Rank PROVE TmpInfo(r)' BY DEF TmpInv
<1> USE LevelFacts DEF Using, Adding
<1>1. /\ format' = format /\ call' = call /\ id' = id /\ icp' = icp /\ lvel' = lvel
      /\ token' = token /\ gtmp' = gtmp
  BY DEF SyncPost, memory, heads
<1>2. \A q \in Rank : pc[q] = "sync" /\ TmpInfo(q) /\ CallInfo(q)
  BY AllSync DEF TmpInv, CtlInv
<1>3. ~Asked(r)' BY <1>1, <1>2 DEF AnswerInv, Asked
<1>4. CASE \A q \in Rank : pc'[q] = "discard"
  BY <1>3, <1>4 DEF TmpInfo
<1>5. CASE /\ \A q \in Rank : pc'[q] = "clean" /\ Valid(q)
           /\ ltmp' = WithCopies(lvel[Root])
  <2>1. /\ \A q, p \in Rank : call[q] = call[p] /\ lvel[q] = lvel[p]
        /\ Even /\ ~torn => \A q, p \in Rank : id[q] = id[p]
    BY <1>2, <1>5, SyncSame
  <2>2. Has(ltmp[r], "ckpt", r) => Has(ltmp[r], "ckpt", r)'
    <3>1. \A f \in ltmp[r] : f.kind = "ckpt" => f \in ltmp'[r] BY <1>5, CopyFacts
    <3> QED BY <1>1, <3>1 DEF Has
  <2>3. Has(gtmp[r], "ckpt", r) => Has(gtmp[r], "ckpt", r)' BY <1>1 DEF Has
  <2>4. ASSUME ~torn, format = "ftiff", lvel[r] = 2 PROVE Has(ltmp[r], "copy", r)'
    <3>1. Left(r) \in Rank /\ Root \in Rank BY Neighbours, RankFacts
    <3>2. lvel[Left(r)] = 2 /\ lvel[Root] = 2 BY <2>1, <2>4, <3>1
    <3>3. Has(ltmp[Left(r)], "ckpt", Left(r))
      <4>1. TmpInfo(Left(r)) /\ pc[Left(r)] = "sync" /\ Valid(Left(r)) BY <1>2, <1>5, <3>1
      <4>2. ~OnPfs(lvel[Left(r)]) BY <3>2 DEF OnPfs
      <4> QED BY <4>1, <4>2 DEF TmpInfo
    <3>4. PICK f \in ltmp[Left(r)] :
            f.kind = "ckpt" /\ f.call = call[Left(r)] /\ f.id = id[Left(r)]
      BY <3>3 DEF Has
    <3>5. f \in ThisCall(Left(r)) BY <3>4 DEF ThisCall
    <3>6. [f EXCEPT !.kind = "copy"] \in ltmp'[r] BY <1>5, <3>2, <3>5, CopyFacts
    <3>7. f \in Files
      <4>1. ltmp[Left(r)] \in SUBSET Files BY <3>1, Typed
      <4> QED BY <4>1
    <3>8. call[Left(r)] = call[r] /\ id[Left(r)] = id[r] BY <2>1, <2>4, <3>1 DEF Even
    <3> DEFINE g == [f EXCEPT !.kind = "copy"]
    <3>9. g.kind = "copy" /\ g.call = call[r] /\ g.id = id[r] BY <3>4, <3>7, <3>8 DEF Files
    <3> HIDE DEF g
    <3> QED BY <1>1, <3>6, <3>9 DEF Has, g
  <2> QED BY <1>1, <1>2, <1>3, <1>5, <2>2, <2>3, <2>4 DEF TmpInfo, OnPfs, Valid
<1> QED BY <1>4, <1>5, AllSync

LEMMA TmpAll ==
  ASSUME TypeInv, AnswerInv, CtlInv, TmpInv, torn' = torn,
         SumICP \/ MetaICP \/ BarrierICP \/ HeadsICP
  PROVE  TmpInv'
<1> SUFFICES ASSUME NEW r \in Rank PROVE TmpInfo(r)' BY DEF TmpInv
<1> USE LevelFacts DEF Using, Adding
<1>1. /\ format' = format /\ call' = call /\ id' = id /\ lvel' = lvel
  BY DEF SumICP, MetaICP, BarrierICP, HeadsICP, memory
<1>2. TmpInfo(r) BY DEF TmpInv
<1>3. CASE SumICP \/ MetaICP
  <2>1. /\ pc[r] \in {"sum", "meta"} /\ pc'[r] \in {"close", "post"}
        /\ Valid(r)' => Valid(r)
    BY <1>3, AllSum, AllMeta DEF Valid
  <2>2. ltmp' = ltmp /\ gtmp' = gtmp /\ token' = token
    BY <1>3 DEF SumICP, MetaICP, heads, disk
  <2>3. ~Asked(r)' BY <2>1, <2>2 DEF AnswerInv, Asked
  <2>4. /\ Has(ltmp[r], "ckpt", r) => Has(ltmp[r], "ckpt", r)'
        /\ Has(gtmp[r], "ckpt", r) => Has(gtmp[r], "ckpt", r)'
    BY <1>1, <2>2 DEF Has
  <2> QED BY <1>1, <1>2, <2>1, <2>2, <2>3, <2>4 DEF TmpInfo, OnPfs
<1>4. CASE BarrierICP
  <2>1. pc[r] = "barrier" /\ pc'[r] = "end" /\ token' = token
    BY <1>4 DEF BarrierICP, AllAt, At, AllGoto, heads
  <2>2. ~Asked(r)' BY <2>1 DEF AnswerInv, Asked
  <2> QED BY <2>1, <2>2 DEF TmpInfo
<1>5. CASE HeadsICP
  <2>1. token[r] # None /\ token'[r] = None /\ pc' = pc BY <1>5 DEF HeadsICP
  <2>2. pc[r] = "run" BY <2>1 DEF AnswerInv
  <2> QED BY <2>1, <2>2 DEF TmpInfo, Asked
<1> QED BY <1>3, <1>4, <1>5

LEMMA TmpRestart ==
  ASSUME TypeInv, AnswerInv, CtlInv, TmpInv,
         Crash \/ Restart \/ RecoverL1 \/ RecoverL2 \/ RecoverL4
  PROVE  TmpInv'
<1>1. \A r \in Rank : token'[r] = None /\ pc'[r] \in {"run", "down"}
  <2>1. CASE Crash BY <2>1 DEF Crash, AllGoto
  <2>2. CASE ~Crash BY <2>2, RestartFacts DEF AllGoto
  <2> QED BY <2>1, <2>2
<1> QED BY <1>1 DEF TmpInv, TmpInfo, Asked, Using, Adding

---------------------------------------------------------------------------
(* The directories of the levels *)

LEMMA DirInit == RestartInit => DirInv
BY DEF RestartInit, Init, DirInv, Kept, Renamed, Neat, Single, Uniform, Moving, AllAt, At, Level

(* Where the files of a checkpoint are, and each directory holds one file  *)
(* of a kind, there is that checkpoint.                                    *)
Holds(l, D, c, i) ==
  \A r \in Rank, k \in Kinds(l) :
    (\E f \in D[r] : f.kind = k) => \E f \in D[r] : f.kind = k /\ f.call = c /\ f.id = i

LEMMA NewIsNeat ==
  ASSUME NEW l, NEW D, NEW c, NEW i, Holds(l, D, c, i)
  PROVE  Single(D) => Uniform(l, D)
<1> USE DEF Holds
<1> SUFFICES ASSUME Single(D), NEW q \in Rank, NEW r \in Rank, NEW f \in D[q], NEW g \in D[r],
                    f.kind \in Kinds(l), g.kind \in Kinds(l)
             PROVE  f.call = g.call /\ f.id = g.id
  BY DEF Uniform
<1>1. f.call = c /\ f.id = i
  <2>1. PICK h \in D[q] : h.kind = f.kind /\ h.call = c /\ h.id = i OBVIOUS
  <2> QED BY <2>1 DEF Single
<1>2. g.call = c /\ g.id = i
  <2>1. PICK h \in D[r] : h.kind = g.kind /\ h.call = c /\ h.id = i OBVIOUS
  <2> QED BY <2>1 DEF Single
<1> QED BY <1>1, <1>2

(* What is left of a level is of one checkpoint, too. *)
LEMMA LessIsUniform ==
  ASSUME NEW l, NEW D, NEW E, Single(D), Uniform(l, D), \A r \in Rank : E[r] \subseteq D[r]
  PROVE  Single(E) /\ Uniform(l, E)
BY DEF Single, Uniform

(* While nobody has begun to rename, the levels are what matters. *)
LEMMA DirNeat ==
  ASSUME \A l \in Level : format = "ftiff" /\ ~torn' => Neat(l)',
         \A l \in Level, r \in Rank : format = "ftiff" /\ ~torn' /\ pc'[r] = "down" => Single(dir'[l]),
         \A r \in Rank : pc'[r] \notin {"rename", "barrier"}, format' = format
  PROVE  DirInv'
BY DEF DirInv, Kept, Renamed

LEMMA AllNeat ==
  ASSUME DirInv, format = "ftiff", ~torn, NEW r \in Rank, pc[r] \notin Moving
  PROVE  \A l \in Level : Neat(l)
BY DEF DirInv, Kept

LEMMA DirStill ==
  ASSUME DirInv, dir' = dir, torn' = torn, format' = format,
         NEW r \in Rank, pc[r] \notin Moving,
         \A q \in Rank : pc'[q] \notin {"rename", "barrier"},
         \A q \in Rank : pc'[q] = "down" => pc[q] = "down"
  PROVE  DirInv'
<1>1. \A l \in Level : format = "ftiff" /\ ~torn' => Neat(l)' BY AllNeat DEF Neat
<1>2. \A l \in Level, q \in Rank : format = "ftiff" /\ ~torn' /\ pc'[q] = "down" => Single(dir'[l])
  BY DEF DirInv, Kept
<1> QED BY <1>1, <1>2, DirNeat

(* When all processes have renamed, every level holds one checkpoint. *)
LEMMA RenamedNeat ==
  ASSUME TypeInv, CtlInv, AgreeInv, DirInv, format = "ftiff", ~torn,
         \A r \in Rank : pc[r] = "barrier", NEW l \in Level
  PROVE  Neat(l)
<1>1. \A r \in Rank : Valid(r) /\ lvel[r] \in CallLevels
  BY DEF CtlInv, CallInfo, Storing, TypeInv, CallOK
<1>2. /\ \A q, r \in Rank : call[q] = call[r] /\ lvel[q] = lvel[r] /\ id[q] = id[r]
  <2>1. "barrier" \in {"sync", "barrier"} \cup Storing OBVIOUS
  <2>2. \A r \in Rank : pc[r] \in Moving \cup {"barrier"} /\ Valid(r) BY <1>1
  <2> QED BY <2>1, <2>2, SyncSame DEF Even
<1>3. Root \in Rank /\ lvel[Root] \in {1, 2, 4} BY <1>1, RankFacts, LevelFacts
<1> USE DEF Moving, Level
<1>4. CASE l > lvel[Root] BY <1>3, <1>4 DEF DirInv, Kept
<1>5. CASE l < lvel[Root]
  <2>1. \A r \in Rank : dir[l][r] = {} BY <1>2, <1>3, <1>5 DEF DirInv, Kept
  <2> QED BY <2>1 DEF Neat, Uniform
<1>6. CASE l = lvel[Root]
  <2>1. \A r \in Rank : New(dir[l][r], l, r)
    <3>1. Renamed BY DEF DirInv
    <3>2. CASE l = 4 BY <1>3, <1>6, <3>1, <3>2 DEF Renamed
    <3>3. CASE l # 4
      <4>1. \A r \in Rank : lvel[r] = l BY <1>2, <1>3, <1>6
      <4> QED BY <3>1, <3>3, <4>1 DEF Renamed
    <3> QED BY <3>2, <3>3
  <2>2. Holds(l, dir[l], call[Root], id[Root]) BY <1>2, <1>3, <2>1 DEF New, Has, Holds
  <2> QED BY <2>2, NewIsNeat DEF Neat
<1> QED BY <1>3, <1>4, <1>5, <1>6

LEMMA DirRankStill ==
  ASSUME TypeInv, AnswerInv, CtlInv, DirInv, NEW r \in Rank, torn' = torn,
         \/ InitICP(r) \/ AddVarICP(r) \/ FinalizeICP(r) \/ CloseICP(r) \/ SendICP(r)
         \/ PostICP(r) \/ DiscardICP(r) \/ EndICP(r)
  PROVE  DirInv'
<1> USE DEF Moving
<1>1. /\ dir' = dir /\ pc[r] \notin Moving /\ pc'[r] \notin Moving /\ pc'[r] # "down"
  <2>1. CASE InitICP(r) BY <2>1, InitFacts
  <2>2. CASE AddVarICP(r) BY <2>2, AddFacts
  <2>3. CASE FinalizeICP(r) BY <2>3, MoveFacts DEF FinalizeICP, At
  <2>4. CASE CloseICP(r) BY <2>4, CloseFacts
  <2>5. CASE SendICP(r) BY <2>5, SendFacts, EndedFacts
  <2>6. CASE PostICP(r) BY <2>6, PostFacts
  <2>7. CASE DiscardICP(r) \/ EndICP(r) BY <2>7, LastFacts, EndedFacts
  <2> QED BY <2>1, <2>2, <2>3, <2>4, <2>5, <2>6, <2>7
<1>2. RankStep(r) BY DEF RankStep
<1>3. \A q \in Rank : pc[q] \notin Moving BY <1>1 DEF CtlInv, Lockstep
<1>4. \A q \in Rank : q # r => pc'[q] = pc[q] BY <1>2, OthersMemory
<1>5. format' = format BY <1>2, PlanGrows
<1>6. \A q \in Rank : /\ pc'[q] \notin {"rename", "barrier"}
                      /\ pc'[q] = "down" => pc[q] = "down"
  BY <1>1, <1>3, <1>4
<1> QED BY <1>1, <1>5, <1>6, DirStill

(* While the directories are moved, all processes are at one level.        *)
LEMMA MovingSame ==
  ASSUME TypeInv, CtlInv, AgreeInv, NEW r \in Rank, pc[r] \in Moving
  PROVE  /\ \A q \in Rank : /\ pc[q] \in Moving /\ Valid(q)
                            /\ call[q] = call[r] /\ lvel[q] = lvel[r]
                            /\ lvel[q] \in CallLevels /\ Inline(lvel[q])
<1>1. \A q \in Rank : pc[q] \in Moving BY DEF CtlInv, Lockstep
<1>2. \A q \in Rank : /\ Valid(q) /\ lvel[q] \in CallLevels
                      /\ lvel[q] = plan[call[q]] /\ Inline(plan[call[q]])
  BY <1>1 DEF CtlInv, CallInfo, Storing, Moving, TypeInv, CallOK
<1>3. "barrier" \in {"sync", "barrier"} \cup Storing OBVIOUS
<1>4. \A q \in Rank : pc[q] \in Moving \cup {"barrier"} /\ Valid(q) BY <1>1, <1>2
<1>5. \A q, p \in Rank : call[q] = call[p] /\ lvel[q] = lvel[p] BY <1>3, <1>4, SyncSame
<1> QED BY <1>1, <1>2, <1>5

LEMMA DirClean ==
  ASSUME TypeInv, AnswerInv, CtlInv, AgreeInv, DirInv, NEW r \in Rank, CleanICP(r),
         torn' = torn
  PROVE  DirInv'
<1> USE LevelFacts, Typed DEF Moving, RankStep, Level
<1>1. /\ pc[r] = "clean" /\ pc'[r] = "rename" /\ call'[r] = call[r] /\ id'[r] = id[r]
      /\ lvel'[r] = lvel[r]
  BY MoveFacts DEF CleanICP, At
<1>2. \A q \in Rank : /\ pc[q] \in Moving /\ lvel[q] = lvel[r] /\ lvel[q] \in CallLevels
  BY <1>1, MovingSame
<1>3. \A q \in Rank : q # r => pc'[q] = pc[q]
  BY OthersMemory
<1>4. lvel' = lvel /\ call' = call /\ id' = id /\ format' = format BY DEF CleanICP, memory
<1>5. dir' = Cleaned(lvel[r], r) BY DEF CleanICP
<1>6. \A l \in Level : l > lvel[r] => dir'[l] = dir[l]
  <2>1. SUFFICES ASSUME NEW l \in Level, l > lvel[r] PROVE dir'[l] = dir[l] OBVIOUS
  <2>2. lvel[r] \in {1, 2, 4} /\ dir[l] \in [Rank -> SUBSET Files] BY <1>2
  <2>3. dir'[l] = [q \in Rank |-> dir[l][q]] BY <1>5, <2>1, <2>2 DEF Cleaned
  <2> QED BY <2>2, <2>3
<1>7. \A l \in Level : l # 4 => /\ \A q \in Rank : q # r => dir'[l][q] = dir[l][q]
                                /\ l < lvel[r] => dir'[l][r] = {}
  <2>1. SUFFICES ASSUME NEW l \in Level, l # 4
                 PROVE  /\ \A q \in Rank : q # r => dir'[l][q] = dir[l][q]
                        /\ l < lvel[r] => dir'[l][r] = {}
    OBVIOUS
  <2>2. dir'[l] = [q \in Rank |-> IF l <= lvel[r] /\ q = r THEN {} ELSE dir[l][q]]
    BY <1>5, <2>1 DEF Cleaned
  <2>3. lvel[r] \in {1, 2, 4} BY <1>2
  <2> QED BY <2>2, <2>3
<1>8. Root # r => dir'[4] = dir[4]
  <2>1. ASSUME Root # r PROVE dir'[4] = [q \in Rank |-> dir[4][q]]
    BY <1>2, <1>5, <2>1 DEF Cleaned
  <2> QED BY <2>1
<1> SUFFICES ASSUME format = "ftiff", ~torn PROVE Kept' /\ Renamed' BY <1>4 DEF DirInv
<1>9. Kept /\ Renamed BY DEF DirInv
<1>10. \A q \in Rank : pc'[q] \in Moving BY <1>1, <1>2, <1>3
<1>11. Kept'
  <2>1. ~AllAt("clean")' BY <1>1 DEF AllAt, At
  <2>2. ASSUME NEW l \in Level, NEW q \in Rank, l > lvel'[q] PROVE Neat(l)'
    <3>1. l > lvel[q] /\ l > lvel[r] BY <1>2, <1>4, <2>2
    <3>2. Neat(l) BY <1>2, <1>9, <3>1 DEF Kept
    <3> QED BY <1>6, <3>1, <3>2 DEF Neat
  <2>3. ASSUME NEW l \in Level, NEW q \in Rank, pc'[q] \in {"rename", "barrier"}, l < lvel'[q]
        PROVE  dir'[l][q] = {}
    <3>0. lvel[r] \in {1, 2, 4} /\ lvel[q] = lvel[r] /\ lvel'[q] = lvel[q] BY <1>2, <1>4
    <3>1. l < lvel[q] /\ l < lvel[r] /\ l # 4 BY <2>3, <3>0
    <3>2. CASE q = r BY <1>7, <3>1, <3>2
    <3>3. CASE q # r BY <1>3, <1>7, <1>9, <2>3, <3>1, <3>3 DEF Kept
    <3> QED BY <3>2, <3>3
  <2> QED BY <1>10, <2>1, <2>2, <2>3 DEF Kept
<1>12. Renamed'
  <2>1. SUFFICES ASSUME NEW q \in Rank, pc'[q] = "barrier"
                 PROVE  /\ lvel'[q] # 4 => New(dir[lvel[q]][q], lvel[q], q)'
                        /\ lvel'[q] = 4 /\ q = Root => \A p \in Rank : New(dir[4][p], 4, p)'
    BY DEF Renamed
  <2>2. q # r /\ pc[q] = "barrier" BY <1>1, <1>3, <2>1
  <2>3. CASE lvel[q] # 4
    <3>1. dir'[lvel[q]][q] = dir[lvel[q]][q] BY <1>2, <1>7, <2>2, <2>3
    <3>2. New(dir[lvel[q]][q], lvel[q], q) BY <1>9, <2>2, <2>3 DEF Renamed
    <3> QED BY <1>4, <2>3, <3>1, <3>2 DEF New, Has, Kinds
  <2>4. CASE lvel[q] = 4
    <3>1. q = Root => dir'[4] = dir[4] BY <1>8, <2>2
    <3>2. q = Root => \A p \in Rank : New(dir[4][p], 4, p) BY <1>9, <2>2, <2>4 DEF Renamed
    <3>3. q = Root => \A p \in Rank : New(dir[4][p], 4, p)'
      BY <1>4, <3>1, <3>2 DEF New, Has, Kinds
    <3>4. lvel'[q] = lvel[q] BY <1>4
    <3> QED BY <2>4, <3>3, <3>4
  <2> QED BY <2>3, <2>4
<1> QED BY <1>11, <1>12

LEMMA DirRename ==
  ASSUME TypeInv, AnswerInv, CtlInv, AgreeInv, TmpInv, DirInv, NEW r \in Rank, RenameICP(r),
         torn' = torn
  PROVE  DirInv'
<1> USE LevelFacts, Typed DEF Moving, RankStep, Level
<1>1. pc[r] = "rename" /\ pc'[r] = "barrier" BY MoveFacts DEF RenameICP, At
<1>2. \A q \in Rank : /\ pc[q] \in Moving /\ Valid(q) /\ lvel[q] = lvel[r]
                      /\ lvel[q] \in CallLevels /\ Inline(lvel[q])
  BY <1>1, MovingSame
<1>3. \A q \in Rank : q # r => pc'[q] = pc[q]
  BY OthersMemory
<1>4. lvel' = lvel /\ call' = call /\ id' = id /\ format' = format BY DEF RenameICP, memory
<1>5. \A q \in Rank : TmpInfo(q) BY DEF TmpInv
<1> SUFFICES ASSUME format = "ftiff", ~torn PROVE Kept' /\ Renamed' BY <1>4 DEF DirInv
<1>6. Kept /\ Renamed BY DEF DirInv
<1>7. \A q \in Rank : pc'[q] \in Moving BY <1>1, <1>2, <1>3
<1>8. ~AllAt("clean")' BY <1>1 DEF AllAt, At
<1>9. \A l \in Level : l # lvel[r] => dir'[l] = dir[l]
  <2>1. \/ dir' = dir
        \/ lvel[r] = 4 /\ dir' = [dir EXCEPT ![4] = gtmp]
        \/ dir' = [dir EXCEPT ![lvel[r]] = [dir[lvel[r]] EXCEPT ![r] = ltmp[r]]]
    BY <1>2 DEF RenameICP
  <2> QED BY <2>1
<1>10. Kept'
  <2>1. ASSUME NEW l \in Level, NEW q \in Rank, l > lvel'[q] PROVE Neat(l)'
    <3>1. l > lvel[q] /\ l # lvel[r] BY <1>2, <1>4, <2>1
    <3>2. Neat(l) BY <1>2, <1>6, <3>1 DEF Kept
    <3> QED BY <1>9, <3>1, <3>2 DEF Neat
  <2>2. ASSUME NEW l \in Level, NEW q \in Rank, pc'[q] \in {"rename", "barrier"}, l < lvel'[q]
        PROVE  dir'[l][q] = {}
    <3>1. l < lvel[q] /\ l # lvel[r] BY <1>2, <1>4, <2>2
    <3>2. pc[q] \in {"rename", "barrier"} BY <1>1, <1>3, <2>2
    <3> QED BY <1>6, <1>9, <3>1, <3>2 DEF Kept
  <2> QED BY <1>7, <1>8, <2>1, <2>2 DEF Kept
<1>11. CASE lvel[r] = 4
  <2>1. CASE r = Root
    <3>1. dir'[4] = gtmp BY <1>11, <2>1 DEF RenameICP
    <3>2. ASSUME NEW p \in Rank PROVE New(gtmp[p], 4, p)
      <4>1. OnPfs(lvel[p]) BY <1>2, <1>11 DEF OnPfs
      <4>2. pc[p] \in Using \cup {"barrier"} BY <1>2 DEF Using
      <4>3. gtmp[p] # {} => Has(gtmp[p], "ckpt", p) BY <1>2, <1>5, <4>1, <4>2 DEF TmpInfo
      <4> QED BY <4>3 DEF New, Kinds
    <3>3. \A p \in Rank : New(dir[4][p], 4, p)' BY <1>4, <3>1, <3>2 DEF New, Has
    <3>4. \A q \in Rank : lvel'[q] = 4 BY <1>2, <1>4, <1>11
    <3>5. Renamed' BY <3>3, <3>4 DEF Renamed
    <3> QED BY <1>10, <3>5
  <2>2. CASE r # Root
    <3>1. dir' = dir BY <1>11, <2>2 DEF RenameICP
    <3>2. \A q \in Rank : lvel'[q] = 4 BY <1>2, <1>4, <1>11
    <3>3. ASSUME pc'[Root] = "barrier" PROVE \A p \in Rank : New(dir[4][p], 4, p)'
      <4>1. pc[Root] = "barrier" /\ lvel[Root] = 4 BY <1>2, <1>3, <1>11, <2>2, <3>3, RankFacts
      <4>2. \A p \in Rank : New(dir[4][p], 4, p) BY <1>6, <4>1, RankFacts DEF Renamed
      <4> QED BY <1>4, <3>1, <4>2 DEF New, Has
    <3>4. Renamed' BY <3>2, <3>3 DEF Renamed
    <3> QED BY <1>10, <3>4
  <2> QED BY <2>1, <2>2
<1>12. CASE lvel[r] # 4
  <2>1. dir' = [dir EXCEPT ![lvel[r]] = [dir[lvel[r]] EXCEPT ![r] = ltmp[r]]]
    BY <1>2, <1>12 DEF RenameICP
  <2>2. dir'[lvel[r]] = [dir[lvel[r]] EXCEPT ![r] = ltmp[r]] BY <1>2, <2>1
  <2>3. dir[lvel[r]] \in [Rank -> SUBSET Files] BY <1>2
  <2>4. dir'[lvel[r]][r] = ltmp[r] /\ \A q \in Rank : q # r => dir'[lvel[r]][q] = dir[lvel[r]][q]
    BY <2>2, <2>3
  <2>5. New(ltmp[r], lvel[r], r)
    <3>1. Has(ltmp[r], "ckpt", r) BY <1>1, <1>2, <1>5, <1>12 DEF TmpInfo, OnPfs, Using
    <3>2. lvel[r] = 2 => Has(ltmp[r], "copy", r) BY <1>1, <1>5 DEF TmpInfo
    <3> QED BY <3>1, <3>2 DEF New, Kinds
  <2>6. ASSUME NEW q \in Rank, pc'[q] = "barrier" PROVE New(dir'[lvel[r]][q], lvel[r], q)
    <3>1. CASE q = r BY <2>4, <2>5, <3>1
    <3>2. CASE q # r
      <4>1. pc[q] = "barrier" /\ lvel[q] = lvel[r] BY <1>2, <1>3, <2>6, <3>2
      <4> QED BY <1>6, <1>12, <2>4, <3>2, <4>1 DEF Renamed
    <3> QED BY <3>1, <3>2
  <2>7. ASSUME NEW q \in Rank, pc'[q] = "barrier" PROVE New(dir[lvel[q]][q], lvel[q], q)'
    <3>1. lvel'[q] = lvel[r] BY <1>2, <1>4
    <3>2. New(dir'[lvel[r]][q], lvel[r], q) BY <2>6, <2>7
    <3>3. New(dir'[lvel'[q]][q], lvel'[q], q) BY <3>1, <3>2
    <3> QED BY <1>4, <3>3 DEF New, Has, Kinds
  <2>8. \A q \in Rank : lvel'[q] # 4 BY <1>2, <1>4, <1>12
  <2>9. Renamed' BY <2>7, <2>8 DEF Renamed
  <2> QED BY <1>10, <2>9
<1> QED BY <1>11, <1>12

(* The heads store one checkpoint: every process has sent its token for    *)
(* the same call.                                                          *)
LEMMA HeadsSame ==
  ASSUME TypeInv, AnswerInv, CtlInv, AgreeInv, \A r \in Rank : Asked(r)
  PROVE  /\ \A r \in Rank : pc[r] = "run" /\ token[r] \in {1, 2, 4}
         /\ \A q, r \in Rank : call[q] = call[r] /\ token[q] = token[r]
         /\ Even /\ ~torn => \A q, r \in Rank : id[q] = id[r]
<1> USE LevelFacts DEF Idling, Opening
<1>1. ASSUME NEW r \in Rank PROVE pc[r] = "run" /\ token[r] \in {1, 2, 4}
  BY Typed DEF Asked, AnswerInv
<1>2. ASSUME NEW q \in Rank, NEW r \in Rank PROVE call[q] = call[r] /\ token[q] = token[r]
  <2>1. Round(q) = Round(r) BY DEF CtlInv, Lockstep
  <2>2. call[q] = call[r] BY <1>1, <2>1 DEF Round
  <2>3. token[q] = plan[call[q]] /\ token[r] = plan[call[r]] BY DEF CtlInv, CallInfo
  <2> QED BY <2>2, <2>3
<1>3. ASSUME Even, ~torn, NEW q \in Rank, NEW r \in Rank PROVE id[q] = id[r]
  <2>1. Settled(q) = Settled(r) BY <1>3 DEF AgreeInv
  <2> QED BY <1>1, <2>1 DEF Settled
<1> QED BY <1>1, <1>2, <1>3

(* What the heads leave at each level.                                     *)
LEMMA HeadsFacts ==
  ASSUME HeadsICP
  PROVE  /\ pc' = pc /\ call' = call /\ id' = id /\ lvel' = lvel /\ format' = format
         /\ \/ dir' = dir /\ done' = done
            \/ /\ \A r \in Rank : Asked(r)
               /\ done' = [call |-> call[Root], lvl |-> token[Root]]
               /\ \A k \in Level :
                    dir'[k] = IF k = 4 /\ token[Root] = 4 THEN [r \in Rank |-> ThisCall(r)]
                              ELSE IF k = token[Root] \/ (token[Root] = 4 /\ k = 1)
                              THEN WithCopies(token[Root])
                              ELSE IF k < token[Root] THEN [r \in Rank |-> {}] ELSE dir[k]
<1>1. pc' = pc /\ call' = call /\ id' = id /\ lvel' = lvel /\ format' = format
  BY DEF HeadsICP, memory
<1>2. PICK bad \in BOOLEAN, l \in {token[Root]} :
        IF bad \/ \E r \in Rank : token[r] = Reject
        THEN UNCHANGED <<dir, done>>
        ELSE /\ dir' = [k \in Level |->
                  IF k = 4 /\ l = 4 THEN [r \in Rank |-> ThisCall(r)]
                  ELSE IF k = l \/ (l = 4 /\ k = 1) THEN WithCopies(l)
                  ELSE IF k < l THEN [r \in Rank |-> {}] ELSE dir[k]]
             /\ done' = [call |-> call[Root], lvl |-> l]
  BY DEF HeadsICP
<1>3. \A r \in Rank : token[r] # None BY DEF HeadsICP
<1>4. CASE bad \/ \E r \in Rank : token[r] = Reject BY <1>1, <1>2, <1>4
<1>5. CASE ~(bad \/ \E r \in Rank : token[r] = Reject)
  <2>1. l = token[Root] OBVIOUS
  <2>2. \A r \in Rank : Asked(r) BY <1>3, <1>5 DEF Asked
  <2> QED BY <1>1, <1>2, <1>5, <2>1, <2>2
<1> QED BY <1>4, <1>5

(* The node's file of the call that r asked the head for, and the partner's *)
(* copy, are in the directory the heads make of the temporary one.         *)
LEMMA AskedFile ==
  ASSUME TypeInv, TmpInv, NEW r \in Rank, Asked(r), NEW l
  PROVE  /\ \E f \in ThisCall(r) : f.kind = "ckpt" /\ f.call = call[r] /\ f.id = id[r]
         /\ Has(WithCopies(l)[r], "ckpt", r)
         /\ l = 2 => \A q \in Rank : r = Left(q) =>
                       \E g \in WithCopies(l)[q] :
                         g.kind = "copy" /\ g.call = call[r] /\ g.id = id[r]
<1>1. Has(ltmp[r], "ckpt", r) BY DEF TmpInv, TmpInfo
<1>2. PICK f \in ltmp[r] : f.kind = "ckpt" /\ f.call = call[r] /\ f.id = id[r]
  BY <1>1 DEF Has
<1>3. f \in ThisCall(r) BY <1>2 DEF ThisCall
<1>4. f \in WithCopies(l)[r] BY <1>2, CopyFacts
<1>5. Has(WithCopies(l)[r], "ckpt", r) BY <1>2, <1>4 DEF Has
<1>6. ASSUME l = 2, NEW q \in Rank, r = Left(q)
      PROVE  \E g \in WithCopies(l)[q] : g.kind = "copy" /\ g.call = call[r] /\ g.id = id[r]
  <2>2. [f EXCEPT !.kind = "copy"] \in WithCopies(l)[q] BY <1>3, <1>6, CopyFacts
  <2>3. f \in Files
    <3>1. ltmp[r] \in SUBSET Files BY Typed
    <3> QED BY <3>1
  <2> DEFINE g == [f EXCEPT !.kind = "copy"]
  <2>4. g.kind = "copy" /\ g.call = call[r] /\ g.id = id[r] BY <1>2, <2>3 DEF Files
  <2> HIDE DEF g
  <2>5. g \in WithCopies(l)[q] BY <2>2 DEF g
  <2> QED BY <2>4, <2>5
<1> QED BY <1>2, <1>3, <1>5, <1>6

LEMMA DirHeads ==
  ASSUME TypeInv, AnswerInv, CtlInv, AgreeInv, TmpInv, DirInv, HeadsICP, torn' = torn
  PROVE  DirInv'
<1> USE RankFacts DEF Moving
<1>1. /\ pc' = pc /\ format' = format /\ pc[Root] = "run"
      /\ \A r \in Rank : pc[r] = "run"
  BY HeadsFacts DEF HeadsICP, AnswerInv
<1>2. CASE dir' = dir BY <1>1, <1>2, DirStill
<1>3. ASSUME \A r \in Rank : Asked(r),
             \A k \in Level :
               dir'[k] = IF k = 4 /\ token[Root] = 4 THEN [r \in Rank |-> ThisCall(r)]
                         ELSE IF k = token[Root] \/ (token[Root] = 4 /\ k = 1)
                         THEN WithCopies(token[Root])
                         ELSE IF k < token[Root] THEN [r \in Rank |-> {}] ELSE dir[k]
      PROVE  DirInv'
  <2>1. ASSUME NEW k \in Level, format = "ftiff", ~torn PROVE Single(dir'[k]) => Uniform(k, dir'[k])
    <3>1. /\ token[Root] \in {1, 2, 4}
          /\ \A r \in Rank : call[r] = call[Root] /\ id[r] = id[Root]
      BY <1>3, <2>1, HeadsSame DEF Even
    <3>2. CASE k = 4 /\ token[Root] = 4
      <4>1. dir'[k] = [r \in Rank |-> ThisCall(r)] BY <1>3, <3>2
      <4>2. \A r \in Rank : \E f \in ThisCall(r) :
              f.kind = "ckpt" /\ f.call = call[Root] /\ f.id = id[Root]
        BY <1>3, <3>1, AskedFile
      <4>3. Holds(k, dir'[k], call[Root], id[Root]) BY <3>2, <4>1, <4>2 DEF Holds, Kinds
      <4> QED BY <4>3, NewIsNeat
    <3>3. CASE ~(k = 4 /\ token[Root] = 4) /\ (k = token[Root] \/ (token[Root] = 4 /\ k = 1))
      <4>1. dir'[k] = WithCopies(token[Root]) BY <1>3, <3>3
      <4>2. \A r \in Rank : \E f \in WithCopies(token[Root])[r] :
              f.kind = "ckpt" /\ f.call = call[Root] /\ f.id = id[Root]
        BY <1>3, <3>1, AskedFile DEF Has
      <4>3. ASSUME k = 2, NEW r \in Rank
            PROVE  \E f \in WithCopies(token[Root])[r] :
                     f.kind = "copy" /\ f.call = call[Root] /\ f.id = id[Root]
        <5>1. Left(r) \in Rank BY Neighbours
        <5>2. Asked(Left(r)) /\ token[Root] = 2 BY <1>3, <3>3, <4>3, <5>1
        <5>3. PICK q \in Rank : q = Left(r) BY <5>1
        <5>4. \E g \in WithCopies(2)[r] :
                g.kind = "copy" /\ g.call = call[q] /\ g.id = id[q]
          BY <5>2, <5>3, AskedFile
        <5> QED BY <3>1, <5>2, <5>4
      <4>4. Holds(k, dir'[k], call[Root], id[Root]) BY <4>1, <4>2, <4>3 DEF Holds, Kinds
      <4> QED BY <4>4, NewIsNeat
    <3>4. CASE ~(k = 4 /\ token[Root] = 4) /\ ~(k = token[Root] \/ (token[Root] = 4 /\ k = 1))
      <4>1. \/ dir'[k] = [r \in Rank |-> {}]
            \/ dir'[k] = dir[k]
        BY <1>3, <3>4
      <4>2. Neat(k) BY <1>1, <2>1, AllNeat
      <4> QED BY <4>1, <4>2 DEF Neat, Uniform
    <3> QED BY <3>2, <3>3, <3>4
  <2>2. \A k \in Level : format = "ftiff" /\ ~torn' => Neat(k)' BY <2>1 DEF Neat
  <2> QED BY <1>1, <2>2, DirNeat
<1> QED BY <1>2, <1>3, HeadsFacts

LEMMA DirAll ==
  ASSUME TypeInv, AnswerInv, CtlInv, AgreeInv, TmpInv, DirInv, torn' = torn,
         SumICP \/ MetaICP \/ SyncPost \/ BarrierICP
  PROVE  DirInv'
<1> USE RankFacts DEF AllAt, At, AllGoto
<1>1. /\ format' = format /\ dir' = dir
  BY DEF SumICP, MetaICP, SyncPost, BarrierICP, disk
<1>2. CASE SumICP \/ MetaICP \/ SyncPost
  <2>1. \A r \in Rank : /\ pc[r] \in {"sum", "meta", "sync"}
                        /\ pc'[r] \in {"close", "post", "discard", "clean"}
    BY <1>2 DEF SumICP, MetaICP, SyncPost
  <2> QED BY <1>1, <2>1, DirStill DEF Moving
<1>3. CASE BarrierICP
  <2>1. \A r \in Rank : pc[r] = "barrier" /\ pc'[r] = "end" BY <1>3 DEF BarrierICP
  <2>2. \A l \in Level : format = "ftiff" /\ ~torn => Neat(l) BY <2>1, RenamedNeat
  <2>3. \A l \in Level : format = "ftiff" /\ ~torn' => Neat(l)' BY <1>1, <2>2 DEF Neat
  <2> QED BY <1>1, <2>1, <2>3, DirNeat
<1> QED BY <1>2, <1>3

(* A crash that finds the directories of each level as they were before a  *)
(* checkpoint, or as they are after it.                                    *)
LEMMA CrashUniform ==
  ASSUME TypeInv, CtlInv, AgreeInv, DirInv, Crash, ~torn'
  PROVE  \A l \in Level : Single(dir'[l]) /\ Uniform(l, dir'[l])
<1>1. ~torn /\ ~Committing /\ ~Leftover /\ format = "ftiff" BY DEF Crash
<1>2. SUFFICES ASSUME NEW l \in Level PROVE Single(dir'[l]) /\ Uniform(l, dir'[l]) OBVIOUS
<1>3. Single(dir[l]) BY <1>1 DEF Leftover, Single
<1>4. Neat(l)
  <2>1. CASE \E r \in Rank : pc[r] \notin Moving BY <1>1, <2>1, AllNeat
  <2>2. CASE \A r \in Rank : pc[r] = "clean"
    BY <1>1, <2>2, RankFacts DEF DirInv, Kept, AllAt, At
  <2>3. CASE \A r \in Rank : pc[r] = "barrier" BY <1>1, <2>3, RenamedNeat
  <2> QED BY <1>1, <2>1, <2>2, <2>3 DEF Committing, Moving
<1>5. \A r \in Rank : dir'[l][r] \subseteq dir[l][r] BY DEF Crash
<1> DEFINE D == dir[l]
           E == dir'[l]
<1>6. Single(D) /\ Uniform(l, D) /\ \A r \in Rank : E[r] \subseteq D[r]
  BY <1>3, <1>4, <1>5 DEF Neat
<1> HIDE DEF D, E
<1>7. Single(E) /\ Uniform(l, E) BY <1>6, LessIsUniform
<1> QED BY <1>7 DEF E

(* What the exchange at level 2 adds to a directory is of the files that   *)
(* are there.                                                              *)
LEMMA RebuiltFrom ==
  ASSUME TypeInv, NEW own, NEW copy, NEW i, NEW r \in Rank, NEW f \in Rebuilt(own, copy, i)[r],
         f.kind \in Kinds(2)
  PROVE  \E q \in Rank : \E g \in dir[2][q] :
           g.kind \in Kinds(2) /\ g.call = f.call /\ g.id = f.id /\ g.vars = f.vars
<1> DEFINE S == Named(dir[2][Right(r)], "copy", i)
           T == Named(dir[2][Left(r)], "ckpt", i)
           A == IF own[r] # NoFile THEN {} ELSE As("ckpt", S)
           B == IF copy[r] # NoFile THEN {} ELSE As("copy", T)
<1>1. Rebuilt(own, copy, i)[r] = Put(dir[2][r], A \cup B) BY DEF Rebuilt
<1>2. Left(r) \in Rank /\ Right(r) \in Rank /\ 2 \in Level BY Neighbours DEF Level
<1>3. S \in SUBSET Files /\ T \in SUBSET Files BY <1>2, Typed DEF Named
<1>4. /\ S \subseteq dir[2][Right(r)] /\ T \subseteq dir[2][Left(r)]
      /\ \A g \in S \cup T : g.kind \in Kinds(2)
  BY DEF Named, Kinds
<1>5. (A # {} => A = As("ckpt", S)) /\ (B # {} => B = As("copy", T)) OBVIOUS
<1> HIDE DEF S, T, A, B
<1>6. f \in dir[2][r] \/ f \in A \/ f \in B BY <1>1, PutFacts
<1>7. CASE f \in A
  <2>1. \E g \in S : g.call = f.call /\ g.id = f.id /\ g.vars = f.vars BY <1>3, <1>5, <1>7, AsFacts
  <2> QED BY <1>2, <1>4, <2>1
<1>8. CASE f \in B
  <2>1. \E g \in T : g.call = f.call /\ g.id = f.id /\ g.vars = f.vars BY <1>3, <1>5, <1>8, AsFacts
  <2> QED BY <1>2, <1>4, <2>1
<1> QED BY <1>6, <1>7, <1>8

LEMMA RebuiltUniform ==
  ASSUME TypeInv, Uniform(2, dir[2]), NEW own, NEW copy, NEW i
  PROVE  Uniform(2, Rebuilt(own, copy, i))
<1> SUFFICES ASSUME NEW q \in Rank, NEW r \in Rank,
                    NEW f \in Rebuilt(own, copy, i)[q], NEW g \in Rebuilt(own, copy, i)[r],
                    f.kind \in Kinds(2), g.kind \in Kinds(2)
             PROVE  f.call = g.call /\ f.id = g.id
  BY DEF Uniform
<1>1. \E p \in Rank : \E h \in dir[2][p] : h.kind \in Kinds(2) /\ h.call = f.call /\ h.id = f.id
  BY RebuiltFrom
<1>2. \E p \in Rank : \E h \in dir[2][p] : h.kind \in Kinds(2) /\ h.call = g.call /\ h.id = g.id
  BY RebuiltFrom
<1> QED BY <1>1, <1>2 DEF Uniform

LEMMA DirRestart ==
  ASSUME TypeInv, AnswerInv, CtlInv, AgreeInv, DirInv,
         Crash \/ Restart \/ RecoverL1 \/ RecoverL2 \/ RecoverL4
  PROVE  DirInv'
<1>1. CASE Crash
  <2>1. format' = format /\ \A r \in Rank : pc'[r] = "down" BY <1>1 DEF Crash, AllGoto
  <2>2. \A l \in Level : ~torn' => Single(dir'[l]) /\ Uniform(l, dir'[l])
    BY <1>1, CrashUniform
  <2>3. \A l \in Level : format = "ftiff" /\ ~torn' => Neat(l)' BY <2>2 DEF Neat
  <2> QED BY <2>1, <2>2, <2>3, DirNeat
<1>2. ASSUME Restart \/ RecoverL1 \/ RecoverL2 \/ RecoverL4, dir' = dir PROVE DirInv'
  <2>1. /\ \A r \in Rank : pc[r] = "down" /\ pc'[r] \in {"down", "run"}
        /\ format' = format /\ torn' = torn
    BY <1>2, RestartFacts DEF AllGoto
  <2> QED BY <1>2, <2>1, RankFacts, DirStill DEF Moving
<1>3. ASSUME RecoverL2 \/ RecoverL4, AllGoto("run"), NEW l \in Level, NEW D,
             dir' = [dir EXCEPT ![l] = D], ~torn => Uniform(l, D)
      PROVE  DirInv'
  <2>1. /\ \A r \in Rank : pc[r] = "down" /\ pc'[r] = "run"
        /\ format' = format /\ torn' = torn
    BY <1>3, RestartFacts DEF AllGoto
  <2>2. ASSUME ~torn, NEW k \in Level PROVE Uniform(k, dir'[k])
    <3>1. Uniform(k, dir[k]) BY <2>1, <2>2, DownUniform
    <3>2. dir'[k] = IF k = l THEN D ELSE dir[k] BY <1>3, Typed
    <3> QED BY <1>3, <2>2, <3>1, <3>2
  <2>3. \A k \in Level : format = "ftiff" /\ ~torn' => Neat(k)' BY <2>1, <2>2 DEF Neat
  <2> QED BY <2>1, <2>3, DirNeat
<1>4. CASE Restart BY <1>2, <1>4 DEF Restart, disk
<1>5. CASE RecoverL1 BY <1>2, <1>5, RecoverL1Facts
<1>6. CASE RecoverL2
  <2>1. CASE dir' = dir BY <1>2, <1>6, <2>1
  <2>2. CASE dir' # dir
    <3>1. PICK own, copy, i : Exchanged(own, copy, i) BY <1>6, <2>2, RecoverL2Facts
    <3>2. AllGoto("run") BY <3>1 DEF Exchanged, Recovered
    <3>3. dir' = [dir EXCEPT ![2] = Rebuilt(own, copy, i)] BY <3>1 DEF Exchanged
    <3>4. 2 \in Level BY DEF Level
    <3>5. ~torn => Uniform(2, Rebuilt(own, copy, i))
      <4>1. \A r \in Rank : pc[r] = "down" BY <1>6, RestartFacts
      <4> QED BY <3>4, <4>1, DownUniform, RebuiltUniform
    <3>6. PICK D : D = Rebuilt(own, copy, i) OBVIOUS
    <3>7. dir' = [dir EXCEPT ![2] = D] /\ (~torn => Uniform(2, D)) BY <3>3, <3>5, <3>6
    <3> QED BY <1>3, <1>6, <3>2, <3>4, <3>7
  <2> QED BY <2>1, <2>2
<1>7. CASE RecoverL4
  <2>0. AllGoto("run") BY <1>7 DEF RecoverL4, Recovered
  <2>1. 1 \in Level /\ 4 \in Level BY DEF Level
  <2>2. CASE dir' = [dir EXCEPT ![1] = [r \in Rank |-> {}]]
    <3>1. PICK D : D = [r \in Rank |-> {}] OBVIOUS
    <3>2. Uniform(1, D) BY <3>1 DEF Uniform
    <3>3. dir' = [dir EXCEPT ![1] = D] BY <2>2, <3>1
    <3> QED BY <1>3, <1>7, <2>0, <2>1, <3>2, <3>3
  <2>3. CASE dir' # [dir EXCEPT ![1] = [r \in Rank |-> {}]]
    <3>1. PICK name : /\ \A r \in Rank : name[r] \in Found(dir[4][r], "ckpt")
                      /\ \A r \in Rank : Sound(name[r])
                      /\ dir' = [dir EXCEPT ![1] = [r \in Rank |-> {name[r]}]]
      BY <1>7, <2>3, RecoverL4Facts
    <3>2. PICK D : D = [r \in Rank |-> {name[r]}] OBVIOUS
    <3>3. ~torn => Uniform(1, D)
      <4>1. \A r \in Rank : pc[r] = "down" BY <1>7, RestartFacts
      <4>2. ~torn => \A q, r \in Rank : name[q].id = name[r].id /\ name[q].call = name[r].call
        BY <2>1, <3>1, <4>1, DownUniform, SameFiles
      <4> QED BY <3>2, <4>2 DEF Uniform
    <3>4. dir' = [dir EXCEPT ![1] = D] BY <3>1, <3>2
    <3> QED BY <1>3, <1>7, <2>0, <2>1, <3>3, <3>4
  <2> QED BY <2>2, <2>3
<1> QED BY <1>1, <1>4, <1>5, <1>6, <1>7

---------------------------------------------------------------------------
(* What a restart gives the processes *)

LEMMA ReportedFacts ==
  ASSUME NEW r, NEW k, NEW f \in Reported(r, k), f # NoFile
  PROVE  f \in dir[2][r] /\ f.kind = k /\ Sound(f)
<1>1. f \in Found(dir[2][r], k) /\ Sound(f) BY DEF Reported
<1> QED BY <1>1, SoundFound

LEMMA NoFileFacts == ~Sound(NoFile)
BY DEF Sound, NoFile, File

(* In a directory with one file of the kind, of the id looked for, the     *)
(* process reads its own file, or what it took from the partner's copy.    *)
LEMMA MineSound ==
  ASSUME TypeInv, Single(dir[2]), NEW own, NEW copy, NEW c, NEW i, NEW r \in Rank,
         \A q \in Rank : \A g \in dir[2][q] : g.kind \in Kinds(2) => g.call = c /\ g.id = i,
         own[r] \in Reported(r, "ckpt"), copy[Right(r)] \in Reported(Right(r), "copy"),
         own[r] # NoFile \/ copy[Right(r)] # NoFile
  PROVE  /\ Sound(Mine(Rebuilt(own, copy, i), r, i))
         /\ Mine(Rebuilt(own, copy, i), r, i).call = c
<1> DEFINE S == Named(dir[2][Right(r)], "copy", i)
           T == Named(dir[2][Left(r)], "ckpt", i)
           A == IF own[r] # NoFile THEN {} ELSE As("ckpt", S)
           B == IF copy[r] # NoFile THEN {} ELSE As("copy", T)
           d == Rebuilt(own, copy, i)
           M == Named(d[r], "ckpt", i)
<1>1. d[r] = Put(dir[2][r], A \cup B) BY DEF Rebuilt
<1>2. Left(r) \in Rank /\ Right(r) \in Rank /\ 2 \in Level BY Neighbours DEF Level
<1>3. /\ S \in SUBSET Files /\ T \in SUBSET Files /\ dir[2][r] \in SUBSET Files
  BY <1>2, Typed DEF Named
<1>4. M = {f \in d[r] : f.kind = "ckpt" /\ f.id = i} BY DEF Named
<1>5. \A f \in B : f.kind = "copy" BY <1>3, AsFacts
<1>6. SUFFICES M # {} /\ \A f \in M : Sound(f) /\ f.call = c
  <2>1. Mine(d, r, i) = IF M = {} THEN NoFile ELSE CHOOSE f \in M : TRUE BY DEF Mine
  <2> HIDE DEF M, d
  <2>2. ASSUME M # {} PROVE (CHOOSE f \in M : TRUE) \in M BY <2>2
  <2>3. ASSUME M # {}, \A f \in M : Sound(f) /\ f.call = c
        PROVE  Sound(Mine(d, r, i)) /\ Mine(d, r, i).call = c
    BY <2>1, <2>2, <2>3
  <2> QED BY <2>3 DEF d
<1>7. CASE own[r] # NoFile
  <2>1. own[r] \in dir[2][r] /\ own[r].kind = "ckpt" /\ Sound(own[r])
    BY <1>7, ReportedFacts
  <2>2. own[r].call = c /\ own[r].id = i BY <2>1 DEF Kinds
  <2>3. A \cup B = B BY <1>7
  <2> HIDE DEF A, B, d, M
  <2>4. own[r] \in d[r] BY <1>1, <1>5, <2>1, <2>3, PutFacts
  <2>5. \A f \in M : f \in dir[2][r] /\ f.kind = "ckpt"
    BY <1>1, <1>4, <1>5, <2>3, PutFacts
  <2>6. \A f \in M : f = own[r] BY <2>1, <2>5 DEF Single
  <2> QED BY <1>4, <2>1, <2>2, <2>4, <2>6
<1>8. CASE own[r] = NoFile
  <2> DEFINE h == copy[Right(r)]
  <2>1. h \in dir[2][Right(r)] /\ h.kind = "copy" /\ Sound(h)
    BY <1>8, ReportedFacts
  <2>2. h.call = c /\ h.id = i BY <1>2, <2>1 DEF Kinds
  <2>3. A = As("ckpt", S) BY <1>8
  <2>4. h \in S BY <2>1, <2>2 DEF Named
  <2>5. \A f \in S : f = h BY <1>2, <2>1 DEF Named, Single
  <2> HIDE DEF S, A, B, d, M, h
  <2>6. \A g \in A : \E f \in S :
          g.kind = "ckpt" /\ g.call = f.call /\ g.id = f.id /\ g.vars = f.vars /\ g.stale = f.stale
    BY <1>3, <2>3, AsFacts
  <2>7. \A g \in A : g.kind = "ckpt" /\ g.call = c /\ g.id = i /\ Sound(g)
    BY <2>1, <2>2, <2>5, <2>6 DEF Sound
  <2>8. PICK a \in A : TRUE BY <1>3, <2>3, <2>4, AsFacts
  <2>9. a \in d[r] BY <1>1, PutFacts
  <2>10. a \in M BY <1>4, <2>7, <2>9
  <2>11. \A f \in M : f \in A
    <3> SUFFICES ASSUME NEW f \in M, f \notin A PROVE FALSE OBVIOUS
    <3>1. f \in d[r] /\ f.kind = "ckpt" /\ f.id = i BY <1>4
    <3>2. f \in Put(dir[2][r], A \cup B) /\ f \notin A \cup B BY <1>1, <1>5, <3>1
    <3>3. \A g \in A \cup B : <<f.kind, f.id>> # <<g.kind, g.id>> BY <3>2 DEF Put
    <3>4. <<f.kind, f.id>> # <<a.kind, a.id>> BY <3>3
    <3> QED BY <2>7, <3>1, <3>4
  <2> QED BY <2>7, <2>10, <2>11
<1> QED BY <1>7, <1>8

LEMMA TogetherL2 ==
  ASSUME TypeInv, Single(dir[2]), Uniform(2, dir[2]), NEW own, NEW copy, NEW i,
         Exchanged(own, copy, i)
  PROVE  RestoredTogether'
<1> DEFINE M(r) == Mine(Rebuilt(own, copy, i), r, i)
<1>1. \A r \in Rank : /\ own[r] \in Reported(r, "ckpt")
                      /\ copy[r] \in Reported(r, "copy")
                      /\ own[r] # NoFile \/ copy[Right(r)] # NoFile
  BY DEF Exchanged
<1>2. \A r \in Rank : restored'[r] = IF Sound(M(r)) THEN M(r) ELSE NoFile
  BY DEF Exchanged, Recovered
<1>3. CASE \E r \in Rank : Sound(M(r))
  <2>1. PICK s \in Rank : Sound(M(s)) BY <1>3
  <2>2. M(s) \in Rebuilt(own, copy, i)[s] /\ M(s).kind = "ckpt" /\ M(s).id = i
    BY <2>1, NoFileFacts DEF Mine, Named
  <2>3. PICK q \in Rank : \E g \in dir[2][q] :
          g.kind \in Kinds(2) /\ g.call = M(s).call /\ g.id = M(s).id
    BY <2>2, RebuiltFrom DEF Kinds
  <2>4. PICK g \in dir[2][q] : g.kind \in Kinds(2) /\ g.id = i BY <2>2, <2>3
  <2> HIDE DEF M
  <2>5. \A p \in Rank : \A h \in dir[2][p] : h.kind \in Kinds(2) => h.call = g.call /\ h.id = i
    BY <2>4 DEF Uniform
  <2>6. ASSUME NEW r \in Rank PROVE restored'[r].call = g.call
    <3>1. Right(r) \in Rank BY Neighbours
    <3>2. Sound(M(r)) /\ M(r).call = g.call BY <1>1, <2>5, <3>1, MineSound DEF M
    <3> QED BY <1>2, <3>2
  <2> QED BY <2>6 DEF RestoredTogether
<1>4. CASE \A r \in Rank : ~Sound(M(r))
  <2> HIDE DEF M
  <2>1. \A r \in Rank : restored'[r] = NoFile BY <1>2, <1>4
  <2> QED BY <2>1 DEF RestoredTogether
<1> QED BY <1>3, <1>4

LEMMA TogetherFound ==
  ASSUME NEW l \in Level, NEW m, NEW i, NEW name, ~torn => Uniform(l, dir[l]), torn' = torn,
         \A r \in Rank : name[r] \in Found(dir[l][r], "ckpt"),
         \A r \in Rank : Sound(name[r]),
         Recovered(m, i, name)
  PROVE  RestoredTogether'
<1>1. \A r \in Rank : restored'[r] = name[r] BY DEF Recovered
<1>2. ~torn => \A q, r \in Rank : name[q].call = name[r].call BY SameFiles
<1> QED BY <1>1, <1>2 DEF RestoredTogether

LEMMA Together ==
  ASSUME TypeInv, AnswerInv, CtlInv, DirInv, RestoredTogether, [RestartNext]_allVars
  PROVE  RestoredTogether'
<1>1. CASE Work \/ Crash
  <2>1. \A r \in Rank : restored'[r] = NoFile BY <1>1 DEF Work, Crash
  <2> QED BY <2>1 DEF RestoredTogether
<1>2. CASE restored' = restored /\ torn' = torn
  BY <1>2 DEF RestoredTogether, Restarted
<1>3. CASE Restart \/ Finished \/ UNCHANGED allVars
  BY <1>2, <1>3 DEF Restart, Finished, allVars, restartVars
<1>4. ASSUME RecoverL1 \/ RecoverL2 \/ RecoverL4, NEW l \in Level, ~torn
      PROVE  Single(dir[l]) /\ Uniform(l, dir[l])
  <2>1. \A r \in Rank : pc[r] = "down" BY <1>4, RestartFacts
  <2> QED BY <1>4, <2>1, DownUniform
<1>5. CASE RecoverL1
  <2>1. torn' = torn BY <1>5, RestartFacts
  <2>2. CASE NotFrom(1) BY <1>2, <2>1, <2>2 DEF NotFrom
  <2>3. CASE ~NotFrom(1)
    <3>1. PICK name : /\ \A r \in Rank : name[r] \in Found(dir[1][r], "ckpt")
                      /\ \A r \in Rank : Sound(name[r])
                      /\ Recovered(1, [r \in Rank |-> name[r].id], name)
      BY <1>5, <2>3, RecoverL1Facts
    <3>2. 1 \in Level /\ (~torn => Uniform(1, dir[1])) BY <1>4, <1>5 DEF Level
    <3>3. PICK i : i = [r \in Rank |-> name[r].id] OBVIOUS
    <3>4. Recovered(1, i, name) BY <3>1, <3>3
    <3> QED BY <2>1, <3>1, <3>2, <3>4, TogetherFound
  <2> QED BY <2>2, <2>3
<1>6. CASE RecoverL2
  <2>1. torn' = torn BY <1>6, RestartFacts
  <2>2. CASE NotFrom(2) BY <1>2, <2>1, <2>2 DEF NotFrom
  <2>3. CASE ~NotFrom(2)
    <3>1. PICK own, copy, i : Exchanged(own, copy, i) BY <1>6, <2>3, RecoverL2Facts
    <3>2. 2 \in Level BY DEF Level
    <3>3. CASE torn BY <2>1, <3>3 DEF RestoredTogether
    <3>4. CASE ~torn
      <4>1. Single(dir[2]) /\ Uniform(2, dir[2]) BY <1>4, <1>6, <3>2, <3>4
      <4> QED BY <3>1, <4>1, TogetherL2
    <3> QED BY <3>3, <3>4
  <2> QED BY <2>2, <2>3
<1>7. CASE RecoverL4
  <2>1. torn' = torn BY <1>7, RestartFacts
  <2>2. CASE Recovered(0, [r \in Rank |-> 0], [r \in Rank |-> NoFile])
    <3>1. \A r \in Rank : restored'[r] = NoFile BY <2>2 DEF Recovered
    <3> QED BY <3>1 DEF RestoredTogether
  <2>3. CASE ~Recovered(0, [r \in Rank |-> 0], [r \in Rank |-> NoFile])
    <3>1. PICK name : /\ \A r \in Rank : name[r] \in Found(dir[4][r], "ckpt")
                      /\ \A r \in Rank : Sound(name[r])
                      /\ Recovered(4, [r \in Rank |-> name[r].id], name)
      BY <1>7, <2>3, RecoverL4Facts
    <3>2. 4 \in Level /\ (~torn => Uniform(4, dir[4])) BY <1>4, <1>7 DEF Level
    <3>3. PICK i : i = [r \in Rank |-> name[r].id] OBVIOUS
    <3>4. Recovered(4, i, name) BY <3>1, <3>3
    <3> QED BY <2>1, <3>1, <3>2, <3>4, TogetherFound
  <2> QED BY <2>2, <2>3
<1> QED BY <1>1, <1>3, <1>5, <1>6, <1>7 DEF RestartNext

---------------------------------------------------------------------------
(* The invariant *)

LEMMA StoreInit == RestartInit => StoreInv
<1>1. RestartInit => RestoredTogether BY DEF RestartInit, RestoredTogether, Restarted
<1> QED BY <1>1, CtlInit, AgreeInit, TmpInit, DirInit DEF StoreInv

LEMMA StoreWork ==
  ASSUME TypeInv, AnswerInv, StoreInv, 0 \notin UninitRes, Work
  PROVE  CtlInv' /\ AgreeInv' /\ TmpInv' /\ DirInv'
<1> USE DEF StoreInv
<1>1. torn' = torn /\ IcpStep BY DEF Work
<1>2. ASSUME NEW r \in Rank, RankStep(r) PROVE CtlInv' /\ AgreeInv' /\ TmpInv' /\ DirInv'
  <2>1. CtlInv' /\ AgreeInv' /\ TmpInv' BY <1>1, <1>2, CtlRank, AgreeRank, TmpRank
  <2>2. DirInv' BY <1>1, <1>2, DirRankStill, DirClean, DirRename DEF RankStep
  <2> QED BY <2>1, <2>2
<1>3. ASSUME SumICP \/ MetaICP \/ SyncPost \/ BarrierICP \/ HeadsICP
      PROVE  CtlInv' /\ AgreeInv' /\ TmpInv' /\ DirInv'
  <2>1. CtlInv' BY <1>3, CtlAll
  <2>2. AgreeInv' BY <1>1, <1>3, AgreeSum, AgreeAll
  <2>3. TmpInv' BY <1>1, <1>3, TmpSync, TmpAll
  <2>4. DirInv' BY <1>1, <1>3, DirAll, DirHeads
  <2> QED BY <2>1, <2>2, <2>3, <2>4
<1> QED BY <1>1, <1>2, <1>3 DEF IcpStep, RankStep

LEMMA StoreStep ==
  ASSUME TypeInv, AnswerInv, StoreInv, TypeInv', 0 \notin UninitRes, [RestartNext]_allVars
  PROVE  StoreInv'
<1>1. RestoredTogether' BY Together DEF StoreInv
<1>2. CASE Work BY <1>1, <1>2, StoreWork DEF StoreInv
<1>3. CASE Crash \/ Restart \/ RecoverL1 \/ RecoverL2 \/ RecoverL4
  BY <1>1, <1>3, CtlRestart, AgreeRestart, TmpRestart, DirRestart DEF StoreInv
<1>4. CASE UNCHANGED allVars
  <2> USE <1>4 DEF allVars, restartVars, vars, memory, heads, disk, StoreInv
  <2>1. CtlInv' BY DEF CtlInv, Lockstep, CallInfo, Round, Valid, Asked
  <2>2. AgreeInv' BY DEF AgreeInv, Even, Settled, Valid
  <2>3. TmpInv' BY DEF TmpInv, TmpInfo, Valid, Asked, Has
  <2>4. DirInv' BY DEF DirInv, Kept, Renamed, Neat, New, Has, AllAt, At
  <2> QED BY <1>1, <2>1, <2>2, <2>3, <2>4
<1> QED BY <1>2, <1>3, <1>4 DEF RestartNext, Finished

LEMMA AlwaysStored ==
  ASSUME 0 \notin UninitRes
  PROVE  RestartSpec => [](TypeInv /\ AnswerInv /\ StoreInv)
<1>1. RestartInit => StoreInv BY StoreInit
<1>2. TypeInv /\ AnswerInv /\ StoreInv /\ TypeInv' /\ [RestartNext]_allVars => StoreInv'
  BY StoreStep
<1> QED BY <1>1, <1>2, Always, PTL DEF RestartSpec

---------------------------------------------------------------------------
(* The theorems *)

(* A restart gives all processes the data of one checkpoint, however many  *)
(* processes, calls, failing operations, crashes and lost nodes there are, *)
(* if no crash hits between the renames of a checkpoint or finds a         *)
(* leftover, although FTI-FF compares no ids at level 1 and averages them  *)
(* at level 2 (ftiff.c:1773, 2265).                                        *)
THEOREM OneCheckpointRestored ==
  ASSUME 0 \notin UninitRes PROVE RestartSpec => []RestoredTogether
<1>1. StoreInv => RestoredTogether BY DEF StoreInv
<1> QED BY <1>1, AlwaysStored, PTL

(* After the same number of calls the processes are at the same checkpoint *)
(* and level, whichever calls failed for some of them only: what any of    *)
(* them could not add or write all of them give back (api.c:1571).  A file *)
(* that could not be closed and metadata that could not be written are the *)
(* exceptions, and FTI-FF has neither.                                     *)
THEOREM ProcessesAgree ==
  ASSUME 0 \notin UninitRes, Formats = {"ftiff"} \/ {"meta", "close"} \cap Faults = {}
  PROVE  RestartSpec => []Agreed
<1>1. TypeInv /\ StoreInv => Agreed
  <2> SUFFICES ASSUME TypeInv, AgreeInv, NEW r \in Rank, NEW s \in Rank,
                      At(r, "run"), At(s, "run"), ~torn
               PROVE  id[r] = id[s] /\ lvel[r] = lvel[s]
    BY DEF Agreed, StoreInv
  <2>1. Even BY DEF Even, TypeInv, CountOK
  <2>2. Settled(r) = Settled(s) BY <2>1 DEF AgreeInv
  <2> QED BY <2>2 DEF Settled, At, Idling
<1> QED BY <1>1, AlwaysStored, PTL

(* Where a barrier or the heads end the post-processing, every process has *)
(* its file in the directory of the level.                                 *)
LEMMA BarrierStores ==
  ASSUME TypeInv, StoreInv, 4 \in CallLevels => 4 \in Async, BarrierICP
  PROVE  \A r \in Rank : \E f \in dir'[done'.lvl][r] :
           f.kind = "ckpt" /\ f.call = done'.call
<1> USE RankFacts DEF StoreInv
<1>1. \A r \in Rank : pc[r] = "barrier" BY DEF BarrierICP, AllAt, At
<1>2. done'.call = call[Root] /\ done'.lvl = lvel[Root] /\ dir' = dir
  BY DEF BarrierICP, disk
<1>3. Root \in Rank /\ pc[Root] \in Moving BY <1>1 DEF Moving
<1>4. \A r \in Rank : call[r] = call[Root] /\ lvel[r] = lvel[Root] /\ lvel[Root] # 4
  BY <1>3, MovingSame DEF Inline
<1>5. ASSUME NEW r \in Rank PROVE Has(dir[lvel[r]][r], "ckpt", r)
  BY <1>1, <1>4 DEF TmpInv, TmpInfo
<1> QED BY <1>2, <1>4, <1>5 DEF Has

LEMMA HeadsStore ==
  ASSUME TypeInv, AnswerInv, StoreInv, HeadsICP, done' # done
  PROVE  \A r \in Rank : \E f \in dir'[done'.lvl][r] :
           f.kind = "ckpt" /\ f.call = done'.call
<1> USE RankFacts DEF StoreInv
<1>0. /\ \A r \in Rank : Asked(r)
      /\ done' = [call |-> call[Root], lvl |-> token[Root]]
  BY HeadsFacts
<1>1. /\ \A r \in Rank : Asked(r)
      /\ done'.call = call[Root] /\ done'.lvl = token[Root]
      /\ \A k \in Level :
           dir'[k] = IF k = 4 /\ token[Root] = 4 THEN [r \in Rank |-> ThisCall(r)]
                     ELSE IF k = token[Root] \/ (token[Root] = 4 /\ k = 1)
                     THEN WithCopies(token[Root])
                     ELSE IF k < token[Root] THEN [r \in Rank |-> {}] ELSE dir[k]
  BY <1>0, HeadsFacts, Zenon
<1>2. token[Root] \in {1, 2, 4} /\ \A r \in Rank : call[r] = call[Root]
  BY <1>1, HeadsSame
<1>3. ASSUME NEW r \in Rank
      PROVE  \E f \in dir'[token[Root]][r] : f.kind = "ckpt" /\ f.call = call[Root]
  <2>1. CASE token[Root] = 4
    <3>1. dir'[4] = [q \in Rank |-> ThisCall(q)] BY <1>1, <2>1 DEF Level
    <3>2. \E f \in ThisCall(r) : f.kind = "ckpt" /\ f.call = call[r] BY <1>1, AskedFile
    <3> QED BY <1>2, <2>1, <3>1, <3>2
  <2>2. CASE token[Root] # 4
    <3>1. dir'[token[Root]] = WithCopies(token[Root]) BY <1>1, <1>2, <2>2 DEF Level
    <3>2. \E f \in WithCopies(token[Root])[r] : f.kind = "ckpt" /\ f.call = call[r]
      BY <1>1, AskedFile DEF Has
    <3> QED BY <1>2, <3>1, <3>2
  <2> QED BY <2>1, <2>2
<1> QED BY <1>1, <1>3

(* A checkpoint that is taken for stored is in the directory of its level, *)
(* with a file of every process, although processes that are ahead already *)
(* write the next one into the same temporary directory                    *)
(* (checkpoint.c:356).  Of level 4 only the asynchronous one is meant: the *)
(* temporary directory on the PFS is one for all processes.                *)
THEOREM StoredIsThere ==
  ASSUME 0 \notin UninitRes, 4 \in CallLevels => 4 \in Async
  PROVE  RestartSpec => DoneIsStored
<1> DEFINE Stored == \A r \in Rank : \E f \in dir'[done'.lvl][r] :
                       f.kind = "ckpt" /\ f.call = done'.call
<1>1. TypeInv /\ AnswerInv /\ StoreInv /\ [RestartNext]_allVars => [done' # done => Stored]_allVars
  <2> SUFFICES ASSUME TypeInv, AnswerInv, StoreInv, RestartNext, done' # done PROVE Stored
    OBVIOUS
  <2>1. CASE BarrierICP BY <2>1, BarrierStores
  <2>2. CASE HeadsICP BY <2>2, HeadsStore
  <2>3. ASSUME NEW r \in Rank, RankStep(r) PROVE done' = done
    BY <2>3, InitFacts, AddFacts, CloseFacts, SendFacts, PostFacts, MoveFacts, LastFacts
    DEF RankStep
  <2>4. CASE SumICP \/ MetaICP \/ SyncPost BY <2>4 DEF SumICP, MetaICP, SyncPost
  <2>5. CASE Crash BY <2>5 DEF Crash
  <2>6. CASE Restart \/ RecoverL1 \/ RecoverL2 \/ RecoverL4 \/ Finished
    BY <2>6 DEF Restart, RecoverL1, RecoverL2, RecoverL4, StillDown, Finished, allVars, vars
  <2> QED BY <2>1, <2>2, <2>3, <2>4, <2>5, <2>6 DEF RestartNext, Work, IcpStep, RankStep
<1> QED BY <1>1, AlwaysStored, PTL DEF RestartSpec, DoneIsStored

---------------------------------------------------------------------------
(* What the files hold *)

Complete(S) == \A f \in S : (\A g \in S : g.call <= f.call) => f.vars = Var

(* Where the file of the call is, it is the newest one. *)
LEMMA HasWhole ==
  ASSUME TypeInv, NEW r \in Rank, NEW S \in SUBSET Files, Has(S, "ckpt", r),
         \A f \in S : f.call <= call[r] /\ (f.call = call[r] => f.vars = Var)
  PROVE  Complete(S)
<1> SUFFICES ASSUME NEW f \in S, \A g \in S : g.call <= f.call PROVE f.vars = Var
  BY DEF Complete
<1>1. PICK h \in S : h.call = call[r] BY DEF Has
<1>2. call[r] <= f.call /\ f.call <= call[r] BY <1>1
<1>3. f.call \in Nat /\ call[r] \in Nat BY CallRange DEF Files
<1>4. f.call = call[r] BY <1>2, <1>3
<1> QED BY <1>4

LEMMA ValidWhole ==
  ASSUME TypeInv, CtlInv, WholeTmp, NEW r \in Rank, Valid(r), pc[r] \notin Idling \cup Opening,
         NEW f \in ltmp[r] \cup gtmp[r]
  PROVE  f.call <= call[r] /\ (f.call = call[r] => f.vars = Var)
<1>1. TmpWhole(r, f) BY DEF WholeTmp
<1>2. icp[r].wrote = Var BY DEF CtlInv, CallInfo
<1>3. f \in Files
  <2>1. ltmp[r] \in SUBSET Files /\ gtmp[r] \in SUBSET Files BY Typed
  <2> QED BY <2>1
<1> QED BY <1>1, <1>2, <1>3 DEF TmpWhole, Files

LEMMA AskedWhole ==
  ASSUME WholeTmp, NEW r \in Rank, Asked(r), NEW f \in ltmp[r]
  PROVE  f.call <= call[r] /\ (f.call = call[r] => f.vars = Var)
BY DEF WholeTmp, TmpWhole

(* Steps that add no file and write to none. *)
LEMMA TmpWholeKept ==
  ASSUME TypeInv, CtlInv, WholeTmp, NEW r \in Rank, call'[r] = call[r],
         \/ pc'[r] \in Idling
         \/ pc[r] \notin Idling /\ icp'[r].wrote = icp[r].wrote,
         Asked(r)' => Asked(r) \/ (Valid(r) /\ pc[r] \notin Idling \cup Opening),
         NEW f \in ltmp[r] \cup gtmp[r]
  PROVE  TmpWhole(r, f)'
<1>1. TmpWhole(r, f) BY DEF WholeTmp
<1>2. Asked(r)' /\ f.call = call[r] => f.vars = Var
  BY <1>1, ValidWhole DEF TmpWhole
<1>3. f' = f OBVIOUS
<1> QED BY <1>1, <1>2 DEF TmpWhole

LEMMA TmpWholeOthers ==
  ASSUME TypeInv, CtlInv, WholeTmp, NEW r \in Rank, RankStep(r), NEW q \in Rank, q # r
  PROVE  \A f \in ltmp'[q] \cup gtmp'[q] : TmpWhole(q, f)'
<1>1. /\ pc'[q] = pc[q] /\ call'[q] = call[q] /\ icp'[q] = icp[q] /\ token'[q] = token[q]
      /\ ltmp'[q] \subseteq ltmp[q] /\ gtmp'[q] \subseteq gtmp[q]
  BY OthersMemory, OthersDisk
<1>2. Asked(q)' <=> Asked(q) BY <1>1 DEF Asked
<1> SUFFICES ASSUME NEW f \in ltmp'[q] \cup gtmp'[q] PROVE TmpWhole(q, f)' OBVIOUS
<1>3. f \in ltmp[q] \cup gtmp[q] BY <1>1
<1>4. TmpWhole(q, f) BY <1>3 DEF WholeTmp
<1> QED BY <1>1, <1>2, <1>4 DEF TmpWhole

LEMMA TmpWholeOpened ==
  ASSUME TypeInv, AnswerInv, WholeTmp, NEW r \in Rank, InitICP(r)
  PROVE  \A f \in ltmp'[r] \cup gtmp'[r] : TmpWhole(r, f)'
<1> USE Typed
<1> DEFINE n == File("ckpt", id[r] + 1, call[r] + 1)
<1>1. /\ ltmp'[r] \subseteq ltmp[r] \cup {n}
      /\ gtmp'[r] \subseteq gtmp[r] \cup {n}
  <2>1. PICK l \in Planned(r), bad \in BOOLEAN :
          IF bad THEN UNCHANGED <<ltmp, gtmp>>
          ELSE IF OnPfs(l)
          THEN gtmp' = [gtmp EXCEPT ![r] = Put(@, {n})] /\ UNCHANGED ltmp
          ELSE ltmp' = [ltmp EXCEPT ![r] = Put(@, {n})] /\ UNCHANGED gtmp
    BY DEF InitICP
  <2> HIDE DEF n
  <2>2. gtmp'[r] = gtmp[r] \/ gtmp'[r] = Put(gtmp[r], {n}) BY <2>1
  <2>3. ltmp'[r] = ltmp[r] \/ ltmp'[r] = Put(ltmp[r], {n}) BY <2>1
  <2> QED BY <2>2, <2>3, PutFacts
<1>2. n.kind = "ckpt" /\ n.call = call[r] + 1 BY DEF File
<1> HIDE DEF n
<1>3. /\ call'[r] = call[r] + 1 /\ icp'[r].wrote = {} /\ token'[r] = None BY InitFacts
<1> SUFFICES ASSUME NEW f \in ltmp'[r] \cup gtmp'[r] PROVE TmpWhole(r, f)' OBVIOUS
<1>4. call[r] \in Nat /\ ~Asked(r)' BY <1>3, CallRange DEF Asked
<1>5. CASE f = n BY <1>2, <1>3, <1>4, <1>5 DEF TmpWhole
<1>6. CASE f # n
  <2>1. f \in ltmp[r] \cup gtmp[r] BY <1>1, <1>6
  <2>2. f \in Files /\ f.call \in Nat
    <3>1. ltmp[r] \in SUBSET Files /\ gtmp[r] \in SUBSET Files OBVIOUS
    <3> QED BY <2>1, <3>1 DEF Files
  <2>3. f.call <= call[r] BY <2>1 DEF WholeTmp, TmpWhole
  <2>4. f.call < call'[r] BY <1>3, <1>4, <2>2, <2>3
  <2>5. f.call <= call'[r] /\ f.call # call'[r] BY <1>3, <1>4, <2>2, <2>4
  <2> QED BY <2>5 DEF TmpWhole
<1> QED BY <1>5, <1>6

LEMMA TmpWholeAdded ==
  ASSUME TypeInv, AnswerInv, WholeTmp, NEW r \in Rank, AddVarICP(r)
  PROVE  \A f \in ltmp'[r] \cup gtmp'[r] : TmpWhole(r, f)'
<1> USE Typed
<1>1. PICK v \in Var, bad \in BOOLEAN, changed \in BOOLEAN :
        /\ icp' = [icp EXCEPT ![r] = Counted(icp[r], v, bad)]
        /\ IF bad THEN UNCHANGED <<ltmp, gtmp>>
           ELSE /\ ltmp' = [ltmp EXCEPT ![r] = Written(r, v, changed, @)]
                /\ gtmp' = [gtmp EXCEPT ![r] = Written(r, v, changed, @)]
  BY DEF AddVarICP
<1>2. pc[r] = "icp" /\ pc'[r] = "icp" /\ call'[r] = call[r] /\ token'[r] = token[r]
  BY AddFacts
<1>3. ~Asked(r)' BY <1>2 DEF AnswerInv, Asked
<1>4. icp'[r] = Counted(icp[r], v, bad) /\ icp[r] \in Iterations BY <1>1
<1> SUFFICES ASSUME NEW f \in ltmp'[r] \cup gtmp'[r] PROVE TmpWhole(r, f)' OBVIOUS
<1>5. CASE bad
  <2>1. f \in ltmp[r] \cup gtmp[r] /\ icp'[r].wrote = icp[r].wrote
    BY <1>1, <1>4, <1>5 DEF Counted
  <2>2. TmpWhole(r, f) BY <2>1 DEF WholeTmp
  <2> QED BY <1>2, <1>3, <2>1, <2>2 DEF TmpWhole
<1>6. CASE ~bad
  <2>1. icp'[r].wrote = icp[r].wrote \cup {v} BY <1>4, <1>6 DEF Counted, Iterations
  <2>2. ltmp'[r] = Written(r, v, changed, ltmp[r]) /\ gtmp'[r] = Written(r, v, changed, gtmp[r])
    BY <1>1, <1>6
  <2>3. PICK g \in ltmp[r] \cup gtmp[r] :
          f = IF g.call = call[r] /\ g.kind = "ckpt"
              THEN [g EXCEPT !.vars = @ \cup {v}, !.stale = IF changed THEN @ \cup {v} ELSE @]
              ELSE g
    BY <2>2 DEF Written
  <2>4. g \in Files
    <3>1. ltmp[r] \in SUBSET Files /\ gtmp[r] \in SUBSET Files OBVIOUS
    <3> QED BY <3>1
  <2>5. /\ f.call = g.call /\ f.kind = g.kind
        /\ g.call = call[r] /\ g.kind = "ckpt" => f.vars = g.vars \cup {v}
        /\ ~(g.call = call[r] /\ g.kind = "ckpt") => f.vars = g.vars
    BY <2>3, <2>4 DEF Files
  <2>6. TmpWhole(r, g) BY DEF WholeTmp
  <2>7. pc[r] \notin Idling BY <1>2 DEF Idling
  <2>8. f.call <= call[r] BY <2>5, <2>6 DEF TmpWhole
  <2>9. f.call = call[r] => IF f.kind = "ckpt" THEN icp'[r].wrote \subseteq f.vars ELSE f.vars = Var
    BY <2>1, <2>5, <2>6, <2>7 DEF TmpWhole
  <2> QED BY <1>2, <1>3, <2>8, <2>9 DEF TmpWhole
<1> QED BY <1>5, <1>6

LEMMA TmpWholeOwn ==
  ASSUME TypeInv, AnswerInv, CtlInv, WholeTmp, NEW r \in Rank, RankStep(r)
  PROVE  \A f \in ltmp'[r] \cup gtmp'[r] : TmpWhole(r, f)'
<1> USE DEF Idling, Opening
<1>1. CASE InitICP(r) BY <1>1, TmpWholeOpened
<1>2. CASE AddVarICP(r) BY <1>2, TmpWholeAdded
<1>3. ASSUME ltmp'[r] \subseteq ltmp[r], gtmp'[r] \subseteq gtmp[r], call'[r] = call[r],
             \/ pc'[r] \in Idling
             \/ pc[r] \notin Idling /\ icp'[r].wrote = icp[r].wrote,
             Asked(r)' => Asked(r) \/ (Valid(r) /\ pc[r] \notin Idling \cup Opening)
      PROVE  \A f \in ltmp'[r] \cup gtmp'[r] : TmpWhole(r, f)'
  <2> SUFFICES ASSUME NEW f \in ltmp'[r] \cup gtmp'[r] PROVE TmpWhole(r, f)' OBVIOUS
  <2>1. f \in ltmp[r] \cup gtmp[r] BY <1>3
  <2> QED BY <1>3, <2>1, TmpWholeKept
<1>4. CASE CloseICP(r)
  <2>1. /\ pc[r] = "close" /\ call'[r] = call[r] /\ token'[r] = token[r]
        /\ ltmp' = ltmp /\ gtmp' = gtmp /\ icp'[r].wrote = icp[r].wrote
    BY <1>4, CloseFacts
  <2> QED BY <1>3, <2>1 DEF Asked
<1>5. CASE SendICP(r)
  <2>1. /\ pc[r] = "post" /\ pc'[r] = "run" /\ call'[r] = call[r]
        /\ ltmp' = ltmp /\ gtmp' = gtmp
        /\ token'[r] = IF icp[r].status = "FAIL" THEN Reject ELSE lvel[r]
    BY <1>5, SendFacts, EndedFacts
  <2>2. Asked(r)' => Valid(r)
    <3>1. icp[r].status # "NINI" BY <2>1 DEF TypeInv, CallOK
    <3>2. icp[r] \in Iterations BY Typed
    <3> QED BY <2>1, <3>1, <3>2 DEF Asked, Valid, Iterations
  <2> QED BY <1>3, <2>1, <2>2
<1>6. CASE PostICP(r)
  <2>1. /\ pc[r] = "post" /\ call'[r] = call[r] /\ token'[r] = token[r]
        /\ ltmp' = ltmp /\ gtmp' = gtmp /\ icp'[r] = icp[r]
    BY <1>6, PostFacts
  <2> QED BY <1>3, <2>1 DEF Asked
<1>7. CASE FinalizeICP(r) \/ CleanICP(r) \/ RenameICP(r)
  <2>1. /\ pc[r] \in {"icp", "clean", "rename"} /\ call'[r] = call[r] /\ token'[r] = token[r]
        /\ icp'[r] = icp[r]
    BY <1>7, MoveFacts
  <2>2. ltmp'[r] \subseteq ltmp[r] /\ gtmp'[r] \subseteq gtmp[r]
    BY <1>7, Typed DEF FinalizeICP, CleanICP, RenameICP, disk
  <2> QED BY <1>3, <2>1, <2>2 DEF Asked
<1>8. CASE DiscardICP(r) \/ EndICP(r)
  <2>1. pc'[r] = "run" /\ call'[r] = call[r] /\ token'[r] = token[r]
    BY <1>8, LastFacts, EndedFacts
  <2>2. ltmp'[r] \subseteq ltmp[r] /\ gtmp'[r] \subseteq gtmp[r]
    BY <1>8, Typed DEF DiscardICP, EndICP, disk
  <2> QED BY <1>3, <2>1, <2>2 DEF Asked
<1> QED BY <1>1, <1>2, <1>4, <1>5, <1>6, <1>7, <1>8 DEF RankStep

(* The partner's copy holds all variables, as the partner's file does.     *)
LEMMA CopiesWhole ==
  ASSUME TypeInv, NEW l, NEW r \in Rank, call[Left(r)] = call[r],
         \A f \in ThisCall(Left(r)) : f.vars = Var,
         NEW f \in WithCopies(l)[r]
  PROVE  f \in ltmp[r] \/ (f \in Files /\ f.kind = "copy" /\ f.call = call[r] /\ f.vars = Var)
<1> DEFINE S == ThisCall(Left(r))
           T == As("copy", S)
<1>1. S \in SUBSET Files
  <2>1. Left(r) \in Rank BY Neighbours
  <2> QED BY <2>1, Typed DEF ThisCall
<1>2. \A g \in S : g.call = call[r] /\ g.vars = Var BY DEF ThisCall
<1>3. WithCopies(l)[r] = ltmp[r] \/ WithCopies(l)[r] = Put(ltmp[r], T) BY DEF WithCopies
<1> HIDE DEF S
<1>4. T \in SUBSET Files BY <1>1, FilesKept
<1>5. \A g \in T : g.kind = "copy" /\ g.call = call[r] /\ g.vars = Var BY <1>1, <1>2, AsFacts
<1> HIDE DEF T
<1>6. f \in ltmp[r] \/ f \in T BY <1>3, PutFacts
<1> QED BY <1>4, <1>5, <1>6

LEMMA TmpWholeSync ==
  ASSUME TypeInv, AnswerInv, CtlInv, AgreeInv, WholeTmp, 0 \notin UninitRes, SyncPost
  PROVE  WholeTmp'
<1> SUFFICES ASSUME NEW r \in Rank, NEW f \in ltmp'[r] \cup gtmp'[r] PROVE TmpWhole(r, f)'
  BY DEF WholeTmp
<1> USE DEF Idling, Opening
<1>1. call' = call /\ icp' = icp /\ token' = token /\ gtmp' = gtmp
  BY DEF SyncPost, memory, heads
<1>2. \A q \in Rank : pc[q] = "sync" BY AllSync
<1>3. Asked(r)' <=> Asked(r) BY <1>1 DEF Asked
<1>4. CASE ltmp' = ltmp BY <1>1, <1>2, <1>3, <1>4, TmpWholeKept
<1>5. CASE /\ \A q \in Rank : Valid(q)
           /\ ltmp' = WithCopies(lvel[Root])
  <2>1. CASE f \in ltmp[r] \cup gtmp[r] BY <1>1, <1>2, <1>3, <2>1, TmpWholeKept
  <2>2. CASE f \notin ltmp[r] \cup gtmp[r]
    <3>1. Left(r) \in Rank BY Neighbours
    <3>2. f \in WithCopies(lvel[Root])[r] BY <1>1, <1>5, <2>2
    <3>3. call[Left(r)] = call[r] BY <1>2, <1>5, <3>1, SyncSame
    <3>4. \A g \in ThisCall(Left(r)) : g.vars = Var
      <4> SUFFICES ASSUME NEW g \in ThisCall(Left(r)) PROVE g.vars = Var OBVIOUS
      <4>1. g \in ltmp[Left(r)] /\ g.call = call[Left(r)] BY DEF ThisCall
      <4>2. Valid(Left(r)) /\ pc[Left(r)] = "sync" BY <1>2, <1>5, <3>1
      <4> QED BY <3>1, <4>1, <4>2, ValidWhole
    <3>5. f.kind = "copy" /\ f.call = call[r] /\ f.vars = Var
      BY <2>2, <3>2, <3>3, <3>4, CopiesWhole
    <3>6. call[r] \in Nat BY CallRange
    <3> QED BY <1>1, <3>5, <3>6 DEF TmpWhole
  <2> QED BY <2>1, <2>2
<1> QED BY <1>4, <1>5, AllSync

LEMMA TmpWholeAll ==
  ASSUME TypeInv, AnswerInv, CtlInv, WholeTmp,
         SumICP \/ MetaICP \/ BarrierICP \/ HeadsICP
  PROVE  WholeTmp'
<1> SUFFICES ASSUME NEW r \in Rank, NEW f \in ltmp'[r] \cup gtmp'[r] PROVE TmpWhole(r, f)'
  BY DEF WholeTmp
<1> USE DEF Idling
<1>1. call' = call BY DEF SumICP, MetaICP, BarrierICP, HeadsICP
<1>2. ltmp'[r] \subseteq ltmp[r] /\ gtmp'[r] \subseteq gtmp[r]
  BY DEF SumICP, MetaICP, BarrierICP, HeadsICP, disk
<1>3. Asked(r)' => Asked(r)
  <2>1. token' = token \/ token'[r] = None
    BY DEF SumICP, MetaICP, BarrierICP, HeadsICP, heads
  <2> QED BY <2>1 DEF Asked
<1>4. \/ pc'[r] \in Idling
      \/ pc[r] \notin Idling /\ icp'[r].wrote = icp[r].wrote
  <2>1. CASE SumICP BY <2>1, AllSum
  <2>2. CASE MetaICP BY <2>2, AllMeta
  <2>3. CASE BarrierICP BY <2>3 DEF BarrierICP, AllAt, At, memory
  <2>4. CASE HeadsICP BY <2>4 DEF HeadsICP, AnswerInv
  <2> QED BY <2>1, <2>2, <2>3, <2>4
<1>5. f \in ltmp[r] \cup gtmp[r] BY <1>2
<1> QED BY <1>1, <1>3, <1>4, <1>5, TmpWholeKept

LEMMA TmpWholeRestart ==
  ASSUME TypeInv, AnswerInv, CtlInv, WholeTmp,
         Crash \/ Restart \/ RecoverL1 \/ RecoverL2 \/ RecoverL4
  PROVE  WholeTmp'
<1> SUFFICES ASSUME NEW r \in Rank, NEW f \in ltmp'[r] \cup gtmp'[r] PROVE TmpWhole(r, f)'
  BY DEF WholeTmp
<1>1. CASE Crash
  <2>1. /\ pc'[r] = "down" /\ token'[r] = None /\ call'[r] = Len(plan)
        /\ ltmp'[r] \subseteq ltmp[r] /\ gtmp'[r] = gtmp[r]
    BY <1>1 DEF Crash, AllGoto
  <2>2. TmpWhole(r, f) BY <2>1 DEF WholeTmp
  <2>3. f.call <= call'[r]
    <3>1. f.call \in Nat
      <4>1. ltmp[r] \in SUBSET Files /\ gtmp[r] \in SUBSET Files BY Typed
      <4> QED BY <2>1, <4>1 DEF Files
    <3>2. call[r] \in 0 .. Len(plan) /\ Len(plan) \in Nat BY CallRange, Typed
    <3>3. f.call <= call[r] BY <2>2 DEF TmpWhole
    <3> QED BY <2>1, <3>1, <3>2, <3>3
  <2> QED BY <2>1, <2>3 DEF TmpWhole, Asked, Idling
<1>2. CASE ~Crash
  <2>1. /\ pc'[r] \in Idling /\ call' = call /\ token'[r] = None
        /\ ltmp' = ltmp /\ gtmp' = gtmp
    BY <1>2, RestartFacts DEF AllGoto, Idling
  <2> QED BY <2>1, TmpWholeKept DEF Asked
<1> QED BY <1>1, <1>2

LEMMA WholeStill ==
  ASSUME CommittedWhole, (torn' => AllAt("down")') => (torn => AllAt("down")),
         \A l \in Level, r \in Rank : Complete(dir[l][r]) => Complete(dir'[l][r])
  PROVE  CommittedWhole'
<1> SUFFICES ASSUME torn => AllAt("down"), NEW l \in Level, NEW r \in Rank
             PROVE  Complete(dir'[l][r])
  BY DEF CommittedWhole, Complete
<1>1. Complete(dir[l][r]) BY DEF CommittedWhole, Complete
<1> QED BY <1>1

(* After a crash between the renames nothing is said once the processes    *)
(* run again.                                                              *)
LEMMA WorkRuns ==
  ASSUME TypeInv, AnswerInv, Work
  PROVE  ~AllAt("down")'
<1> USE RankFacts DEF AllAt, At
<1>1. ASSUME NEW r \in Rank, RankStep(r) PROVE pc'[r] # "down"
  BY <1>1, InitFacts, AddFacts, CloseFacts, SendFacts, EndedFacts, PostFacts, MoveFacts, LastFacts
  DEF RankStep
<1>2. CASE SumICP \/ MetaICP \/ SyncPost \/ BarrierICP
  BY <1>2 DEF SumICP, MetaICP, SyncPost, BarrierICP, AllGoto
<1>3. CASE HeadsICP BY <1>3 DEF HeadsICP, AnswerInv
<1> QED BY <1>1, <1>2, <1>3 DEF Work, IcpStep, RankStep

LEMMA WholeRename ==
  ASSUME TypeInv, AnswerInv, CtlInv, AgreeInv, TmpInv, WholeTmp, NEW r \in Rank, RenameICP(r),
         NEW l \in Level, NEW q \in Rank
  PROVE  Complete(dir[l][q]) => Complete(dir'[l][q])
<1> USE LevelFacts, Typed DEF Moving, Level
<1>1. pc[r] = "rename" BY MoveFacts DEF RenameICP, At
<1>2. \A p \in Rank : /\ pc[p] \in Moving /\ Valid(p) /\ lvel[p] = lvel[r]
                      /\ lvel[p] \in CallLevels /\ Inline(lvel[p])
  BY <1>1, MovingSame
<1>3. \A p \in Rank : TmpInfo(p) BY DEF TmpInv
<1>4. \A p \in Rank : pc[p] \notin Idling \cup Opening BY <1>2 DEF Idling, Opening
<1>5. CASE lvel[r] = 4
  <2>1. dir' = dir \/ dir' = [dir EXCEPT ![4] = gtmp] BY <1>5 DEF RenameICP
  <2>2. dir'[l][q] = dir[l][q] \/ dir'[l][q] = gtmp[q] BY <2>1
  <2>3. gtmp[q] # {} => Has(gtmp[q], "ckpt", q)
    <3>1. OnPfs(lvel[q]) BY <1>2, <1>5 DEF OnPfs
    <3>2. pc[q] \in Using \cup {"barrier"} BY <1>2 DEF Using
    <3> QED BY <1>2, <1>3, <3>1, <3>2 DEF TmpInfo
  <2>4. gtmp[q] # {} => Complete(gtmp[q])
    <3>1. \A f \in gtmp[q] : f.call <= call[q] /\ (f.call = call[q] => f.vars = Var)
      BY <1>2, <1>4, ValidWhole
    <3>2. gtmp[q] \in SUBSET Files OBVIOUS
    <3> QED BY <2>3, <3>1, <3>2, HasWhole
  <2>5. gtmp[q] = {} => Complete(gtmp[q]) BY DEF Complete
  <2> QED BY <2>2, <2>4, <2>5
<1>6. CASE lvel[r] # 4
  <2>1. dir' = [dir EXCEPT ![lvel[r]] = [dir[lvel[r]] EXCEPT ![r] = ltmp[r]]]
    BY <1>2, <1>6 DEF RenameICP
  <2>2. dir'[l] = dir[l] \/ dir'[l] = [dir[l] EXCEPT ![r] = ltmp[r]] BY <2>1
  <2>3. dir[l] \in [Rank -> SUBSET Files] OBVIOUS
  <2>4. dir'[l][q] = dir[l][q] \/ (q = r /\ dir'[l][q] = ltmp[r]) BY <2>2, <2>3
  <2>5. Has(ltmp[r], "ckpt", r) BY <1>1, <1>2, <1>3, <1>6 DEF TmpInfo, OnPfs, Using
  <2>6. \A f \in ltmp[r] : f.call <= call[r] /\ (f.call = call[r] => f.vars = Var)
    BY <1>2, <1>4, ValidWhole
  <2>7. ltmp[r] \in SUBSET Files OBVIOUS
  <2>8. Complete(ltmp[r]) BY <2>5, <2>6, <2>7, HasWhole
  <2> QED BY <2>4, <2>8
<1> QED BY <1>5, <1>6

LEMMA WholeHeads ==
  ASSUME TypeInv, AnswerInv, CtlInv, AgreeInv, TmpInv, WholeTmp, HeadsICP,
         NEW k \in Level, NEW r \in Rank
  PROVE  Complete(dir[k][r]) => Complete(dir'[k][r])
<1>1. CASE dir' = dir BY <1>1
<1>2. ASSUME \A q \in Rank : Asked(q),
             dir'[k] = IF k = 4 /\ token[Root] = 4 THEN [q \in Rank |-> ThisCall(q)]
                       ELSE IF k = token[Root] \/ (token[Root] = 4 /\ k = 1)
                       THEN WithCopies(token[Root])
                       ELSE IF k < token[Root] THEN [q \in Rank |-> {}] ELSE dir[k]
      PROVE  Complete(dir[k][r]) => Complete(dir'[k][r])
  <2>1. \A q \in Rank : call[q] = call[r] BY <1>2, HeadsSame
  <2>2. \A q \in Rank : \A f \in ThisCall(q) : f.vars = Var
    BY <1>2, AskedWhole DEF ThisCall
  <2>3. Complete(ThisCall(r)) BY <2>2 DEF Complete
  <2>4. ASSUME NEW l PROVE Complete(WithCopies(l)[r])
    <3>1. Has(WithCopies(l)[r], "ckpt", r) BY <1>2, AskedFile
    <3>2. WithCopies(l)[r] \in SUBSET Files BY CopiesType
    <3>3. ASSUME NEW f \in WithCopies(l)[r]
          PROVE  f.call <= call[r] /\ (f.call = call[r] => f.vars = Var)
      <4>1. Left(r) \in Rank /\ call[r] \in Nat BY Neighbours, CallRange
      <4>2. f \in ltmp[r] \/ (f.call = call[r] /\ f.vars = Var)
        BY <2>1, <2>2, <4>1, CopiesWhole
      <4> QED BY <1>2, <4>1, <4>2, AskedWhole
    <3> QED BY <3>1, <3>2, <3>3, HasWhole
  <2>5. Complete({}) BY DEF Complete
  <2> QED BY <1>2, <2>3, <2>4, <2>5
<1> QED BY <1>1, <1>2, HeadsFacts

LEMMA WholeWork ==
  ASSUME TypeInv, AnswerInv, StoreInv, WholeInv, Work
  PROVE  CommittedWhole'
<1> USE DEF StoreInv, WholeInv
<1>1. IcpStep /\ torn' = torn BY DEF Work
<1>2. ASSUME \A l \in Level, r \in Rank : Complete(dir[l][r]) => Complete(dir'[l][r])
      PROVE  CommittedWhole'
  BY <1>1, <1>2, WholeStill, WorkRuns
<1>3. CASE dir' = dir BY <1>2, <1>3
<1>4. ASSUME NEW r \in Rank, CleanICP(r) PROVE CommittedWhole'
  <2>1. \A l \in Level, q \in Rank : dir'[l][q] = {} \/ dir'[l][q] = dir[l][q]
    BY <1>4 DEF CleanICP, Cleaned
  <2> QED BY <1>2, <2>1 DEF Complete
<1>5. ASSUME NEW r \in Rank, RenameICP(r) PROVE CommittedWhole' BY <1>2, <1>5, WholeRename
<1>6. CASE HeadsICP BY <1>2, <1>6, WholeHeads
<1>7. ASSUME NEW r \in Rank,
             \/ InitICP(r) \/ AddVarICP(r) \/ FinalizeICP(r) \/ CloseICP(r) \/ SendICP(r)
             \/ PostICP(r) \/ DiscardICP(r) \/ EndICP(r)
      PROVE  dir' = dir
  BY <1>7 DEF InitICP, AddVarICP, FinalizeICP, CloseICP, SendICP, PostICP, DiscardICP, EndICP, disk
<1>8. CASE SumICP \/ MetaICP \/ SyncPost \/ BarrierICP
  BY <1>3, <1>8 DEF SumICP, MetaICP, SyncPost, BarrierICP, disk
<1> QED BY <1>1, <1>3, <1>4, <1>5, <1>6, <1>7, <1>8 DEF IcpStep

LEMMA UniformWhole ==
  ASSUME TypeInv, CommittedWhole, ~torn, Single(dir[2]), Uniform(2, dir[2]),
         NEW r \in Rank, NEW f \in dir[2][r]
  PROVE  f.vars = Var
<1>1. 2 \in Level BY DEF Level
<1>2. dir[2][r] \in SUBSET Files BY <1>1, Typed
<1>3. \A g \in dir[2][r] : g.kind \in Kinds(2) /\ g.call \in Nat BY <1>2 DEF Files, Kinds
<1>4. \A g \in dir[2][r] : g.call = f.call BY <1>3 DEF Uniform
<1>5. \A g \in dir[2][r] : g.call <= f.call BY <1>3, <1>4
<1> QED BY <1>1, <1>5 DEF CommittedWhole

LEMMA RebuiltWhole ==
  ASSUME TypeInv, CommittedWhole, ~torn, Single(dir[2]), Uniform(2, dir[2]),
         NEW own, NEW copy, NEW i, NEW r \in Rank
  PROVE  Complete(Rebuilt(own, copy, i)[r])
<1>1. Rebuilt(own, copy, i)[r] \in SUBSET Files BY RebuiltType
<1> SUFFICES ASSUME NEW f \in Rebuilt(own, copy, i)[r] PROVE f.vars = Var BY DEF Complete
<1>2. f.kind \in Kinds(2) BY <1>1 DEF Files, Kinds
<1>3. PICK q \in Rank : \E g \in dir[2][q] : g.vars = f.vars BY <1>2, RebuiltFrom
<1> QED BY <1>3, UniformWhole

LEMMA WholeRestart ==
  ASSUME TypeInv, AnswerInv, StoreInv, CommittedWhole,
         Crash \/ Restart \/ RecoverL1 \/ RecoverL2 \/ RecoverL4
  PROVE  CommittedWhole'
<1> USE DEF StoreInv
<1>1. CASE Crash
  <2>1. ~torn BY <1>1 DEF Crash
  <2>2. \A l \in Level, r \in Rank : dir'[l][r] = {} \/ dir'[l][r] = dir[l][r]
    BY <1>1 DEF Crash
  <2>3. \A l \in Level, r \in Rank : Complete(dir[l][r]) => Complete(dir'[l][r])
    BY <2>2 DEF Complete
  <2> QED BY <2>1, <2>3, WholeStill
<1>2. ASSUME Restart \/ RecoverL1 \/ RecoverL2 \/ RecoverL4
      PROVE  /\ \A r \in Rank : pc[r] = "down"
             /\ AllAt("down") /\ torn' = torn
  BY <1>2, RestartFacts DEF AllAt, At
<1>3. ASSUME Restart \/ RecoverL1 \/ RecoverL2 \/ RecoverL4, dir' = dir PROVE CommittedWhole'
  BY <1>2, <1>3, WholeStill
<1>4. ASSUME RecoverL2 \/ RecoverL4, AllGoto("run"),
             ASSUME ~torn PROVE \A l \in Level, r \in Rank : Complete(dir'[l][r])
      PROVE  CommittedWhole'
  <2>1. ~AllAt("down")' /\ torn' = torn BY <1>2, <1>4, RankFacts DEF AllGoto, AllAt, At
  <2> QED BY <1>4, <2>1 DEF CommittedWhole, Complete
<1>5. CASE Restart BY <1>3, <1>5 DEF Restart, disk
<1>6. CASE RecoverL1 BY <1>3, <1>6, RecoverL1Facts
<1>7. \A l \in Level, r \in Rank : AllAt("down") => Complete(dir[l][r])
  BY DEF CommittedWhole, Complete
<1>8. CASE RecoverL2
  <2>1. CASE dir' = dir BY <1>3, <1>8, <2>1
  <2>2. CASE dir' # dir
    <3>1. PICK own, copy, i : Exchanged(own, copy, i) BY <1>8, <2>2, RecoverL2Facts
    <3>2. AllGoto("run") /\ dir' = [dir EXCEPT ![2] = Rebuilt(own, copy, i)]
      BY <3>1 DEF Exchanged, Recovered
    <3>3. ASSUME ~torn, NEW l \in Level, NEW r \in Rank PROVE Complete(dir'[l][r])
      <4>1. 2 \in Level BY DEF Level
      <4>2. Single(dir[2]) /\ Uniform(2, dir[2]) BY <1>2, <1>8, <3>3, <4>1, DownUniform
      <4>3. Complete(Rebuilt(own, copy, i)[r]) BY <3>3, <4>2, RebuiltWhole
      <4>4. dir'[l][r] = IF l = 2 THEN Rebuilt(own, copy, i)[r] ELSE dir[l][r]
        BY <3>2, Typed
      <4> QED BY <1>2, <1>7, <1>8, <4>3, <4>4
    <3> QED BY <1>4, <1>8, <3>2, <3>3
  <2> QED BY <2>1, <2>2
<1>9. CASE RecoverL4
  <2>1. AllGoto("run") BY <1>9 DEF RecoverL4, Recovered
  <2>2. ASSUME NEW r \in Rank PROVE Complete(dir'[1][r]) /\ \A l \in Level : l # 1 => dir'[l] = dir[l]
    <3>1. 1 \in Level BY DEF Level
    <3>2. CASE dir' = [dir EXCEPT ![1] = [q \in Rank |-> {}]]
      <4>1. dir'[1][r] = {} /\ \A l \in Level : l # 1 => dir'[l] = dir[l] BY <3>1, <3>2, Typed
      <4> QED BY <4>1 DEF Complete
    <3>3. CASE dir' # [dir EXCEPT ![1] = [q \in Rank |-> {}]]
      <4>1. PICK name : /\ \A q \in Rank : Sound(name[q])
                        /\ dir' = [dir EXCEPT ![1] = [q \in Rank |-> {name[q]}]]
        BY <1>9, <3>3, RecoverL4Facts
      <4>2. dir'[1][r] = {name[r]} /\ \A l \in Level : l # 1 => dir'[l] = dir[l]
        BY <3>1, <4>1, Typed
      <4>3. name[r].vars = Var BY <4>1 DEF Sound
      <4> QED BY <4>2, <4>3 DEF Complete
    <3> QED BY <3>2, <3>3
  <2>3. ASSUME ~torn, NEW l \in Level, NEW r \in Rank PROVE Complete(dir'[l][r])
    <3>1. l # 1 => dir'[l] = dir[l] BY <2>2, <2>3
    <3> QED BY <1>2, <1>7, <1>9, <2>2, <3>1
  <2> QED BY <1>4, <1>9, <2>1, <2>3
<1> QED BY <1>1, <1>5, <1>6, <1>8, <1>9

LEMMA WholeInit == RestartInit => WholeInv
BY DEF RestartInit, Init, WholeInv, WholeTmp, CommittedWhole

LEMMA WholeStep ==
  ASSUME TypeInv, AnswerInv, StoreInv, WholeInv, 0 \notin UninitRes, [RestartNext]_allVars
  PROVE  WholeInv'
<1> USE DEF StoreInv, WholeInv
<1>1. ASSUME NEW r \in Rank, RankStep(r) PROVE WholeTmp'
  <2>1. ASSUME NEW q \in Rank PROVE \A f \in ltmp'[q] \cup gtmp'[q] : TmpWhole(q, f)'
    <3>1. CASE q = r BY <1>1, <3>1, TmpWholeOwn
    <3>2. CASE q # r BY <1>1, <3>2, TmpWholeOthers
    <3> QED BY <3>1, <3>2
  <2> QED BY <2>1 DEF WholeTmp
<1>2. CASE Work
  <2>1. CommittedWhole' BY <1>2, WholeWork
  <2>2. WholeTmp' BY <1>1, <1>2, TmpWholeSync, TmpWholeAll DEF Work, IcpStep, RankStep
  <2> QED BY <2>1, <2>2
<1>3. CASE Crash \/ Restart \/ RecoverL1 \/ RecoverL2 \/ RecoverL4
  BY <1>3, WholeRestart, TmpWholeRestart
<1>4. CASE UNCHANGED allVars
  <2> USE <1>4 DEF allVars, restartVars, vars, memory, heads, disk
  <2>1. WholeTmp' BY DEF WholeTmp, TmpWhole, Asked
  <2>2. CommittedWhole' BY DEF CommittedWhole, AllAt, At
  <2> QED BY <2>1, <2>2
<1> QED BY <1>2, <1>3, <1>4 DEF RestartNext, Finished

(* No checkpoint that a restart looks for lacks a variable, whatever the   *)
(* processes added, skipped and failed to write: the processes exchange    *)
(* their results before any of them commits (api.c:1571), and what a file  *)
(* lacks does not reach the directory of a level, neither from the process *)
(* itself nor from its head, nor as the partner's copy.                    *)
THEOREM CommittedHoldsAll ==
  ASSUME 0 \notin UninitRes PROVE RestartSpec => []CommittedWhole
<1>1. RestartInit => WholeInv BY WholeInit
<1>2. TypeInv /\ AnswerInv /\ StoreInv /\ WholeInv /\ [RestartNext]_allVars => WholeInv'
  BY WholeStep
<1>3. WholeInv => CommittedWhole BY DEF WholeInv
<1> QED BY <1>1, <1>2, <1>3, AlwaysStored, PTL DEF RestartSpec
=============================================================================

------------------------- MODULE FtiffNewestProofs --------------------------
(***************************************************************************)
(* A proof about FtiffRestart, for every number of processes, variables,   *)
(* calls, faults, crashes and lost nodes: a restart gives every process    *)
(* the data of the last checkpoint that was committed or of a newer one,   *)
(* as long as the level of that checkpoint bears the nodes lost since.     *)
(*                                                                         *)
(* FTI-FF compares no checkpoints: it takes the lowest level at which      *)
(* every process finds a file that it can read.  So what counts is not     *)
(* only that the checkpoint is somewhere, but that no level below it gives *)
(* an older one.                                                           *)
(***************************************************************************)
EXTENDS FtiffRestartProofs, SumLemmas

(* Every file has an id, and the data of its checkpoint: nothing is        *)
(* computed between FTI_InitICP and the last FTI_AddVarICP.                *)
Fresh(S) == \A f \in S : f.stale = {} /\ f.id > 0

FreshInv ==
  \A r \in Rank : /\ Fresh(ltmp[r]) /\ Fresh(gtmp[r])
                  /\ \A l \in Level : Fresh(dir[l][r])

(* S holds one file of a kind at most, so no leftover.                     *)
Lone(S) == \A f, g \in S : f.kind = g.kind => f = g

(* What level l finds in S, if it is alone there, is of call c or newer.   *)
Newer(S, l, c) == Lone(S) => \A f \in S : f.kind \in Kinds(l) => f.call >= c

(* S has a sound file of every kind of level l, of call c or newer.        *)
Ample(S, l, c) == \A k \in Kinds(l) : \E f \in S : f.kind = k /\ Sound(f) /\ f.call >= c

(* Level l holds nothing older than the last checkpoint.                   *)
NoOlder(l) == \A r \in Rank : Newer(dir[l][r], l, done.call)

(* Level l holds the last checkpoint, or a newer one, on all nodes that    *)
(* were not lost, and the levels below it do not hold an older one.        *)
Enough(l) ==
  /\ \A r \in Rank : l = 4 \/ r \notin lost => Ample(dir[l][r], l, done.call)
  /\ \A k \in {1, 2} : k < l => NoOlder(k)

(* Somebody has removed the files of the level and those below it.         *)
Replacing == \E r \in Rank : pc[r] \in {"rename", "barrier"}

(* FTIFF_CheckL2RecoverInit: of every process its file or the partner's    *)
(* copy of it is there.                                                    *)
Usable2 ==
  \A r \in Rank : \/ \E f \in dir[2][r] : f.kind = "ckpt"
                  \/ \E f \in dir[2][Right(r)] : f.kind = "copy"

(* Where a restart finds the last checkpoint: unless it is just being      *)
(* replaced, at a level that bears the loss and has not been passed yet.   *)
Endures ==
  done.call > 0 /\ Bearable =>
    \/ Replacing /\ lvel[Root] >= done.lvl
    \/ \E l \in {1, 2, 4} :
         l >= done.lvl /\ tries <= l /\ (Replacing => l > lvel[Root]) /\ Enough(l)

(* A recovery from level 2 is taken for one of the last checkpoint, if     *)
(* that was at level 2, even where the level does not bear the loss: then  *)
(* too it must not be an older one.                                        *)
Outdated ==
  done.call > 0 /\ done.lvl = 2 => NoOlder(2) /\ (Usable2 /\ ~Replacing => NoOlder(1))

(* Level 4 is tried only when level 2 could not be used.                   *)
Tried == tries = 4 => ~Usable2

(* A process that waits for the others to rename has renamed.              *)
Laid ==
  \A r \in Rank : pc[r] = "barrier" =>
    \A k \in Kinds(lvel[r]) :
      \E f \in dir[lvel[r]][r] : f.kind = k /\ Sound(f) /\ f.call = call[r]

(* No process is before the call of the last checkpoint.                   *)
PastInv ==
  /\ \A r \in Rank : done.call <= call[r]
  /\ done.call \in Nat /\ (done.call > 0 => done.lvl \in CallLevels)

NewestInv ==
  /\ FreshInv /\ PastInv
  /\ format = "ftiff" /\ ~torn => Laid /\ Outdated /\ Tried /\ Endures

(* What a restart owes the processes.                                      *)
Answered == done.call > 0 /\ Bearable => \A r \in Rank : restored'[r].call >= done.call

(* In the exchange of level 2 no process waits for a file in vain.         *)
Received(own, copy, i) ==
  \A r \in Rank :
    /\ own[r] = NoFile => Named(Rebuilt(own, copy, i)[r], "ckpt", i) # {}
    /\ copy[r] = NoFile => Named(Rebuilt(own, copy, i)[r], "copy", i) # {}

(* All files at level 2 are of call c and have the id i.                   *)
AllOf(c, i) == \A r \in Rank : \A f \in dir[2][r] : f.call = c /\ f.id = i

-----------------------------------------------------------------------------
(* All files are fresh                                                     *)

(* What is put into or taken from a fresh directory is fresh.              *)
LEMMA FreshFacts ==
  ASSUME NEW S, NEW T, Fresh(S), Fresh(T), NEW k, NEW i
  PROVE  /\ Fresh(S \cup T) /\ Fresh(Put(S, T)) /\ Fresh(Named(S, k, i)) /\ Fresh({})
         /\ S \in SUBSET Files => Fresh(As(k, S))
<1>1. Fresh(S \cup T) /\ Fresh(Named(S, k, i)) /\ Fresh({}) BY DEF Fresh, Named
<1>2. Fresh(Put(S, T)) BY PutFacts DEF Fresh
<1>3. ASSUME S \in SUBSET Files PROVE Fresh(As(k, S)) BY <1>3, AsFacts DEF Fresh
<1> QED BY <1>1, <1>2, <1>3

(* A process writes fresh files ...                                        *)
LEMMA FreshOwn ==
  ASSUME TypeInv, ~Computes, FreshInv, NEW r \in Rank, RankStep(r)
  PROVE  Fresh(ltmp'[r]) /\ Fresh(gtmp'[r])
<1> USE Typed
<1>0. Fresh(ltmp[r]) /\ Fresh(gtmp[r]) /\ Fresh({}) BY DEF FreshInv, Fresh
<1>1. CASE InitICP(r)
  <2> DEFINE n == File("ckpt", id[r] + 1, call[r] + 1)
  <2>1. Fresh({n})
    <3>1. id[r] \in Nat OBVIOUS
    <3> QED BY <3>1 DEF Fresh, File
  <2>2. PICK l \in Planned(r), bad \in BOOLEAN :
          IF bad THEN UNCHANGED <<ltmp, gtmp>>
          ELSE IF OnPfs(l)
          THEN gtmp' = [gtmp EXCEPT ![r] = Put(@, {n})] /\ UNCHANGED ltmp
          ELSE ltmp' = [ltmp EXCEPT ![r] = Put(@, {n})] /\ UNCHANGED gtmp
    BY <1>1 DEF InitICP
  <2> HIDE DEF n
  <2>3. gtmp'[r] = gtmp[r] \/ gtmp'[r] = Put(gtmp[r], {n}) BY <2>2
  <2>4. ltmp'[r] = ltmp[r] \/ ltmp'[r] = Put(ltmp[r], {n}) BY <2>2
  <2>5. PICK T : T = {n} OBVIOUS
  <2>6. Fresh(T) BY <2>1, <2>5
  <2>7. Fresh(Put(gtmp[r], T)) /\ Fresh(Put(ltmp[r], T))
    <3> HIDE Typed
    <3> QED BY <1>0, <2>6, FreshFacts
  <2> QED BY <1>0, <2>3, <2>4, <2>5, <2>7
<1>2. CASE AddVarICP(r)
  <2>1. PICK v \in Var : \/ ltmp' = ltmp /\ gtmp' = gtmp
                         \/ /\ ltmp' = [ltmp EXCEPT ![r] = Written(r, v, FALSE, ltmp[r])]
                            /\ gtmp' = [gtmp EXCEPT ![r] = Written(r, v, FALSE, gtmp[r])]
    BY <1>2 DEF AddVarICP
  <2>2. ASSUME NEW S \in SUBSET Files, Fresh(S) PROVE Fresh(Written(r, v, FALSE, S))
    <3> SUFFICES ASSUME NEW g \in Written(r, v, FALSE, S) PROVE g.stale = {} /\ g.id > 0
      BY DEF Fresh
    <3>1. PICK f \in S : g = IF f.call = call[r] /\ f.kind = "ckpt"
                             THEN [f EXCEPT !.vars = @ \cup {v}, !.stale = @] ELSE f
      BY DEF Written
    <3> QED BY <2>2, <3>1 DEF Fresh, Files
  <2>3. ltmp[r] \in SUBSET Files /\ gtmp[r] \in SUBSET Files OBVIOUS
  <2>4. Fresh(Written(r, v, FALSE, ltmp[r])) /\ Fresh(Written(r, v, FALSE, gtmp[r]))
    BY <1>0, <2>2, <2>3
  <2> QED BY <1>0, <2>1, <2>4
<1>3. CASE FinalizeICP(r) \/ CloseICP(r) \/ SendICP(r) \/ PostICP(r) \/ EndICP(r) \/ CleanICP(r)
  BY <1>0, <1>3 DEF FinalizeICP, CloseICP, SendICP, PostICP, EndICP, CleanICP, disk
<1>4. CASE DiscardICP(r) \/ RenameICP(r)
  <2>1. ltmp'[r] \in {ltmp[r], {}} /\ gtmp'[r] \in {gtmp[r], {}}
    BY <1>4 DEF DiscardICP, RenameICP
  <2> QED BY <1>0, <2>1
<1> QED BY <1>1, <1>2, <1>3, <1>4 DEF RankStep

(* Where the files of a directory come from.                               *)
LEMMA DirFrom ==
  ASSUME TypeInv, Work, NEW l \in Level, NEW r \in Rank
  PROVE  \/ dir'[l][r] \in {dir[l][r], ltmp[r], gtmp[r], {}, ThisCall(r)}
         \/ \E k : dir'[l][r] = WithCopies(k)[r]
<1> USE Typed
<1>1. ASSUME NEW q \in Rank, CleanICP(q) PROVE dir'[l][r] \in {dir[l][r], {}}
  BY <1>1 DEF CleanICP, Cleaned
<1>2. ASSUME NEW q \in Rank, RenameICP(q) PROVE dir'[l][r] \in {dir[l][r], ltmp[r], gtmp[r]}
  <2>1. \/ dir' = dir
        \/ dir' = [dir EXCEPT ![4] = gtmp]
        \/ dir' = [dir EXCEPT ![lvel[q]] = [dir[lvel[q]] EXCEPT ![q] = ltmp[q]]]
    BY <1>2 DEF RenameICP
  <2>2. CASE dir' = [dir EXCEPT ![lvel[q]] = [dir[lvel[q]] EXCEPT ![q] = ltmp[q]]]
    <3>1. dir'[l] = dir[l] \/ dir'[l] = [dir[l] EXCEPT ![q] = ltmp[q]] BY <2>2
    <3> QED BY <3>1
  <2> QED BY <2>1, <2>2
<1>3. CASE HeadsICP
  <2>1. \/ dir' = dir
        \/ dir'[l] = IF l = 4 /\ token[Root] = 4 THEN [q \in Rank |-> ThisCall(q)]
                     ELSE IF l = token[Root] \/ (token[Root] = 4 /\ l = 1)
                     THEN WithCopies(token[Root])
                     ELSE IF l < token[Root] THEN [q \in Rank |-> {}] ELSE dir[l]
    BY <1>3, HeadsFacts
  <2> QED BY <2>1
<1>4. ASSUME NEW q \in Rank,
             \/ InitICP(q) \/ AddVarICP(q) \/ FinalizeICP(q) \/ CloseICP(q) \/ SendICP(q)
             \/ PostICP(q) \/ DiscardICP(q) \/ EndICP(q)
      PROVE  dir' = dir
  BY <1>4 DEF InitICP, AddVarICP, FinalizeICP, CloseICP, SendICP, PostICP, DiscardICP, EndICP, disk
<1>5. CASE SumICP \/ MetaICP \/ SyncPost \/ BarrierICP
  BY <1>5 DEF SumICP, MetaICP, SyncPost, BarrierICP, disk
<1> QED BY <1>1, <1>2, <1>3, <1>4, <1>5 DEF Work, IcpStep

(* ... the post-processing copies them ...                                 *)
LEMMA CopiesFresh ==
  ASSUME TypeInv, FreshInv, NEW r \in Rank, NEW k
  PROVE  Fresh(WithCopies(k)[r]) /\ Fresh(ThisCall(r))
<1> DEFINE S == ThisCall(Left(r))
           T == As("copy", S)
<1>1. Left(r) \in Rank BY Neighbours
<1>2. S \in SUBSET Files /\ Fresh(S) /\ Fresh(ThisCall(r)) /\ Fresh(ltmp[r])
  BY <1>1, Typed DEF ThisCall, FreshInv, Fresh
<1>3. WithCopies(k)[r] = ltmp[r] \/ WithCopies(k)[r] = Put(ltmp[r], T) BY DEF WithCopies
<1> HIDE DEF S
<1>4. Fresh(T) BY <1>2, FreshFacts
<1> HIDE DEF T
<1> QED BY <1>2, <1>3, <1>4, FreshFacts

(* ... and so they are fresh everywhere while the processes work ...       *)
LEMMA FreshWork ==
  ASSUME TypeInv, AnswerInv, ~Computes, FreshInv, Work
  PROVE  FreshInv'
<1> SUFFICES ASSUME NEW q \in Rank
             PROVE  /\ Fresh(ltmp'[q]) /\ Fresh(gtmp'[q])
                    /\ \A l \in Level : Fresh(dir'[l][q])
  BY DEF FreshInv, Fresh
<1>0. Fresh(ltmp[q]) /\ Fresh(gtmp[q]) /\ Fresh({}) BY DEF FreshInv, Fresh
<1>1. ASSUME NEW l \in Level PROVE Fresh(dir'[l][q])
  <2>1. Fresh(dir[l][q]) BY DEF FreshInv
  <2>2. Fresh(ThisCall(q)) /\ \A k : Fresh(WithCopies(k)[q]) BY CopiesFresh
  <2> QED BY <1>0, <2>1, <2>2, DirFrom
<1>2. Fresh(ltmp'[q]) /\ Fresh(gtmp'[q])
  <2>1. ASSUME NEW r \in Rank, RankStep(r) PROVE Fresh(ltmp'[q]) /\ Fresh(gtmp'[q])
    <3>1. CASE q = r BY <2>1, <3>1, FreshOwn
    <3>2. CASE q # r BY <1>0, <2>1, <3>2, OthersDisk
    <3> QED BY <3>1, <3>2
  <2>2. CASE SumICP \/ MetaICP \/ BarrierICP \/ HeadsICP
    <3>1. ltmp'[q] \in {ltmp[q], {}} /\ gtmp'[q] \in {gtmp[q], {}}
      BY <2>2 DEF SumICP, MetaICP, BarrierICP, HeadsICP, disk
    <3> QED BY <1>0, <3>1
  <2>3. CASE SyncPost
    <3>1. (ltmp' = ltmp \/ ltmp' = WithCopies(lvel[Root])) /\ gtmp' = gtmp
      BY <2>3 DEF SyncPost
    <3>2. \A k : Fresh(WithCopies(k)[q]) BY CopiesFresh
    <3> QED BY <1>0, <3>1, <3>2
  <2> QED BY <2>1, <2>2, <2>3 DEF Work, IcpStep, RankStep
<1> QED BY <1>1, <1>2

(* ... after the exchange of level 2 ...                                   *)
LEMMA RebuiltFresh ==
  ASSUME TypeInv, FreshInv, NEW own, NEW copy, NEW i, NEW r \in Rank
  PROVE  Fresh(Rebuilt(own, copy, i)[r])
<1> DEFINE S == Named(dir[2][Right(r)], "copy", i)
           T == Named(dir[2][Left(r)], "ckpt", i)
           A == IF own[r] # NoFile THEN {} ELSE As("ckpt", S)
           B == IF copy[r] # NoFile THEN {} ELSE As("copy", T)
<1>1. Rebuilt(own, copy, i)[r] = Put(dir[2][r], A \cup B) BY DEF Rebuilt
<1>2. Left(r) \in Rank /\ Right(r) \in Rank /\ 2 \in Level BY Neighbours DEF Level
<1>3. /\ S \in SUBSET Files /\ T \in SUBSET Files /\ Fresh(S) /\ Fresh(T)
      /\ Fresh(dir[2][r]) /\ Fresh({})
  BY <1>2, Typed DEF Named, FreshInv, Fresh
<1> HIDE DEF S, T
<1>4. Fresh(A) /\ Fresh(B) BY <1>3, FreshFacts
<1> HIDE DEF A, B
<1>5. Fresh(A \cup B) BY <1>4, FreshFacts
<1> QED BY <1>1, <1>3, <1>5, FreshFacts

(* ... and after a crash and a restart.                                    *)
LEMMA FreshRestart ==
  ASSUME TypeInv, AnswerInv, CtlInv, FreshInv,
         Crash \/ Restart \/ RecoverL1 \/ RecoverL2 \/ RecoverL4
  PROVE  FreshInv'
<1> SUFFICES ASSUME NEW q \in Rank
             PROVE  /\ Fresh(ltmp'[q]) /\ Fresh(gtmp'[q])
                    /\ \A l \in Level : Fresh(dir'[l][q])
  BY DEF FreshInv, Fresh
<1> USE Typed DEF Level
<1>0. Fresh(ltmp[q]) /\ Fresh(gtmp[q]) /\ Fresh({}) /\ \A l \in Level : Fresh(dir[l][q])
  BY DEF FreshInv, Fresh
<1>1. CASE Crash
  <2>1. /\ ltmp'[q] \in {ltmp[q], {}} /\ gtmp' = gtmp
        /\ \A l \in Level : dir'[l][q] \in {dir[l][q], {}}
    BY <1>1 DEF Crash
  <2> QED BY <1>0, <2>1
<1>2. CASE ~Crash
  <2>1. ltmp' = ltmp /\ gtmp' = gtmp BY <1>2, RestartFacts
  <2>2. CASE Restart \/ RecoverL1 BY <1>0, <2>1, <2>2 DEF Restart, RecoverL1, disk
  <2>3. CASE RecoverL2
    <3>1. CASE dir' = dir BY <1>0, <2>1, <3>1
    <3>2. CASE dir' # dir
      <4>1. PICK own, copy, i : dir' = [dir EXCEPT ![2] = Rebuilt(own, copy, i)]
        BY <2>3, <3>2, RecoverL2Facts DEF Exchanged
      <4>2. Fresh(Rebuilt(own, copy, i)[q]) BY RebuiltFresh
      <4> QED BY <1>0, <2>1, <4>1, <4>2
    <3> QED BY <3>1, <3>2
  <2>4. CASE RecoverL4
    <3>1. CASE dir' = [dir EXCEPT ![1] = [r \in Rank |-> {}]] BY <1>0, <2>1, <3>1
    <3>2. CASE dir' # [dir EXCEPT ![1] = [r \in Rank |-> {}]]
      <4>1. PICK name : /\ \A r \in Rank : name[r] \in Found(dir[4][r], "ckpt")
                        /\ \A r \in Rank : Sound(name[r])
                        /\ dir' = [dir EXCEPT ![1] = [r \in Rank |-> {name[r]}]]
        BY <2>4, <3>2, RecoverL4Facts
      <4>2. name[q] \in dir[4][q] BY <4>1, SoundFound
      <4>3. Fresh({name[q]}) BY <1>0, <4>2 DEF Fresh
      <4> QED BY <1>0, <2>1, <4>1, <4>3
    <3> QED BY <3>1, <3>2
  <2> QED BY <1>2, <2>2, <2>3, <2>4
<1> QED BY <1>1, <1>2

-----------------------------------------------------------------------------
(* What is committed, and the moves of the directories                     *)

(* Calls are only counted upwards.                                         *)
LEMMA PastStep ==
  ASSUME TypeInv, AnswerInv, CtlInv, AgreeInv, PastInv, [RestartNext]_allVars
  PROVE  PastInv'
<1> USE RankFacts, Typed, CallRange, LevelFacts DEF PastInv
<1>0. ASSUME done' = done, \A q \in Rank : call'[q] \in Nat /\ call'[q] >= call[q] PROVE PastInv'
  BY <1>0
<1>1. ASSUME NEW r \in Rank, RankStep(r) PROVE PastInv'
  <2>1. call'[r] \in {call[r], call[r] + 1} /\ done' = done
    <3> HIDE RankFacts, Typed, CallRange, LevelFacts DEF PastInv
    <3>1. CASE InitICP(r) BY <3>1, InitFacts
    <3>2. CASE AddVarICP(r) \/ CloseICP(r) \/ SendICP(r) BY <3>2, AddFacts, CloseFacts, SendFacts
    <3>3. CASE PostICP(r) BY <3>3, PostFacts
    <3>4. CASE FinalizeICP(r) \/ CleanICP(r) \/ RenameICP(r) BY <3>4, MoveFacts
    <3>5. CASE DiscardICP(r) \/ EndICP(r) BY <3>5, LastFacts
    <3> QED BY <1>1, <3>1, <3>2, <3>3, <3>4, <3>5 DEF RankStep
  <2>2. \A q \in Rank : q # r => call'[q] = call[q] BY <1>1, OthersMemory
  <2> QED BY <1>0, <2>1, <2>2
<1>2. CASE SumICP \/ MetaICP \/ SyncPost
  BY <1>0, <1>2 DEF SumICP, MetaICP, SyncPost
<1>3. CASE BarrierICP
  <2>1. call' = call /\ done'.call = call[Root] /\ done'.lvl = lvel[Root] BY <1>3 DEF BarrierICP
  <2>2. pc[Root] \in Moving BY <1>3 DEF BarrierICP, AllAt, At, Moving
  <2>3. lvel[Root] \in CallLevels /\ \A q \in Rank : call[q] = call[Root] BY <2>2, MovingSame
  <2> QED BY <2>1, <2>3
<1>4. CASE HeadsICP
  <2>1. CASE done' = done BY <1>0, <1>4, <2>1, HeadsFacts
  <2>2. CASE done' # done
    <3>1. /\ \A q \in Rank : Asked(q)
          /\ call' = call /\ done'.call = call[Root] /\ done'.lvl = token[Root]
      BY <1>4, <2>2, HeadsFacts
    <3>2. \A q \in Rank : call[q] = call[Root] BY <3>1, HeadsSame
    <3>3. token[Root] \in CallLevels BY <3>1 DEF Asked
    <3> QED BY <3>1, <3>2, <3>3
  <2> QED BY <2>1, <2>2
<1>5. CASE Crash
  <2>1. done' = done /\ \A q \in Rank : call'[q] = Len(plan) BY <1>5 DEF Crash
  <2> QED BY <1>0, <2>1
<1>6. CASE Restart \/ RecoverL1 \/ RecoverL2 \/ RecoverL4
  <2>1. call' = call BY <1>6, RestartFacts
  <2>2. done' = done
    BY <1>6 DEF Restart, RecoverL1, RecoverL2, RecoverL4, StillDown
  <2> QED BY <1>0, <2>1, <2>2
<1>7. CASE UNCHANGED allVars BY <1>0, <1>7 DEF allVars, vars
<1> QED BY <1>1, <1>2, <1>3, <1>4, <1>5, <1>6, <1>7
    DEF RestartNext, Finished, Work, IcpStep, RankStep

(* What a process renames is its file of the call, sound, and at level 2   *)
(* the partner's copy.                                                     *)
LEMMA RenamedFiles ==
  ASSUME TypeInv, AnswerInv, CtlInv, AgreeInv, TmpInv, WholeTmp, FreshInv, PastInv,
         format = "ftiff", ~torn, 4 \in CallLevels => 4 \in Async,
         NEW r \in Rank, pc[r] = "rename"
  PROVE  /\ \A k \in Kinds(lvel[r]) : \E f \in ltmp[r] : f.kind = k /\ Sound(f) /\ f.call = call[r]
         /\ Newer(ltmp[r], lvel[r], done.call)
<1> USE Typed, LevelFacts
<1>1. Valid(r) /\ lvel[r] \in CallLevels /\ Inline(lvel[r]) BY MovingSame DEF Moving
<1>2. lvel[r] # 4 BY <1>1 DEF Inline
<1>3. Has(ltmp[r], "ckpt", r) /\ (lvel[r] = 2 => Has(ltmp[r], "copy", r))
  BY <1>1, <1>2 DEF TmpInv, TmpInfo, Using, OnPfs
<1>4. ASSUME NEW k \in Kinds(lvel[r])
      PROVE  \E f \in ltmp[r] : f.kind = k /\ Sound(f) /\ f.call = call[r]
  <2>1. PICK f \in ltmp[r] : f.kind = k /\ f.call = call[r] BY <1>3 DEF Has, Kinds
  <2>2. f.vars = Var BY <1>1, <2>1, ValidWhole DEF Idling, Opening
  <2>3. f \in Files OBVIOUS
  <2>4. f.stale = {} BY DEF FreshInv, Fresh
  <2>5. f.kind # "none" BY <2>3 DEF Files
  <2> QED BY <2>1, <2>2, <2>4, <2>5 DEF Sound
<1>5. call[r] >= done.call BY DEF PastInv
<1>6. Newer(ltmp[r], lvel[r], done.call)
  <2> SUFFICES ASSUME Lone(ltmp[r]), NEW f \in ltmp[r], f.kind \in Kinds(lvel[r])
               PROVE  f.call >= done.call
    BY DEF Newer
  <2>1. PICK g \in ltmp[r] : g.kind = f.kind /\ g.call = call[r] BY <1>4
  <2> QED BY <1>5, <2>1 DEF Lone
<1> QED BY <1>4, <1>6

(* How the commit changes the local directories: those of the process are  *)
(* emptied, and that of the level is filled.                               *)
LEMMA MoveDirs ==
  ASSUME TypeInv, AnswerInv, CtlInv, AgreeInv, 4 \in CallLevels => 4 \in Async,
         NEW r \in Rank, CleanICP(r) \/ RenameICP(r)
  PROVE  /\ lvel[Root] = lvel[r] /\ lvel[r] \in {1, 2} /\ lvel' = lvel /\ call' = call
         /\ \A q \in Rank : lvel[q] = lvel[r]
         /\ done' = done /\ pc'[r] \in {"rename", "barrier"}
         /\ pc[r] = IF CleanICP(r) THEN "clean" ELSE "rename"
         /\ pc'[r] = IF CleanICP(r) THEN "rename" ELSE "barrier"
         /\ \A l \in Level, q \in Rank :
              dir'[l][q] = IF CleanICP(r)
                           THEN IF l <= lvel[r] /\ q = r THEN {} ELSE dir[l][q]
                           ELSE IF l = lvel[r] /\ q = r THEN ltmp[r] ELSE dir[l][q]
<1> USE RankFacts, Typed, LevelFacts
<1>1. /\ lvel' = lvel /\ call' = call /\ done' = done
      /\ pc[r] = IF CleanICP(r) THEN "clean" ELSE "rename"
      /\ pc'[r] = IF CleanICP(r) THEN "rename" ELSE "barrier"
  BY DEF CleanICP, RenameICP, memory, At, Goto
<1>2. pc[r] \in Moving BY <1>1 DEF Moving
<1>3. (\A q \in Rank : lvel[q] = lvel[r]) /\ lvel[r] \in CallLevels /\ Inline(lvel[r])
  BY <1>2, MovingSame
<1>4. lvel[r] \in {1, 2} BY <1>3 DEF Inline
<1>5. ASSUME NEW l \in Level, NEW q \in Rank, CleanICP(r)
      PROVE  dir'[l][q] = IF l <= lvel[r] /\ q = r THEN {} ELSE dir[l][q]
  BY <1>4, <1>5 DEF CleanICP, Cleaned
<1>6. ASSUME NEW l \in Level, NEW q \in Rank, ~CleanICP(r)
      PROVE  dir'[l][q] = IF l = lvel[r] /\ q = r THEN ltmp[r] ELSE dir[l][q]
  <2>1. dir' = [dir EXCEPT ![lvel[r]] = [dir[lvel[r]] EXCEPT ![r] = ltmp[r]]]
    BY <1>4, <1>6 DEF RenameICP, Reject
  <2>2. dir'[l] = IF l = lvel[r] THEN [dir[l] EXCEPT ![r] = ltmp[r]] ELSE dir[l] BY <2>1
  <2>3. dir[l] \in [Rank -> SUBSET Files] OBVIOUS
  <2> QED BY <2>2, <2>3
<1> QED BY <1>1, <1>3, <1>4, <1>5, <1>6

(* A process at the barrier of FTI_PostCkpt has its files in place, and no *)
(* other process touches them.                                             *)
LEMMA LaidStep ==
  ASSUME TypeInv, AnswerInv, CtlInv, AgreeInv, TmpInv, WholeTmp, FreshInv, PastInv,
         format = "ftiff", ~torn, 4 \in CallLevels => 4 \in Async, Work, Laid
  PROVE  Laid'
<1> USE Typed, LevelFacts
<1> SUFFICES ASSUME NEW q \in Rank, pc'[q] = "barrier", NEW k \in Kinds(lvel'[q])
             PROVE  \E f \in dir'[lvel'[q]][q] : f.kind = k /\ Sound(f) /\ f.call = call'[q]
  BY DEF Laid
<1>1. ASSUME NEW r \in Rank, CleanICP(r) \/ RenameICP(r)
      PROVE  \E f \in dir'[lvel'[q]][q] : f.kind = k /\ Sound(f) /\ f.call = call'[q]
  <2>1. /\ lvel'[q] = lvel[r] /\ lvel[q] = lvel[r] /\ lvel[r] \in {1, 2} /\ call' = call
        /\ pc[r] = IF CleanICP(r) THEN "clean" ELSE "rename"
        /\ pc'[r] = IF CleanICP(r) THEN "rename" ELSE "barrier"
        /\ \A l \in Level, p \in Rank :
             dir'[l][p] = IF CleanICP(r)
                          THEN IF l <= lvel[r] /\ p = r THEN {} ELSE dir[l][p]
                          ELSE IF l = lvel[r] /\ p = r THEN ltmp[r] ELSE dir[l][p]
    BY <1>1, MoveDirs
  <2>2. lvel[r] \in Level BY <2>1 DEF Level
  <2>3. CASE q = r
    <3>1. ~CleanICP(r) /\ pc[r] = "rename" BY <2>1, <2>3
    <3>2. dir'[lvel'[q]][q] = ltmp[r] BY <2>1, <2>2, <2>3, <3>1
    <3>3. \A m \in Kinds(lvel[r]) : \E f \in ltmp[r] : f.kind = m /\ Sound(f) /\ f.call = call[r]
      BY <3>1, RenamedFiles
    <3>4. \E f \in ltmp[r] : f.kind = k /\ Sound(f) /\ f.call = call[r] BY <2>1, <3>3
    <3> QED BY <2>1, <2>3, <3>2, <3>4
  <2>4. CASE q # r
    <3>1. dir'[lvel'[q]][q] = dir[lvel[q]][q] BY <2>1, <2>2, <2>4
    <3>2. pc[q] = "barrier" BY <1>1, <2>4, OthersMemory DEF RankStep
    <3> QED BY <2>1, <3>1, <3>2 DEF Laid
  <2> QED BY <2>3, <2>4
<1>2. ASSUME NEW r \in Rank,
             \/ InitICP(r) \/ AddVarICP(r) \/ FinalizeICP(r) \/ CloseICP(r) \/ SendICP(r)
             \/ PostICP(r) \/ DiscardICP(r) \/ EndICP(r)
      PROVE  \E f \in dir'[lvel'[q]][q] : f.kind = k /\ Sound(f) /\ f.call = call'[q]
  <2>1. RankStep(r) BY <1>2 DEF RankStep
  <2>2. dir' = dir
    BY <1>2 DEF InitICP, AddVarICP, FinalizeICP, CloseICP, SendICP, PostICP, DiscardICP, EndICP, disk
  <2>3. pc'[r] # "barrier"
    BY <1>2, InitFacts, AddFacts, CloseFacts, SendFacts, EndedFacts, PostFacts, LastFacts
    DEF FinalizeICP, Goto
  <2>4. q # r BY <2>3
  <2>5. pc'[q] = pc[q] /\ call'[q] = call[q] /\ lvel'[q] = lvel[q] BY <2>1, <2>4, OthersMemory
  <2> QED BY <2>2, <2>5 DEF Laid
<1>3. CASE SumICP \/ MetaICP \/ SyncPost \/ BarrierICP
  BY <1>3 DEF SumICP, MetaICP, SyncPost, BarrierICP, AllGoto
<1>4. CASE HeadsICP BY <1>4 DEF HeadsICP, AnswerInv
<1> QED BY <1>1, <1>2, <1>3, <1>4 DEF Work, IcpStep

(* Steps that leave the directories alone.                                 *)
LEMMA StillNewest ==
  ASSUME Outdated, Tried, Endures, dir' = dir, done' = done, lost' = lost, tries' = tries,
         ~Replacing, ~Replacing'
  PROVE  Outdated' /\ Tried' /\ Endures'
<1>1. (Usable2' <=> Usable2) /\ (Bearable' <=> Bearable) BY DEF Usable2, Bearable
<1>2. \A l : (NoOlder(l)' <=> NoOlder(l)) /\ (Enough(l)' <=> Enough(l))
  BY DEF NoOlder, Enough, Newer, Ample
<1>3. Outdated' BY <1>1, <1>2 DEF Outdated
<1>4. Tried' BY <1>1 DEF Tried
<1>5. Endures' BY <1>1, <1>2 DEF Endures
<1> QED BY <1>3, <1>4, <1>5

(* An empty directory holds nothing old.                                   *)
LEMMA NewerFacts ==
  ASSUME NEW l, NEW c
  PROVE  Newer({}, l, c)
BY DEF Newer

(* A process on its way from one checkpoint to the next.                   *)
LEMMA MoveNewest ==
  ASSUME TypeInv, AnswerInv, CtlInv, AgreeInv, TmpInv, WholeTmp, FreshInv, PastInv,
         format = "ftiff", ~torn, 4 \in CallLevels => 4 \in Async, tries' = 0, lost' = lost,
         NEW r \in Rank, CleanICP(r) \/ RenameICP(r), Outdated, Endures
  PROVE  Outdated' /\ Tried' /\ Endures'
<1> USE LevelFacts DEF Level
<1> DEFINE L == lvel[r]
<1>1. /\ lvel[Root] = L /\ L \in {1, 2} /\ lvel'[Root] = L /\ done' = done
      /\ pc'[r] \in {"rename", "barrier"}
  BY MoveDirs
<1>2. Replacing' BY <1>1 DEF Replacing
<1>3. ASSUME NEW l \in Level, NEW q \in Rank
      PROVE  dir'[l][q] = dir[l][q] \/ (l <= L /\ Newer(dir'[l][q], l, done.call))
  <2>1. CASE CleanICP(r)
    <3>1. dir'[l][q] = IF l <= L /\ q = r THEN {} ELSE dir[l][q] BY <2>1, MoveDirs
    <3> QED BY <3>1, NewerFacts
  <2>2. CASE ~CleanICP(r)
    <3>1. /\ dir'[l][q] = IF l = L /\ q = r THEN ltmp[r] ELSE dir[l][q]
          /\ pc[r] = "rename"
      BY <2>2, MoveDirs
    <3>2. Newer(ltmp[r], L, done.call) BY <3>1, RenamedFiles
    <3> QED BY <1>1, <3>1, <3>2
  <2> QED BY <2>1, <2>2
<1>4. ASSUME NEW l \in Level, NoOlder(l) PROVE NoOlder(l)'
  <2>1. \A q \in Rank : Newer(dir'[l][q], l, done.call) BY <1>3, <1>4 DEF NoOlder
  <2> QED BY <1>1, <2>1 DEF NoOlder
<1>5. ASSUME NEW l \in Level, l > L, Enough(l) PROVE Enough(l)'
  <2>1. \A q \in Rank : dir'[l][q] = dir[l][q] BY <1>1, <1>3, <1>5
  <2>2. \A q \in Rank : l = 4 \/ q \notin lost => Ample(dir'[l][q], l, done.call)
    BY <1>5, <2>1 DEF Enough
  <2>3. \A k \in {1, 2} : k < l => NoOlder(k)' BY <1>4, <1>5 DEF Enough
  <2> QED BY <1>1, <2>2, <2>3 DEF Enough
<1>6. Outdated' BY <1>1, <1>2, <1>4 DEF Outdated
<1>7. Tried' BY DEF Tried
<1>8. Endures'
  <2>1. Bearable' <=> Bearable BY <1>1 DEF Bearable
  <2> SUFFICES ASSUME done.call > 0, Bearable
               PROVE  \/ Replacing' /\ lvel'[Root] >= done.lvl
                      \/ \E l \in {1, 2, 4} : /\ l >= done.lvl /\ tries' <= l
                                              /\ Replacing' => l > lvel'[Root]
                                              /\ Enough(l)'
    BY <1>1, <2>1 DEF Endures
  <2>2. done.lvl \in {1, 2, 4} BY DEF PastInv
  <2>3. CASE L >= done.lvl BY <1>1, <1>2, <2>3
  <2>4. CASE ~(L >= done.lvl)
    <3>1. PICK l \in {1, 2, 4} : l >= done.lvl /\ Enough(l) BY <1>1, <2>4 DEF Endures
    <3>2. l > L BY <1>1, <2>2, <2>4, <3>1
    <3>3. Enough(l)' BY <1>5, <3>1, <3>2
    <3> QED BY <1>1, <3>1, <3>2, <3>3
  <2> QED BY <2>3, <2>4
<1> QED BY <1>6, <1>7, <1>8

(* The end of the post-processing of level L.                              *)
LEMMA DoneNewest ==
  ASSUME NEW L \in {1, 2, 4}, done'.lvl = L, ~Replacing', tries' = 0,
         \A r \in Rank : Ample(dir'[L][r], L, done'.call),
         \A k \in {1, 2}, r \in Rank : k <= L => Newer(dir'[k][r], k, done'.call)
  PROVE  Outdated' /\ Tried' /\ Endures'
<1>1. \A k \in {1, 2} : k <= L => NoOlder(k)' BY DEF NoOlder
<1>2. Enough(L)' BY <1>1 DEF Enough
<1>3. Outdated' BY <1>1 DEF Outdated
<1>4. Endures' BY <1>2 DEF Endures
<1> QED BY <1>3, <1>4 DEF Tried

(* The end of inline post-processing.                                      *)
LEMMA BarrierNewest ==
  ASSUME TypeInv, AnswerInv, CtlInv, AgreeInv, DirInv, PastInv, format = "ftiff", ~torn,
         4 \in CallLevels => 4 \in Async, BarrierICP, Laid, tries' = 0
  PROVE  Outdated' /\ Tried' /\ Endures'
<1> USE RankFacts, Typed, LevelFacts, CallRange DEF Level
<1>1. /\ \A r \in Rank : pc[r] = "barrier"
      /\ \A r \in Rank : pc'[r] = "end"
      /\ dir' = dir /\ done'.call = call[Root] /\ done'.lvl = lvel[Root]
  BY DEF BarrierICP, AllAt, At, AllGoto, disk
<1>2. pc[Root] \in Moving BY <1>1 DEF Moving
<1>3. /\ \A r \in Rank : call[r] = call[Root] /\ lvel[r] = lvel[Root]
      /\ lvel[Root] \in {1, 2, 4} /\ lvel[Root] # 4
  BY <1>2, MovingSame DEF Inline
<1>4. ~Replacing' BY <1>1 DEF Replacing
<1>5. ASSUME NEW r \in Rank
      PROVE  \A k \in Kinds(lvel[Root]) :
               \E f \in dir[lvel[Root]][r] : f.kind = k /\ Sound(f) /\ f.call = call[Root]
  <2>1. lvel[r] = lvel[Root] /\ call[r] = call[Root] /\ pc[r] = "barrier" BY <1>1, <1>3
  <2> QED BY <2>1 DEF Laid
<1>6. ASSUME NEW r \in Rank PROVE Ample(dir'[lvel[Root]][r], lvel[Root], done'.call)
  <2> PICK c \in Nat : c = call[Root] OBVIOUS
  <2>1. \A k \in Kinds(lvel[Root]) :
          \E f \in dir[lvel[Root]][r] : f.kind = k /\ Sound(f) /\ f.call = c
    BY <1>5
  <2> HIDE RankFacts, Typed, LevelFacts, CallRange
  <2> QED BY <1>1, <2>1 DEF Ample
<1>7. ASSUME NEW k \in {1, 2}, NEW r \in Rank, k <= lvel[Root]
      PROVE  Newer(dir'[k][r], k, done'.call)
  <2>1. CASE k = lvel[Root]
    <3>0. \A m \in Kinds(k) : \E g \in dir[k][r] : g.kind = m /\ g.call = call[Root]
      <4>1. \A m \in Kinds(lvel[Root]) : \E g \in dir[lvel[Root]][r] : g.kind = m /\ g.call = call[Root]
        BY <1>5
      <4> QED BY <2>1, <4>1
    <3> SUFFICES ASSUME Lone(dir[k][r]), NEW f \in dir[k][r], f.kind \in Kinds(k)
                 PROVE  f.call = call[Root]
      BY <1>1 DEF Newer
    <3>1. PICK g \in dir[k][r] : g.kind = f.kind /\ g.call = call[Root] BY <3>0
    <3> QED BY <3>1 DEF Lone
  <2>2. CASE k < lvel[Root]
    <3>1. k < lvel[r] /\ pc[r] \in {"rename", "barrier"} BY <1>1, <1>3, <2>2
    <3>2. dir[k][r] = {} BY <3>1 DEF DirInv, Kept
    <3> QED BY <1>1, <3>2, NewerFacts
  <2> QED BY <1>3, <1>7, <2>1, <2>2
<1> QED BY <1>1, <1>3, <1>4, <1>6, <1>7, DoneNewest

(* What the heads store is sound, and of the call they were asked for.     *)
LEMMA AskedSound ==
  ASSUME TypeInv, TmpInv, WholeTmp, FreshInv, NEW r \in Rank, Asked(r)
  PROVE  \E f \in ThisCall(r) : f.kind = "ckpt" /\ Sound(f) /\ f.call = call[r]
<1>1. PICK f \in ThisCall(r) : f.kind = "ckpt" /\ f.call = call[r] BY AskedFile
<1>2. f \in ltmp[r] BY DEF ThisCall
<1>3. f.vars = Var BY <1>1, <1>2, AskedWhole
<1>4. f.stale = {} BY <1>2 DEF FreshInv, Fresh
<1> QED BY <1>1, <1>3, <1>4 DEF Sound

(* ... and so are the copies of it at the partners.                        *)
LEMMA CopiesSound ==
  ASSUME TypeInv, TmpInv, WholeTmp, FreshInv, \A q \in Rank : Asked(q), NEW c,
         \A q \in Rank : call[q] = c, NEW l, NEW r \in Rank, NEW k \in Kinds(l)
  PROVE  \E f \in WithCopies(l)[r] : f.kind = k /\ Sound(f) /\ f.call = c
<1>1. PICK f \in ThisCall(r) : f.kind = "ckpt" /\ Sound(f) /\ f.call = c BY AskedSound
<1>2. f \in WithCopies(l)[r] BY <1>1, CopyFacts DEF ThisCall
<1>3. CASE k = "ckpt" BY <1>1, <1>2, <1>3
<1>4. CASE k # "ckpt"
  <2>1. l = 2 /\ k = "copy" BY <1>4 DEF Kinds
  <2>2. PICK q \in Rank : q = Left(r) BY Neighbours
  <2>3. PICK g \in ThisCall(q) : Sound(g) /\ g.call = c BY AskedSound
  <2> DEFINE h == [g EXCEPT !.kind = "copy"]
  <2>4. h \in WithCopies(l)[r] BY <2>1, <2>2, <2>3, CopyFacts
  <2>5. g \in Files BY Typed DEF ThisCall
  <2>6. h.kind = "copy" /\ h.vars = g.vars /\ h.stale = g.stale /\ h.call = g.call
    BY <2>5 DEF Files
  <2> HIDE DEF h
  <2>7. Sound(h) BY <2>3, <2>6 DEF Sound
  <2> QED BY <2>1, <2>3, <2>4, <2>6, <2>7
<1> QED BY <1>3, <1>4

(* A directory with a new file of every kind has no older one.             *)
LEMMA OnlyNew ==
  ASSUME NEW S, NEW l, NEW c \in Nat, NEW d \in Nat, d >= c,
         \A k \in Kinds(l) : \E g \in S : g.kind = k /\ g.call = d
  PROVE  Newer(S, l, c)
<1> SUFFICES ASSUME Lone(S), NEW f \in S, f.kind \in Kinds(l) PROVE f.call >= c BY DEF Newer
<1>1. PICK g \in S : g.kind = f.kind /\ g.call = d OBVIOUS
<1>2. g = f BY <1>1 DEF Lone
<1> QED BY <1>1, <1>2

(* The end of post-processing by the heads.                                *)
LEMMA HeadsNewest ==
  ASSUME TypeInv, AnswerInv, CtlInv, AgreeInv, TmpInv, WholeTmp, FreshInv, HeadsICP,
         Outdated, Tried, Endures, tries' = tries, tries = 0,
         lost' = IF done' = done THEN lost ELSE {}
  PROVE  Outdated' /\ Tried' /\ Endures'
<1> USE DEF Level
<1>1. pc' = pc /\ \A r \in Rank : pc[r] = "run" BY DEF HeadsICP, AnswerInv
<1>2. ~Replacing /\ ~Replacing' BY <1>1 DEF Replacing
<1>3. CASE dir' = dir /\ done' = done BY <1>2, <1>3, StillNewest
<1>4. ASSUME \A r \in Rank : Asked(r),
             done' = [call |-> call[Root], lvl |-> token[Root]],
             \A k \in Level :
               dir'[k] = IF k = 4 /\ token[Root] = 4 THEN [r \in Rank |-> ThisCall(r)]
                         ELSE IF k = token[Root] \/ (token[Root] = 4 /\ k = 1)
                         THEN WithCopies(token[Root])
                         ELSE IF k < token[Root] THEN [r \in Rank |-> {}] ELSE dir[k]
      PROVE  Outdated' /\ Tried' /\ Endures'
  <2>1. token[Root] \in {1, 2, 4} /\ \A r \in Rank : call[r] = call[Root] BY <1>4, HeadsSame, RankFacts
  <2>2. done'.call = call[Root] /\ done'.lvl = token[Root] BY <1>4
  <2>3. PICK L \in {1, 2, 4} : L = token[Root] BY <2>1
  <2> PICK c \in Nat : c = call[Root] BY CallRange, RankFacts
  <2>4. ASSUME NEW l, NEW r \in Rank, NEW k \in Kinds(l)
        PROVE  \E f \in WithCopies(l)[r] : f.kind = k /\ Sound(f) /\ f.call = c
    <3>1. (\A q \in Rank : Asked(q)) /\ \A q \in Rank : call[q] = c BY <1>4, <2>1
    <3> QED BY <3>1, CopiesSound
  <2>5. ASSUME NEW r \in Rank PROVE Ample(dir'[L][r], L, done'.call)
    <3>1. CASE L = 4
      <4>0. dir'[4] = [q \in Rank |-> ThisCall(q)] BY <1>4, <2>3, <3>1
      <4>1. dir'[4][r] = ThisCall(r) BY <4>0
      <4>2. \E f \in ThisCall(r) : f.kind = "ckpt" /\ Sound(f) /\ f.call = c
        BY <1>4, <2>1, AskedSound
      <4> QED BY <2>2, <3>1, <4>1, <4>2 DEF Ample, Kinds
    <3>2. CASE L # 4
      <4>1. dir'[L] = WithCopies(L) BY <1>4, <2>3, <3>2
      <4>2. \A k \in Kinds(L) : \E f \in WithCopies(L)[r] : f.kind = k /\ Sound(f) /\ f.call = c
        BY <2>4
      <4>3. \A k \in Kinds(L) : \E f \in WithCopies(L)[r] : f.kind = k /\ Sound(f) /\ f.call >= c
        BY <4>2
      <4> QED BY <2>2, <4>1, <4>3 DEF Ample
    <3> QED BY <3>1, <3>2
  <2>6. ASSUME NEW k \in {1, 2}, NEW r \in Rank, k <= L PROVE Newer(dir'[k][r], k, done'.call)
    <3>1. CASE k = L \/ (L = 4 /\ k = 1)
      <4>1. dir'[k] = WithCopies(L) BY <1>4, <2>3, <3>1
      <4>2. Kinds(k) = Kinds(L) BY <3>1 DEF Kinds
      <4>3. \A m \in Kinds(k) : \E g \in dir'[k][r] : g.kind = m /\ g.call = c
        BY <2>4, <4>1, <4>2
      <4>4. \A f \in dir'[k][r] : Lone(dir'[k][r]) /\ f.kind \in Kinds(k) => f.call = c
        BY <4>3 DEF Lone
      <4> QED BY <2>2, <4>4 DEF Newer
    <3>2. CASE ~(k = L \/ (L = 4 /\ k = 1))
      <4>1. k < L BY <2>6, <3>2
      <4>2. dir'[k] = [q \in Rank |-> {}] BY <1>4, <2>3, <3>2, <4>1
      <4> QED BY <4>2, NewerFacts
    <3> QED BY <3>1, <3>2
  <2>7. done'.lvl = L BY <2>2, <2>3
  <2> QED BY <1>2, <2>5, <2>6, <2>7, DoneNewest
<1> QED BY <1>3, <1>4, HeadsFacts

(* A crash takes what is lost, and leaves the rest as it is.               *)
LEMMA CrashNewest ==
  ASSUME TypeInv, AnswerInv, CtlInv, AgreeInv, DirInv, PastInv, 4 \in CallLevels => 4 \in Async,
         Crash, ~torn', Laid, Outdated, Tried, Endures
  PROVE  Outdated' /\ Tried' /\ Endures'
<1> USE RankFacts, Typed, LevelFacts, CallRange DEF Level
<1>1. PICK gone \in SUBSET Rank :
        /\ lost' = lost \cup gone
        /\ dir' = [l \in Level |-> [r \in Rank |-> IF l < 4 /\ r \in gone THEN {} ELSE dir[l][r]]]
  BY DEF Crash
<1>2. /\ ~torn /\ ~Committing /\ format = "ftiff" /\ done' = done /\ tries' = 0
      /\ \A r \in Rank : pc'[r] = "down"
  BY DEF Crash, AllGoto
<1>3. ~Replacing' BY <1>2 DEF Replacing
<1>4. ASSUME NEW l \in Level, NEW r \in Rank
      PROVE  dir'[l][r] = IF l < 4 /\ r \in gone THEN {} ELSE dir[l][r]
  BY <1>1
<1>5. ASSUME NEW l \in {1, 2}, NoOlder(l) PROVE NoOlder(l)'
  <2>1. \A r \in Rank : Newer(dir'[l][r], l, done.call) BY <1>4, <1>5, NewerFacts DEF NoOlder
  <2> QED BY <1>2, <2>1 DEF NoOlder
<1>6. ASSUME NEW l \in {1, 2, 4}, NEW r \in Rank, l = 4 \/ r \notin lost'
      PROVE  dir'[l][r] = dir[l][r]
  BY <1>1, <1>4, <1>6
<1>7. ASSUME NEW l \in {1, 2, 4}, Enough(l) PROVE Enough(l)'
  <2>1. \A r \in Rank : l = 4 \/ r \notin lost' => Ample(dir'[l][r], l, done.call)
    <3> SUFFICES ASSUME NEW r \in Rank, l = 4 \/ r \notin lost'
                 PROVE  Ample(dir'[l][r], l, done.call)
      OBVIOUS
    <3>1. l = 4 \/ r \notin lost BY <1>1
    <3>2. Ample(dir[l][r], l, done.call) BY <1>7, <3>1 DEF Enough
    <3> QED BY <1>6, <3>2
  <2>2. \A k \in {1, 2} : k < l => NoOlder(k)' BY <1>5, <1>7 DEF Enough
  <2> QED BY <1>2, <2>1, <2>2 DEF Enough
(* Where all processes have renamed, the new checkpoint is there.          *)
<1>8. ASSUME Replacing
      PROVE  /\ \A r \in Rank : pc[r] = "barrier" /\ lvel[r] = lvel[Root] /\ call[r] >= done.call
             /\ lvel[Root] \in {1, 2}
             /\ \A r \in Rank : Ample(dir[lvel[Root]][r], lvel[Root], done.call)
             /\ \A k \in {1, 2} : k <= lvel[Root] => NoOlder(k)
  <2>1. \A r \in Rank : pc[r] \notin {"clean", "rename"} BY <1>2, <1>8 DEF Committing, Replacing
  <2>2. PICK p \in Rank : pc[p] = "barrier" BY <1>8, <2>1 DEF Replacing
  <2>3. \A r \in Rank : /\ pc[r] \in Moving /\ lvel[r] = lvel[p] /\ lvel[p] \in CallLevels
                        /\ Inline(lvel[p])
    BY <2>2, MovingSame DEF Moving
  <2>4. \A r \in Rank : pc[r] = "barrier" /\ lvel[r] = lvel[Root] /\ call[r] >= done.call
    BY <2>1, <2>3 DEF Moving, PastInv
  <2>5. lvel[Root] \in {1, 2} BY <2>3 DEF Inline
  <2>6. PICK L \in {1, 2} : L = lvel[Root] BY <2>5
  <2>7. ASSUME NEW r \in Rank
        PROVE  \A k \in Kinds(L) : \E f \in dir[L][r] : f.kind = k /\ Sound(f) /\ f.call = call[r]
    <3>1. lvel[r] = L /\ pc[r] = "barrier" BY <2>4, <2>6
    <3>2. \A k \in Kinds(lvel[r]) :
            \E f \in dir[lvel[r]][r] : f.kind = k /\ Sound(f) /\ f.call = call[r]
      BY <3>1 DEF Laid
    <3> QED BY <3>1, <3>2
  <2>8. \A r \in Rank : Ample(dir[L][r], L, done.call)
    <3> SUFFICES ASSUME NEW r \in Rank PROVE Ample(dir[L][r], L, done.call) OBVIOUS
    <3>1. call[r] >= done.call BY <2>4
    <3>2. \A k \in Kinds(L) : \E f \in dir[L][r] : f.kind = k /\ Sound(f) /\ f.call = call[r]
      BY <2>7
    <3> HIDE RankFacts, Typed, LevelFacts, CallRange
    <3> QED BY <3>1, <3>2 DEF Ample
  <2>9. ASSUME NEW k \in {1, 2}, k <= L PROVE NoOlder(k)
    <3> SUFFICES ASSUME NEW r \in Rank PROVE Newer(dir[k][r], k, done.call) BY DEF NoOlder
    <3>1. CASE k = L
      <4>1. call[r] >= done.call BY <2>4
      <4>2. \A m \in Kinds(k) : \E g \in dir[k][r] : g.kind = m /\ g.call = call[r]
        BY <2>7, <3>1
      <4> PICK S : S = dir[k][r] OBVIOUS
      <4> PICK d \in Nat : d = call[r] OBVIOUS
      <4>3. \A m \in Kinds(k) : \E g \in S : g.kind = m /\ g.call = d BY <4>2
      <4> PICK e \in Nat : e = done.call BY DEF PastInv
      <4>4. Newer(S, k, e)
        <5> HIDE RankFacts, Typed, LevelFacts, CallRange
        <5> QED BY <4>1, <4>3, OnlyNew
      <4> QED BY <4>4
    <3>2. CASE k # L
      <4>1. k < lvel[r] /\ pc[r] \in {"rename", "barrier"} BY <2>4, <2>6, <2>9, <3>2
      <4>2. dir[k][r] = {} BY <1>2, <4>1 DEF DirInv, Kept
      <4> QED BY <4>2, NewerFacts
    <3> QED BY <3>1, <3>2
  <2> QED BY <2>4, <2>5, <2>6, <2>8, <2>9
<1>9. Outdated'
  <2> SUFFICES ASSUME done.call > 0, done.lvl = 2
               PROVE  NoOlder(2)' /\ (Usable2' => NoOlder(1)')
    BY <1>2 DEF Outdated
  <2>1. NoOlder(2) /\ (Usable2 /\ ~Replacing => NoOlder(1)) BY DEF Outdated
  <2>2. Usable2' => Usable2
    <3> SUFFICES ASSUME Usable2', NEW r \in Rank
                 PROVE  \/ \E f \in dir[2][r] : f.kind = "ckpt"
                        \/ \E f \in dir[2][Right(r)] : f.kind = "copy"
      BY DEF Usable2
    <3>1. PICK q \in Rank : q = Right(r) BY Neighbours
    <3>2. (\E f \in dir'[2][r] : f.kind = "ckpt") \/ (\E f \in dir'[2][q] : f.kind = "copy")
      BY <3>1 DEF Usable2
    <3>3. dir'[2][r] \in {{}, dir[2][r]} /\ dir'[2][q] \in {{}, dir[2][q]} BY <1>4
    <3> QED BY <3>1, <3>2, <3>3
  <2>3. Replacing => NoOlder(1) BY <1>8
  <2> QED BY <1>5, <2>1, <2>2, <2>3
<1>10. Tried' BY <1>2 DEF Tried
<1>11. Endures'
  <2>1. Bearable' => Bearable BY <1>1, <1>2 DEF Bearable
  <2> SUFFICES ASSUME done.call > 0, Bearable
               PROVE  \E l \in {1, 2, 4} : l >= done.lvl /\ Enough(l)'
    BY <1>2, <1>3, <2>1 DEF Endures
  <2>2. CASE Replacing /\ lvel[Root] >= done.lvl
    <3>1. PICK L \in {1, 2} : L = lvel[Root] BY <1>8, <2>2
    <3>2. \A r \in Rank : L = 4 \/ r \notin lost' => Ample(dir[L][r], L, done.call)
      BY <1>8, <2>2, <3>1
    <3>3. \A k \in {1, 2} : k <= L => NoOlder(k) BY <1>8, <2>2, <3>1
    <3>4. \A r \in Rank : L = 4 \/ r \notin lost' => Ample(dir'[L][r], L, done.call)
      BY <1>6, <3>2
    <3>5. \A k \in {1, 2} : k < L => NoOlder(k)' BY <1>5, <3>3
    <3>6. Enough(L)' BY <1>2, <3>4, <3>5 DEF Enough
    <3> QED BY <2>2, <3>1, <3>6
  <2>3. CASE ~(Replacing /\ lvel[Root] >= done.lvl)
    <3>1. PICK l \in {1, 2, 4} : l >= done.lvl /\ Enough(l) BY <2>3 DEF Endures
    <3> QED BY <1>7, <3>1
  <2> QED BY <2>2, <2>3
<1> QED BY <1>9, <1>10, <1>11

-----------------------------------------------------------------------------
(* The restart at the levels 1 and 4                                       *)

(* What a restart finds first, where there is one file of a kind.          *)
LEMMA FoundAmple ==
  ASSUME NEW S, NEW l, NEW c, Lone(S), Ample(S, l, c), NEW n \in Found(S, "ckpt")
  PROVE  Sound(n) /\ n.call >= c
<1>1. PICK f \in S : f.kind = "ckpt" /\ Sound(f) /\ f.call >= c BY DEF Ample, Kinds
<1>2. n \in S /\ n.kind = "ckpt" BY <1>1 DEF Found
<1>3. n = f BY <1>1, <1>2 DEF Lone
<1> QED BY <1>1, <1>3

(* ... and what it finds where nothing is older.                           *)
LEMMA FoundNewer ==
  ASSUME NEW S, NEW l, NEW c, Lone(S), Newer(S, l, c), NEW n \in Found(S, "ckpt"), Sound(n)
  PROVE  n.call >= c
<1>1. n \in S /\ n.kind = "ckpt" BY SoundFound
<1> QED BY <1>1 DEF Newer, Kinds

(* Before a level is tried.                                                *)
LEMMA DownFacts ==
  ASSUME TypeInv, AnswerInv, CtlInv, DirInv, ~torn, Restart \/ RecoverL1 \/ RecoverL2 \/ RecoverL4
  PROVE  /\ \A r \in Rank : pc[r] = "down"
         /\ ~Replacing /\ ~Replacing' /\ torn' = torn /\ format = "ftiff" /\ done' = done
         /\ \A l \in Level, r \in Rank : Lone(dir[l][r])
<1>1. /\ \A r \in Rank : pc[r] = "down"
      /\ pc' = pc \/ AllGoto("run")
      /\ torn' = torn /\ format = "ftiff"
  BY RestartFacts
<1>2. ~Replacing /\ ~Replacing' BY <1>1 DEF Replacing, AllGoto
<1>3. ASSUME NEW l \in Level, NEW r \in Rank PROVE Lone(dir[l][r])
  BY <1>1, DownUniform DEF Single, Lone
<1>4. done' = done
  BY DEF Restart, RecoverL1, RecoverL2, RecoverL4, StillDown
<1> QED BY <1>1, <1>2, <1>3, <1>4

(* The level that bears what was lost has not been passed yet.             *)
LEMMA EnduresDown ==
  ASSUME Endures, PastInv, ~Replacing, done.call > 0, Bearable
  PROVE  \E l \in {1, 2, 4} : l >= done.lvl /\ tries <= l /\ Enough(l)
BY DEF Endures

(* Level 1: every process finds a sound file, or the level is lower than   *)
(* the one that bears the loss.                                            *)
LEMMA NewestL1 ==
  ASSUME TypeInv, AnswerInv, CtlInv, DirInv, PastInv, ~torn, RecoverL1, Outdated, Tried, Endures
  PROVE  /\ Outdated' /\ Tried' /\ Endures'
         /\ (\A r \in Rank : pc'[r] = "run") => Answered
<1>1. PICK name : /\ \A r \in Rank : name[r] \in Found(dir[1][r], "ckpt")
                  /\ IF \A r \in Rank : Sound(name[r])
                     THEN Recovered(1, [r \in Rank |-> name[r].id], name)
                     ELSE NotFrom(1)
  BY DEF RecoverL1
<1>2. /\ \A r \in Rank : pc[r] = "down"
      /\ ~Replacing /\ ~Replacing' /\ done' = done
      /\ \A r \in Rank : Lone(dir[1][r])
  BY DownFacts DEF Level
<1>3. dir' = dir /\ lost' = lost /\ tries = 1 BY DEF RecoverL1
<1>4. \A l : (NoOlder(l)' <=> NoOlder(l)) /\ (Enough(l)' <=> Enough(l))
  BY <1>2, <1>3 DEF NoOlder, Enough, Newer, Ample
<1>5. (Usable2' <=> Usable2) /\ (Bearable' <=> Bearable) BY <1>2, <1>3 DEF Usable2, Bearable
<1>6. Outdated' BY <1>2, <1>4, <1>5 DEF Outdated
<1>7. CASE \A r \in Rank : Sound(name[r])
  <2>1. tries' = 0 /\ \A r \in Rank : restored'[r] = name[r] BY <1>1, <1>7 DEF Recovered
  <2>2. Endures' BY <1>2, <1>3, <1>4, <1>5, <2>1 DEF Endures, PastInv
  <2>3. ASSUME done.call > 0, Bearable, NEW r \in Rank PROVE name[r].call >= done.call
    <3>1. PICK l \in {1, 2, 4} : l >= done.lvl /\ Enough(l) BY <1>2, <2>3, EnduresDown
    <3>2. CASE l = 1
      <4>0. done.lvl \in {1, 2, 4} BY <2>3, LevelFacts DEF PastInv
      <4>1. done.lvl = 1 BY <3>1, <3>2, <4>0
      <4>2. r \notin lost BY <2>3, <4>1 DEF Bearable
      <4>3. Ample(dir[1][r], 1, done.call) BY <3>1, <3>2, <4>2 DEF Enough
      <4> QED BY <1>1, <1>2, <4>3, FoundAmple
    <3>3. CASE l # 1
      <4>1. Newer(dir[1][r], 1, done.call) BY <3>1, <3>3 DEF Enough, NoOlder
      <4> QED BY <1>1, <1>2, <1>7, <4>1, FoundNewer
    <3> QED BY <3>2, <3>3
  <2>4. Answered BY <2>1, <2>3 DEF Answered
  <2> QED BY <1>6, <2>1, <2>2, <2>4 DEF Tried
<1>8. CASE ~\A r \in Rank : Sound(name[r])
  <2>1. tries' = 2 /\ pc' = pc BY <1>1, <1>8 DEF NotFrom
  <2>2. ASSUME done.call > 0, Bearable PROVE \E l \in {1, 2, 4} : l >= done.lvl /\ 2 <= l /\ Enough(l)
    <3>1. PICK l \in {1, 2, 4} : l >= done.lvl /\ Enough(l) BY <1>2, <2>2, EnduresDown
    <3>2. ASSUME l = 1 PROVE FALSE
      <4>0. done.lvl \in {1, 2, 4} BY <2>2, LevelFacts DEF PastInv
      <4>1. done.lvl = 1 BY <3>1, <3>2, <4>0
      <4>2. PICK r \in Rank : ~Sound(name[r]) BY <1>8
      <4>3. r \notin lost BY <2>2, <4>1 DEF Bearable
      <4>4. Ample(dir[1][r], 1, done.call) BY <3>1, <3>2, <4>3 DEF Enough
      <4> QED BY <1>1, <1>2, <4>2, <4>4, FoundAmple
    <3> QED BY <3>1, <3>2
  <2>3. Endures'
    <3>1. done.call > 0 /\ Bearable => \E l \in {1, 2, 4} : l >= done.lvl /\ tries' <= l /\ Enough(l)'
      BY <1>4, <2>1, <2>2
    <3> QED BY <1>2, <1>5, <3>1 DEF Endures
  <2>4. \E r \in Rank : pc'[r] # "run" BY <1>2, <2>1, RankFacts
  <2> QED BY <1>6, <2>1, <2>3, <2>4 DEF Tried
<1> QED BY <1>7, <1>8

(* Level 4: the last one tried.                                            *)
LEMMA NewestL4 ==
  ASSUME TypeInv, AnswerInv, CtlInv, DirInv, PastInv, ~torn, RecoverL4, Outdated, Tried, Endures
  PROVE  /\ Outdated' /\ Tried' /\ Endures'
         /\ (\A r \in Rank : pc'[r] = "run") => Answered
<1>1. PICK name :
        /\ \A r \in Rank : name[r] \in Found(dir[4][r], "ckpt")
        /\ IF \A r \in Rank : Sound(name[r])
           THEN /\ dir' = [dir EXCEPT ![1] = [r \in Rank |-> {name[r]}]]
                /\ Recovered(4, [r \in Rank |-> name[r].id], name)
           ELSE /\ dir' = [dir EXCEPT ![1] = [r \in Rank |-> {}]]
                /\ Recovered(0, [r \in Rank |-> 0], [r \in Rank |-> NoFile])
  BY DEF RecoverL4
<1>2. /\ ~Replacing /\ ~Replacing' /\ done' = done
      /\ \A r \in Rank : Lone(dir[4][r])
  BY DownFacts DEF Level
<1>3. lost' = lost /\ tries = 4 /\ tries' = 0 BY <1>1 DEF RecoverL4, Recovered
<1>4. dir'[2] = dir[2] /\ dir'[4] = dir[4] BY <1>1, Typed DEF Level
<1>5. (Usable2' <=> Usable2) /\ (Bearable' <=> Bearable) BY <1>2, <1>3, <1>4 DEF Usable2, Bearable
<1>6. NoOlder(2)' <=> NoOlder(2) BY <1>2, <1>4 DEF NoOlder, Newer
<1>7. Outdated' BY <1>2, <1>3, <1>5, <1>6 DEF Outdated, Tried
<1>8. ASSUME done.call > 0, Bearable
      PROVE  /\ Enough(4) /\ 4 >= done.lvl
             /\ \A r \in Rank : Sound(name[r]) /\ name[r].call >= done.call
  <2>1. Enough(4) /\ 4 >= done.lvl BY <1>2, <1>3, <1>8, EnduresDown
  <2>2. ASSUME NEW r \in Rank PROVE Sound(name[r]) /\ name[r].call >= done.call
    <3>1. Ample(dir[4][r], 4, done.call) BY <2>1 DEF Enough
    <3> QED BY <1>1, <1>2, <3>1, FoundAmple
  <2> QED BY <2>1, <2>2
<1>9. Endures'
  <2> SUFFICES ASSUME done.call > 0, Bearable PROVE 4 >= done.lvl /\ Enough(4)'
    BY <1>2, <1>3, <1>5 DEF Endures
  <2>1. dir' = [dir EXCEPT ![1] = [r \in Rank |-> {name[r]}]] BY <1>1, <1>8
  <2>2. \A r \in Rank : dir'[1][r] = {name[r]} BY <2>1, Typed DEF Level
  <2>3. \A r \in Rank : Newer({name[r]}, 1, done.call) BY <1>8 DEF Newer
  <2>4. NoOlder(1)' BY <1>2, <2>2, <2>3 DEF NoOlder
  <2>5. NoOlder(2)' BY <1>6, <1>8 DEF Enough
  <2>6. \A r \in Rank : Ample(dir'[4][r], 4, done.call) BY <1>4, <1>8 DEF Enough
  <2> QED BY <1>2, <1>8, <2>4, <2>5, <2>6 DEF Enough
<1>10. Answered
  <2> SUFFICES ASSUME done.call > 0, Bearable, NEW r \in Rank PROVE restored'[r].call >= done.call
    BY DEF Answered
  <2>1. \A q \in Rank : Sound(name[q]) /\ name[q].call >= done.call BY <1>8
  <2>2. Recovered(4, [q \in Rank |-> name[q].id], name) BY <1>1, <2>1
  <2>3. restored'[r] = name[r] BY <2>1, <2>2 DEF Recovered
  <2> QED BY <2>1, <2>3
<1> QED BY <1>3, <1>7, <1>9, <1>10 DEF Tried

(* The heart of level 2: the processes that found something report the id  *)
(* of one checkpoint, so the average is that id.                           *)
LEMMA AverageIsId ==
  ASSUME NEW ids, NEW c \in Nat, c > 0, \A r \in Rank : ids[r] \in {0, c},
         \E r \in Rank : ids[r] = c
  PROVE  AverageId(ids) = c
<1>1. IsFiniteSet(Rank) BY IcpSizes, FS_Interval DEF Rank
<1> DEFINE P == {r \in Rank : ids[r] > 0}
           n == Cardinality(P)
<1>2. IsFiniteSet(P) /\ P # {} BY <1>1, FS_Subset
<1>3. n \in Nat /\ n # 0 BY <1>2, FS_CardinalityType, FS_EmptySet
<1>4. SumFunctionOnSet(ids, Rank) = c * n BY <1>1, SumOfEqual
<1> HIDE DEF P, n
<1>5. \A m \in Nat : m # 0 => (c * m) \div m = c OBVIOUS
<1>6. (c * n) \div n = c BY <1>3, <1>5
<1> QED BY <1>4, <1>6 DEF AverageId, n, P

-----------------------------------------------------------------------------
(* The restart at level 2                                                  *)

(* What is at level 2 when it is tried: sound files of one checkpoint.     *)
LEMMA Level2Sound ==
  ASSUME TypeInv, CommittedWhole, FreshInv, ~torn, Single(dir[2]), Uniform(2, dir[2])
  PROVE  /\ \A r \in Rank : \A f \in dir[2][r] :
              Sound(f) /\ f.kind \in Kinds(2) /\ f.id \in Nat /\ f.id > 0 /\ f.call \in Nat
         /\ \A q, r \in Rank : \A f \in dir[2][q], g \in dir[2][r] : f.call = g.call /\ f.id = g.id
<1>1. ASSUME NEW r \in Rank, NEW f \in dir[2][r]
      PROVE  Sound(f) /\ f.kind \in Kinds(2) /\ f.id \in Nat /\ f.id > 0 /\ f.call \in Nat
  <2>1. 2 \in Level BY DEF Level
  <2>2. f \in Files BY <2>1, Typed
  <2>3. f.kind \in Kinds(2) /\ f.kind # "none" /\ f.id \in Nat /\ f.call \in Nat
    BY <2>2 DEF Files, Kinds
  <2>4. f.vars = Var BY UniformWhole
  <2>5. f.stale = {} /\ f.id > 0 BY <2>1 DEF FreshInv, Fresh
  <2> QED BY <2>3, <2>4, <2>5 DEF Sound
<1> QED BY <1>1 DEF Uniform

(* Of sound files a process reports the one that is there.                 *)
LEMMA ReportedAll ==
  ASSUME NEW r, NEW k, k # "none", \A f \in dir[2][r] : Sound(f), NEW x \in Reported(r, k)
  PROVE  /\ x = NoFile <=> \A f \in dir[2][r] : f.kind # k
         /\ x # NoFile => x \in dir[2][r] /\ x.kind = k
<1>1. CASE \E f \in dir[2][r] : f.kind = k
  <2>1. Found(dir[2][r], k) = {f \in dir[2][r] : f.kind = k} BY <1>1 DEF Found
  <2>2. Found(dir[2][r], k) # {NoFile} BY <1>1, <2>1, NoFileFacts
  <2>3. x \in dir[2][r] /\ x.kind = k /\ Sound(x) BY <2>1, <2>2 DEF Reported
  <2> QED BY <2>3, NoFileFacts
<1>2. CASE ~\E f \in dir[2][r] : f.kind = k
  <2>1. Found(dir[2][r], k) = {NoFile} BY <1>2 DEF Found
  <2>2. x = NoFile BY <2>1, NoFileFacts DEF Reported
  <2> QED BY <1>2, <2>2
<1> QED BY <1>1, <1>2

(* The file of a kind that is there stays, in some form.                   *)
LEMMA PutKeeps ==
  ASSUME NEW S, NEW T, NEW f \in S
  PROVE  \E g \in Put(S, T) : g.kind = f.kind
<1>1. CASE \E g \in T : g.kind = f.kind BY <1>1, PutFacts
<1>2. CASE ~\E g \in T : g.kind = f.kind
  <2>1. f \in Put(S, T) BY <1>2, PutFacts
  <2> QED BY <2>1
<1> QED BY <1>1, <1>2

(* The exchange takes no kind of file away.                                *)
LEMMA RebuiltKeeps ==
  ASSUME NEW own, NEW copy, NEW i, NEW r \in Rank, NEW f \in dir[2][r]
  PROVE  \E g \in Rebuilt(own, copy, i)[r] : g.kind = f.kind
<1> DEFINE T == (IF own[r] # NoFile THEN {}
                 ELSE As("ckpt", Named(dir[2][Right(r)], "copy", i)))
                \cup
                (IF copy[r] # NoFile THEN {}
                 ELSE As("copy", Named(dir[2][Left(r)], "ckpt", i)))
           S == dir[2][r]
<1>1. Rebuilt(own, copy, i)[r] = Put(S, T) BY DEF Rebuilt
<1>2. f \in S OBVIOUS
<1> HIDE DEF S, T
<1>3. \E g \in Put(S, T) : g.kind = f.kind BY <1>2, PutKeeps
<1> QED BY <1>1, <1>3

(* Level 2 after the exchange: every process has its file and its copy.    *)
LEMMA RebuiltAmple ==
  ASSUME TypeInv, CommittedWhole, FreshInv, ~torn, Single(dir[2]), Uniform(2, dir[2]),
         NEW own, NEW copy, NEW i, NEW c, NEW m, m <= c, c \in Nat, m \in Nat,
         \A r \in Rank : \A f \in dir[2][r] : f.call = c,
         \A r \in Rank : own[r] \in Reported(r, "ckpt") /\ copy[r] \in Reported(r, "copy"),
         \A r \in Rank :
           /\ own[r] = NoFile => Named(Rebuilt(own, copy, i)[r], "ckpt", i) # {}
           /\ copy[r] = NoFile => Named(Rebuilt(own, copy, i)[r], "copy", i) # {},
         NEW r \in Rank
  PROVE  /\ Ample(Rebuilt(own, copy, i)[r], 2, m)
         /\ \A f \in Rebuilt(own, copy, i)[r] : f.kind \in Kinds(2) => f.call = c
<1> DEFINE d == Rebuilt(own, copy, i)[r]
<1>1. ASSUME NEW f \in d, f.kind \in Kinds(2) PROVE Sound(f) /\ f.call = c
  <2>1. PICK q \in Rank : \E g \in dir[2][q] :
          g.kind \in Kinds(2) /\ g.call = f.call /\ g.id = f.id /\ g.vars = f.vars
    BY <1>1, RebuiltFrom
  <2>2. PICK g \in dir[2][q] : g.call = f.call /\ g.vars = f.vars BY <2>1
  <2>3. f.call = c BY <2>2
  <2>4. f.vars = Var BY <2>2, Level2Sound DEF Sound
  <2>5. f.stale = {} BY <1>1, RebuiltFresh DEF Fresh
  <2>6. f.kind # "none" BY <1>1 DEF Kinds
  <2> QED BY <2>3, <2>4, <2>5, <2>6 DEF Sound
<1>2. ASSUME NEW k \in Kinds(2) PROVE \E f \in d : f.kind = k
  <2>1. \A f \in dir[2][r] : Sound(f) BY Level2Sound
  <2>2. CASE \E f \in dir[2][r] : f.kind = k
    <3>1. PICK f \in dir[2][r] : f.kind = k BY <2>2
    <3>2. \E g \in Rebuilt(own, copy, i)[r] : g.kind = f.kind BY RebuiltKeeps
    <3> QED BY <3>1, <3>2
  <2>3. CASE ~\E f \in dir[2][r] : f.kind = k
    <3>1. k = "ckpt" => own[r] = NoFile BY <2>1, <2>3, ReportedAll
    <3>2. k = "copy" => copy[r] = NoFile BY <2>1, <2>3, ReportedAll
    <3>3. Named(d, k, i) # {} BY <3>1, <3>2 DEF Kinds
    <3> QED BY <3>3 DEF Named
  <2> QED BY <2>2, <2>3
<1> HIDE DEF d
<1>3. Ample(d, 2, m)
  <2> SUFFICES ASSUME NEW k \in Kinds(2) PROVE \E f \in d : f.kind = k /\ Sound(f) /\ f.call >= m
    BY DEF Ample
  <2>1. PICK f \in d : f.kind = k BY <1>2
  <2>2. Sound(f) /\ f.call = c BY <1>1, <2>1
  <2> QED BY <2>1, <2>2
<1> QED BY <1>1, <1>3 DEF d

(* The exchange has what it needs, as long as the level bears the loss.    *)
LEMMA EnoughUsable ==
  ASSUME Enough(2), done.lvl \in {1, 2}, Bearable
  PROVE  Usable2
<1> SUFFICES ASSUME NEW r \in Rank
             PROVE  \/ \E f \in dir[2][r] : f.kind = "ckpt"
                    \/ \E f \in dir[2][Right(r)] : f.kind = "copy"
  BY DEF Usable2
<1>1. CASE r \notin lost
  <2>1. Ample(dir[2][r], 2, done.call) BY <1>1 DEF Enough
  <2> QED BY <2>1 DEF Ample, Kinds
<1>2. CASE r \in lost
  <2>1. PICK q \in Rank : q = Right(r) BY Neighbours
  <2>2. q \notin lost BY <1>2, <2>1 DEF Bearable
  <2>3. Ample(dir[2][q], 2, done.call) BY <2>2 DEF Enough
  <2> QED BY <2>1, <2>3 DEF Ample, Kinds
<1> QED BY <1>1, <1>2

(* Level 2 fails where a process's file and its copy are both gone.        *)
LEMMA NewestNot2 ==
  ASSUME PastInv, ~Replacing, ~Replacing', dir' = dir, lost' = lost, done' = done,
         tries = 2, NotFrom(2), ~Usable2, Outdated, Endures
  PROVE  Outdated' /\ Tried' /\ Endures'
<1>1. tries' = 4 BY DEF NotFrom
<1>2. \A l : (NoOlder(l)' <=> NoOlder(l)) /\ (Enough(l)' <=> Enough(l))
  BY DEF NoOlder, Enough, Newer, Ample
<1>3. (Usable2' <=> Usable2) /\ (Bearable' <=> Bearable) BY DEF Usable2, Bearable
<1>4. Outdated' BY <1>2, <1>3 DEF Outdated
<1>5. Tried' BY <1>3 DEF Tried
<1>6. ASSUME done.call > 0, Bearable PROVE 4 >= done.lvl /\ Enough(4)
  <2>1. PICK l \in {1, 2, 4} : l >= done.lvl /\ tries <= l /\ Enough(l) BY <1>6, EnduresDown
  <2>2. done.lvl \in {1, 2, 4} BY <1>6, LevelFacts DEF PastInv
  <2>3. l # 1 BY <2>1
  <2>4. ASSUME l = 2 PROVE FALSE
    <3>1. done.lvl \in {1, 2} /\ Enough(2) BY <2>1, <2>2, <2>4
    <3> QED BY <1>6, <3>1, EnoughUsable
  <2>5. l = 4 BY <2>3, <2>4
  <2> QED BY <2>1, <2>5
<1>7. Endures' BY <1>1, <1>2, <1>3, <1>6 DEF Endures
<1> QED BY <1>4, <1>5, <1>7

(* Level 2 succeeds with a checkpoint that is new enough.                  *)
LEMMA NewestYes2 ==
  ASSUME TypeInv, PastInv, CommittedWhole, FreshInv, ~torn, Single(dir[2]), Uniform(2, dir[2]),
         ~Replacing, ~Replacing', done' = done, tries = 2, Usable2, Outdated, Endures,
         NEW own, NEW copy, NEW i, Exchanged(own, copy, i),
         Received(own, copy, i), lost' = IF done.lvl = 2 THEN {} ELSE lost,
         NEW c \in Nat, AllOf(c, i)
  PROVE  Outdated' /\ Tried' /\ Endures' /\ Answered
<1> USE DEF Level, Received, AllOf
<1> PICK m \in Nat : m = done.call BY DEF PastInv
<1> DEFINE d == Rebuilt(own, copy, i)
<1>1. /\ \A r \in Rank : /\ own[r] \in Reported(r, "ckpt")
                         /\ copy[r] \in Reported(r, "copy")
                         /\ own[r] # NoFile \/ copy[Right(r)] # NoFile
      /\ dir' = [dir EXCEPT ![2] = d]
      /\ Recovered(2, [r \in Rank |-> i], [r \in Rank |-> Mine(d, r, i)])
  BY DEF Exchanged
<1>2. tries' = 0 BY <1>1 DEF Recovered
<1>3. dir'[2] = d /\ dir'[1] = dir[1] /\ dir'[4] = dir[4] BY <1>1, Typed
<1>4. ASSUME m <= c, NEW r \in Rank
      PROVE  Ample(d[r], 2, m) /\ \A f \in d[r] : f.kind \in Kinds(2) => f.call = c
  BY <1>1, <1>4, RebuiltAmple
<1>5. NoOlder(1)' <=> NoOlder(1) BY <1>3 DEF NoOlder, Newer
<1>6. ASSUME m <= c PROVE NoOlder(2)'
  <2>1. \A r \in Rank : Newer(d[r], 2, m) BY <1>4, <1>6 DEF Newer
  <2> QED BY <1>3, <2>1 DEF NoOlder
<1>7. \A r \in Rank : Lone(dir[2][r]) BY DEF Single, Lone
<1>8. PICK p \in Rank : \E f \in dir[2][p] : f.kind \in Kinds(2)
  <2>1. PICK q \in Rank : q = Right(Root) BY Neighbours, RankFacts
  <2>2. (\E f \in dir[2][Root] : f.kind = "ckpt") \/ (\E f \in dir[2][q] : f.kind = "copy")
    BY <2>1, RankFacts DEF Usable2
  <2> QED BY <2>2, RankFacts DEF Kinds
<1>9. ASSUME NoOlder(2) PROVE m <= c
  <2>1. Newer(dir[2][p], 2, m) BY <1>9 DEF NoOlder
  <2>2. PICK f \in dir[2][p] : f.kind \in Kinds(2) BY <1>8
  <2>3. f.call >= m BY <1>7, <2>1, <2>2 DEF Newer
  <2>4. f.call = c BY <2>2
  <2> QED BY <2>3, <2>4
<1>10. ASSUME Ample(dir[2][p], 2, m) PROVE m <= c
  <2>1. PICK f \in dir[2][p] : f.call >= m BY <1>10 DEF Ample, Kinds
  <2>2. f.call = c BY <2>1
  <2> QED BY <2>1, <2>2
(* Where the level bears the loss, the checkpoint is new enough.           *)
<1>11. ASSUME done.call > 0, Bearable
       PROVE  /\ m <= c
              /\ \/ done.lvl <= 2 /\ NoOlder(1)
                 \/ done.lvl <= 4 /\ Enough(4)
  <2>1. PICK l \in {1, 2, 4} : l >= done.lvl /\ tries <= l /\ Enough(l) BY <1>11, EnduresDown
  <2>2. done.lvl \in {1, 2, 4} BY <1>11, LevelFacts DEF PastInv
  <2>3. CASE l = 4
    <3>1. NoOlder(2) BY <2>1, <2>3 DEF Enough
    <3> QED BY <1>9, <2>1, <2>3, <3>1
  <2>4. CASE l = 2
    <3>1. Enough(2) /\ done.lvl \in {1, 2} BY <2>1, <2>2, <2>4
    <3>2. PICK q \in Rank : q = Right(Root) /\ (Root \notin lost \/ q \notin lost)
      BY <1>11, <3>1, Neighbours, RankFacts DEF Bearable
    <3>3. PICK s \in {Root, q} : s \in Rank /\ s \notin lost BY <3>2, RankFacts
    <3>4. Ample(dir[2][s], 2, m) BY <3>1, <3>3 DEF Enough
    <3>5. PICK f \in dir[2][s] : f.call >= m BY <3>4 DEF Ample, Kinds
    <3>6. f.call = c BY <3>3, <3>5
    <3>7. NoOlder(1) BY <3>1 DEF Enough
    <3> QED BY <3>1, <3>5, <3>6, <3>7
  <2> QED BY <2>1, <2>3, <2>4
<1>12. ASSUME done.call > 0, done.lvl = 2 PROVE m <= c /\ NoOlder(1) /\ NoOlder(2)
  BY <1>9, <1>12 DEF Outdated
<1>13. Outdated' BY <1>5, <1>6, <1>12 DEF Outdated
<1>14. Endures'
  <2> SUFFICES ASSUME done.call > 0, Bearable'
               PROVE  \E l \in {1, 2, 4} : l >= done.lvl /\ Enough(l)'
    BY <1>2 DEF Endures
  <2>1. /\ m <= c
        /\ \/ done.lvl <= 2 /\ NoOlder(1)
           \/ done.lvl <= 4 /\ Enough(4)
    <3>1. CASE done.lvl = 2 BY <1>12, <3>1
    <3>2. CASE done.lvl # 2
      <4>1. Bearable BY <3>2 DEF Bearable
      <4> QED BY <1>11, <4>1
    <3> QED BY <3>1, <3>2
  <2>2. CASE done.lvl <= 2 /\ NoOlder(1)
    <3>1. \A r \in Rank : Ample(dir'[2][r], 2, m) BY <1>3, <1>4, <2>1
    <3>2. Enough(2)' BY <1>5, <2>2, <3>1 DEF Enough
    <3>3. done.lvl \in {1, 2, 4} BY LevelFacts DEF PastInv
    <3> QED BY <2>2, <3>2, <3>3
  <2>3. CASE done.lvl <= 4 /\ Enough(4)
    <3>1. \A r \in Rank : Ample(dir'[4][r], 4, m) BY <1>3, <2>3 DEF Enough
    <3>2. NoOlder(1)' /\ NoOlder(2)' BY <1>5, <1>6, <2>1, <2>3 DEF Enough
    <3>3. Enough(4)' BY <3>1, <3>2 DEF Enough
    <3>4. done.lvl \in {1, 2, 4} BY LevelFacts DEF PastInv
    <3> QED BY <2>3, <3>3, <3>4
  <2> QED BY <2>1, <2>2, <2>3
<1>15. Answered
  <2> SUFFICES ASSUME done.call > 0, Bearable, NEW r \in Rank PROVE restored'[r].call >= m
    BY DEF Answered
  <2>1. \A q \in Rank : \A g \in dir[2][q] : g.kind \in Kinds(2) => g.call = c /\ g.id = i
    OBVIOUS
  <2>2. Right(r) \in Rank BY Neighbours
  <2>3. Sound(Mine(d, r, i)) /\ Mine(d, r, i).call = c
    <3> HIDE DEF Level, Received, AllOf
    <3>1. /\ own[r] \in Reported(r, "ckpt") /\ copy[Right(r)] \in Reported(Right(r), "copy")
          /\ own[r] # NoFile \/ copy[Right(r)] # NoFile
      BY <1>1, <2>2
    <3> QED BY <2>1, <3>1, MineSound
  <2>4. restored'[r] = Mine(d, r, i) BY <1>1, <2>3 DEF Recovered
  <2>5. m <= c BY <1>11
  <2> QED BY <2>3, <2>4, <2>5
<1> QED BY <1>2, <1>13, <1>14, <1>15 DEF Tried

(* Level 2: the exchange finds the files of one checkpoint, so that the    *)
(* average of their ids is its id.                                         *)
LEMMA NewestL2 ==
  ASSUME TypeInv, AnswerInv, CtlInv, DirInv, PastInv, CommittedWhole, FreshInv, ~torn,
         RecoverL2, Outdated, Endures
  PROVE  /\ Outdated' /\ Tried' /\ Endures'
         /\ (\A r \in Rank : pc'[r] = "run") => Answered
<1> USE DEF Level
<1>1. PICK own, copy \in [Rank -> (UNION {dir[2][r] : r \in Rank}) \cup {NoFile}],
           ids \in [Rank -> {f.id : f \in UNION {dir[2][r] : r \in Rank}} \cup {0}] :
        /\ \A r \in Rank :
             /\ own[r] \in Reported(r, "ckpt")
             /\ copy[r] \in Reported(r, "copy")
             /\ ids[r] \in IF {own[r], copy[r]} = {NoFile} THEN {0}
                           ELSE {f.id : f \in {own[r], copy[r]} \ {NoFile}}
        /\ IF \A r \in Rank : own[r] # NoFile \/ copy[Right(r)] # NoFile
           THEN \E i \in 1 .. MaxCalls : \E d \in {Rebuilt(own, copy, i)} :
                  /\ i = AverageId(ids)
                  /\ \A r \in Rank :
                       /\ own[r] = NoFile => Named(d[r], "ckpt", i) # {}
                       /\ copy[r] = NoFile => Named(d[r], "copy", i) # {}
                  /\ dir' = [dir EXCEPT ![2] = d]
                  /\ lost' = IF done.lvl = 2 THEN {} ELSE lost
                  /\ Recovered(2, [r \in Rank |-> i], [r \in Rank |-> Mine(d, r, i)])
           ELSE NotFrom(2) /\ UNCHANGED <<dir, lost>>
  BY Zenon DEF RecoverL2
<1>2. /\ \A r \in Rank : pc[r] = "down"
      /\ ~Replacing /\ ~Replacing' /\ done' = done
  BY DownFacts
<1>3. Single(dir[2]) /\ Uniform(2, dir[2]) BY <1>2, DownUniform
<1>4. tries = 2 BY DEF RecoverL2
<1>5. /\ \A r \in Rank : \A f \in dir[2][r] :
           Sound(f) /\ f.kind \in Kinds(2) /\ f.id \in Nat /\ f.id > 0 /\ f.call \in Nat
      /\ \A q, r \in Rank : \A f \in dir[2][q], g \in dir[2][r] : f.call = g.call /\ f.id = g.id
  BY <1>3, Level2Sound
<1>6. ASSUME NEW r \in Rank
      PROVE  /\ own[r] = NoFile <=> \A f \in dir[2][r] : f.kind # "ckpt"
             /\ copy[r] = NoFile <=> \A f \in dir[2][r] : f.kind # "copy"
             /\ own[r] # NoFile => own[r] \in dir[2][r]
             /\ copy[r] # NoFile => copy[r] \in dir[2][r]
  <2>1. own[r] \in Reported(r, "ckpt") /\ copy[r] \in Reported(r, "copy") BY <1>1, Zenon
  <2>2. \A f \in dir[2][r] : Sound(f) BY <1>5
  <2> QED BY <2>1, <2>2, ReportedAll
<1>7. Usable2 <=> \A r \in Rank : own[r] # NoFile \/ copy[Right(r)] # NoFile
  <2>1. ASSUME NEW r \in Rank
        PROVE  copy[Right(r)] = NoFile <=> \A f \in dir[2][Right(r)] : f.kind # "copy"
    <3>1. PICK q \in Rank : q = Right(r) BY Neighbours
    <3> QED BY <1>6, <3>1
  <2> QED BY <1>6, <2>1 DEF Usable2
<1>8. CASE ~Usable2
  <2>1. NotFrom(2) /\ dir' = dir /\ lost' = lost BY <1>1, <1>7, <1>8
  <2>2. Outdated' /\ Tried' /\ Endures' BY <1>2, <1>4, <1>8, <2>1, NewestNot2
  <2>3. \E r \in Rank : pc'[r] # "run" BY <1>2, <2>1, RankFacts DEF NotFrom
  <2> QED BY <2>2, <2>3
<1>9. CASE Usable2
  <2>1. PICK i \in 1 .. MaxCalls : \E d \in {Rebuilt(own, copy, i)} :
          /\ i = AverageId(ids)
          /\ \A r \in Rank :
               /\ own[r] = NoFile => Named(d[r], "ckpt", i) # {}
               /\ copy[r] = NoFile => Named(d[r], "copy", i) # {}
          /\ dir' = [dir EXCEPT ![2] = d]
          /\ lost' = IF done.lvl = 2 THEN {} ELSE lost
          /\ Recovered(2, [r \in Rank |-> i], [r \in Rank |-> Mine(d, r, i)])
    BY <1>1, <1>7, <1>9, Zenon
  <2>2. PICK d \in {Rebuilt(own, copy, i)} :
          /\ i = AverageId(ids)
          /\ \A r \in Rank :
               /\ own[r] = NoFile => Named(d[r], "ckpt", i) # {}
               /\ copy[r] = NoFile => Named(d[r], "copy", i) # {}
          /\ dir' = [dir EXCEPT ![2] = d]
          /\ lost' = IF done.lvl = 2 THEN {} ELSE lost
          /\ Recovered(2, [r \in Rank |-> i], [r \in Rank |-> Mine(d, r, i)])
    BY <2>1, Zenon
  <2>3. d = Rebuilt(own, copy, i) OBVIOUS
  <2>4. /\ i = AverageId(ids)
        /\ \A r \in Rank :
             /\ own[r] = NoFile => Named(Rebuilt(own, copy, i)[r], "ckpt", i) # {}
             /\ copy[r] = NoFile => Named(Rebuilt(own, copy, i)[r], "copy", i) # {}
        /\ dir' = [dir EXCEPT ![2] = Rebuilt(own, copy, i)]
        /\ lost' = IF done.lvl = 2 THEN {} ELSE lost
        /\ Recovered(2, [r \in Rank |-> i], [r \in Rank |-> Mine(Rebuilt(own, copy, i), r, i)])
    BY <2>2, <2>3, Zenon
  <2>5. \A r \in Rank : /\ own[r] \in Reported(r, "ckpt")
                        /\ copy[r] \in Reported(r, "copy")
                        /\ own[r] # NoFile \/ copy[Right(r)] # NoFile
    BY <1>1, <1>7, <1>9
  <2>6. Exchanged(own, copy, i) BY <2>4, <2>5, Zenon DEF Exchanged
  <2>7. PICK p \in Rank : own[p] # NoFile \/ copy[p] # NoFile
    <3>1. PICK q \in Rank : q = Right(Root) BY Neighbours, RankFacts
    <3>2. own[Root] # NoFile \/ copy[q] # NoFile BY <2>5, <3>1, RankFacts
    <3> QED BY <3>2, RankFacts
  <2>8. PICK g \in dir[2][p] : TRUE BY <1>6, <2>7
  <2> PICK c \in Nat : c = g.call BY <1>5, <2>8
  <2> PICK j \in Nat : j = g.id /\ j > 0 BY <1>5, <2>8
  <2>9. \A r \in Rank : \A f \in dir[2][r] : f.call = c /\ f.id = j BY <1>5, <2>8
  <2>10. ASSUME NEW r \in Rank
         PROVE  /\ ids[r] \in {0, j}
                /\ own[r] # NoFile \/ copy[r] # NoFile => ids[r] = j
    <3>1. ids[r] \in IF {own[r], copy[r]} = {NoFile} THEN {0}
                     ELSE {f.id : f \in {own[r], copy[r]} \ {NoFile}}
      BY <1>1, Zenon
    <3>2. CASE {own[r], copy[r]} = {NoFile} BY <3>1, <3>2
    <3>3. CASE {own[r], copy[r]} # {NoFile}
      <4>1. PICK f \in {own[r], copy[r]} \ {NoFile} : ids[r] = f.id BY <3>1, <3>3
      <4>2. f \in dir[2][r] BY <1>6, <4>1
      <4>3. f.id = j BY <2>9, <4>2
      <4> QED BY <4>1, <4>3
    <3> QED BY <3>2, <3>3
  <2>11. AverageId(ids) = j BY <2>7, <2>10, AverageIsId
  <2>12. i = j BY <2>4, <2>11
  <2>13. AllOf(c, i) BY <2>9, <2>12 DEF AllOf
  <2>14. Outdated' /\ Tried' /\ Endures' /\ Answered
    <3>1. Received(own, copy, i) BY <2>4, Zenon DEF Received
    <3>2. lost' = IF done.lvl = 2 THEN {} ELSE lost BY <2>4, Zenon
    <3> QED BY <1>2, <1>3, <1>4, <1>9, <2>6, <2>13, <3>1, <3>2, NewestYes2
  <2> QED BY <2>14
<1> QED BY <1>8, <1>9

-----------------------------------------------------------------------------
(* The invariant and the theorem                                           *)

(* The invariant holds at first ...                                        *)
LEMMA NewestInit == RestartInit => NewestInv
<1> SUFFICES ASSUME RestartInit PROVE NewestInv OBVIOUS
<1>1. FreshInv BY DEF RestartInit, Init, FreshInv, Fresh
<1>2. PastInv BY DEF RestartInit, Init, PastInv
<1>3. Laid BY DEF RestartInit, Init, Laid
<1>4. Outdated /\ Tried /\ Endures BY DEF RestartInit, Init, Outdated, Tried, Endures
<1> QED BY <1>1, <1>2, <1>3, <1>4 DEF NewestInv

(* ... while the processes work ...                                        *)
LEMMA NewestWork ==
  ASSUME TypeInv, TypeInv', AnswerInv, StoreInv, WholeInv, ~Computes,
         4 \in CallLevels => 4 \in Async, 0 \notin UninitRes, NewestInv, Work
  PROVE  NewestInv'
<1> USE DEF StoreInv, WholeInv
<1>1. FreshInv /\ PastInv BY DEF NewestInv
<1>2. [RestartNext]_allVars BY DEF RestartNext
<1>3. FreshInv' BY <1>1, FreshWork
<1>4. PastInv' BY <1>1, <1>2, PastStep
<1>5. tries' = 0 /\ tries = 0
  <2>1. tries' = tries BY DEF Work
  <2>2. ~AllAt("down")' BY WorkRuns
  <2> QED BY <2>1, <2>2 DEF TypeInv, CountOK, AllAt, At
<1>6. torn' = torn /\ lost' = IF done' = done THEN lost ELSE {} BY DEF Work
<1>7. format' = format
  <2>1. ASSUME NEW r \in Rank, RankStep(r) PROVE format' = format BY <2>1, PlanGrows
  <2>2. CASE SumICP \/ MetaICP \/ SyncPost \/ BarrierICP \/ HeadsICP
    BY <2>2 DEF SumICP, MetaICP, SyncPost, BarrierICP, HeadsICP
  <2> QED BY <2>1, <2>2 DEF Work, IcpStep, RankStep
<1> SUFFICES ASSUME format = "ftiff", ~torn PROVE Laid' /\ Outdated' /\ Tried' /\ Endures'
  BY <1>3, <1>4, <1>6, <1>7 DEF NewestInv
<1>8. Laid /\ Outdated /\ Tried /\ Endures BY DEF NewestInv
<1>9. Laid' BY <1>1, <1>8, LaidStep
<1>10. ASSUME NEW r \in Rank, CleanICP(r) \/ RenameICP(r) PROVE Outdated' /\ Tried' /\ Endures'
  <2>1. done' = done BY <1>10, MoveDirs
  <2>2. lost' = lost BY <1>6, <2>1
  <2> QED BY <1>1, <1>5, <1>8, <1>10, <2>2, MoveNewest
<1>11. ASSUME NEW r \in Rank,
              \/ InitICP(r) \/ AddVarICP(r) \/ FinalizeICP(r) \/ CloseICP(r) \/ SendICP(r)
              \/ PostICP(r) \/ DiscardICP(r) \/ EndICP(r)
       PROVE  Outdated' /\ Tried' /\ Endures'
  <2>1. RankStep(r) BY <1>11 DEF RankStep
  <2>2. dir' = dir /\ done' = done
    BY <1>11 DEF InitICP, AddVarICP, FinalizeICP, CloseICP, SendICP, PostICP, DiscardICP, EndICP,
                 disk
  <2>3. /\ pc'[r] \notin {"rename", "barrier"}
        /\ pc[r] \notin {"clean", "rename", "barrier"}
    <3>1. CASE FinalizeICP(r) BY <3>1, Typed DEF FinalizeICP, Goto, At
    <3>2. CASE InitICP(r) \/ AddVarICP(r) BY <3>2, InitFacts, AddFacts
    <3>3. CASE CloseICP(r) \/ PostICP(r) BY <3>3, CloseFacts, PostFacts
    <3>4. CASE SendICP(r) BY <3>4, SendFacts, EndedFacts
    <3>5. CASE DiscardICP(r) \/ EndICP(r) BY <3>5, LastFacts, EndedFacts
    <3> QED BY <1>11, <3>1, <3>2, <3>3, <3>4, <3>5
  <2>4. \A q \in Rank : pc[q] \notin Moving BY <2>3 DEF CtlInv, Lockstep, Moving
  <2>5. \A q \in Rank : q # r => pc'[q] = pc[q] BY <2>1, OthersMemory
  <2>6. ~Replacing /\ ~Replacing' BY <2>3, <2>4, <2>5 DEF Replacing, Moving
  <2> QED BY <1>5, <1>6, <1>8, <2>2, <2>6, StillNewest
<1>12. CASE SumICP \/ MetaICP \/ SyncPost
  <2>1. dir' = dir /\ done' = done BY <1>12 DEF SumICP, MetaICP, SyncPost, disk
  <2>2. \E where \in {"sum", "meta", "sync"} : \A q \in Rank : pc[q] = where
    BY <1>12 DEF SumICP, MetaICP, SyncPost, AllAt, At
  <2>3. \E where \in {"close", "post", "clean", "discard"} : \A q \in Rank : pc'[q] = where
    BY <1>12 DEF SumICP, MetaICP, SyncPost, AllGoto
  <2>4. ~Replacing /\ ~Replacing' BY <2>2, <2>3 DEF Replacing
  <2> QED BY <1>5, <1>6, <1>8, <1>9, <2>1, <2>4, StillNewest
<1>13. CASE BarrierICP BY <1>1, <1>5, <1>8, <1>9, <1>13, BarrierNewest
<1>14. CASE HeadsICP BY <1>1, <1>5, <1>6, <1>8, <1>9, <1>14, HeadsNewest
<1> QED BY <1>9, <1>10, <1>11, <1>12, <1>13, <1>14 DEF Work, IcpStep

(* ... and in a crash and a restart, which keeps its promise.              *)
LEMMA NewestRestart ==
  ASSUME TypeInv, AnswerInv, StoreInv, WholeInv, 4 \in CallLevels => 4 \in Async, NewestInv,
         Crash \/ Restart \/ RecoverL1 \/ RecoverL2 \/ RecoverL4
  PROVE  /\ NewestInv'
         /\ EndsRestart /\ ~torn => Answered
<1> USE DEF StoreInv, WholeInv
<1>1. FreshInv /\ PastInv BY DEF NewestInv
<1>2. [RestartNext]_allVars BY DEF RestartNext
<1>3. FreshInv' BY <1>1, FreshRestart
<1>4. PastInv' BY <1>1, <1>2, PastStep
<1>5. CASE Crash
  <2>1. ASSUME ~torn' PROVE Laid' /\ Outdated' /\ Tried' /\ Endures'
    <3>1. ~torn /\ format = "ftiff" BY <1>5 DEF Crash
    <3>2. Laid /\ Outdated /\ Tried /\ Endures BY <3>1 DEF NewestInv
    <3>3. Laid' BY <1>5 DEF Crash, AllGoto, Laid
    <3> QED BY <1>1, <1>5, <2>1, <3>2, <3>3, CrashNewest
  <2>2. ~EndsRestart BY <1>5, RankFacts DEF Crash, AllGoto, EndsRestart
  <2> QED BY <1>3, <1>4, <2>1, <2>2 DEF NewestInv
<1>6. CASE Restart \/ RecoverL1 \/ RecoverL2 \/ RecoverL4
  <2>1. torn' = torn /\ format = "ftiff" /\ (pc' = pc \/ AllGoto("run")) /\ format' = format
        /\ \A r \in Rank : pc[r] = "down"
    BY <1>6, RestartFacts
  <2> SUFFICES ASSUME ~torn
               PROVE  /\ Laid' /\ Outdated' /\ Tried' /\ Endures'
                      /\ EndsRestart => Answered
    BY <1>3, <1>4, <2>1 DEF NewestInv
  <2>2. Laid /\ Outdated /\ Tried /\ Endures BY <2>1 DEF NewestInv
  <2>3. Laid' BY <2>1 DEF AllGoto, Laid
  <2>4. CASE Restart
    <3>1. dir' = dir /\ done' = done /\ lost' = lost /\ tries = 0 /\ tries' \in {0, 1}
      BY <2>4 DEF Restart, disk
    <3>2. ~Replacing /\ ~Replacing' BY <1>6, DownFacts
    <3>3. \A l : (NoOlder(l)' <=> NoOlder(l)) /\ (Enough(l)' <=> Enough(l))
      BY <3>1 DEF NoOlder, Enough, Newer, Ample
    <3>4. (Usable2' <=> Usable2) /\ (Bearable' <=> Bearable) BY <3>1 DEF Usable2, Bearable
    <3>5. Outdated' BY <2>2, <3>1, <3>2, <3>3, <3>4 DEF Outdated
    <3>6. Tried' BY <3>1 DEF Tried
    <3>7. ASSUME done.call > 0, Bearable
          PROVE  \E l \in {1, 2, 4} : l >= done.lvl /\ tries' <= l /\ Enough(l)
      <4>1. PICK l \in {1, 2, 4} : l >= done.lvl /\ Enough(l)
        BY <1>1, <2>2, <3>2, <3>7, EnduresDown
      <4>2. tries' <= l BY <3>1
      <4> QED BY <4>1, <4>2
    <3>8. Endures' BY <3>1, <3>2, <3>3, <3>4, <3>7 DEF Endures
    <3> QED BY <2>3, <3>1, <3>5, <3>6, <3>8 DEF EndsRestart
  <2>5. CASE RecoverL1 BY <1>1, <2>2, <2>3, <2>5, NewestL1 DEF EndsRestart
  <2>6. CASE RecoverL2 BY <1>1, <2>2, <2>3, <2>6, NewestL2 DEF EndsRestart
  <2>7. CASE RecoverL4 BY <1>1, <2>2, <2>3, <2>7, NewestL4 DEF EndsRestart
  <2> QED BY <1>6, <2>4, <2>5, <2>6, <2>7
<1> QED BY <1>5, <1>6

(* All steps.                                                              *)
LEMMA NewestStep ==
  ASSUME TypeInv, TypeInv', AnswerInv, StoreInv, WholeInv, ~Computes,
         4 \in CallLevels => 4 \in Async, 0 \notin UninitRes, NewestInv, [RestartNext]_allVars
  PROVE  /\ NewestInv'
         /\ EndsRestart /\ ~torn => Answered
<1>1. CASE Work
  <2>1. ~EndsRestart
    <3>1. tries' = tries /\ ~AllAt("down")' BY <1>1, WorkRuns DEF Work
    <3> QED BY <3>1 DEF EndsRestart, TypeInv, CountOK, AllAt, At
  <2> QED BY <1>1, <2>1, NewestWork
<1>2. CASE Crash \/ Restart \/ RecoverL1 \/ RecoverL2 \/ RecoverL4 BY <1>2, NewestRestart
<1>3. CASE UNCHANGED allVars
  <2>1. /\ dir' = dir /\ ltmp' = ltmp /\ gtmp' = gtmp /\ done' = done /\ call' = call /\ pc' = pc
        /\ lvel' = lvel /\ tries' = tries /\ lost' = lost /\ format' = format /\ torn' = torn
    BY <1>3 DEF allVars, restartVars, vars, memory, heads, disk
  <2>2. FreshInv' <=> FreshInv BY <2>1 DEF FreshInv, Fresh
  <2>3. PastInv' <=> PastInv BY <2>1 DEF PastInv
  <2>4. Laid' <=> Laid BY <2>1 DEF Laid
  <2>5. \A l : (NoOlder(l)' <=> NoOlder(l)) /\ (Enough(l)' <=> Enough(l))
    BY <2>1 DEF NoOlder, Enough, Newer, Ample
  <2>6. /\ Usable2' <=> Usable2
        /\ Bearable' <=> Bearable
        /\ Replacing' <=> Replacing
    BY <2>1 DEF Usable2, Bearable, Replacing
  <2>7. (Outdated' <=> Outdated) /\ (Tried' <=> Tried) /\ (Endures' <=> Endures)
    BY <2>1, <2>5, <2>6 DEF Outdated, Tried, Endures
  <2>8. ~EndsRestart
    <3>1. tries # 0 => pc[Root] = "down" BY RankFacts DEF TypeInv, CountOK
    <3> QED BY <2>1, <3>1, RankFacts DEF EndsRestart
  <2> QED BY <2>1, <2>2, <2>3, <2>4, <2>7, <2>8 DEF NewestInv
<1> QED BY <1>1, <1>2, <1>3 DEF RestartNext, Finished

(* A restart gives every process the data of the last checkpoint that was  *)
(* committed, or of a newer one, if its level bears the nodes lost since   *)
(* and no crash has hit between the renames of a checkpoint: although      *)
(* FTI_RecoverFiles takes the first level at which all processes find a    *)
(* readable file, compares no ids at level 1, and at level 2 takes the     *)
(* average of the ids (ftiff.c:1773, 2265), and although it may be stopped *)
(* by another crash half-way.  Level 4 is only written by the heads:       *)
(* inline, one process may remove the temporary directory of all.  Nothing *)
(* is computed between FTI_InitICP and FTI_AddVarICP: the file would fail  *)
(* its checksum (incremental-checkpoint.c:485).                            *)
THEOREM NewestIsRestored ==
  ASSUME 0 \notin UninitRes, ~Computes, 4 \in CallLevels => 4 \in Async
  PROVE  RestartSpec => NewestRestored
<1> DEFINE Inv == TypeInv /\ AnswerInv /\ StoreInv
<1>1. RestartInit => WholeInv /\ NewestInv BY WholeInit, NewestInit
<1>2. Inv /\ Inv' /\ WholeInv /\ NewestInv /\ [RestartNext]_allVars
        => (WholeInv /\ NewestInv)' /\ (EndsRestart /\ ~torn => Answered)
  <2>1. Inv /\ WholeInv /\ [RestartNext]_allVars => WholeInv' BY WholeStep
  <2>2. Inv /\ Inv' /\ WholeInv /\ NewestInv /\ [RestartNext]_allVars
          => NewestInv' /\ (EndsRestart /\ ~torn => Answered)
    BY NewestStep
  <2> QED BY <2>1, <2>2
<1>3. (EndsRestart /\ ~torn => Answered)
        => [EndsRestart /\ done.call > 0 /\ Bearable /\ ~torn
              => \A r \in Rank : restored'[r].call >= done.call]_allVars
  BY DEF Answered
<1>4. RestartSpec => []Inv BY AlwaysStored
<1> QED BY <1>1, <1>2, <1>3, <1>4, PTL DEF RestartSpec, NewestRestored
=============================================================================

------------------------- MODULE HeadProtocolProofs -------------------------
(***************************************************************************)
(* Proofs about HeadProtocol, for every number of nodes and of processes   *)
(* per node, every choice of inline and asynchronous levels, every set of  *)
(* faults and any number of calls.                                         *)
(***************************************************************************)
EXTENDS HeadProtocol, TLAPS

HeadOf(r) == <<r[1], 0>>

(* Where a process can be. *)

Ending == {"dropConf", "drop", "finished", "done"}    \* FTI_ENDW is sent
Placing == {"clean", "rename", "renameGlobal", "renamed"}
Posting == {"post", "posted", "discard"} \cup Placing \* in FTI_PostCkpt
AppPlace == {"run", "await", "write", "wrote", "meta", "send", "return", "endw"}
              \cup Posting \cup Ending
Serving == {"agree", "answer"} \cup Posting
HeadPlace == {"listen", "collect", "ending", "finished", "done"} \cup Serving

Busy(h) == pc[h] \in Serving

\* The MPI_Allreduce of FTI_WriteCkpt that r has been through.
Round(r) == IF pc[r] \in {"await", "write", "wrote", "endw"} \cup Ending
              THEN call[r] - 1 ELSE call[r]

\* An answer is due to r.
Due(r) == offline[r] /\ pc[r] \in {"run", "await"}

Asked(r) == {calls[Round(r)], Rejected}

\* FTI_Finalize is the last call.
CallsInv == \A k \in 1 .. Len(calls) : calls[k] = Finalize => k = Len(calls)

\* Where a process is tells which call it is in, and at which level.
CallInv(r) ==
  /\ pc[r] # "run" => call[r] >= 1
  /\ offline[r] => Round(r) >= 1
  /\ call[r] >= 1 /\ ~At(r, "await") =>
       (calls[call[r]] = Finalize <=> pc[r] \in {"endw"} \cup Ending)
  /\ pc[r] \in {"wrote", "meta", "send"} => lvel[r] = calls[call[r]]
  /\ pc[r] \in Posting \cup {"return"} =>
       calls[call[r]] \notin Async /\ ~offline[r] /\ lvel[r] \in {calls[call[r]], Rejected}

\* A rejected checkpoint is not put in its place.
ResultInv(x) ==
  /\ pc[x] \in Placing => res[x] = 0
  /\ pc[x] \in {"agree", "posted", "answer", "return"} \cup Placing /\ res[x] = 0 =>
       lvel[x] # Rejected

\* Between a process and its head: nothing; a request; the head at work on it; the
\* answer.
Exchange(r) ==
  \/ /\ ~Due(r) /\ ~Busy(HeadOf(r))
     /\ ckptTag[r] = <<>> /\ answers[r] = <<>>
  \/ /\ Due(r) /\ ~Busy(HeadOf(r))
     /\ \E l \in Asked(r) : ckptTag[r] = <<[lvl |-> l, call |-> Round(r)]>>
     /\ answers[r] = <<>>
  \/ /\ Due(r) /\ Busy(HeadOf(r))
     /\ call[HeadOf(r)] = Round(r) /\ lvel[HeadOf(r)] \in Asked(r)
     /\ ckptTag[r] = <<>> /\ answers[r] = <<>>
  \/ /\ Due(r) /\ ~Busy(HeadOf(r))
     /\ ckptTag[r] = <<>>
     /\ \E a \in (1 .. 4) \cup {NSCS} : answers[r] = <<a>>

\* The processes are in the same round.
Lockstep == \A q, r \in Apps : Round(q) = Round(r)

\* As long as a process has still to send its request, the head has taken none of
\* those of its node.
Unsent ==
  \A q, r \in Apps :
    /\ HeadOf(q) = HeadOf(r)
    /\ pc[q] \in {"meta", "send"} /\ calls[call[q]] \in Async
    => pc[r] \in {"meta", "send"} \/ ckptTag[r] # <<>>

\* A head stops when its processes have said that they end.
EndInv ==
  /\ \A r \in Apps : finalTag[r] => pc[r] \in Ending
  /\ \A h \in Heads :
       /\ At(h, "ending") => /\ \E r \in Body(h) : pc[r] \in Ending
                             /\ \A r \in Body(h) : ckptTag[r] = <<>>
       /\ pc[h] \in {"finished", "done"} => \A r \in Body(h) : pc[r] \in Ending

\* What lastCkptLvel will be when r has taken notice of what is already decided.
Known(r) ==
  IF At(r, "return") /\ res[r] = 0 THEN lvel[r]
  ELSE IF At(HeadOf(r), "answer") /\ res[HeadOf(r)] = 0 THEN lvel[HeadOf(r)]
  ELSE IF answers[r] # <<>> /\ Head(answers[r]) # NSCS THEN Head(answers[r])
  ELSE last[r]

Inv ==
  /\ TypeOK
  /\ \A r \in Apps : pc[r] \in AppPlace
  /\ \A h \in Heads : pc[h] \in HeadPlace
  /\ CallsInv
  /\ \A r \in Apps : CallInv(r)
  /\ \A x \in Who : ResultInv(x)
  /\ \A r \in Apps : Exchange(r)
  /\ Lockstep /\ Unsent /\ EndInv
  /\ \A r \in Apps : Known(r) = acked.lvl
-----------------------------------------------------------------------------
(***************************************************************************)
(* Processes and their heads.                                              *)
(***************************************************************************)

LEMMA Processes ==
  /\ \A r \in Apps : r \in Who /\ r \notin Heads /\ ~AmIaHead(r) /\ HeadOf(r) \in Heads
  /\ \A h \in Heads : /\ h \in Who /\ h \notin Apps /\ AmIaHead(h)
                      /\ <<h[1], 1>> \in Apps /\ HeadOf(<<h[1], 1>>) = h
  /\ Who = Apps \cup Heads
  /\ \A h \in Heads : Body(h) = {r \in Apps : HeadOf(r) = h}
  /\ \A r \in Apps : r[2] \in Group
  /\ Heads # Apps /\ <<0, 1>> \in Apps
<1> USE SizesAssumption DEF Apps, Heads, Who, AmIaHead, HeadOf, Node, Group
<1>1. \A r \in Apps : r \in Who /\ r \notin Heads /\ ~AmIaHead(r) /\ HeadOf(r) \in Heads
  OBVIOUS
<1>2. \A h \in Heads : /\ h \in Who /\ h \notin Apps /\ AmIaHead(h)
                       /\ <<h[1], 1>> \in Apps /\ HeadOf(<<h[1], 1>>) = h
  OBVIOUS
<1>3. \A h \in Heads : Body(h) = {r \in Apps : HeadOf(r) = h}
  <2> SUFFICES ASSUME NEW h \in Heads PROVE Body(h) = {r \in Apps : HeadOf(r) = h}
    OBVIOUS
  <2>1. \A n \in Node, p \in Group : <<n, p>> \in Body(h) <=> n = h[1]
    BY DEF Body
  <2>2. \A n \in Node, p \in Group : HeadOf(<<n, p>>) = h <=> n = h[1]
    OBVIOUS
  <2> QED
    BY <2>1, <2>2 DEF Body
<1>4. <<0, 1>> \in Apps
  OBVIOUS
<1> QED
  BY <1>1, <1>2, <1>3, <1>4

LEMMA RoundRange ==
  ASSUME Inv, NEW r \in Apps
  PROVE  /\ Round(r) \in 0 .. Len(calls)
         /\ Due(r) => Round(r) \in 1 .. Len(calls) /\ calls[Round(r)] \in 1 .. 4
<1>1. call[r] \in 0 .. Len(calls) /\ Len(calls) \in Nat /\ CallInv(r)
  BY Processes DEF Inv, TypeOK, Index
<1>2. Round(r) \in 0 .. Len(calls)
  BY <1>1 DEF Round, CallInv, Ending
<1>3. ASSUME Due(r) PROVE Round(r) \in 1 .. Len(calls) /\ calls[Round(r)] \in 1 .. 4
  <2>1. Round(r) \in 1 .. Len(calls)
    BY <1>1, <1>2, <1>3 DEF Due, CallInv
  <2>2. calls[Round(r)] \in 0 .. 4
    BY <2>1 DEF Inv, TypeOK
  <2>3. CASE pc[r] = "run"
    BY <1>1, <2>1, <2>2, <2>3 DEF CallInv, Round, At, Ending, Finalize
  <2>4. CASE pc[r] = "await"
    <3>1. Round(r) # Len(calls)
      BY <1>1, <2>1, <2>4 DEF Round
    <3> QED
      BY <2>1, <2>2, <3>1 DEF Inv, CallsInv, Finalize
  <2> QED
    BY <1>3, <2>3, <2>4 DEF Due
<1> QED
  BY <1>2, <1>3

\* The head works for a request of each of its processes, of the round they are in.
LEMMA BusyAsked ==
  ASSUME Inv, NEW h \in Heads, Busy(h), NEW r \in Body(h)
  PROVE  /\ r \in Apps /\ HeadOf(r) = h /\ Due(r)
         /\ call[h] = Round(r) /\ lvel[h] \in Asked(r)
         /\ ckptTag[r] = <<>> /\ answers[r] = <<>>
<1>1. r \in Apps /\ HeadOf(r) = h
  BY Processes
<1>2. Exchange(r)
  BY <1>1 DEF Inv
<1> QED
  BY <1>1, <1>2 DEF Exchange

LEMMA BusyLevel ==
  ASSUME Inv, NEW h \in Heads, Busy(h)
  PROVE  lvel[h] \in (1 .. 4) \cup {Rejected}
<1>1. <<h[1], 1>> \in Body(h)
  BY Processes
<1>2. PICK r \in Body(h) : TRUE
  BY <1>1
<1> QED
  BY <1>2, BusyAsked, RoundRange DEF Asked

-----------------------------------------------------------------------------
(***************************************************************************)
(* Types.  Index grows with calls.                                         *)
(***************************************************************************)

LEMMA IndexNat == ASSUME TypeOK PROVE Index \subseteq Nat /\ 0 \in Index /\ Len(calls) \in Nat
BY DEF Index, TypeOK

LEMMA SeqMono == ASSUME NEW S, NEW T, S \subseteq T PROVE Seq(S) \subseteq Seq(T)
OBVIOUS

LEMMA AppendType == ASSUME NEW S, NEW s \in Seq(S), NEW e \in S PROVE Append(s, e) \in Seq(S)
OBVIOUS

LEMMA HeadTailType ==
  ASSUME NEW S, NEW s \in Seq(S), s # <<>> PROVE Head(s) \in S /\ Tail(s) \in Seq(S)
OBVIOUS

\* What an appended call does to types and to the calls made.
LEMMA CallsGrow ==
  ASSUME TypeOK, NEW l \in 0 .. 4, calls' = Append(calls, l)
  PROVE  /\ calls' \in Seq(0 .. 4)
         /\ Len(calls') = Len(calls) + 1 /\ calls'[Len(calls) + 1] = l
         /\ \A k \in 1 .. Len(calls) : calls'[k] = calls[k]
         /\ Index \subseteq Index'
<1>1. calls \in Seq(0 .. 4)
  BY DEF TypeOK
<1> QED
  BY <1>1 DEF Index

LEMMA EnterType ==
  ASSUME Inv, NEW r \in Apps, NEW l \in 0 .. 4, Enter(r, l),
         calls' \in Seq(0 .. 4), Index \subseteq Index', call[r] + 1 \in Index'
  PROVE  TypeOK'
<1>1. TypeOK
  BY DEF Inv
<1>2. r \in Who
  BY Processes
<1> USE <1>1, <1>2 DEF TypeOK, Enter
<1>3. pc' \in [Who -> Where] /\ call' \in [Who -> Index'] /\ res' \in [Who -> {0, 1}]
  BY DEF Goto, Where
<1>4. first' \in [Apps -> [fresh : BOOLEAN, ckpt : BOOLEAN]]
  OBVIOUS
<1>5. ckptTag' \in [Apps -> Seq([lvl : (1 .. 4) \cup {Rejected}, call : Index'])]
  <2>1. [lvl : (1 .. 4) \cup {Rejected}, call : Index]
          \subseteq [lvl : (1 .. 4) \cup {Rejected}, call : Index']
    OBVIOUS
  <2>2. Seq([lvl : (1 .. 4) \cup {Rejected}, call : Index])
          \subseteq Seq([lvl : (1 .. 4) \cup {Rejected}, call : Index'])
    BY <2>1, SeqMono
  <2> QED
    BY <2>2 DEF net
<1>6. /\ tmp' \in [Apps -> Index'] /\ gtmp' \in [Apps -> Index'] /\ gdir' \in [Apps -> Index']
      /\ dir' \in [1 .. 3 -> [Apps -> Index']]
  <2>1. [Apps -> Index] \subseteq [Apps -> Index']
    OBVIOUS
  <2> QED
    BY <2>1 DEF disk
<1>7. mtmp' \in [Group -> Index'] /\ meta' \in [1 .. 4 -> [Group -> Index']]
  <2>1. [Group -> Index] \subseteq [Group -> Index']
    OBVIOUS
  <2> QED
    BY <2>1 DEF metas
<1>8. acked' \in [call : Index', lvl : 0 .. 4]
  OBVIOUS
<1> QED
  BY <1>3, <1>4, <1>5, <1>6, <1>7, <1>8 DEF net

LEMMA AppType ==
  ASSUME Inv, NEW r \in Apps,
         \/ Await(r) \/ \E bad \in BOOLEAN : Write(r, bad) \/ CreateMetadata(r, bad)
         \/ SendAsync(r) \/ StartInline(r) \/ ReturnInline(r)
         \/ SendEnd(r) \/ DropConf(r) \/ Drop(r)
  PROVE  TypeOK'
<1>1. TypeOK /\ CallInv(r) /\ ResultInv(r) /\ r \in Who /\ pc[r] \in AppPlace
  BY Processes DEF Inv
<1>2. Index \subseteq Nat /\ 0 \in Index /\ call[r] \in Index
  BY <1>1, IndexNat DEF TypeOK
<1>3. pc[r] # "run" => call[r] \in 1 .. Len(calls) /\ calls[call[r]] \in 0 .. 4
  BY <1>1 DEF CallInv, TypeOK, Index
<1>4. ASSUME Await(r) PROVE TypeOK'
  <2>1. Head(answers[r]) \in (1 .. 4) \cup {NSCS} /\ Tail(answers[r]) \in Seq((1 .. 4) \cup {NSCS})
    BY <1>1, <1>4 DEF Await, TypeOK
  <2>2. pc' \in [Who -> Where]
    BY <1>1, <1>4 DEF Await, TypeOK, Goto, Where
  <2>3. last' \in [Apps -> 0 .. 4]
    <3>1. Head(answers[r]) # NSCS => Head(answers[r]) \in 0 .. 4
      BY <2>1
    <3> QED
      BY <1>1, <1>4, <3>1 DEF Await, TypeOK
  <2>4. answers' \in [Apps -> Seq((1 .. 4) \cup {NSCS})]
    BY <1>1, <1>4, <2>1 DEF Await, TypeOK
  <2> QED
    BY <1>1, <1>4, <2>2, <2>3, <2>4 DEF Await, TypeOK, Index, disk, metas
<1>5. ASSUME NEW bad \in BOOLEAN, Write(r, bad) PROVE TypeOK'
  <2>1. calls[call[r]] \in Level /\ call[r] \in Index /\ lvel[r] \in Level
    BY <1>1, <1>2, <1>3, <1>5 DEF Write, At, Level, TypeOK
  <2>2. pc' \in [Who -> Where] /\ res' \in [Who -> {0, 1}]
    BY <1>1, <1>5 DEF Write, TypeOK, Goto, Where
  <2>3. prev' \in [Apps -> Level] /\ lvel' \in [Who -> Level] /\ faults' \in Nat
    BY <1>1, <1>5, <2>1 DEF Write, TypeOK, Count
  <2>4. tmp' \in [Apps -> Index] /\ gtmp' \in [Apps -> Index]
    BY <1>1, <1>2, <1>5, <2>1 DEF Write, TypeOK, NoCall
  <2> QED
    BY <1>1, <1>5, <2>2, <2>3, <2>4 DEF Write, TypeOK, Index, net, metas
<1>6. ASSUME NEW bad \in BOOLEAN, CreateMetadata(r, bad) PROVE TypeOK'
  <2>1. r[2] \in Group
    BY Processes
  <2>2. pc' \in [Who -> Where] /\ res' \in [Who -> {0, 1}] /\ faults' \in Nat
    BY <1>1, <1>6 DEF CreateMetadata, TypeOK, Goto, Where, Count
  <2>3. mtmp' \in [Group -> Index]
    BY <1>1, <1>2, <1>6, <2>1 DEF CreateMetadata, TypeOK, NoCall
  <2> QED
    BY <1>1, <1>6, <2>2, <2>3 DEF CreateMetadata, TypeOK, Index, net, exec, disk
<1>7. ASSUME SendAsync(r) PROVE TypeOK'
  <2> DEFINE m == [lvl |-> IF res[r] = 0 THEN lvel[r] ELSE Rejected, call |-> call[r]]
  <2>1. lvel[r] \in 1 .. 4
    <3>1. lvel[r] \in Async
      BY <1>7 DEF SendAsync
    <3>2. lvel[r] \in 2 .. 4
      BY <3>1, LevelsAssumption
    <3> QED
      BY <3>2
  <2>2. m \in [lvl : (1 .. 4) \cup {Rejected}, call : Index]
    BY <1>2, <2>1
  <2> HIDE DEF m
  <2>3. ckptTag' = [ckptTag EXCEPT ![r] = Append(@, m)]
    BY <1>7 DEF SendAsync, m
  <2>4. ckptTag' \in [Apps -> Seq([lvl : (1 .. 4) \cup {Rejected}, call : Index])]
    <3>1. ckptTag \in [Apps -> Seq([lvl : (1 .. 4) \cup {Rejected}, call : Index])]
      BY <1>1 DEF TypeOK
    <3>2. Append(ckptTag[r], m) \in Seq([lvl : (1 .. 4) \cup {Rejected}, call : Index])
      BY <2>2, <3>1, AppendType
    <3> QED
      BY <2>3, <3>1, <3>2
  <2>5. prev[r] \in Level /\ conf' \in {0, 1}
    BY <1>1, <1>7 DEF SendAsync, TypeOK, Flag
  <2> QED
    BY <1>1, <1>7, <2>4, <2>5 DEF SendAsync, TypeOK, Goto, Where, Index, disk, metas
<1>8. ASSUME StartInline(r) PROVE TypeOK'
  BY <1>1, <1>8 DEF StartInline, TypeOK, Goto, Where, Index, Level, net, disk, metas
<1>9. ASSUME ReturnInline(r) PROVE TypeOK'
  <2>1. res[r] = 0 => lvel[r] \in 0 .. 4
    BY <1>1, <1>9 DEF ReturnInline, At, ResultInv, TypeOK, Level
  <2>2. conf' \in {0, 1}
    BY <1>1, <1>9 DEF ReturnInline, TypeOK, Flag
  <2> QED
    BY <1>1, <1>9, <2>1, <2>2 DEF ReturnInline, TypeOK, Goto, Where, Index, net, disk, metas
<1>10. ASSUME SendEnd(r) PROVE TypeOK'
  BY <1>1, <1>10 DEF SendEnd, TypeOK, Goto, Where, Index, exec, disk, metas
<1>11. ASSUME DropConf(r) PROVE TypeOK'
  BY <1>1, <1>11 DEF DropConf, TypeOK, Goto, Where, Index, exec, net, disk, metas
<1>12. ASSUME Drop(r) PROVE TypeOK'
  <2>1. pc' \in [Who -> Where]
    BY <1>1, <1>12 DEF Drop, TypeOK, Goto, Where
  <2>2. dir' \in [1 .. 3 -> [Apps -> Index]]
    BY <1>1, <1>2, <1>12 DEF Drop, CleanLevels, TypeOK, NoCall
  <2>3. gdir' \in [Apps -> Index] /\ meta' \in [1 .. 4 -> [Group -> Index]]
    BY <1>1, <1>2, <1>12 DEF Drop, CleanLevels, TypeOK, NoFiles, NoMeta, NoCall
  <2> QED
    BY <1>1, <1>12, <2>1, <2>2, <2>3 DEF Drop, TypeOK, Index, exec, net
<1> QED
  BY <1>4, <1>5, <1>6, <1>7, <1>8, <1>9, <1>10, <1>11, <1>12

LEMMA PostType ==
  ASSUME Inv, NEW x \in Who, PostStep(x)
  PROVE  TypeOK'
<1>1. TypeOK /\ ResultInv(x) /\ Index \subseteq Nat /\ 0 \in Index
  BY IndexNat DEF Inv
<1>2. After(x) \in Where
  BY DEF After, Where
<1>3. ASSUME NEW bad \in BOOLEAN, NEW lost \in BOOLEAN, Post(x, bad, lost) PROVE TypeOK'
  <2>1. pc' \in [Who -> Where] /\ res' \in [Who -> {0, 1}] /\ faults' \in Nat
    BY <1>1, <1>3 DEF Post, TypeOK, Goto, Where, Count
  <2>2. gtmp' \in [Apps -> Index]
    BY <1>1, <1>3 DEF Post, TypeOK, NoCall
  <2> QED
    BY <1>1, <1>3, <2>1, <2>2 DEF Post, TypeOK, Index, exec, net, metas
<1>4. ASSUME Discard(x) PROVE TypeOK'
  BY <1>1, <1>2, <1>4
  DEF Discard, TypeOK, Goto, Index, exec, net, NoFiles, NoMeta, NoCall
<1>5. ASSUME Clean(x) PROVE TypeOK'
  BY <1>1, <1>5
  DEF Clean, CleanLevels, TypeOK, Goto, Where, Index, exec, net, NoFiles, NoMeta, NoCall
<1>6. ASSUME Rename(x) PROVE TypeOK'
  <2>1. pc' \in [Who -> Where]
    BY <1>1, <1>6 DEF Rename, TypeOK, Goto, Where
  <2>2. tmp' \in [Apps -> Index]
    BY <1>1, <1>6 DEF Rename, TypeOK, NoCall
  <2>3. dir' \in [1 .. 3 -> [Apps -> Index]]
    <3> DEFINE l == IF lvel[x] = 4 THEN 1 ELSE lvel[x]
               f == [r \in Apps |-> IF r[1] = x[1] THEN tmp[r] ELSE dir[l][r]]
    <3>1. ASSUME l \in 1 .. 3 PROVE f \in [Apps -> Index]
      BY <1>1, <3>1 DEF TypeOK
    <3>2. dir' = dir \/ dir' = [dir EXCEPT ![l] = f]
      BY <1>6 DEF Rename
    <3> HIDE DEF l, f
    <3> QED
      BY <1>1, <3>1, <3>2 DEF TypeOK
  <2> QED
    BY <1>1, <1>6, <2>1, <2>2, <2>3 DEF Rename, TypeOK, Index, exec, net, metas
<1>7. ASSUME RenameGlobal(x) PROVE TypeOK'
  <2>1. pc' \in [Who -> Where]
    BY <1>1, <1>7 DEF RenameGlobal, TypeOK, Goto, Where
  <2>2. gtmp' \in [Apps -> Index] /\ gdir' \in [Apps -> Index]
    BY <1>1, <1>7 DEF RenameGlobal, TypeOK, NoFiles, NoCall
  <2>3. mtmp' \in [Group -> Index] /\ meta' \in [1 .. 4 -> [Group -> Index]]
    BY <1>1, <1>7 DEF RenameGlobal, TypeOK, NoMeta, NoCall
  <2> QED
    BY <1>1, <1>7, <2>1, <2>2, <2>3 DEF RenameGlobal, TypeOK, Index, exec, net
<1> QED
  BY <1>3, <1>4, <1>5, <1>6, <1>7 DEF PostStep

\* What the head is asked for, and the level it makes of it (Collect).
Tokens(h) == {Head(ckptTag[r]).lvl : r \in Body(h)}
Chosen(T) == IF Rejected \in T THEN Rejected ELSE CHOOSE t \in T : TRUE

LEMMA CollectStep ==
  ASSUME Inv, NEW h \in Heads, Collect(h)
  PROVE  /\ Chosen(Tokens(h)) \in Tokens(h) /\ Tokens(h) \subseteq (1 .. 4) \cup {Rejected}
         /\ lvel' = [lvel EXCEPT ![h] = Chosen(Tokens(h))]
         /\ res' = [res EXCEPT ![h] = IF Chosen(Tokens(h)) = Rejected THEN 1 ELSE 0]
<1>1. <<h[1], 1>> \in Body(h) /\ Body(h) \subseteq Apps
  BY Processes
<1>2. Chosen(Tokens(h)) \in Tokens(h)
  BY <1>1 DEF Tokens, Chosen
<1>3. ASSUME NEW r \in Body(h) PROVE Head(ckptTag[r]).lvl \in (1 .. 4) \cup {Rejected}
  <2>1. ckptTag[r] \in Seq([lvl : (1 .. 4) \cup {Rejected}, call : Index]) /\ ckptTag[r] # <<>>
    BY <1>1 DEF Inv, TypeOK, Collect
  <2>2. Head(ckptTag[r]) \in [lvl : (1 .. 4) \cup {Rejected}, call : Index]
    BY <2>1, HeadTailType
  <2> QED
    BY <2>2
<1>4. Tokens(h) \subseteq (1 .. 4) \cup {Rejected}
  BY <1>3 DEF Tokens
<1>5. /\ lvel' = [lvel EXCEPT ![h] = Chosen(Tokens(h))]
      /\ res' = [res EXCEPT ![h] = IF Chosen(Tokens(h)) = Rejected THEN 1 ELSE 0]
  BY DEF Collect, Chosen, Tokens
<1> QED
  BY <1>2, <1>4, <1>5

LEMMA HeadType ==
  ASSUME Inv, NEW h \in Heads, HeadStep(h)
  PROVE  TypeOK'
<1>1. TypeOK /\ ResultInv(h) /\ h \in Who /\ Body(h) \subseteq Apps
  BY Processes DEF Inv
<1>2. ASSUME Listen(h) PROVE TypeOK'
  BY <1>1, <1>2 DEF Listen, TypeOK, Goto, Where, Index, exec, net, disk, metas
<1>3. ASSUME Collect(h) PROVE TypeOK'
  <2>1. PICK l \in (1 .. 4) \cup {Rejected} :
          lvel' = [lvel EXCEPT ![h] = l] /\ res' = [res EXCEPT ![h] = IF l = Rejected THEN 1 ELSE 0]
    BY <1>3, CollectStep
  <2>2. <<h[1], 1>> \in Body(h)
    BY Processes
  <2>3. Head(ckptTag[<<h[1], 1>>]).call \in Index
    <3>1. ckptTag[<<h[1], 1>>] \in Seq([lvl : (1 .. 4) \cup {Rejected}, call : Index])
      BY <1>1, <2>2 DEF TypeOK
    <3>2. Head(ckptTag[<<h[1], 1>>]) \in [lvl : (1 .. 4) \cup {Rejected}, call : Index]
      BY <1>3, <2>2, <3>1, HeadTailType DEF Collect
    <3> QED
      BY <3>2
  <2>4. ckptTag' \in [Apps -> Seq([lvl : (1 .. 4) \cup {Rejected}, call : Index])]
    <3>1. \A r \in Body(h) : Tail(ckptTag[r]) \in Seq([lvl : (1 .. 4) \cup {Rejected}, call : Index])
      BY <1>1, <1>3, HeadTailType DEF Collect, TypeOK
    <3> QED
      BY <1>1, <1>3, <3>1 DEF Collect, TypeOK
  <2>5. lvel' \in [Who -> Level] /\ res' \in [Who -> {0, 1}]
    BY <1>1, <2>1 DEF TypeOK, Level
  <2>6. pc' \in [Who -> Where] /\ call' \in [Who -> Index]
    BY <1>1, <1>3, <2>3 DEF Collect, TypeOK, Goto, Where
  <2> QED
    BY <1>1, <1>3, <2>4, <2>5, <2>6 DEF Collect, TypeOK, Index, exec, disk, metas
<1>4. ASSUME Answer(h) PROVE TypeOK'
  <2>1. (IF res[h] = 0 THEN lvel[h] ELSE NSCS) \in (1 .. 4) \cup {NSCS}
    BY <1>1, <1>4, BusyLevel DEF Answer, At, Busy, Serving, ResultInv
  <2>2. answers' \in [Apps -> Seq((1 .. 4) \cup {NSCS})]
    <3> DEFINE a == IF res[h] = 0 THEN lvel[h] ELSE NSCS
    <3>1. a \in (1 .. 4) \cup {NSCS}
      BY <2>1
    <3> HIDE DEF a
    <3>2. \A r \in Apps : Append(answers[r], a) \in Seq((1 .. 4) \cup {NSCS})
      BY <1>1, <3>1 DEF TypeOK
    <3>3. answers' = [r \in Apps |-> IF r \in Body(h) THEN Append(answers[r], a) ELSE answers[r]]
      BY <1>4 DEF Answer, a
    <3> QED
      BY <1>1, <3>2, <3>3 DEF TypeOK
  <2> QED
    BY <1>1, <1>4, <2>2 DEF Answer, TypeOK, Goto, Where, Index, exec, disk, metas
<1>5. ASSUME ListenFinal(h) PROVE TypeOK'
  BY <1>1, <1>5 DEF ListenFinal, TypeOK, Goto, Where, Index, exec, net, disk, metas
<1>6. ASSUME EndListen(h) PROVE TypeOK'
  BY <1>1, <1>6 DEF EndListen, TypeOK, Goto, Where, Index, exec, disk, metas
<1> QED
  BY <1>2, <1>3, <1>4, <1>5, <1>6 DEF HeadStep

-----------------------------------------------------------------------------
(***************************************************************************)
(* What a step of one process has to show.                                 *)
(***************************************************************************)

\* A step of application process r leaves alone what is of the others.
AppSame(r) ==
  /\ \A x \in Who : x # r => /\ pc'[x] = pc[x] /\ call'[x] = call[x]
                             /\ res'[x] = res[x] /\ lvel'[x] = lvel[x]
  /\ \A q \in Apps : q # r => /\ last'[q] = last[q] /\ offline'[q] = offline[q]
                              /\ ckptTag'[q] = ckptTag[q] /\ finalTag'[q] = finalTag[q]
                              /\ answers'[q] = answers[q]
  /\ acked' = acked
  /\ \A k \in 1 .. Len(calls) : calls'[k] = calls[k]

AppOwes(r) ==
  /\ pc'[r] \in AppPlace /\ CallInv(r)' /\ ResultInv(r)' /\ Exchange(r)'
  /\ Round(r)' = Round(r) /\ Known(r)' = Known(r)
  /\ finalTag'[r] \/ pc[r] \in Ending => pc'[r] \in Ending
  /\ At(HeadOf(r), "ending") => ckptTag'[r] = <<>>
  /\ ckptTag[r] # <<>> => ckptTag'[r] # <<>>
  /\ pc'[r] \in {"meta", "send"} => pc[r] \in {"meta", "send"} /\ call'[r] = call[r]
  /\ pc[r] \in {"meta", "send"} /\ calls[call[r]] \in Async =>
       pc'[r] \in {"meta", "send"} \/ ckptTag'[r] # <<>>

LEMMA AppFrame ==
  ASSUME Inv, NEW r \in Apps, AppSame(r), AppOwes(r), TypeOK', CallsInv'
  PROVE  Inv'
<1>1. r \in Who /\ r \notin Heads /\ HeadOf(r) \in Heads
  BY Processes
<1>2. \A h \in Heads : h \in Who /\ h # r
  BY Processes
<1>3. ASSUME NEW q \in Apps, q # r
      PROVE  pc'[q] \in AppPlace /\ CallInv(q)' /\ Exchange(q)'
             /\ Round(q)' = Round(q) /\ Known(q)' = Known(q)
  <2>1. q \in Who /\ HeadOf(q) \in Heads /\ HeadOf(q) # r /\ HeadOf(q) \in Who
    BY <1>2, Processes
  <2>2. Round(q)' = Round(q) /\ Due(q)' = Due(q) /\ Busy(HeadOf(q))' = Busy(HeadOf(q))
    BY <1>3, <2>1 DEF AppSame, Round, Due, Busy
  <2>3. call[q] \in Index
    BY <2>1 DEF Inv, TypeOK
  <2>4. CallInv(q)'
    <3>1. CallInv(q)
      BY DEF Inv
    <3>2. call[q] >= 1 => calls'[call[q]] = calls[call[q]]
      BY <2>3 DEF AppSame, Index
    <3>3. pc'[q] = pc[q] /\ call'[q] = call[q] /\ lvel'[q] = lvel[q] /\ offline'[q] = offline[q]
      BY <1>3, <2>1 DEF AppSame
    <3>4. CASE pc[q] = "run"
      BY <2>2, <3>1, <3>2, <3>3, <3>4 DEF CallInv, At, Posting, Placing, Ending
    <3>5. CASE pc[q] # "run"
      <4>1. call[q] >= 1 /\ calls'[call[q]] = calls[call[q]]
        BY <3>1, <3>2, <3>5 DEF CallInv
      <4> QED
        BY <2>2, <3>1, <3>3, <4>1 DEF CallInv, At
    <3> QED
      BY <3>4, <3>5
  <2>5. Exchange(q)'
    <3>1. Exchange(q)
      BY DEF Inv
    <3>2. /\ call'[HeadOf(q)] = call[HeadOf(q)] /\ lvel'[HeadOf(q)] = lvel[HeadOf(q)]
          /\ ckptTag'[q] = ckptTag[q] /\ answers'[q] = answers[q]
      BY <1>3, <2>1 DEF AppSame
    <3>3. Due(q) => Asked(q)' = Asked(q)
      BY <2>2, RoundRange DEF AppSame, Asked
    <3> QED
      BY <2>2, <3>1, <3>2, <3>3 DEF Exchange
  <2>6. Known(q)' = Known(q)
    BY <1>3, <2>1 DEF AppSame, Known, At
  <2>7. pc'[q] \in AppPlace
    BY <1>3, <2>1 DEF AppSame, Inv
  <2> QED
    BY <2>2, <2>4, <2>5, <2>6, <2>7
<1>4. \A h \in Heads : pc'[h] \in HeadPlace
  BY <1>2 DEF AppSame, Inv
<1>5. ASSUME NEW x \in Who PROVE ResultInv(x)'
  <2>1. CASE x = r
    BY <2>1 DEF AppOwes
  <2>2. CASE x # r
    BY <2>2 DEF AppSame, Inv, ResultInv
  <2> QED
    BY <2>1, <2>2
<1>6. Lockstep'
  BY <1>3 DEF Inv, Lockstep, AppOwes
<1>7. ASSUME NEW q \in Apps, NEW s \in Apps, HeadOf(q) = HeadOf(s),
             pc'[q] \in {"meta", "send"}, calls'[call'[q]] \in Async
      PROVE  pc'[s] \in {"meta", "send"} \/ ckptTag'[s] # <<>>
  <2>1. pc[q] \in {"meta", "send"} /\ call'[q] = call[q]
    BY <1>7, Processes DEF AppSame, AppOwes
  <2>2. call[q] \in 1 .. Len(calls)
    <3>1. CallInv(q) /\ call[q] \in 0 .. Len(calls) /\ Len(calls) \in Nat
      BY Processes DEF Inv, TypeOK, Index
    <3> QED
      BY <2>1, <3>1 DEF CallInv
  <2>3. calls[call[q]] \in Async
    BY <1>7, <2>1, <2>2 DEF AppSame
  <2>4. pc[s] \in {"meta", "send"} \/ ckptTag[s] # <<>>
    BY <1>7, <2>1, <2>3 DEF Inv, Unsent
  <2>5. CASE s # r
    BY <2>4, <2>5, Processes DEF AppSame
  <2>6. CASE s = r
    <3>1. pc[s] \in {"meta", "send"} => call[s] = call[q]
      BY <2>1 DEF Inv, Lockstep, Round, Ending
    <3> QED
      BY <2>3, <2>4, <2>6, <3>1 DEF AppOwes
  <2> QED
    BY <2>5, <2>6
<1>8. EndInv'
  <2>1. ASSUME NEW q \in Apps PROVE finalTag'[q] => pc'[q] \in Ending
    BY Processes DEF Inv, EndInv, AppSame, AppOwes
  <2>2. \A q \in Apps : pc[q] \in Ending => pc'[q] \in Ending
    BY Processes DEF AppSame, AppOwes
  <2>3. ASSUME NEW h \in Heads, At(h, "ending")'
        PROVE  (\E q \in Body(h) : pc'[q] \in Ending) /\ \A q \in Body(h) : ckptTag'[q] = <<>>
    <3>1. At(h, "ending")
      BY <1>2, <2>3 DEF AppSame, At
    <3>2. (\E q \in Body(h) : pc[q] \in Ending) /\ \A q \in Body(h) : ckptTag[q] = <<>>
      BY <3>1 DEF Inv, EndInv
    <3>3. \A q \in Body(h) : q \in Apps /\ (q = r => HeadOf(r) = h)
      BY Processes
    <3> QED
      BY <2>2, <3>1, <3>2, <3>3 DEF AppSame, AppOwes
  <2>4. ASSUME NEW h \in Heads, pc'[h] \in {"finished", "done"}
        PROVE  \A q \in Body(h) : pc'[q] \in Ending
    <3>1. \A q \in Body(h) : q \in Apps /\ pc[q] \in Ending
      BY <1>2, <2>4, Processes DEF AppSame, Inv, EndInv
    <3> QED
      BY <2>2, <3>1
  <2> QED
    BY <2>1, <2>3, <2>4 DEF EndInv
<1>9. \A q \in Apps : Known(q)' = acked'.lvl
  BY <1>3 DEF AppOwes, AppSame, Inv
<1> QED
  BY <1>3, <1>4, <1>5, <1>6, <1>7, <1>8, <1>9 DEF Inv, Unsent, AppOwes

\* A step of head h leaves alone what is of others but the messages of its node.
HeadSame(h) ==
  /\ \A x \in Who : x # h => /\ pc'[x] = pc[x] /\ call'[x] = call[x]
                             /\ res'[x] = res[x] /\ lvel'[x] = lvel[x]
  /\ \A r \in Apps : /\ last'[r] = last[r] /\ offline'[r] = offline[r]
                     /\ finalTag'[r] => finalTag[r]
                     /\ r \notin Body(h) => ckptTag'[r] = ckptTag[r] /\ answers'[r] = answers[r]
  /\ acked' = acked /\ calls' = calls

HeadOwes(h) ==
  /\ pc'[h] \in HeadPlace /\ ResultInv(h)'
  /\ \A r \in Body(h) : Exchange(r)' /\ Known(r)' = Known(r)
  /\ \/ \A r \in Body(h) : ckptTag'[r] = ckptTag[r]
     \/ \A r \in Body(h) : ckptTag[r] # <<>>
  /\ At(h, "ending")' => /\ \E r \in Body(h) : pc[r] \in Ending
                         /\ \A r \in Body(h) : ckptTag'[r] = <<>>
  /\ pc'[h] \in {"finished", "done"} => \A r \in Body(h) : pc[r] \in Ending

LEMMA HeadFrame ==
  ASSUME Inv, NEW h \in Heads, HeadSame(h), HeadOwes(h), TypeOK'
  PROVE  Inv'
<1>1. \A r \in Apps : r \in Who /\ r # h /\ (r \in Body(h) <=> HeadOf(r) = h)
  BY Processes
<1>2. \A r \in Apps : /\ pc'[r] = pc[r] /\ call'[r] = call[r] /\ res'[r] = res[r]
                      /\ lvel'[r] = lvel[r] /\ last'[r] = last[r] /\ offline'[r] = offline[r]
                      /\ Round(r)' = Round(r)
  BY <1>1 DEF HeadSame, Round
<1>3. ASSUME NEW r \in Apps PROVE Exchange(r)' /\ Known(r)' = Known(r)
  <2>1. CASE r \in Body(h)
    BY <2>1 DEF HeadOwes
  <2>2. CASE r \notin Body(h)
    <3>1. HeadOf(r) # h /\ HeadOf(r) \in Who
      BY <1>1, <2>2, Processes
    <3>2. Exchange(r)
      BY DEF Inv
    <3>3. /\ pc'[HeadOf(r)] = pc[HeadOf(r)] /\ call'[HeadOf(r)] = call[HeadOf(r)]
          /\ res'[HeadOf(r)] = res[HeadOf(r)] /\ lvel'[HeadOf(r)] = lvel[HeadOf(r)]
          /\ ckptTag'[r] = ckptTag[r] /\ answers'[r] = answers[r]
      BY <2>2, <3>1 DEF HeadSame
    <3>4. Due(r)' = Due(r) /\ Busy(HeadOf(r))' = Busy(HeadOf(r)) /\ Asked(r)' = Asked(r)
      BY <1>2, <3>3 DEF Due, Busy, Asked, HeadSame
    <3> QED
      BY <1>2, <3>2, <3>3, <3>4 DEF Exchange, Known, At
  <2> QED
    BY <2>1, <2>2
<1>4. \A r \in Apps : pc'[r] \in AppPlace /\ CallInv(r)'
  BY <1>2 DEF HeadSame, Inv, CallInv, At
<1>5. \A g \in Heads : pc'[g] \in HeadPlace
  BY Processes DEF HeadSame, HeadOwes, Inv
<1>6. \A x \in Who : ResultInv(x)'
  BY DEF HeadSame, HeadOwes, Inv, ResultInv
<1>7. Lockstep' /\ CallsInv'
  BY <1>2 DEF Inv, Lockstep, CallsInv, HeadSame
<1>8. ASSUME NEW q \in Apps, NEW s \in Apps, HeadOf(q) = HeadOf(s),
             pc'[q] \in {"meta", "send"}, calls'[call'[q]] \in Async
      PROVE  pc'[s] \in {"meta", "send"} \/ ckptTag'[s] # <<>>
  <2>1. pc[q] \in {"meta", "send"} /\ calls[call[q]] \in Async
    BY <1>2, <1>8 DEF HeadSame
  <2>2. pc[s] \in {"meta", "send"} \/ ckptTag[s] # <<>>
    BY <1>8, <2>1 DEF Inv, Unsent
  <2>3. ckptTag[q] = <<>>
    BY <2>1 DEF Inv, Exchange, Due
  <2>4. ckptTag'[s] = ckptTag[s]
    BY <1>1, <1>8, <2>3 DEF HeadSame, HeadOwes
  <2> QED
    BY <1>2, <2>2, <2>4
<1>9. EndInv'
  <2>1. \A r \in Apps : finalTag'[r] => pc'[r] \in Ending
    BY <1>2 DEF Inv, EndInv, HeadSame
  <2>2. ASSUME NEW g \in Heads
        PROVE  /\ At(g, "ending")' => /\ \E r \in Body(g) : pc'[r] \in Ending
                                      /\ \A r \in Body(g) : ckptTag'[r] = <<>>
               /\ pc'[g] \in {"finished", "done"} => \A r \in Body(g) : pc'[r] \in Ending
    <3>1. \A r \in Body(g) : r \in Apps /\ pc'[r] = pc[r] /\ (g # h => r \notin Body(h))
      BY <1>1, <1>2, Processes
    <3>2. CASE g = h
      BY <3>1, <3>2 DEF HeadOwes
    <3>3. CASE g # h
      BY <3>1, <3>3, Processes DEF HeadSame, At, Inv, EndInv
    <3> QED
      BY <3>2, <3>3
  <2> QED
    BY <2>1, <2>2 DEF EndInv
<1>10. \A r \in Apps : Known(r)' = acked'.lvl
  BY <1>3 DEF HeadSame, Inv
<1> QED
  BY <1>3, <1>4, <1>5, <1>6, <1>7, <1>8, <1>9, <1>10 DEF Inv, Unsent

-----------------------------------------------------------------------------
(***************************************************************************)
(* The steps of an application process.                                    *)
(***************************************************************************)

LEMMA AppFacts ==
  ASSUME Inv, NEW r \in Apps
  PROVE  /\ TypeOK /\ CallInv(r) /\ ResultInv(r) /\ Exchange(r) /\ pc[r] \in AppPlace
         /\ r \in Who /\ HeadOf(r) \in Who /\ HeadOf(r) # r /\ ~AmIaHead(r)
         /\ call[r] \in 0 .. Len(calls) /\ Len(calls) \in Nat
         /\ pc[r] # "run" => call[r] \in 1 .. Len(calls)
         /\ finalTag[r] => pc[r] \in Ending
         /\ At(HeadOf(r), "ending") => ckptTag[r] = <<>>
<1>1. /\ r \in Who /\ HeadOf(r) \in Who /\ HeadOf(r) # r /\ ~AmIaHead(r)
      /\ HeadOf(r) \in Heads /\ r \in Body(HeadOf(r))
  BY Processes
<1>2. TypeOK /\ CallInv(r) /\ ResultInv(r) /\ Exchange(r) /\ pc[r] \in AppPlace
  BY <1>1 DEF Inv
<1>3. call[r] \in 0 .. Len(calls) /\ Len(calls) \in Nat
  BY <1>1, <1>2 DEF TypeOK, Index
<1>4. pc[r] # "run" => call[r] \in 1 .. Len(calls)
  BY <1>2, <1>3 DEF CallInv
<1>5. /\ finalTag[r] => pc[r] \in Ending
      /\ At(HeadOf(r), "ending") => ckptTag[r] = <<>>
  BY <1>1 DEF Inv, EndInv
<1> QED
  BY <1>1, <1>2, <1>3, <1>4, <1>5

LEMMA EnterInv ==
  ASSUME Inv, NEW r \in Apps, NEW l \in 0 .. 4, At(r, "run"), Enter(r, l), TypeOK', CallsInv',
         \A k \in 1 .. Len(calls) : calls'[k] = calls[k], calls'[call[r] + 1] = l
  PROVE  Inv'
<1> USE AppFacts
<1>1. /\ pc[r] = "run" /\ call'[r] = call[r] + 1
      /\ pc'[r] = IF offline[r] THEN "await" ELSE IF l = Finalize THEN "endw" ELSE "write"
      /\ offline' = offline /\ lvel' = lvel /\ last' = last /\ ckptTag' = ckptTag
      /\ answers' = answers /\ finalTag' = finalTag /\ acked' = acked
      /\ \A x \in Who : x # r => pc'[x] = pc[x] /\ call'[x] = call[x] /\ res'[x] = res[x]
  BY DEF At, Enter, Goto, TypeOK, net
<1>2. AppSame(r)
  BY <1>1 DEF AppSame
<1>3. Round(r)' = Round(r) /\ Due(r)' = Due(r) /\ Busy(HeadOf(r))' = Busy(HeadOf(r))
  BY <1>1 DEF Round, Due, Busy, Ending
<1>4. CallInv(r)'
  <2>1. call'[r] >= 1 /\ calls'[call'[r]] = l
    BY <1>1
  <2>2. offline'[r] => Round(r)' >= 1
    BY <1>1, <1>3 DEF CallInv
  <2>3. pc'[r] # "await" => (l = Finalize <=> pc'[r] \in {"endw"} \cup Ending)
    BY <1>1 DEF Ending
  <2> QED
    BY <1>1, <2>1, <2>2, <2>3 DEF CallInv, At, Posting, Placing
<1>5. ResultInv(r)' /\ Known(r)' = Known(r) /\ pc'[r] \in AppPlace
  BY <1>1 DEF ResultInv, Known, At, Placing, AppPlace
<1>6. Exchange(r)'
  <2>1. Due(r) => Asked(r)' = Asked(r)
    BY <1>3, RoundRange DEF Asked
  <2> QED
    BY <1>1, <1>3, <2>1 DEF Exchange
<1> QED
  BY <1>1, <1>2, <1>3, <1>4, <1>5, <1>6, AppFrame DEF AppOwes, Ending

LEMMA IssueInv ==
  ASSUME Inv, NEW r \in Apps, NEW l \in CallLevels \cup {Finalize}, Issue(r, l)
  PROVE  Inv'
<1>1. l \in 0 .. 4
  BY LevelsAssumption DEF Finalize
<1>2. /\ calls' \in Seq(0 .. 4)
      /\ Len(calls') = Len(calls) + 1 /\ calls'[Len(calls) + 1] = l
      /\ \A k \in 1 .. Len(calls) : calls'[k] = calls[k]
      /\ Index \subseteq Index'
  BY <1>1, CallsGrow, AppFacts DEF Issue
<1>3. call[r] = Len(calls) /\ Len(calls) \in Nat /\ At(r, "run")
  BY AppFacts DEF Issue
<1>4. TypeOK'
  BY <1>1, <1>2, <1>3, EnterType DEF Issue, Index
<1>5. CallsInv'
  <2> SUFFICES ASSUME NEW k \in 1 .. Len(calls), calls[k] = Finalize
               PROVE  FALSE
    BY <1>2, <1>3 DEF CallsInv
  <2>1. k = Len(calls)
    BY DEF Inv, CallsInv
  <2>2. call[r] >= 1 /\ calls[call[r]] = Finalize
    BY <1>3, <2>1
  <2> QED
    BY <1>3, <2>2, AppFacts DEF CallInv, At, Ending
<1> QED
  BY <1>1, <1>2, <1>3, <1>4, <1>5, EnterInv DEF Issue

LEMMA FollowInv ==
  ASSUME Inv, NEW r \in Apps, Follow(r)
  PROVE  Inv'
<1> USE AppFacts
<1>1. call[r] + 1 \in 1 .. Len(calls)
  BY DEF Follow
<1>2. calls[call[r] + 1] \in 0 .. 4
  BY <1>1 DEF TypeOK
<1>3. calls' = calls /\ calls \in Seq(0 .. 4)
  BY DEF Follow, TypeOK
<1>4. TypeOK'
  <2>1. Index' = Index /\ call[r] + 1 \in Index
    BY <1>1, <1>3 DEF Index
  <2> QED
    BY <1>2, <1>3, <2>1, EnterType DEF Follow
<1>5. CallsInv'
  BY <1>3 DEF Inv, CallsInv
<1> QED
  BY <1>2, <1>3, <1>4, <1>5, EnterInv DEF Follow

\* A step that does not change the calls, nor the messages of its process.
LEMMA QuietStep ==
  ASSUME Inv, NEW r \in Apps, TypeOK', AppSame(r), calls' = calls,
         call'[r] = call[r], ckptTag'[r] = ckptTag[r], answers'[r] = answers[r],
         pc'[r] \in AppPlace, CallInv(r)', ResultInv(r)', (Due(r)' <=> Due(r)),
         Round(r)' = Round(r), Known(r)' = Known(r),
         finalTag'[r] \/ pc[r] \in Ending => pc'[r] \in Ending,
         pc'[r] \in {"meta", "send"} => pc[r] \in {"meta", "send"},
         pc[r] \in {"meta", "send"} /\ calls[call[r]] \in Async => pc'[r] \in {"meta", "send"}
  PROVE  Inv'
<1>1. CallsInv'
  BY DEF Inv, CallsInv
<1>2. Exchange(r)'
  <2>1. /\ Exchange(r) /\ Asked(r)' = Asked(r) /\ Busy(HeadOf(r))' = Busy(HeadOf(r))
        /\ call'[HeadOf(r)] = call[HeadOf(r)] /\ lvel'[HeadOf(r)] = lvel[HeadOf(r)]
    BY AppFacts DEF Asked, Busy, AppSame
  <2> QED
    BY <2>1 DEF Exchange
<1> QED
  BY <1>1, <1>2, AppFacts, AppFrame DEF AppOwes

LEMMA AwaitInv ==
  ASSUME Inv, NEW r \in Apps, Await(r)
  PROVE  Inv'
<1> USE AppFacts
<1>1. TypeOK'
  BY AppType
<1>2. PICK p \in {"endw", "write"} : /\ p = "endw" <=> calls[call[r]] = Finalize
                                     /\ pc' = [pc EXCEPT ![r] = p]
  BY DEF Await, Goto
<1>3. /\ pc[r] = "await" /\ pc'[r] = p /\ calls' = calls /\ call' = call /\ offline' = offline
      /\ lvel' = lvel /\ res' = res /\ ckptTag' = ckptTag /\ finalTag' = finalTag /\ acked' = acked
      /\ \A x \in Who : x # r => pc'[x] = pc[x]
      /\ answers[r] # <<>> /\ answers'[r] = Tail(answers[r])
      /\ last'[r] = IF Head(answers[r]) # NSCS THEN Head(answers[r]) ELSE last[r]
      /\ \A q \in Apps : q # r => last'[q] = last[q] /\ answers'[q] = answers[q]
  BY <1>2 DEF At, Await, TypeOK
<1>4. AppSame(r)
  BY <1>3 DEF AppSame
<1>5. PICK a : answers[r] = <<a>> /\ ckptTag[r] = <<>> /\ ~Busy(HeadOf(r))
  BY <1>3 DEF Exchange
<1>6. answers'[r] = <<>> /\ Head(answers[r]) = a
  BY <1>3, <1>5
<1>7. Exchange(r)'
  <2>1. ~Due(r)' /\ ~Busy(HeadOf(r))'
    BY <1>2, <1>3, <1>5 DEF Due, Busy
  <2> QED
    BY <1>3, <1>5, <1>6, <2>1 DEF Exchange
<1>8. Round(r)' = Round(r)
  BY <1>2, <1>3 DEF Round
<1>9. CallInv(r)'
  <2>1. (calls[call[r]] = Finalize <=> p \in {"endw"} \cup Ending)
    BY <1>2 DEF Ending
  <2> QED
    BY <1>2, <1>3, <1>8, <2>1 DEF CallInv, At, Posting, Placing
<1>10. Known(r)' = Known(r)
  <2>1. ~At(r, "return") /\ ~At(r, "return")' /\ ~At(HeadOf(r), "answer")
        /\ ~At(HeadOf(r), "answer")'
    BY <1>2, <1>3, <1>5 DEF At, Busy, Serving
  <2> QED
    BY <1>3, <1>5, <1>6, <2>1 DEF Known
<1>11. ResultInv(r)' /\ pc'[r] \in AppPlace /\ CallsInv'
  BY <1>2, <1>3 DEF ResultInv, Placing, AppPlace, Inv, CallsInv
<1> QED
  BY <1>1, <1>2, <1>3, <1>4, <1>7, <1>8, <1>9, <1>10, <1>11, AppFrame DEF AppOwes, Ending

LEMMA WriteInv ==
  ASSUME Inv, NEW r \in Apps, NEW bad \in BOOLEAN, Write(r, bad)
  PROVE  Inv'
<1> USE AppFacts
<1>1. TypeOK'
  BY AppType
<1>2. /\ pc[r] = "write" /\ pc'[r] = "wrote" /\ calls' = calls /\ call' = call
      /\ offline' = offline /\ lvel'[r] = calls[call[r]] /\ ckptTag' = ckptTag
      /\ finalTag' = finalTag /\ answers' = answers /\ last' = last /\ acked' = acked
      /\ \A x \in Who : x # r => pc'[x] = pc[x] /\ lvel'[x] = lvel[x] /\ res'[x] = res[x]
  BY DEF At, Write, Goto, TypeOK, net
<1>3. AppSame(r)
  BY <1>2 DEF AppSame
<1>4. Round(r)' = Round(r) /\ (Due(r)' <=> Due(r))
  BY <1>2 DEF Round, Due
<1>5. CallInv(r)'
  BY <1>2, <1>4 DEF CallInv, At, Posting, Placing, Ending
<1>6. ResultInv(r)' /\ pc'[r] \in AppPlace /\ Known(r)' = Known(r)
  BY <1>2 DEF ResultInv, Placing, AppPlace, Known, At
<1> QED
  BY <1>1, <1>2, <1>3, <1>4, <1>5, <1>6, QuietStep DEF Ending

LEMMA CreateMetadataInv ==
  ASSUME Inv, NEW r \in Apps, NEW bad \in BOOLEAN, CreateMetadata(r, bad)
  PROVE  Inv'
<1> USE AppFacts
<1>1. TypeOK'
  BY AppType
<1>2. /\ pc[r] = "meta" /\ pc'[r] = "send" /\ calls' = calls /\ call' = call
      /\ offline' = offline /\ lvel' = lvel /\ ckptTag' = ckptTag
      /\ finalTag' = finalTag /\ answers' = answers /\ last' = last /\ acked' = acked
      /\ \A x \in Who : x # r => pc'[x] = pc[x] /\ res'[x] = res[x]
  BY DEF At, CreateMetadata, Goto, TypeOK, net, exec
<1>3. AppSame(r)
  BY <1>2 DEF AppSame
<1>4. Round(r)' = Round(r) /\ (Due(r)' <=> Due(r))
  BY <1>2 DEF Round, Due, Ending
<1>5. CallInv(r)'
  BY <1>2, <1>4 DEF CallInv, At, Posting, Placing, Ending
<1>6. ResultInv(r)' /\ pc'[r] \in AppPlace /\ Known(r)' = Known(r)
  BY <1>2 DEF ResultInv, Placing, AppPlace, Known, At
<1> QED
  BY <1>1, <1>2, <1>3, <1>4, <1>5, <1>6, QuietStep DEF Ending

\* Once a process of the node has sent FTI_ENDW, no other has still to send a request.
LEMMA NoneUnsent ==
  ASSUME Inv, NEW r \in Apps, pc[r] \in {"meta", "send"}, calls[call[r]] \in Async,
         NEW q \in Apps, HeadOf(q) = HeadOf(r)
  PROVE  pc[q] \notin Ending
<1> SUFFICES ASSUME pc[q] \in Ending PROVE FALSE
  OBVIOUS
<1>1. ckptTag[q] # <<>>
  BY DEF Inv, Unsent, Ending
<1>2. ~Due(q)
  BY DEF Due, Ending
<1> QED
  BY <1>1, <1>2, AppFacts DEF Exchange

LEMMA SendAsyncInv ==
  ASSUME Inv, NEW r \in Apps, SendAsync(r)
  PROVE  Inv'
<1> USE AppFacts
<1>1. TypeOK'
  BY AppType
<1>2. PICK m : m = [lvl |-> IF res[r] = 0 THEN lvel[r] ELSE Rejected, call |-> call[r]]
  OBVIOUS
<1>3. /\ pc[r] = "send" /\ pc'[r] = "run" /\ calls' = calls /\ call' = call
      /\ offline'[r] = TRUE /\ ckptTag'[r] = Append(ckptTag[r], m) /\ lvel[r] \in Async
      /\ finalTag' = finalTag /\ answers' = answers /\ last' = last /\ acked' = acked
      /\ res' = res
      /\ \A x \in Who : x # r => pc'[x] = pc[x] /\ lvel'[x] = lvel[x]
      /\ \A q \in Apps : q # r => offline'[q] = offline[q] /\ ckptTag'[q] = ckptTag[q]
  BY <1>2 DEF At, SendAsync, Goto, TypeOK
<1>4. AppSame(r)
  BY <1>3 DEF AppSame
<1>5. lvel[r] = calls[call[r]] /\ call[r] \in 1 .. Len(calls)
  BY <1>3 DEF CallInv
<1>6. Round(r)' = Round(r) /\ Round(r) = call[r]
  BY <1>3 DEF Round, Ending
<1>7. CallInv(r)'
  <2>1. calls[call[r]] # Finalize
    BY <1>3, <1>5 DEF CallInv, At, Ending
  <2> QED
    BY <1>3, <1>5, <1>6, <2>1 DEF CallInv, At, Posting, Placing, Ending
<1>8. ~Due(r) /\ ~Busy(HeadOf(r)) /\ ckptTag[r] = <<>> /\ answers[r] = <<>>
  BY <1>3 DEF Due, Exchange
<1>9. Exchange(r)'
  <2>1. Due(r)' /\ ~Busy(HeadOf(r))'
    BY <1>3, <1>8 DEF Due, Busy
  <2>2. ckptTag'[r] = <<m>>
    BY <1>3, <1>8
  <2>3. m.lvl \in Asked(r)' /\ m = [lvl |-> m.lvl, call |-> Round(r)']
    BY <1>2, <1>3, <1>5, <1>6 DEF Asked
  <2> QED
    BY <1>3, <1>8, <2>1, <2>2, <2>3 DEF Exchange
<1>10. ResultInv(r)' /\ pc'[r] \in AppPlace /\ Known(r)' = Known(r) /\ CallsInv'
  BY <1>3 DEF ResultInv, Placing, AppPlace, Known, At, Inv, CallsInv
<1>11. ~At(HeadOf(r), "ending")
  <2>1. \A q \in Apps : HeadOf(q) = HeadOf(r) => pc[q] \notin Ending
    BY <1>3, <1>5, NoneUnsent
  <2> QED
    BY <2>1, Processes DEF Inv, EndInv
<1>12. ckptTag'[r] # <<>>
  BY <1>3, <1>8
<1> QED
  BY <1>1, <1>3, <1>4, <1>6, <1>7, <1>9, <1>10, <1>11, <1>12, AppFrame DEF AppOwes, Ending

LEMMA StartInlineInv ==
  ASSUME Inv, NEW r \in Apps, StartInline(r)
  PROVE  Inv'
<1> USE AppFacts
<1>1. TypeOK'
  BY AppType
<1>2. /\ pc[r] = "send" /\ pc'[r] = "post" /\ calls' = calls /\ call' = call
      /\ ~offline'[r] /\ lvel[r] \notin Async /\ ckptTag' = ckptTag
      /\ lvel'[r] \in {lvel[r], Rejected} /\ res' = res
      /\ finalTag' = finalTag /\ answers' = answers /\ last' = last /\ acked' = acked
      /\ \A x \in Who : x # r => pc'[x] = pc[x] /\ lvel'[x] = lvel[x]
      /\ \A q \in Apps : q # r => offline'[q] = offline[q]
  BY DEF At, StartInline, Goto, TypeOK, net
<1>3. AppSame(r)
  BY <1>2 DEF AppSame
<1>4. Round(r)' = Round(r) /\ ~Due(r)' /\ ~Due(r)
  BY <1>2 DEF Round, Due, Ending
<1>5. lvel[r] = calls[call[r]] /\ call[r] \in 1 .. Len(calls)
  BY <1>2 DEF CallInv
<1>6. CallInv(r)'
  <2>1. calls[call[r]] # Finalize
    BY <1>2, <1>5 DEF CallInv, At, Ending
  <2> QED
    BY <1>2, <1>5, <2>1 DEF CallInv, At, Ending
<1>7. ResultInv(r)' /\ pc'[r] \in AppPlace /\ Known(r)' = Known(r)
  BY <1>2 DEF ResultInv, Placing, Posting, AppPlace, Known, At
<1> QED
  BY <1>1, <1>2, <1>3, <1>4, <1>5, <1>6, <1>7, QuietStep DEF Ending

LEMMA ReturnInlineInv ==
  ASSUME Inv, NEW r \in Apps, ReturnInline(r)
  PROVE  Inv'
<1> USE AppFacts
<1>1. TypeOK'
  BY AppType
<1>2. /\ pc[r] = "return" /\ pc'[r] = "run" /\ calls' = calls /\ call' = call
      /\ offline' = offline /\ ckptTag' = ckptTag /\ lvel' = lvel /\ res' = res
      /\ finalTag' = finalTag /\ answers' = answers /\ acked' = acked
      /\ last'[r] = IF res[r] = 0 THEN lvel[r] ELSE last[r]
      /\ \A x \in Who : x # r => pc'[x] = pc[x]
      /\ \A q \in Apps : q # r => last'[q] = last[q]
  BY DEF At, ReturnInline, Goto, TypeOK, net
<1>3. AppSame(r)
  BY <1>2 DEF AppSame
<1>4. ~offline[r] /\ calls[call[r]] # Finalize
  BY <1>2 DEF CallInv, At, Ending
<1>5. Round(r)' = Round(r) /\ ~Due(r)' /\ ~Due(r)
  BY <1>2, <1>4 DEF Round, Due, Ending
<1>6. CallInv(r)'
  BY <1>2, <1>4 DEF CallInv, At, Posting, Placing, Ending
<1>7. Known(r)' = Known(r)
  <2>1. answers[r] = <<>> /\ ~Busy(HeadOf(r))
    BY <1>5 DEF Exchange
  <2>2. ~At(HeadOf(r), "answer") /\ ~At(HeadOf(r), "answer")'
    BY <1>2, <2>1 DEF Busy, Serving, At
  <2> QED
    BY <1>2, <2>1, <2>2 DEF Known, At
<1>8. ResultInv(r)' /\ pc'[r] \in AppPlace
  BY <1>2 DEF ResultInv, Placing, AppPlace
<1> QED
  BY <1>1, <1>2, <1>3, <1>5, <1>6, <1>7, <1>8, QuietStep DEF Ending

\* FTI_Finalize: only places change, and the message to the head.
LEMMA EndStepInv ==
  ASSUME Inv, NEW r \in Apps, SendEnd(r) \/ DropConf(r) \/ Drop(r)
  PROVE  Inv'
<1> USE AppFacts
<1>1. TypeOK'
  BY AppType
<1>2. PICK p \in Ending : pc' = [pc EXCEPT ![r] = p]
  BY DEF SendEnd, DropConf, Drop, Goto, Ending
<1>3. /\ pc[r] \in {"endw"} \cup Ending /\ pc'[r] = p /\ calls' = calls /\ call' = call
      /\ offline' = offline /\ ckptTag' = ckptTag /\ lvel' = lvel /\ res' = res
      /\ last' = last /\ answers' = answers /\ acked' = acked
      /\ \A x \in Who : x # r => pc'[x] = pc[x]
      /\ \A q \in Apps : q # r => finalTag'[q] = finalTag[q]
  BY <1>2 DEF At, SendEnd, DropConf, Drop, Ending, TypeOK, net, exec
<1>4. AppSame(r)
  BY <1>3 DEF AppSame
<1>5. Round(r)' = Round(r) /\ ~Due(r)' /\ ~Due(r)
  BY <1>2, <1>3 DEF Round, Due, Ending
<1>6. CallInv(r)'
  <2>1. calls[call[r]] = Finalize
    BY <1>3 DEF CallInv, At, Ending
  <2> QED
    BY <1>2, <1>3, <1>5, <2>1 DEF CallInv, At, Posting, Placing, Ending
<1>7. ResultInv(r)' /\ pc'[r] \in AppPlace /\ Known(r)' = Known(r)
  BY <1>2, <1>3 DEF ResultInv, Placing, AppPlace, Known, At, Ending
<1> QED
  BY <1>1, <1>2, <1>3, <1>4, <1>5, <1>6, <1>7, QuietStep DEF Ending

-----------------------------------------------------------------------------
(***************************************************************************)
(* FTI_PostCkpt, and the head.                                             *)
(***************************************************************************)

\* What the steps of FTI_PostCkpt change besides the files.
LEMMA PostEffect ==
  ASSUME Inv, NEW x \in Who, PostStep(x)
  PROVE  /\ calls' = calls /\ call' = call /\ lvel' = lvel /\ last' = last
         /\ offline' = offline /\ ckptTag' = ckptTag /\ answers' = answers
         /\ finalTag' = finalTag /\ acked' = acked
         /\ \A y \in Who : y # x => pc'[y] = pc[y] /\ res'[y] = res[y]
         /\ \/ pc[x] = "post" /\ pc'[x] = "posted" /\ (res'[x] = 0 => lvel[x] # Rejected)
            \/ pc[x] = "discard" /\ pc'[x] = After(x) /\ res'[x] # 0
            \/ pc[x] \in Placing /\ pc'[x] \in Placing /\ res'[x] = res[x]
<1>1. TypeOK
  BY DEF Inv
<1>2. ASSUME NEW bad \in BOOLEAN, NEW lost \in BOOLEAN, Post(x, bad, lost)
      PROVE  /\ calls' = calls /\ call' = call /\ lvel' = lvel /\ last' = last
             /\ offline' = offline /\ ckptTag' = ckptTag /\ answers' = answers
             /\ finalTag' = finalTag /\ acked' = acked
             /\ \A y \in Who : y # x => pc'[y] = pc[y] /\ res'[y] = res[y]
             /\ pc[x] = "post" /\ pc'[x] = "posted" /\ (res'[x] = 0 => lvel[x] # Rejected)
  BY <1>1, <1>2 DEF Post, At, Goto, TypeOK, exec, net
<1>3. ASSUME Discard(x)
      PROVE  /\ calls' = calls /\ call' = call /\ lvel' = lvel /\ last' = last
             /\ offline' = offline /\ ckptTag' = ckptTag /\ answers' = answers
             /\ finalTag' = finalTag /\ acked' = acked
             /\ \A y \in Who : y # x => pc'[y] = pc[y] /\ res'[y] = res[y]
             /\ pc[x] = "discard" /\ pc'[x] = After(x) /\ res'[x] # 0
  BY <1>1, <1>3 DEF Discard, At, Goto, TypeOK, exec, net
<1>4. ASSUME Clean(x) \/ Rename(x) \/ RenameGlobal(x)
      PROVE  /\ calls' = calls /\ call' = call /\ lvel' = lvel /\ last' = last
             /\ offline' = offline /\ ckptTag' = ckptTag /\ answers' = answers
             /\ finalTag' = finalTag /\ acked' = acked
             /\ \A y \in Who : y # x => pc'[y] = pc[y] /\ res'[y] = res[y]
             /\ pc[x] \in Placing /\ pc'[x] \in Placing /\ res'[x] = res[x]
  BY <1>1, <1>4 DEF Clean, Rename, RenameGlobal, At, Goto, TypeOK, exec, net, Placing
<1> QED
  BY <1>2, <1>3, <1>4 DEF PostStep

LEMMA AppPostInv ==
  ASSUME Inv, NEW r \in Apps, PostStep(r)
  PROVE  Inv'
<1> USE AppFacts
<1>1. TypeOK'
  BY PostType
<1>2. /\ calls' = calls /\ call' = call /\ lvel' = lvel /\ last' = last
      /\ offline' = offline /\ ckptTag' = ckptTag /\ answers' = answers
      /\ finalTag' = finalTag /\ acked' = acked
      /\ \A y \in Who : y # r => pc'[y] = pc[y] /\ res'[y] = res[y]
      /\ \/ pc[r] = "post" /\ pc'[r] = "posted" /\ (res'[r] = 0 => lvel[r] # Rejected)
         \/ pc[r] = "discard" /\ pc'[r] = "return" /\ res'[r] # 0
         \/ pc[r] \in Placing /\ pc'[r] \in Placing /\ res'[r] = res[r]
  BY PostEffect DEF After
<1>3. AppSame(r)
  BY <1>2 DEF AppSame
<1>4. pc[r] \in Posting /\ pc'[r] \in Posting \cup {"return"}
  BY <1>2 DEF Posting
<1>5. Round(r)' = Round(r) /\ ~Due(r) /\ ~Due(r)'
  BY <1>2, <1>4 DEF Round, Due, Posting, Placing, Ending
<1>6. CallInv(r)'
  <2>1. calls[call[r]] # Finalize
    BY <1>4 DEF CallInv, At, Ending, Posting, Placing
  <2> QED
    BY <1>2, <1>4, <2>1 DEF CallInv, At, Posting, Placing, Ending
<1>7. ResultInv(r)'
  BY <1>2 DEF ResultInv, Placing
<1>8. Known(r)' = Known(r) /\ pc'[r] \in AppPlace
  BY <1>2, <1>4 DEF Known, At, AppPlace, Posting, Placing
<1> QED
  BY <1>1, <1>2, <1>3, <1>4, <1>5, <1>6, <1>7, <1>8, QuietStep DEF Ending, Posting, Placing

LEMMA HeadFacts ==
  ASSUME Inv, NEW h \in Heads
  PROVE  /\ TypeOK /\ ResultInv(h) /\ pc[h] \in HeadPlace /\ h \in Who /\ h \notin Apps
         /\ AmIaHead(h)
         /\ \A r \in Body(h) : r \in Apps /\ r # h /\ r \in Who /\ HeadOf(r) = h /\ Exchange(r)
BY Processes DEF Inv

\* A step of a head that changes no message.
LEMMA QuietHead ==
  ASSUME Inv, NEW h \in Heads, HeadSame(h), TypeOK',
         ckptTag' = ckptTag, answers' = answers, call'[h] = call[h], lvel'[h] = lvel[h],
         pc'[h] \in HeadPlace, ResultInv(h)', Busy(h)' <=> Busy(h),
         ~At(h, "answer"), At(h, "answer")' => res'[h] # 0,
         At(h, "ending")' => /\ \E r \in Body(h) : pc[r] \in Ending
                             /\ \A r \in Body(h) : ckptTag[r] = <<>>,
         pc'[h] \in {"finished", "done"} => \A r \in Body(h) : pc[r] \in Ending
  PROVE  Inv'
<1>1. ASSUME NEW r \in Body(h) PROVE Exchange(r)' /\ Known(r)' = Known(r)
  <2>1. /\ r \in Apps /\ HeadOf(r) = h /\ Exchange(r) /\ r \in Who /\ r # h
        /\ pc'[r] = pc[r] /\ call'[r] = call[r] /\ res'[r] = res[r] /\ lvel'[r] = lvel[r]
        /\ last'[r] = last[r] /\ offline'[r] = offline[r] /\ calls' = calls
    BY HeadFacts DEF HeadSame
  <2>2. Due(r)' = Due(r) /\ Round(r)' = Round(r) /\ Asked(r)' = Asked(r)
    BY <2>1 DEF Due, Round, Asked
  <2>3. /\ Busy(HeadOf(r))' = Busy(HeadOf(r))
        /\ call'[HeadOf(r)] = call[HeadOf(r)] /\ lvel'[HeadOf(r)] = lvel[HeadOf(r)]
        /\ ckptTag'[r] = ckptTag[r] /\ answers'[r] = answers[r]
    BY <2>1 DEF Busy
  <2>5. Exchange(r)'
    BY <2>1, <2>2, <2>3 DEF Exchange
  <2>4. Known(r)' = Known(r)
    BY <2>1 DEF Known, At
  <2> QED
    BY <2>4, <2>5
<1> QED
  BY <1>1, HeadFrame DEF HeadOwes

LEMMA HeadPostInv ==
  ASSUME Inv, NEW h \in Heads, PostStep(h)
  PROVE  Inv'
<1> USE HeadFacts
<1>1. TypeOK'
  BY PostType
<1>2. /\ calls' = calls /\ call' = call /\ lvel' = lvel /\ last' = last
      /\ offline' = offline /\ ckptTag' = ckptTag /\ answers' = answers
      /\ finalTag' = finalTag /\ acked' = acked
      /\ \A y \in Who : y # h => pc'[y] = pc[y] /\ res'[y] = res[y]
      /\ \/ pc[h] = "post" /\ pc'[h] = "posted" /\ (res'[h] = 0 => lvel[h] # Rejected)
         \/ pc[h] = "discard" /\ pc'[h] = "answer" /\ res'[h] # 0
         \/ pc[h] \in Placing /\ pc'[h] \in Placing /\ res'[h] = res[h]
  BY PostEffect DEF After
<1>3. HeadSame(h)
  BY <1>2 DEF HeadSame
<1>4. Busy(h) /\ Busy(h)' /\ pc'[h] \in HeadPlace
  BY <1>2 DEF Busy, Serving, Posting, Placing, HeadPlace
<1>5. ResultInv(h)'
  BY <1>2 DEF ResultInv, Placing
<1>6. ~At(h, "answer") /\ (At(h, "answer")' => res'[h] # 0) /\ ~At(h, "ending")'
      /\ pc'[h] \notin {"finished", "done"}
  BY <1>2 DEF At, Placing
<1> QED
  BY <1>1, <1>2, <1>3, <1>4, <1>5, <1>6, QuietHead

LEMMA ListenInv ==
  ASSUME Inv, NEW h \in Heads, Listen(h) \/ ListenFinal(h)
  PROVE  Inv'
<1> USE HeadFacts
<1>1. TypeOK'
  BY HeadType DEF HeadStep
<1>2. /\ calls' = calls /\ call' = call /\ lvel' = lvel /\ last' = last /\ res' = res
      /\ offline' = offline /\ ckptTag' = ckptTag /\ answers' = answers
      /\ finalTag' = finalTag /\ acked' = acked
      /\ \A y \in Who : y # h => pc'[y] = pc[y]
      /\ pc[h] = "listen" /\ pc'[h] \in {"collect", "ending"}
      /\ pc'[h] = "ending" => /\ \A r \in Body(h) : ckptTag[r] = <<>>
                              /\ \E r \in Body(h) : finalTag[r]
  BY DEF Listen, ListenFinal, At, Goto, TypeOK, exec, net
<1>3. HeadSame(h)
  BY <1>2 DEF HeadSame
<1>4. ~Busy(h) /\ ~Busy(h)' /\ pc'[h] \in HeadPlace /\ ResultInv(h)'
  BY <1>2 DEF Busy, Serving, Posting, Placing, HeadPlace, ResultInv
<1>5. ~At(h, "answer") /\ ~At(h, "answer")' /\ pc'[h] \notin {"finished", "done"}
  BY <1>2 DEF At
<1>6. At(h, "ending")' => /\ \E r \in Body(h) : pc[r] \in Ending
                          /\ \A r \in Body(h) : ckptTag[r] = <<>>
  BY <1>2 DEF At, Inv, EndInv
<1> QED
  BY <1>1, <1>2, <1>3, <1>4, <1>5, <1>6, QuietHead

LEMMA EndListenInv ==
  ASSUME Inv, NEW h \in Heads, EndListen(h)
  PROVE  Inv'
<1> USE HeadFacts
<1>1. TypeOK'
  BY HeadType DEF HeadStep
<1>2. /\ calls' = calls /\ call' = call /\ lvel' = lvel /\ last' = last /\ res' = res
      /\ offline' = offline /\ ckptTag' = ckptTag /\ answers' = answers /\ acked' = acked
      /\ \A r \in Apps : finalTag'[r] => finalTag[r]
      /\ \A y \in Who : y # h => pc'[y] = pc[y]
      /\ pc[h] = "ending" /\ pc'[h] = "finished" /\ \A r \in Body(h) : finalTag[r]
  BY DEF EndListen, At, Goto, TypeOK, exec
<1>3. HeadSame(h)
  BY <1>2 DEF HeadSame
<1>4. ~Busy(h) /\ ~Busy(h)' /\ pc'[h] \in HeadPlace /\ ResultInv(h)'
  BY <1>2 DEF Busy, Serving, Posting, Placing, HeadPlace, ResultInv
<1>5. ~At(h, "answer") /\ ~At(h, "answer")' /\ ~At(h, "ending")'
  BY <1>2 DEF At
<1>6. \A r \in Body(h) : pc[r] \in Ending
  BY <1>2 DEF Inv, EndInv
<1> QED
  BY <1>1, <1>2, <1>3, <1>4, <1>5, <1>6, QuietHead

LEMMA CollectInv ==
  ASSUME Inv, NEW h \in Heads, Collect(h)
  PROVE  Inv'
<1> USE HeadFacts
<1>1. TypeOK'
  BY HeadType DEF HeadStep
<1>2. PICK l \in Tokens(h) : lvel' = [lvel EXCEPT ![h] = l]
                             /\ res' = [res EXCEPT ![h] = IF l = Rejected THEN 1 ELSE 0]
  BY CollectStep
<1>3. PICK c : c = Head(ckptTag[<<h[1], 1>>]).call
  OBVIOUS
<1>4. /\ calls' = calls /\ last' = last /\ offline' = offline /\ answers' = answers
      /\ finalTag' = finalTag /\ acked' = acked
      /\ \A y \in Who : y # h => /\ pc'[y] = pc[y] /\ call'[y] = call[y]
                                 /\ lvel'[y] = lvel[y] /\ res'[y] = res[y]
      /\ pc[h] = "collect" /\ pc'[h] = "agree" /\ call'[h] = c /\ lvel'[h] = l
      /\ res'[h] = IF l = Rejected THEN 1 ELSE 0
      /\ \A r \in Body(h) : ckptTag[r] # <<>> /\ ckptTag'[r] = Tail(ckptTag[r])
      /\ \A r \in Apps : r \notin Body(h) => ckptTag'[r] = ckptTag[r]
  BY <1>2, <1>3 DEF Collect, At, Goto, TypeOK, exec
<1>5. HeadSame(h)
  BY <1>4 DEF HeadSame
<1>6. ASSUME NEW r \in Body(h)
      PROVE  /\ Due(r) /\ answers[r] = <<>> /\ Tail(ckptTag[r]) = <<>>
             /\ Head(ckptTag[r]).call = Round(r) /\ Head(ckptTag[r]).lvl \in Asked(r)
  <2>1. Exchange(r) /\ ~Busy(h) /\ HeadOf(r) = h /\ ckptTag[r] # <<>>
    BY <1>4 DEF Busy, Serving, Posting, Placing
  <2>2. Due(r) /\ answers[r] = <<>>
    BY <2>1 DEF Exchange
  <2>3. PICK t \in Asked(r) : ckptTag[r] = <<[lvl |-> t, call |-> Round(r)]>>
    BY <2>1 DEF Exchange
  <2>4. Head(ckptTag[r]) = [lvl |-> t, call |-> Round(r)] /\ Tail(ckptTag[r]) = <<>>
    BY <2>3
  <2> QED
    BY <2>2, <2>4
<1>7. \A q, r \in Apps : Round(q) = Round(r) /\ Asked(q) = Asked(r)
  BY DEF Inv, Lockstep, Asked
<1>8. \A r \in Body(h) : call'[h] = Round(r) /\ lvel'[h] \in Asked(r)
  <2>1. <<h[1], 1>> \in Body(h)
    BY Processes
  <2>2. c = Round(<<h[1], 1>>)
    BY <1>3, <1>6, <2>1
  <2>3. \A r \in Body(h) : Head(ckptTag[r]).lvl \in Asked(r)
    BY <1>6
  <2>4. \E r \in Body(h) : l \in Asked(r)
    BY <1>2, <2>3 DEF Tokens
  <2> QED
    BY <1>4, <1>7, <2>1, <2>2, <2>4
<1>9. ASSUME NEW r \in Body(h) PROVE Exchange(r)' /\ Known(r)' = Known(r)
  <2>1. /\ r \in Apps /\ HeadOf(r) = h /\ r \in Who /\ r # h
        /\ pc'[r] = pc[r] /\ call'[r] = call[r] /\ res'[r] = res[r] /\ lvel'[r] = lvel[r]
        /\ last'[r] = last[r] /\ offline'[r] = offline[r]
    BY <1>4
  <2>2. (Due(r)' <=> Due(r)) /\ Round(r)' = Round(r) /\ Asked(r)' = Asked(r)
    BY <1>4, <2>1 DEF Due, Round, Asked
  <2>3. ckptTag'[r] = <<>> /\ answers'[r] = <<>> /\ Due(r)
    BY <1>4, <1>6
  <2>4. Busy(h)'
    BY <1>4 DEF Busy, Serving
  <2>5. Exchange(r)'
    BY <1>8, <2>1, <2>2, <2>3, <2>4 DEF Exchange
  <2>6. Known(r)' = Known(r)
    BY <1>4, <2>1 DEF Known, At
  <2> QED
    BY <2>5, <2>6
<1>10. ResultInv(h)' /\ pc'[h] \in HeadPlace /\ ~At(h, "ending")'
       /\ pc'[h] \notin {"finished", "done"}
  BY <1>4 DEF ResultInv, HeadPlace, Serving, At, Placing
<1> QED
  BY <1>1, <1>4, <1>5, <1>9, <1>10, HeadFrame DEF HeadOwes

LEMMA AnswerInv ==
  ASSUME Inv, NEW h \in Heads, Answer(h)
  PROVE  Inv'
<1> USE HeadFacts
<1>1. TypeOK'
  BY HeadType DEF HeadStep
<1>2. PICK a : a = IF res[h] = 0 THEN lvel[h] ELSE NSCS
  OBVIOUS
<1>3. /\ calls' = calls /\ last' = last /\ offline' = offline /\ ckptTag' = ckptTag
      /\ finalTag' = finalTag /\ acked' = acked /\ call' = call /\ lvel' = lvel /\ res' = res
      /\ \A y \in Who : y # h => pc'[y] = pc[y]
      /\ pc[h] = "answer" /\ pc'[h] = "listen"
      /\ \A r \in Body(h) : answers'[r] = Append(answers[r], a)
      /\ \A r \in Apps : r \notin Body(h) => answers'[r] = answers[r]
  BY <1>2 DEF Answer, At, Goto, TypeOK, exec
<1>4. HeadSame(h)
  BY <1>3 DEF HeadSame
<1>5. Busy(h) /\ ~Busy(h)'
  BY <1>3 DEF Busy, Serving, Posting, Placing
<1>6. a \in (1 .. 4) \cup {NSCS} /\ (res[h] = 0 <=> a # NSCS)
  <2>1. res[h] = 0 => lvel[h] \in 1 .. 4
    BY <1>3, <1>5, BusyLevel DEF ResultInv
  <2> QED
    BY <1>2, <2>1 DEF NSCS
<1>7. ASSUME NEW r \in Body(h) PROVE Exchange(r)' /\ Known(r)' = Known(r)
  <2>1. /\ r \in Apps /\ HeadOf(r) = h /\ r \in Who /\ r # h
        /\ pc'[r] = pc[r] /\ call'[r] = call[r]
    BY <1>3
  <2>2. Due(r) /\ ckptTag[r] = <<>> /\ answers[r] = <<>>
    BY <1>5, BusyAsked
  <2>3. answers'[r] = <<a>> /\ ckptTag'[r] = <<>> /\ Due(r)'
    BY <1>3, <2>1, <2>2 DEF Due
  <2>4. Exchange(r)'
    BY <1>5, <1>6, <2>1, <2>3 DEF Exchange
  <2>5. ~At(r, "return") /\ ~At(r, "return")'
    BY <2>1, <2>2 DEF Due, At
  <2>6. Known(r) = IF res[h] = 0 THEN lvel[h] ELSE last[r]
    BY <1>3, <2>1, <2>2, <2>5 DEF Known, At
  <2>7. Known(r)' = IF a # NSCS THEN a ELSE last[r]
    BY <1>3, <2>1, <2>3, <2>5 DEF Known, At
  <2> QED
    BY <1>2, <1>6, <2>4, <2>6, <2>7
<1>8. ResultInv(h)' /\ pc'[h] \in HeadPlace /\ ~At(h, "ending")'
      /\ pc'[h] \notin {"finished", "done"}
  BY <1>3 DEF ResultInv, HeadPlace, Serving, At, Placing
<1> QED
  BY <1>1, <1>3, <1>4, <1>7, <1>8, HeadFrame DEF HeadOwes

-----------------------------------------------------------------------------
(***************************************************************************)
(* The collectives.                                                        *)
(***************************************************************************)

\* A collective changes no message and no level: what it has to show.
LEMMA GroupFrame ==
  ASSUME Inv, TypeOK',
         calls' = calls, call' = call, lvel' = lvel, last' = last, offline' = offline,
         ckptTag' = ckptTag, answers' = answers, finalTag' = finalTag,
         \A r \in Apps : /\ pc'[r] \in AppPlace /\ CallInv(r)' /\ Due(r)' = Due(r)
                         /\ Due(r) => Round(r)' = Round(r)
                         /\ pc[r] \in Ending => pc'[r] \in Ending
                         /\ Known(r)' = acked'.lvl,
         \A h \in Heads : /\ pc'[h] \in HeadPlace /\ Busy(h)' = Busy(h)
                          /\ At(h, "ending")' => At(h, "ending")
                          /\ pc'[h] \in {"finished", "done"} => pc[h] \in {"finished", "done"},
         \A x \in Who : ResultInv(x)',
         Lockstep', Unsent'
  PROVE  Inv'
<1>1. ASSUME NEW r \in Apps PROVE Exchange(r)'
  <2>1. HeadOf(r) \in Heads
    BY Processes
  <2>2. Exchange(r) /\ Due(r)' = Due(r) /\ Busy(HeadOf(r))' = Busy(HeadOf(r))
    BY <2>1 DEF Inv
  <2>3. Due(r) => Round(r)' = Round(r) /\ Asked(r)' = Asked(r)
    BY DEF Asked
  <2> QED
    BY <2>2, <2>3 DEF Exchange
<1>2. EndInv'
  <2>1. \A h \in Heads : Body(h) \subseteq Apps
    BY Processes
  <2> QED
    BY <2>1 DEF Inv, EndInv, At
<1> QED
  BY <1>1, <1>2 DEF Inv, CallsInv

LEMMA WriteSyncInv ==
  ASSUME Inv, WriteSync
  PROVE  Inv'
<1>1. TypeOK /\ \A x \in Who : pc[x] = "wrote" \/ x \notin Apps
  BY DEF Inv, WriteSync, AllAt
<1>2. PICK p \in {"meta", "send"} : pc' = [x \in Who |-> IF x \in Apps THEN p ELSE pc[x]]
  BY DEF WriteSync, Together
<1>3. /\ calls' = calls /\ call' = call /\ lvel' = lvel /\ last' = last /\ offline' = offline
      /\ ckptTag' = ckptTag /\ answers' = answers /\ finalTag' = finalTag /\ acked' = acked
      /\ \A r \in Apps : pc[r] = "wrote" /\ pc'[r] = p
      /\ \A h \in Heads : pc'[h] = pc[h] /\ res'[h] = res[h]
  BY <1>1, <1>2, Processes DEF WriteSync, exec, net
<1>4. res' \in [Who -> {0, 1}]
  BY <1>1 DEF WriteSync, TypeOK
<1>5. TypeOK'
  <2>1. pc' \in [Who -> Where]
    BY <1>1, <1>2 DEF TypeOK, Where
  <2> QED
    BY <1>1, <1>4, <2>1 DEF WriteSync, TypeOK, Index, exec, net, disk, metas
<1>6. ASSUME NEW r \in Apps
      PROVE  /\ pc'[r] \in AppPlace /\ CallInv(r)' /\ Due(r)' = Due(r)
             /\ Due(r) => Round(r)' = Round(r)
             /\ pc[r] \in Ending => pc'[r] \in Ending
             /\ Known(r)' = acked'.lvl /\ Round(r)' = Round(r) + 1
  <2>1. pc[r] = "wrote" /\ pc'[r] = p /\ CallInv(r) /\ HeadOf(r) \in Heads /\ call[r] \in 1 .. Len(calls)
    BY <1>3, AppFacts, Processes
  <2>2. Round(r) = call[r] - 1 /\ Round(r)' = call[r]
    BY <1>2, <1>3, <2>1 DEF Round, Ending
  <2>3. CallInv(r)'
    BY <1>2, <1>3, <2>1, <2>2 DEF CallInv, At, Posting, Placing, Ending
  <2>4. Known(r)' = acked'.lvl
    <3>1. Known(r) = acked.lvl
      BY DEF Inv
    <3> QED
      BY <1>2, <1>3, <2>1, <3>1 DEF Known, At
  <2>5. ~Due(r) /\ ~Due(r)'
    BY <1>2, <2>1 DEF Due
  <2>6. Due(r)' = Due(r)
    BY <1>2, <2>1 DEF Due
  <2> QED
    BY <1>2, <2>1, <2>2, <2>3, <2>4, <2>5, <2>6 DEF AppPlace, Ending
<1>7. \A h \in Heads : /\ pc'[h] \in HeadPlace /\ Busy(h)' = Busy(h)
                       /\ At(h, "ending")' => At(h, "ending")
                       /\ pc'[h] \in {"finished", "done"} => pc[h] \in {"finished", "done"}
  BY <1>3 DEF Inv, Busy, At
<1>8. \A x \in Who : ResultInv(x)'
  BY <1>2, <1>3, Processes DEF Inv, ResultInv, Placing
<1>9. Lockstep'
  BY <1>6 DEF Lockstep, Inv
<1>10. Unsent'
  BY <1>2, <1>3 DEF Unsent
<1> QED
  BY <1>3, <1>5, <1>6, <1>7, <1>8, <1>9, <1>10, GroupFrame

\* A collective of the heads, or of the processes in FTI_PostCkpt, moves them on.
LEMMA MoveFrame ==
  ASSUME Inv, NEW W \in {Apps, Heads}, NEW p, NEW q \in Where,
         AllAt(W, p), pc' = [x \in Who |-> IF x \in W THEN q ELSE pc[x]],
         calls' = calls, call' = call, res' = res, lvel' = lvel, last' = last, offline' = offline,
         ckptTag' = ckptTag, answers' = answers, finalTag' = finalTag,
         TypeOK', \A x \in W : ResultInv(x)',
         W = Apps => p \in Posting /\ q \in Posting \cup {"return"},
         W = Heads => p \in Serving /\ q \in Serving,
         \A r \in Apps : Known(r)' = acked'.lvl
  PROVE  Inv'
<1>1. /\ \A x \in W : pc[x] = p /\ pc'[x] = q
      /\ \A x \in Who : x \notin W => pc'[x] = pc[x]
  BY Processes DEF AllAt
<1>2. ASSUME NEW r \in Apps
      PROVE  /\ pc'[r] \in AppPlace /\ CallInv(r)' /\ Due(r)' = Due(r)
             /\ Round(r)' = Round(r)
             /\ pc[r] \in Ending => pc'[r] \in Ending
             /\ pc'[r] \in {"meta", "send"} => pc'[r] = pc[r]
             /\ pc[r] \in {"meta", "send"} => pc'[r] = pc[r]
  <2>1. r \in Who /\ r \notin Heads /\ CallInv(r) /\ pc[r] \in AppPlace
    BY AppFacts, Processes
  <2>2. CASE W = Apps
    <3>1. pc[r] \in Posting /\ pc'[r] \in Posting \cup {"return"}
      BY <1>1, <2>2
    <3>2. Round(r)' = Round(r) /\ Due(r)' = Due(r)
      BY <3>1 DEF Round, Due, Posting, Placing, Ending
    <3>3. CallInv(r)'
      <4>1. calls[call[r]] # Finalize
        BY <2>1, <3>1 DEF CallInv, At, Ending, Posting, Placing
      <4> QED
        BY <2>1, <3>1, <3>2, <4>1 DEF CallInv, At, Posting, Placing, Ending
    <3> QED
      BY <3>1, <3>2, <3>3 DEF AppPlace, Posting, Placing, Ending
  <2>3. CASE W = Heads
    <3>1. pc'[r] = pc[r]
      BY <1>1, <2>1, <2>3
    <3>2. Round(r)' = Round(r) /\ Due(r)' = Due(r)
      BY <3>1 DEF Round, Due
    <3> QED
      BY <2>1, <3>1, <3>2 DEF CallInv, At
  <2> QED
    BY <2>2, <2>3
<1>3. ASSUME NEW h \in Heads
      PROVE  /\ pc'[h] \in HeadPlace /\ Busy(h)' = Busy(h)
             /\ At(h, "ending")' => At(h, "ending")
             /\ pc'[h] \in {"finished", "done"} => pc[h] \in {"finished", "done"}
  <2>1. CASE W = Apps
    BY <1>1, <2>1, Processes DEF Inv, Busy, At
  <2>2. CASE W = Heads
    <3>1. pc[h] \in Serving /\ pc'[h] \in Serving
      BY <1>1, <2>2
    <3> QED
      BY <3>1 DEF HeadPlace, Busy, At, Serving, Posting, Placing
  <2> QED
    BY <2>1, <2>2
<1>4. ASSUME NEW x \in Who PROVE ResultInv(x)'
  <2>1. CASE x \in W
    BY <2>1
  <2>2. CASE x \notin W
    BY <1>1, <2>2 DEF Inv, ResultInv
  <2> QED
    BY <2>1, <2>2
<1>5. Lockstep'
  BY <1>2 DEF Lockstep, Inv
<1>6. Unsent'
  BY <1>2 DEF Unsent, Inv
<1> QED
  BY <1>2, <1>3, <1>4, <1>5, <1>6, GroupFrame

\* A collective that changes nothing but places keeps the types.
LEMMA MoveType ==
  ASSUME TypeOK, pc' \in [Who -> Where],
         UNCHANGED <<calls, call, res, lvel, exec, conf, net, disk, metas, faults>>,
         acked' \in [call : Index, lvl : 0 .. 4]
  PROVE  TypeOK'
BY DEF TypeOK, Index, exec, net, disk, metas

\* Known only depends on places, results, levels and answers.
LEMMA KnownSame ==
  ASSUME Inv, NEW r \in Apps, lvel' = lvel, last' = last, answers' = answers, acked' = acked,
         At(r, "return")' <=> At(r, "return"), res'[r] = res[r],
         At(HeadOf(r), "answer")' <=> At(HeadOf(r), "answer"), res'[HeadOf(r)] = res[HeadOf(r)]
  PROVE  Known(r)' = acked'.lvl
BY DEF Inv, Known

LEMMA AgreeInv ==
  ASSUME Inv, Agree
  PROVE  Inv'
<1>1. PICK q \in {"post", "discard"} : pc' = [x \in Who |-> IF x \in Heads THEN q ELSE pc[x]]
  BY DEF Agree, Together
<1>2. /\ AllAt(Heads, "agree")
      /\ UNCHANGED <<calls, call, res, lvel, exec, conf, net, disk, metas, faults, acked>>
  BY DEF Agree
<1>3. TypeOK'
  <2>1. pc' \in [Who -> Where] /\ TypeOK
    BY <1>1 DEF Inv, TypeOK, Where
  <2>2. acked' \in [call : Index, lvl : 0 .. 4]
    BY <1>2, <2>1 DEF TypeOK
  <2> QED
    BY <1>2, <2>1, <2>2, MoveType
<1>4. \A x \in Heads : ResultInv(x)'
  BY <1>1, Processes DEF ResultInv, Placing
<1>5. ASSUME NEW r \in Apps PROVE Known(r)' = acked'.lvl
  <2>1. pc'[r] = pc[r] /\ pc[HeadOf(r)] = "agree" /\ pc'[HeadOf(r)] = q
    BY <1>1, <1>2, Processes DEF AllAt
  <2> QED
    BY <1>1, <1>2, <2>1, KnownSame DEF At, exec, net
<1>6. q \in Where /\ q \in Serving /\ "agree" \in Serving
  BY <1>1 DEF Where, Serving, Posting
<1>7. Heads # Apps
  BY Processes
<1>8. /\ calls' = calls /\ call' = call /\ res' = res /\ lvel' = lvel /\ last' = last
       /\ offline' = offline /\ ckptTag' = ckptTag /\ answers' = answers /\ finalTag' = finalTag
  BY <1>2 DEF exec, net
<1> QED
  BY <1>1, <1>2, <1>3, <1>4, <1>5, <1>6, <1>7, <1>8, MoveFrame

LEMMA PostSyncInv ==
  ASSUME Inv, NEW W \in {Apps, Heads}, PostSync(W)
  PROVE  Inv'
<1>1. PICK q \in {"clean", "discard"} :
        /\ pc' = [x \in Who |-> IF x \in W THEN q ELSE pc[x]]
        /\ q = "clean" => \A x \in W : res[x] = 0
  BY DEF PostSync, Together
<1>2. /\ AllAt(W, "posted")
      /\ UNCHANGED <<calls, call, res, lvel, exec, conf, net, disk, metas, faults, acked>>
  BY DEF PostSync
<1>3. TypeOK'
  <2>1. pc' \in [Who -> Where] /\ TypeOK
    BY <1>1 DEF Inv, TypeOK, Where
  <2>2. acked' \in [call : Index, lvl : 0 .. 4]
    BY <1>2, <2>1 DEF TypeOK
  <2> QED
    BY <1>2, <2>1, <2>2, MoveType
<1>4. ASSUME NEW x \in W PROVE ResultInv(x)'
  <2>1. x \in Who /\ ResultInv(x) /\ pc[x] = "posted" /\ pc'[x] = q
    BY <1>1, <1>2, Processes DEF Inv, AllAt
  <2> QED
    BY <1>1, <1>2, <2>1 DEF ResultInv, Placing
<1>5. ASSUME NEW r \in Apps PROVE Known(r)' = acked'.lvl
  <2>1. \A x \in {r, HeadOf(r)} : pc'[x] = pc[x] \/ (pc[x] = "posted" /\ pc'[x] = q)
    BY <1>1, <1>2, Processes DEF AllAt
  <2> QED
    BY <1>1, <1>2, <2>1, KnownSame DEF At, exec, net
<1>6. /\ q \in Where /\ q \in Serving /\ "posted" \in Serving
      /\ q \in Posting \cup {"return"} /\ "posted" \in Posting
  BY <1>1 DEF Where, Serving, Posting, Placing
<1>7. /\ calls' = calls /\ call' = call /\ res' = res /\ lvel' = lvel /\ last' = last
       /\ offline' = offline /\ ckptTag' = ckptTag /\ answers' = answers /\ finalTag' = finalTag
  BY <1>2 DEF exec, net
<1> QED
  BY <1>1, <1>2, <1>3, <1>4, <1>5, <1>6, <1>7, MoveFrame

\* Those that put a checkpoint in its place have the level that was asked for.
LEMMA PlacedLevel ==
  ASSUME Inv, NEW W \in {Apps, Heads}, AllAt(W, "renamed"),
         NEW x \in W, NEW y \in W
  PROVE  lvel[x] = lvel[y] /\ lvel[x] \in 0 .. 4 /\ res[x] = 0 /\ lvel[x] # Rejected
<1>1. ASSUME NEW z \in W PROVE z \in Who /\ pc[z] = "renamed" /\ res[z] = 0 /\ lvel[z] # Rejected
  <2>1. z \in Who /\ pc[z] = "renamed" /\ ResultInv(z)
    BY Processes DEF Inv, AllAt
  <2> QED
    BY <2>1 DEF ResultInv, Placing
<1>2. ASSUME NEW z \in W PROVE \E r \in Apps : lvel[z] = calls[Round(r)]
  <2>1. CASE W = Apps
    <3>1. pc[z] = "renamed" /\ lvel[z] # Rejected /\ CallInv(z)
      BY <1>1, <2>1 DEF Inv
    <3>2. Round(z) = call[z] /\ lvel[z] = calls[call[z]]
      BY <3>1 DEF Round, CallInv, Ending, Posting, Placing
    <3> QED
      BY <2>1, <3>2
  <2>2. CASE W = Heads
    <3>1. Busy(z) /\ lvel[z] # Rejected
      BY <1>1 DEF Busy, Serving, Posting, Placing
    <3>2. PICK r \in Body(z) : TRUE
      BY <2>2, Processes
    <3>3. r \in Apps /\ lvel[z] \in Asked(r)
      BY <2>2, <3>1, BusyAsked
    <3> QED
      BY <3>1, <3>3 DEF Asked
  <2> QED
    BY <2>1, <2>2
<1>3. \A q, r \in Apps : calls[Round(q)] = calls[Round(r)]
  BY DEF Inv, Lockstep
<1>4. lvel[x] = lvel[y]
  BY <1>2, <1>3
<1>5. lvel[x] \in Level
  BY <1>1 DEF Inv, TypeOK
<1> QED
  BY <1>1, <1>4, <1>5 DEF Level

LEMMA RenameSyncInv ==
  ASSUME Inv, NEW W \in {Apps, Heads}, RenameSync(W)
  PROVE  Inv'
<1>1. PICK q : q = IF W = Heads THEN "answer" ELSE "return"
  OBVIOUS
<1>2. Heads # Apps /\ (W = Heads => q = "answer") /\ (W = Apps => q = "return")
  BY <1>1, Processes
<1>3. pc' = [x \in Who |-> IF x \in W THEN q ELSE pc[x]]
  <2>1. \A x \in W : After(x) = q
    BY <1>2, Processes DEF After
  <2> QED
    BY <2>1 DEF RenameSync
<1>4. /\ AllAt(W, "renamed")
      /\ UNCHANGED <<calls, call, res, lvel, exec, conf, net, disk, metas, faults>>
  BY DEF RenameSync
<1>5. PICK x \in W : acked' = [call |-> call[x], lvl |-> lvel[x]]
  BY DEF RenameSync
<1>6. \A y \in W : lvel[y] = lvel[x] /\ res[y] = 0 /\ lvel[y] # Rejected
  BY <1>4, PlacedLevel
<1>7. TypeOK'
  <2>1. pc' \in [Who -> Where] /\ TypeOK
    BY <1>2, <1>3 DEF Inv, TypeOK, Where
  <2>2. x \in Who /\ lvel[x] \in 0 .. 4
    BY <1>4, PlacedLevel, Processes
  <2>3. acked' \in [call : Index, lvl : 0 .. 4]
    BY <1>5, <2>1, <2>2 DEF TypeOK
  <2> QED
    BY <1>4, <2>1, <2>3, MoveType
<1>8. ASSUME NEW y \in W PROVE ResultInv(y)'
  BY <1>2, <1>3, <1>4, <1>6, Processes DEF ResultInv, Placing
<1>9. ASSUME NEW r \in Apps PROVE Known(r)' = acked'.lvl
  <2>1. CASE W = Apps
    <3>1. pc'[r] = "return" /\ res'[r] = 0 /\ lvel'[r] = lvel[x]
      BY <1>2, <1>3, <1>4, <1>6, <2>1, Processes
    <3> QED
      BY <1>5, <3>1 DEF Known, At
  <2>2. CASE W = Heads
    <3>1. /\ pc[HeadOf(r)] = "renamed" /\ pc'[HeadOf(r)] = "answer" /\ res'[HeadOf(r)] = 0
          /\ lvel'[HeadOf(r)] = lvel[x] /\ pc'[r] = pc[r]
      BY <1>2, <1>3, <1>4, <1>6, <2>2, Processes DEF AllAt
    <3>2. Due(r)
      BY <3>1, Processes, BusyAsked DEF Busy, Serving, Posting, Placing
    <3> QED
      BY <1>5, <3>1, <3>2 DEF Known, At, Due
  <2> QED
    BY <2>1, <2>2
<1>10. /\ q \in Where
       /\ W = Apps => "renamed" \in Posting /\ q \in Posting \cup {"return"}
       /\ W = Heads => "renamed" \in Serving /\ q \in Serving
  BY <1>2 DEF Where, Serving, Posting, Placing
<1>11. /\ calls' = calls /\ call' = call /\ res' = res /\ lvel' = lvel /\ last' = last
       /\ offline' = offline /\ ckptTag' = ckptTag /\ answers' = answers /\ finalTag' = finalTag
  BY <1>4 DEF exec, net
<1> QED
  BY <1>3, <1>4, <1>7, <1>8, <1>9, <1>10, <1>11, MoveFrame

LEMMA FinSyncInv ==
  ASSUME Inv, FinSync
  PROVE  Inv'
<1>1. /\ \A x \in Who : pc[x] = "finished" /\ pc'[x] = "done"
      /\ pc' = [x \in Who |-> IF x \in Who THEN "done" ELSE pc[x]]
      /\ UNCHANGED <<calls, call, res, lvel, exec, conf, net, disk, metas, faults, acked>>
  BY DEF FinSync, AllAt, Together
<1>2. TypeOK'
  <2>1. pc' \in [Who -> Where] /\ TypeOK
    BY <1>1 DEF Inv, TypeOK, Where
  <2>2. acked' \in [call : Index, lvl : 0 .. 4]
    BY <1>1, <2>1 DEF TypeOK
  <2> QED
    BY <1>1, <2>1, <2>2, MoveType
<1>3. ASSUME NEW r \in Apps
      PROVE  /\ pc'[r] \in AppPlace /\ CallInv(r)' /\ Due(r)' = Due(r)
             /\ Round(r)' = Round(r)
             /\ pc[r] \in Ending => pc'[r] \in Ending
             /\ Known(r)' = acked'.lvl
  <2>1. /\ pc[r] = "finished" /\ pc'[r] = "done" /\ HeadOf(r) \in Who /\ CallInv(r)
        /\ pc[HeadOf(r)] = "finished" /\ pc'[HeadOf(r)] = "done"
    BY <1>1, AppFacts
  <2>2. Round(r)' = Round(r) /\ Due(r)' = Due(r)
    BY <1>1, <2>1 DEF Round, Due, Ending, exec
  <2>3. CallInv(r)'
    BY <1>1, <2>1, <2>2 DEF CallInv, At, Posting, Placing, Ending, exec
  <2>4. Known(r)' = acked'.lvl
    BY <1>1, <2>1, KnownSame DEF At, exec, net
  <2> QED
    BY <2>1, <2>2, <2>3, <2>4 DEF AppPlace, Ending
<1>4. ASSUME NEW h \in Heads
      PROVE  /\ pc'[h] \in HeadPlace /\ Busy(h)' = Busy(h)
             /\ At(h, "ending")' => At(h, "ending")
             /\ pc'[h] \in {"finished", "done"} => pc[h] \in {"finished", "done"}
  <2>1. pc[h] = "finished" /\ pc'[h] = "done"
    BY <1>1, Processes
  <2>2. "finished" \notin Serving /\ "done" \notin Serving
    BY DEF Serving, Posting, Placing
  <2> QED
    BY <2>1, <2>2 DEF HeadPlace, Busy, At
<1>5. \A x \in Who : ResultInv(x)'
  BY <1>1 DEF ResultInv, Placing
<1>6. Lockstep' /\ Unsent'
  BY <1>1, <1>3, Processes DEF Lockstep, Unsent, Inv
<1>7. /\ calls' = calls /\ call' = call /\ res' = res /\ lvel' = lvel /\ last' = last
       /\ offline' = offline /\ ckptTag' = ckptTag /\ answers' = answers /\ finalTag' = finalTag
  BY <1>1 DEF exec, net
<1> QED
  BY <1>2, <1>3, <1>4, <1>5, <1>6, <1>7, GroupFrame

-----------------------------------------------------------------------------
(***************************************************************************)
(* The theorems.                                                           *)
(***************************************************************************)

LEMMA InitInv == Init => Inv
<1> SUFFICES ASSUME Init PROVE Inv
  OBVIOUS
<1>1. /\ calls = <<>> /\ call = [x \in Who |-> 0] /\ res = [x \in Who |-> 0]
      /\ lvel = [x \in Who |-> 0] /\ last = [r \in Apps |-> 0] /\ offline = [r \in Apps |-> FALSE]
      /\ ckptTag = [r \in Apps |-> <<>>] /\ answers = [r \in Apps |-> <<>>]
      /\ finalTag = [r \in Apps |-> FALSE] /\ acked = [call |-> 0, lvl |-> 0]
      /\ \A r \in Apps : pc[r] = "run"
      /\ \A h \in Heads : pc[h] = "listen"
  BY Processes DEF Init, NoCall
<1>2. TypeOK
  <2>1. calls \in Seq(0 .. 4) /\ Len(calls) = 0
    BY <1>1
  <2>2. 0 \in Index
    BY <2>1 DEF Index
  <2>3. pc \in [Who -> Where]
    BY DEF Init, Where
  <2>4. ckptTag \in [Apps -> Seq([lvl : (1 .. 4) \cup {Rejected}, call : Index])]
        /\ answers \in [Apps -> Seq((1 .. 4) \cup {NSCS})]
    <3>1. <<>> \in Seq([lvl : (1 .. 4) \cup {Rejected}, call : Index]) /\ <<>> \in Seq((1 .. 4) \cup {NSCS})
      OBVIOUS
    <3> QED
      BY <1>1, <3>1
  <2>5. /\ tmp \in [Apps -> Index] /\ gtmp \in [Apps -> Index] /\ gdir \in [Apps -> Index]
        /\ dir \in [1 .. 3 -> [Apps -> Index]]
        /\ mtmp \in [Group -> Index] /\ meta \in [1 .. 4 -> [Group -> Index]]
    BY <2>2 DEF Init, NoFiles, NoMeta, NoCall
  <2> QED
    BY <1>1, <2>1, <2>2, <2>3, <2>4, <2>5 DEF Init, TypeOK, Level
<1>3. CallsInv
  BY <1>1 DEF CallsInv
<1>4. ASSUME NEW r \in Apps
      PROVE  /\ pc[r] \in AppPlace /\ CallInv(r) /\ Exchange(r) /\ Round(r) = 0
             /\ ~finalTag[r] /\ Known(r) = acked.lvl
  <2>1. /\ HeadOf(r) \in Heads /\ pc[r] = "run" /\ pc[HeadOf(r)] = "listen" /\ r \in Who
    BY <1>1, Processes
  <2>2. Round(r) = 0 /\ ~Due(r) /\ ~Busy(HeadOf(r))
    BY <1>1, <2>1 DEF Round, Due, Busy, Ending, Serving, Posting, Placing
  <2>3. CallInv(r)
    BY <1>1, <2>1, <2>2 DEF CallInv, At, Posting, Placing
  <2> QED
    BY <1>1, <2>1, <2>2, <2>3 DEF Exchange, Known, At, AppPlace
<1>5. \A h \in Heads : pc[h] \in HeadPlace
  BY <1>1 DEF HeadPlace
<1>6. \A x \in Who : ResultInv(x)
  BY <1>1, Processes DEF ResultInv, Placing
<1>7. Lockstep /\ Unsent /\ EndInv
  BY <1>1, <1>4 DEF Lockstep, Unsent, EndInv, At
<1> QED
  BY <1>2, <1>3, <1>4, <1>5, <1>6, <1>7 DEF Inv

LEMMA StutterInv == Inv /\ UNCHANGED vars => Inv'
<1> SUFFICES ASSUME Inv, UNCHANGED vars PROVE Inv'
  OBVIOUS
<1>1. /\ calls' = calls /\ pc' = pc /\ call' = call /\ res' = res /\ lvel' = lvel /\ prev' = prev
      /\ last' = last /\ offline' = offline /\ first' = first /\ conf' = conf
      /\ ckptTag' = ckptTag /\ finalTag' = finalTag /\ answers' = answers
      /\ tmp' = tmp /\ dir' = dir /\ gtmp' = gtmp /\ gdir' = gdir /\ mtmp' = mtmp /\ meta' = meta
      /\ faults' = faults /\ acked' = acked
  BY DEF vars, exec, net, disk, metas
<1>2. TypeOK'
  BY <1>1 DEF Inv, TypeOK, Index
<1>3. ASSUME NEW r \in Apps
      PROVE  /\ CallInv(r)' /\ Due(r)' = Due(r) /\ Round(r)' = Round(r) /\ Known(r)' = acked'.lvl
  <2>1. Round(r)' = Round(r) /\ Due(r)' = Due(r)
    BY <1>1 DEF Round, Due
  <2>2. CallInv(r)'
    BY <1>1, <2>1 DEF Inv, CallInv, At
  <2>3. Known(r)' = acked'.lvl
    BY <1>1 DEF Inv, Known, At
  <2> QED
    BY <2>1, <2>2, <2>3
<1>4. \A h \in Heads : Busy(h)' = Busy(h)
  BY <1>1 DEF Busy
<1>5. \A x \in Who : ResultInv(x)'
  BY <1>1 DEF Inv, ResultInv
<1>6. Lockstep' /\ Unsent'
  BY <1>1, <1>3 DEF Inv, Lockstep, Unsent
<1>7. \A r \in Apps : pc'[r] \in AppPlace /\ (pc[r] \in Ending => pc'[r] \in Ending)
  BY <1>1 DEF Inv
<1>8. \A h \in Heads : /\ pc'[h] \in HeadPlace /\ (At(h, "ending")' => At(h, "ending"))
                       /\ pc'[h] \in {"finished", "done"} => pc[h] \in {"finished", "done"}
  BY <1>1 DEF Inv, At
<1> QED
  BY <1>1, <1>2, <1>3, <1>4, <1>5, <1>6, <1>7, <1>8, GroupFrame

LEMMA NextInv == Inv /\ [Next]_vars => Inv'
<1> SUFFICES ASSUME Inv, [Next]_vars PROVE Inv'
  OBVIOUS
<1>1. ASSUME NEW r \in Apps, AppStep(r) PROVE Inv'
  BY <1>1, FollowInv, AwaitInv, WriteInv, CreateMetadataInv, SendAsyncInv, StartInlineInv,
     ReturnInlineInv, EndStepInv DEF AppStep
<1>2. ASSUME NEW r \in Apps, NEW l \in CallLevels \cup {Finalize}, Issue(r, l) PROVE Inv'
  BY <1>2, IssueInv
<1>3. ASSUME NEW x \in Who, PostStep(x) PROVE Inv'
  BY <1>3, AppPostInv, HeadPostInv, Processes
<1>4. ASSUME NEW h \in Heads, HeadStep(h) PROVE Inv'
  BY <1>4, ListenInv, CollectInv, AnswerInv, EndListenInv DEF HeadStep
<1>5. ASSUME Sync PROVE Inv'
  BY <1>5, WriteSyncInv, AgreeInv, FinSyncInv, PostSyncInv, RenameSyncInv DEF Sync
<1>6. ASSUME UNCHANGED vars PROVE Inv'
  BY <1>6, StutterInv
<1> QED
  BY <1>1, <1>2, <1>3, <1>4, <1>5, <1>6 DEF Next, Ended

\* Inv holds in every state.
THEOREM InvHolds == Spec => []Inv
BY InitInv, NextInv, PTL DEF Spec

\* Every variable keeps its type.
THEOREM TypeCorrect == Spec => []TypeOK
BY InvHolds, PTL DEF Inv

\* A process never works in the temporary directories while the head of its node
\* post-processes what is there (FTI_Checkpoint, "avoid checkpoint collision").
THEOREM NoneCollide == Spec => []NoCollision
<1>1. Inv => NoCollision
  <2> SUFFICES ASSUME Inv, NEW h \in Heads, NEW r \in Apps, r \in Body(h),
                      pc[h] \in {"agree", "post", "posted", "discard", "clean", "rename",
                                "renameGlobal", "renamed"}
               PROVE  pc[r] \notin {"wrote", "meta", "send", "drop", "finished"}
    BY DEF NoCollision
  <2>1. Busy(h)
    BY DEF Busy, Serving, Posting, Placing
  <2> QED
    BY <2>1, BusyAsked DEF Due
<1> QED
  BY <1>1, InvHolds, PTL

\* Two channels that hold at most one message, one of them empty.
LEMMA AtMostOne ==
  ASSUME NEW p, NEW q,
         p = <<>> \/ (\E m : p = <<m>>), q = <<>> \/ (\E m : q = <<m>>),
         p = <<>> \/ q = <<>>
  PROVE  Len(p) + Len(q) <= 1
<1>1. Len(<<>>) = 0 /\ (\A m : Len(<<m>>) = 1)
  OBVIOUS
<1>2. Len(p) = 0 \/ Len(p) = 1
  BY <1>1
<1>3. Len(q) = 0 \/ Len(q) = 1
  BY <1>1
<1>4. Len(p) = 0 \/ Len(q) = 0
  BY <1>1
<1>5. \A m, n : (m = 0 \/ m = 1) /\ (n = 0 \/ n = 1) /\ (m = 0 \/ n = 0) => m + n <= 1
  OBVIOUS
<1> QED
  BY <1>2, <1>3, <1>4, <1>5

\* Between a process and its head there is never more than one message, and none is
\* left when the head stops (FTI_Listen, FTI_Finalize).
THEOREM NoneStray == Spec => []NoStrayMessages
<1>1. Inv => NoStrayMessages
  <2> SUFFICES ASSUME Inv, NEW h \in Heads, NEW r \in Body(h)
               PROVE  /\ Len(ckptTag[r]) + Len(answers[r]) <= 1
                      /\ pc[h] \in {"ending", "finished", "done"} => ckptTag[r] = <<>>
                      /\ pc[h] \in {"finished", "done"} => answers[r] = <<>>
    BY DEF NoStrayMessages
  <2>1. r \in Apps /\ Exchange(r)
    BY HeadFacts
  <2>2. Len(ckptTag[r]) + Len(answers[r]) <= 1
    <3>1. ckptTag[r] = <<>> \/ (\E m : ckptTag[r] = <<m>>)
      BY <2>1 DEF Exchange
    <3>2. answers[r] = <<>> \/ (\E m : answers[r] = <<m>>)
      BY <2>1 DEF Exchange
    <3>3. ckptTag[r] = <<>> \/ answers[r] = <<>>
      BY <2>1 DEF Exchange
    <3> QED
      BY <3>1, <3>2, <3>3, AtMostOne
  <2>3. pc[h] \in {"finished", "done"} => ckptTag[r] = <<>> /\ answers[r] = <<>>
    <3>1. pc[h] \in {"finished", "done"} => ~Due(r)
      BY DEF Inv, EndInv, Due, Ending
    <3> QED
      BY <2>1, <3>1 DEF Exchange
  <2>4. pc[h] = "ending" => ckptTag[r] = <<>>
    BY DEF Inv, EndInv, At
  <2> QED
    BY <2>2, <2>3, <2>4
<1> QED
  BY <1>1, InvHolds, PTL

\* In FTI_Finalize every process knows the level of the last checkpoint that was put
\* in its place, whoever did it (lastCkptLvel).
THEOREM LastLevelsKnown == Spec => []LastLevelKnown
<1>1. Inv => LastLevelKnown
  <2> SUFFICES ASSUME Inv, NEW r \in Apps,
                      pc[r] \in {"endw", "dropConf", "drop", "finished", "done"}
               PROVE  last[r] = acked.lvl
    BY DEF LastLevelKnown
  <2>1. ~Due(r) /\ ~At(r, "return")
    BY DEF Due, At
  <2>2. answers[r] = <<>> /\ ~Busy(HeadOf(r))
    BY <2>1 DEF Inv, Exchange
  <2>3. ~At(HeadOf(r), "answer")
    BY <2>2 DEF Busy, At, Serving
  <2>4. Known(r) = acked.lvl
    BY DEF Inv
  <2> QED
    BY <2>1, <2>2, <2>3, <2>4 DEF Known
<1> QED
  BY <1>1, InvHolds, PTL

-----------------------------------------------------------------------------

(* A checkpoint the heads, or the application processes, have put in its   *)
(* place stays there: AckedIsStored.                                       *)

Inline == ~(CallLevels \subseteq Async)
InlineFour == 4 \in CallLevels \ Async

\* No inline checkpoint fails: FTI_Clean(0), which has no barrier, could then remove
\* what another process has already written for the next one.  The same holds of a
\* head, if gTmpDir is written inline.  FTI_Flush of a head reports no failure.
NoRace ==
  /\ "flush" \notin Faults
  /\ Inline => /\ "write" \notin Faults /\ "meta" \notin Faults
               /\ CallLevels \subseteq Async \cup {1} \/ "post" \notin Faults

Flushing == {"post", "posted"}

\* The application asks for no other levels.
LevelsInv == \A k \in 1 .. Len(calls) : calls[k] \in CallLevels \cup {Finalize}

\* What does not fail.
FailInv ==
  /\ \A r \in Apps : pc[r] # "discard"
  /\ \A x \in Who : pc[x] \in Flushing \cup Placing => lvel[x] # Rejected
  /\ Inline =>
       /\ \A r \in Apps : /\ lvel[r] # Rejected
                          /\ pc[r] \in {"wrote", "send", "posted"} => res[r] = 0
                          /\ ckptTag[r] # <<>> => Head(ckptTag[r]).lvl # Rejected
       /\ \A h \in Heads : At(h, "agree") => res[h] = 0
  /\ InlineFour =>
       \A h \in Heads : pc[h] # "discard" /\ (At(h, "posted") => res[h] = 0)

\* The heads post-process together, and put the checkpoint in its place together.
HeadPhase ==
  \/ \A h \in Heads : pc[h] \in Flushing
  \/ \A h \in Heads : pc[h] \in Placing
  \/ \A h \in Heads : pc[h] \notin Flushing \cup Placing

\* So do the application processes, if the level is inline.
Inlining(r) ==
  pc[r] \in Flushing \/ (pc[r] \in {"meta", "send"} /\ calls[call[r]] \notin Async)

AppPhase ==
  /\ \A q, r \in Apps :
       Inlining(r) => pc[q] \in {"meta", "send"} \cup Flushing
  /\ \A q, r \in Apps : pc[r] \in Placing => pc[q] \in Placing

\* While a head is past its agreement with the others, no request is made, is under
\* way or waits for agreement.
Past(h) == pc[h] \in Posting \cup {"answer"}
CalmPlace == {"run", "await", "write", "wrote", "endw"} \cup Ending

Calm ==
  (\E h \in Heads : Past(h)) =>
    /\ \A r \in Apps : pc[r] \in CalmPlace /\ ckptTag[r] = <<>>
    /\ \A h \in Heads : pc[h] # "agree"

\* The file of call c of process r is in a temporary directory, ...
FileAt(r, c) == IF calls[c] = 4 /\ 4 \notin Async THEN gtmp[r] = c ELSE tmp[r] = c

\* ... and so is the metadata, if it is r that writes it.
MetaAt(r, c) == r[1] = 0 => mtmp[r[2]] = c

\* What r has written successfully stays until it is post-processed.
Written(r) ==
  /\ pc[r] = "wrote" /\ res[r] = 0 => FileAt(r, call[r])
  /\ pc[r] = "meta" => FileAt(r, call[r])
  /\ (pc[r] = "send" /\ res[r] = 0) \/ pc[r] \in Flushing =>
       FileAt(r, call[r]) /\ MetaAt(r, call[r])

Handed(r) ==
  LET h == HeadOf(r)
  IN /\ \/ ckptTag[r] # <<>> /\ Head(ckptTag[r]).lvl # Rejected
        \/ pc[h] \in {"agree"} \cup Flushing /\ lvel[h] # Rejected
        => tmp[r] = Round(r) /\ MetaAt(r, Round(r))
     /\ At(h, "posted") /\ lvel[h] = 4 => gtmp[r] = Round(r)

\* How far x is with the directories of its node, ...
NodePlace(x) ==
  /\ At(x, "rename") => NodeFlag(x)
  /\ At(x, "renameGlobal") => SplitRoot(x)
  /\ NodeFlag(x) =>
       \A r \in Apps : r[1] = x[1] =>
         /\ pc[x] \in {"clean", "rename"} =>
              (lvel[x] = 4 /\ 4 \notin Async) \/ tmp[r] = call[x]
         /\ pc[x] \in {"renameGlobal", "renamed"} =>
              lvel[x] = 4 \/ dir[lvel[x]][r] = call[x]

\* ... and with the global ones.
RootPlace(x) ==
  SplitRoot(x) =>
    /\ pc[x] \in {"clean", "rename", "renameGlobal"} =>
         /\ \A p \in Group : mtmp[p] = call[x]
         /\ lvel[x] = 4 => \A r \in Apps : gtmp[r] = call[x]
    /\ pc[x] = "renamed" =>
         /\ \A p \in Group : meta[lvel[x]][p] = call[x]
         /\ lvel[x] = 4 => \A r \in Apps : gdir[r] = call[x]

Kept == acked.call # NoCall /\ Undisturbed(acked.lvl) => Stored(acked.call, acked.lvl)

Files ==
  /\ \A r \in Apps : Written(r) /\ Handed(r)
  /\ \A x \in Who : NodePlace(x) /\ RootPlace(x)
  /\ Kept

Ctl == LevelsInv /\ FailInv /\ HeadPhase /\ AppPhase /\ Calm

StoreInv == Ctl /\ Files
-----------------------------------------------------------------------------
(***************************************************************************)
(* Who is where.                                                           *)
(***************************************************************************)

LEMMA CallLevel ==
  ASSUME Inv, Ctl, NEW r \in Apps, pc[r] # "run", calls[call[r]] # Finalize
  PROVE  /\ call[r] \in 1 .. Len(calls) /\ calls[call[r]] \in CallLevels
         /\ calls[call[r]] \notin Async => Inline
<1>1. call[r] \in 1 .. Len(calls)
  BY AppFacts
<1>2. calls[call[r]] \in CallLevels
  BY <1>1 DEF Ctl, LevelsInv
<1> QED
  BY <1>1, <1>2 DEF Inline

\* A process in FTI_PostCkpt does so for an inline level.
LEMMA PostLevel ==
  ASSUME Inv, Ctl, NEW r \in Apps, pc[r] \in Posting
  PROVE  /\ call[r] \in 1 .. Len(calls) /\ calls[call[r]] \in CallLevels \ Async
         /\ Inline /\ lvel[r] = calls[call[r]] /\ Round(r) = call[r] /\ ~Due(r)
<1>1. CallInv(r) /\ lvel[r] # Rejected
  <2>1. CallInv(r) /\ r \in Who
    BY AppFacts
  <2>2. pc[r] # "discard"
    BY DEF Ctl, FailInv
  <2> QED
    BY <2>1, <2>2 DEF Ctl, FailInv, Posting, Flushing
<1>2. pc[r] # "run" /\ calls[call[r]] # Finalize
  BY <1>1 DEF CallInv, At, Posting, Placing, Ending
<1>3. Round(r) = call[r] /\ ~Due(r)
  BY DEF Round, Due, Posting, Placing, Ending
<1> QED
  BY <1>1, <1>2, <1>3, CallLevel DEF CallInv

LEMMA BodyFull == ASSUME NEW h \in Heads PROVE \E r \in Body(h) : TRUE
BY Processes

LEMMA SameRound == ASSUME Inv, NEW q \in Apps, NEW r \in Apps PROVE Round(q) = Round(r)
BY DEF Inv, Lockstep

\* While one head works on the files, all of them do, and the processes compute.
LEMMA AllAtWork ==
  ASSUME Inv, HeadPhase, NEW h \in Heads, pc[h] \in Flushing \cup Placing, NEW r \in Apps
  PROVE  /\ pc[HeadOf(r)] \in Flushing \cup Placing /\ HeadOf(r) \in Heads /\ r \in Body(HeadOf(r))
         /\ Due(r) /\ pc[r] \in {"run", "await"} /\ ckptTag[r] = <<>>
         /\ call[HeadOf(r)] = Round(r) /\ call[h] = Round(r)
<1>1. \A g \in Heads : pc[g] \in Flushing \cup Placing
  BY DEF HeadPhase
<1>2. \A g \in Heads : Busy(g)
  BY <1>1 DEF Busy, Serving, Posting, Flushing
<1>3. HeadOf(r) \in Heads /\ r \in Body(HeadOf(r))
  BY Processes
<1>4. Due(r) /\ ckptTag[r] = <<>> /\ call[HeadOf(r)] = Round(r)
  BY <1>2, <1>3, BusyAsked
<1>5. PICK q \in Body(h) : TRUE
  BY Processes
<1>6. call[h] = Round(r)
  BY <1>2, <1>5, BusyAsked, SameRound
<1> QED
  BY <1>1, <1>3, <1>4, <1>6 DEF Due

\* While a process post-processes, no head has anything to do.
LEMMA NoneAtWork ==
  ASSUME Inv, \A r \in Apps : ~Due(r)
  PROVE  /\ \A h \in Heads : ~Busy(h) /\ ~Past(h) /\ pc[h] \notin Flushing \cup Placing
                            /\ pc[h] # "agree" /\ pc[h] # "discard"
         /\ \A r \in Apps : ckptTag[r] = <<>>
<1>1. ASSUME NEW h \in Heads PROVE ~Busy(h)
  <2>1. PICK q \in Body(h) : TRUE
    BY Processes
  <2> QED
    BY <2>1, BusyAsked
<1>2. \A r \in Apps : ckptTag[r] = <<>>
  BY DEF Inv, Exchange
<1> QED
  BY <1>1, <1>2 DEF Busy, Past, Serving, Posting, Flushing

\* Inline levels: the processes that are on their way to FTI_PostCkpt, or in it, are all
\* of them and in the same call.
LEMMA InlineTogether ==
  ASSUME Inv, AppPhase, NEW r \in Apps, Inlining(r) \/ pc[r] \in Placing, NEW q \in Apps
  PROVE  /\ pc[q] \in {"meta", "send"} \cup Flushing \cup Placing
         /\ pc[r] \in Placing <=> pc[q] \in Placing
         /\ call[q] = call[r] /\ (Inlining(q) \/ pc[q] \in Placing) /\ ~Due(q)
<1>1. /\ pc[q] \in {"meta", "send"} \cup Flushing \cup Placing
      /\ pc[r] \in {"meta", "send"} \cup Flushing \cup Placing
      /\ pc[r] \in Placing <=> pc[q] \in Placing
  BY DEF AppPhase, Inlining, Flushing, Placing
<1>2. Round(q) = call[q] /\ Round(r) = call[r] /\ ~Due(q)
  BY <1>1 DEF Round, Due, Flushing, Placing, Ending
<1>3. call[q] = call[r]
  BY <1>2, SameRound
<1>4. Inlining(q) \/ pc[q] \in Placing
  <2>1. CASE pc[q] \in {"meta", "send"}
    <3>1. calls[call[r]] \notin Async
      BY <1>1, <2>1, AppFacts DEF Inlining, CallInv, Flushing, Posting, Placing
    <3> QED
      BY <1>3, <2>1, <3>1 DEF Inlining
  <2> QED
    BY <1>1, <2>1 DEF Inlining
<1> QED
  BY <1>1, <1>2, <1>3, <1>4

-----------------------------------------------------------------------------
(***************************************************************************)
(* Who is where is kept.                                                   *)
(***************************************************************************)

AppKeeps(r) ==
  /\ pc'[r] # "discard"
  /\ pc'[r] \in Flushing \cup Placing => lvel'[r] # Rejected
  /\ Inline => /\ lvel'[r] # Rejected
               /\ pc'[r] \in {"wrote", "send", "posted"} => res'[r] = 0
               /\ ckptTag'[r] # <<>> => Head(ckptTag'[r]).lvl # Rejected
  /\ Inlining(r)' => Inlining(r)
  /\ Inlining(r) => pc'[r] \in {"meta", "send"} \cup Flushing
  /\ pc'[r] \in Placing <=> pc[r] \in Placing
  /\ pc[r] \in CalmPlace => pc'[r] \in CalmPlace /\ ckptTag'[r] = ckptTag[r]

LEMMA AppCtl ==
  ASSUME Inv, Ctl, NEW r \in Apps, AppSame(r), AppKeeps(r), LevelsInv'
  PROVE  Ctl'
<1>1. r \in Who /\ (\A h \in Heads : h \in Who /\ h # r) /\ (\A q \in Apps : q \in Who)
  BY Processes
<1>2. \A h \in Heads : pc'[h] = pc[h] /\ res'[h] = res[h] /\ lvel'[h] = lvel[h]
  BY <1>1 DEF AppSame
<1>3. \A q \in Apps : q # r => /\ pc'[q] = pc[q] /\ res'[q] = res[q] /\ lvel'[q] = lvel[q]
                               /\ call'[q] = call[q] /\ ckptTag'[q] = ckptTag[q]
  BY <1>1 DEF AppSame
<1>4. FailInv'
  <2>1. \A q \in Apps : pc'[q] # "discard"
    BY <1>3 DEF Ctl, FailInv, AppKeeps
  <2>2. \A x \in Who : pc'[x] \in Flushing \cup Placing => lvel'[x] # Rejected
    BY DEF Ctl, FailInv, AppSame, AppKeeps
  <2>3. ASSUME Inline
        PROVE  \A q \in Apps : /\ lvel'[q] # Rejected
                               /\ pc'[q] \in {"wrote", "send", "posted"} => res'[q] = 0
                               /\ ckptTag'[q] # <<>> => Head(ckptTag'[q]).lvl # Rejected
    BY <1>3, <2>3 DEF Ctl, FailInv, AppKeeps
  <2>4. Inline => \A h \in Heads : At(h, "agree")' => res'[h] = 0
    BY <1>2 DEF Ctl, FailInv, At
  <2>5. InlineFour => \A h \in Heads : pc'[h] # "discard" /\ (At(h, "posted")' => res'[h] = 0)
    BY <1>2 DEF Ctl, FailInv, At
  <2> QED
    BY <2>1, <2>2, <2>3, <2>4, <2>5 DEF FailInv
<1>5. HeadPhase'
  BY <1>2 DEF Ctl, HeadPhase
<1>6. ASSUME NEW q \in Apps, Inlining(q)' PROVE Inlining(q)
  <2>1. CASE q = r
    BY <1>6, <2>1 DEF AppKeeps
  <2>2. CASE q # r
    <3>1. pc'[q] = pc[q] /\ call'[q] = call[q]
      BY <1>3, <2>2
    <3>2. CASE pc[q] \in {"meta", "send"}
      <4>1. calls'[call[q]] = calls[call[q]]
        BY <3>2, AppFacts DEF AppSame
      <4> QED
        BY <1>6, <3>1, <4>1 DEF Inlining
    <3> QED
      BY <1>6, <3>1, <3>2 DEF Inlining
  <2> QED
    BY <2>1, <2>2
<1>7. AppPhase'
  <2>1. ASSUME NEW q \in Apps, NEW s \in Apps, Inlining(q)'
        PROVE  pc'[s] \in {"meta", "send"} \cup Flushing
    <3>1. Inlining(q)
      BY <1>6, <2>1
    <3>2. CASE s = r
      <4>1. pc[s] \notin Placing /\ (Inlining(s) \/ pc[s] \in Placing)
        BY <3>1, InlineTogether DEF Inlining, Flushing, Placing, Ctl
      <4> QED
        BY <3>2, <4>1 DEF AppKeeps
    <3>3. CASE s # r
      BY <1>3, <3>1, <3>3 DEF Ctl, AppPhase
    <3> QED
      BY <3>2, <3>3
  <2>2. \A q, s \in Apps : pc'[q] \in Placing => pc'[s] \in Placing
    BY <1>3 DEF Ctl, AppPhase, AppKeeps
  <2> QED
    BY <2>1, <2>2 DEF AppPhase
<1>8. Calm'
  <2> SUFFICES ASSUME NEW h \in Heads, Past(h)'
               PROVE  /\ \A q \in Apps : pc'[q] \in CalmPlace /\ ckptTag'[q] = <<>>
                      /\ \A g \in Heads : pc'[g] # "agree"
    BY DEF Calm
  <2>1. Past(h)
    BY <1>2 DEF Past
  <2>2. /\ \A q \in Apps : pc[q] \in CalmPlace /\ ckptTag[q] = <<>>
        /\ \A g \in Heads : pc[g] # "agree"
    BY <2>1 DEF Ctl, Calm
  <2> QED
    BY <1>2, <1>3, <2>2 DEF AppKeeps
<1> QED
  BY <1>4, <1>5, <1>7, <1>8 DEF Ctl

HeadKeeps(h) ==
  /\ pc'[h] \in Flushing \cup Placing => lvel'[h] # Rejected
  /\ Inline => /\ At(h, "agree")' => res'[h] = 0
               /\ \A r \in Body(h) : ckptTag'[r] # <<>> => Head(ckptTag'[r]).lvl # Rejected
  /\ InlineFour => pc'[h] # "discard" /\ (At(h, "posted")' => res'[h] = 0)
  /\ pc'[h] \in Flushing <=> pc[h] \in Flushing
  /\ pc'[h] \in Placing <=> pc[h] \in Placing
  /\ Past(h)' => Past(h)
  /\ \A r \in Body(h) : ckptTag[r] = <<>> => ckptTag'[r] = <<>>
  /\ pc'[h] = "agree" => pc[h] = "agree" \/ \E r \in Body(h) : ckptTag[r] # <<>>

LEMMA HeadCtl ==
  ASSUME Inv, Ctl, NEW h \in Heads, HeadSame(h), HeadKeeps(h)
  PROVE  Ctl'
<1>1. h \in Who /\ (\A r \in Apps : r \in Who /\ h # r) /\ (\A g \in Heads : g \in Who)
      /\ (\A r \in Body(h) : r \in Apps)
  BY Processes
<1>2. /\ \A r \in Apps : pc'[r] = pc[r] /\ res'[r] = res[r] /\ lvel'[r] = lvel[r] /\ call'[r] = call[r]
      /\ calls' = calls
  BY <1>1 DEF HeadSame
<1>3. \A g \in Heads : g # h => pc'[g] = pc[g] /\ res'[g] = res[g] /\ lvel'[g] = lvel[g]
  BY <1>1 DEF HeadSame
<1>4. \A r \in Apps : r \notin Body(h) => ckptTag'[r] = ckptTag[r]
  BY DEF HeadSame
<1>5. LevelsInv'
  BY <1>2 DEF Ctl, LevelsInv
<1>6. FailInv'
  <2>1. \A r \in Apps : pc'[r] # "discard"
    BY <1>2 DEF Ctl, FailInv
  <2>2. \A x \in Who : pc'[x] \in Flushing \cup Placing => lvel'[x] # Rejected
    BY DEF Ctl, FailInv, HeadSame, HeadKeeps
  <2>3. ASSUME Inline
        PROVE  \A r \in Apps : /\ lvel'[r] # Rejected
                               /\ pc'[r] \in {"wrote", "send", "posted"} => res'[r] = 0
                               /\ ckptTag'[r] # <<>> => Head(ckptTag'[r]).lvl # Rejected
    BY <1>2, <1>4, <2>3 DEF Ctl, FailInv, HeadKeeps
  <2>4. Inline => \A g \in Heads : At(g, "agree")' => res'[g] = 0
    BY <1>3 DEF Ctl, FailInv, At, HeadKeeps
  <2>5. InlineFour => \A g \in Heads : pc'[g] # "discard" /\ (At(g, "posted")' => res'[g] = 0)
    BY <1>3 DEF Ctl, FailInv, At, HeadKeeps
  <2> QED
    BY <2>1, <2>2, <2>3, <2>4, <2>5 DEF FailInv
<1>7. HeadPhase'
  <2>1. \A g \in Heads : /\ pc'[g] \in Flushing <=> pc[g] \in Flushing
                         /\ pc'[g] \in Placing <=> pc[g] \in Placing
    BY <1>3 DEF HeadKeeps
  <2> QED
    BY <2>1 DEF Ctl, HeadPhase
<1>8. AppPhase'
  <2>1. \A r \in Apps : Inlining(r)' = Inlining(r)
    BY <1>2 DEF Inlining
  <2> QED
    BY <1>2, <2>1 DEF Ctl, AppPhase
<1>9. Calm'
  <2> SUFFICES ASSUME NEW g \in Heads, Past(g)'
               PROVE  /\ \A q \in Apps : pc'[q] \in CalmPlace /\ ckptTag'[q] = <<>>
                      /\ \A k \in Heads : pc'[k] # "agree"
    BY DEF Calm
  <2>1. Past(g)
    BY <1>3 DEF Past, HeadKeeps
  <2>2. /\ \A q \in Apps : pc[q] \in CalmPlace /\ ckptTag[q] = <<>>
        /\ \A k \in Heads : pc[k] # "agree"
    BY <2>1 DEF Ctl, Calm
  <2> QED
    BY <1>1, <1>2, <1>3, <1>4, <2>2 DEF HeadKeeps
<1> QED
  BY <1>5, <1>6, <1>7, <1>8, <1>9 DEF Ctl

LEMMA LevelsKept == ASSUME Ctl, calls' = calls PROVE LevelsInv'
BY DEF Ctl, LevelsInv

LEMMA CtlFacts ==
  ASSUME Inv, Ctl, NEW r \in Apps
  PROVE  /\ pc[r] # "discard" /\ (pc[r] \in Flushing \cup Placing => lvel[r] # Rejected)
         /\ Inline => /\ lvel[r] # Rejected
                      /\ pc[r] \in {"wrote", "send", "posted"} => res[r] = 0
                      /\ ckptTag[r] # <<>> => Head(ckptTag[r]).lvl # Rejected
BY Processes DEF Ctl, FailInv

\* What FTI_Checkpoint and FTI_Finalize do outside of the collectives: nobody fails
\* when some levels are inline.
LEMMA EnterCtl ==
  ASSUME Inv, Ctl, NEW r \in Apps, NEW l \in 0 .. 4, At(r, "run"), Enter(r, l), LevelsInv',
         \A k \in 1 .. Len(calls) : calls'[k] = calls[k]
  PROVE  Ctl'
<1> USE AppFacts, CtlFacts
<1>1. PICK p \in {"await", "endw", "write"} : pc' = [pc EXCEPT ![r] = p]
  BY DEF Enter, Goto
<1>2. /\ pc[r] = "run" /\ pc'[r] = p /\ lvel' = lvel /\ ckptTag' = ckptTag
      /\ \A x \in Who : x # r => pc'[x] = pc[x] /\ call'[x] = call[x] /\ res'[x] = res[x]
  BY <1>1 DEF At, Enter, TypeOK, net
<1>3. AppSame(r)
  BY <1>2 DEF AppSame, Enter, net
<1>4. AppKeeps(r)
  BY <1>1, <1>2 DEF AppKeeps, Inlining, Flushing, Placing, CalmPlace
<1> QED
  BY <1>3, <1>4, AppCtl

LEMMA IssueCtl ==
  ASSUME Inv, Ctl, NEW r \in Apps, NEW l \in CallLevels \cup {Finalize}, Issue(r, l)
  PROVE  Ctl'
<1>1. l \in 0 .. 4
  BY LevelsAssumption DEF Finalize
<1>2. /\ Len(calls') = Len(calls) + 1 /\ calls'[Len(calls) + 1] = l
      /\ \A k \in 1 .. Len(calls) : calls'[k] = calls[k]
      /\ Len(calls) \in Nat
  BY <1>1, CallsGrow, AppFacts DEF Issue
<1>3. LevelsInv'
  BY <1>2 DEF Ctl, LevelsInv
<1> QED
  BY <1>1, <1>2, <1>3, EnterCtl DEF Issue

LEMMA FollowCtl ==
  ASSUME Inv, Ctl, NEW r \in Apps, Follow(r)
  PROVE  Ctl'
<1>1. calls[call[r] + 1] \in 0 .. 4 /\ calls' = calls
  BY AppFacts DEF Follow, TypeOK
<1> QED
  BY <1>1, LevelsKept, EnterCtl DEF Follow

LEMMA AwaitCtl ==
  ASSUME Inv, Ctl, NEW r \in Apps, Await(r)
  PROVE  Ctl'
<1> USE AppFacts, CtlFacts
<1>1. PICK p \in {"endw", "write"} : pc' = [pc EXCEPT ![r] = p]
  BY DEF Await, Goto
<1>2. /\ pc[r] = "await" /\ pc'[r] = p /\ calls' = calls /\ call' = call /\ res' = res
      /\ lvel' = lvel /\ ckptTag' = ckptTag
      /\ \A x \in Who : x # r => pc'[x] = pc[x]
  BY <1>1 DEF At, Await, TypeOK
<1>3. AppSame(r)
  BY <1>2 DEF AppSame, Await, TypeOK
<1>4. AppKeeps(r)
  BY <1>1, <1>2 DEF AppKeeps, Inlining, Flushing, Placing, CalmPlace
<1> QED
  BY <1>2, <1>3, <1>4, AppCtl, LevelsKept

LEMMA WriteCtl ==
  ASSUME Inv, Ctl, NoRace, NEW r \in Apps, NEW bad \in BOOLEAN, Write(r, bad)
  PROVE  Ctl'
<1> USE AppFacts, CtlFacts
<1>1. /\ pc[r] = "write" /\ pc'[r] = "wrote" /\ calls' = calls /\ call' = call
      /\ ckptTag' = ckptTag /\ lvel'[r] = calls[call[r]] /\ res'[r] = IF bad THEN 1 ELSE 0
      /\ \A x \in Who : x # r => pc'[x] = pc[x] /\ res'[x] = res[x] /\ lvel'[x] = lvel[x]
  BY DEF At, Goto, Write, TypeOK, net
<1>2. AppSame(r)
  BY <1>1 DEF AppSame, Write, net
<1>3. lvel'[r] # Rejected
  <2>1. calls \in Seq(0 .. 4) /\ call[r] \in 1 .. Len(calls)
    BY <1>1 DEF TypeOK
  <2>2. calls[call[r]] \in 0 .. 4
    BY <2>1
  <2> QED
    BY <1>1, <2>2 DEF Rejected
<1>4. Inline => ~bad
  BY DEF Write, May, NoRace
<1>5. AppKeeps(r)
  BY <1>1, <1>3, <1>4 DEF AppKeeps, Inlining, Flushing, Placing, CalmPlace
<1> QED
  BY <1>1, <1>2, <1>5, AppCtl, LevelsKept

LEMMA CreateMetadataCtl ==
  ASSUME Inv, Ctl, NoRace, NEW r \in Apps, NEW bad \in BOOLEAN, CreateMetadata(r, bad)
  PROVE  Ctl'
<1> USE AppFacts, CtlFacts
<1>1. /\ pc[r] = "meta" /\ pc'[r] = "send" /\ calls' = calls /\ call' = call
      /\ ckptTag' = ckptTag /\ lvel' = lvel /\ res'[r] = IF bad THEN 1 ELSE 0
      /\ \A x \in Who : x # r => pc'[x] = pc[x] /\ res'[x] = res[x]
  BY DEF At, Goto, CreateMetadata, TypeOK, net
<1>2. AppSame(r)
  BY <1>1 DEF AppSame, CreateMetadata, net, exec
<1>3. Inline => ~bad
  BY DEF CreateMetadata, May, NoRace
<1>4. AppKeeps(r)
  BY <1>1, <1>3 DEF AppKeeps, Inlining, Flushing, Placing, CalmPlace, Ending
<1> QED
  BY <1>1, <1>2, <1>4, AppCtl, LevelsKept

LEMMA SendAsyncCtl ==
  ASSUME Inv, Ctl, NEW r \in Apps, SendAsync(r)
  PROVE  Ctl'
<1> USE AppFacts, CtlFacts
<1>1. PICK m : m = [lvl |-> IF res[r] = 0 THEN lvel[r] ELSE Rejected, call |-> call[r]]
  OBVIOUS
<1>2. /\ pc[r] = "send" /\ pc'[r] = "run" /\ calls' = calls /\ call' = call /\ res' = res
      /\ ckptTag'[r] = Append(ckptTag[r], m)
      /\ lvel' = IF res[r] = 0 THEN lvel ELSE [lvel EXCEPT ![r] = prev[r]]
      /\ \A x \in Who : x # r => pc'[x] = pc[x] /\ lvel'[x] = lvel[x]
  BY <1>1 DEF At, SendAsync, Goto, TypeOK
<1>3. AppSame(r)
  BY <1>2 DEF AppSame, SendAsync, TypeOK
<1>4. ckptTag[r] = <<>> /\ lvel[r] = calls[call[r]]
  BY <1>2 DEF Exchange, Due, CallInv
<1>5. Head(ckptTag'[r]) = m
  BY <1>2, <1>4
<1>6. ~Inlining(r)
  BY <1>2, <1>4 DEF Inlining, SendAsync, Flushing
<1>7. Inline => lvel'[r] # Rejected /\ m.lvl # Rejected
  BY <1>1, <1>2
<1>8. AppKeeps(r)
  BY <1>2, <1>5, <1>6, <1>7 DEF AppKeeps, Inlining, Flushing, Placing, CalmPlace, Ending
<1> QED
  BY <1>2, <1>3, <1>8, AppCtl, LevelsKept

LEMMA StartInlineCtl ==
  ASSUME Inv, Ctl, NEW r \in Apps, StartInline(r)
  PROVE  Ctl' /\ lvel' = lvel /\ res[r] = 0 /\ Inlining(r)
<1> USE AppFacts, CtlFacts
<1>1. /\ pc[r] = "send" /\ lvel[r] = calls[call[r]] /\ lvel[r] \notin Async
  BY DEF StartInline, At, CallInv
<1>2. Inlining(r) /\ Inline
  <2>1. calls[call[r]] # Finalize
    BY <1>1 DEF CallInv, At, Ending
  <2> QED
    BY <1>1, <2>1, CallLevel DEF Inlining
<1>3. res[r] = 0
  BY <1>1, <1>2
<1>4. /\ pc'[r] = "post" /\ calls' = calls /\ call' = call /\ res' = res
      /\ ckptTag' = ckptTag /\ lvel' = lvel
      /\ \A x \in Who : x # r => pc'[x] = pc[x]
  BY <1>3 DEF StartInline, Goto, TypeOK, net
<1>5. AppSame(r)
  BY <1>4 DEF AppSame, StartInline, TypeOK, net
<1>6. AppKeeps(r)
  BY <1>1, <1>2, <1>4 DEF AppKeeps, Flushing, Placing, CalmPlace, Ending
<1> QED
  BY <1>2, <1>3, <1>4, <1>5, <1>6, AppCtl, LevelsKept

LEMMA ReturnInlineCtl ==
  ASSUME Inv, Ctl, NEW r \in Apps, ReturnInline(r)
  PROVE  Ctl'
<1> USE AppFacts, CtlFacts
<1>1. /\ pc[r] = "return" /\ pc'[r] = "run" /\ calls' = calls /\ call' = call
      /\ ckptTag' = ckptTag /\ lvel' = lvel /\ res' = res
      /\ \A x \in Who : x # r => pc'[x] = pc[x]
  BY DEF At, ReturnInline, Goto, TypeOK, net
<1>2. AppSame(r)
  BY <1>1 DEF AppSame, ReturnInline, TypeOK, net
<1>3. AppKeeps(r)
  BY <1>1 DEF AppKeeps, Inlining, Flushing, Placing, CalmPlace, Ending
<1> QED
  BY <1>1, <1>2, <1>3, AppCtl, LevelsKept

LEMMA EndStepCtl ==
  ASSUME Inv, Ctl, NEW r \in Apps, SendEnd(r) \/ DropConf(r) \/ Drop(r)
  PROVE  Ctl'
<1> USE AppFacts, CtlFacts
<1>1. PICK p \in Ending : pc' = [pc EXCEPT ![r] = p]
  BY DEF SendEnd, DropConf, Drop, Goto, Ending
<1>2. /\ pc[r] \in {"endw"} \cup Ending /\ pc'[r] = p /\ calls' = calls /\ call' = call
      /\ ckptTag' = ckptTag /\ lvel' = lvel /\ res' = res /\ last' = last /\ offline' = offline
      /\ answers' = answers /\ acked' = acked
      /\ \A x \in Who : x # r => pc'[x] = pc[x]
      /\ \A q \in Apps : q # r => finalTag'[q] = finalTag[q]
  BY <1>1 DEF At, SendEnd, DropConf, Drop, Ending, TypeOK, net, exec
<1>3. AppSame(r)
  BY <1>2 DEF AppSame
<1>4. AppKeeps(r)
  BY <1>1, <1>2 DEF AppKeeps, Inlining, Flushing, Placing, CalmPlace, Ending
<1> QED
  BY <1>2, <1>3, <1>4, AppCtl, LevelsKept


\* FTI_PostCkpt.
LEMMA PostCtl ==
  ASSUME Inv, Ctl, NoRace, NEW x \in Who, PostStep(x)
  PROVE  Ctl'
<1>1. /\ calls' = calls /\ call' = call /\ lvel' = lvel /\ last' = last
      /\ offline' = offline /\ ckptTag' = ckptTag /\ answers' = answers
      /\ finalTag' = finalTag /\ acked' = acked
      /\ \A y \in Who : y # x => pc'[y] = pc[y] /\ res'[y] = res[y]
      /\ \/ pc[x] = "post" /\ pc'[x] = "posted" /\ (res'[x] = 0 => lvel[x] # Rejected)
         \/ pc[x] = "discard" /\ pc'[x] = After(x) /\ res'[x] # 0
         \/ pc[x] \in Placing /\ pc'[x] \in Placing /\ res'[x] = res[x]
  BY PostEffect
<1>2. pc[x] \in Flushing \cup Placing => lvel[x] # Rejected
  BY DEF Ctl, FailInv
<1>3. ASSUME pc[x] = "post", "post" \notin Faults \/ lvel[x] \notin {2, 3} PROVE res'[x] = 0
  <2>1. PICK bad \in BOOLEAN : \E lost \in BOOLEAN : Post(x, bad, lost)
    BY <1>3 DEF PostStep, Discard, Clean, Rename, RenameGlobal, At
  <2>2. ~bad
    BY <1>3, <2>1 DEF Post, May
  <2>3. res \in [Who -> {0, 1}]
    BY DEF Inv, TypeOK
  <2> QED
    BY <1>2, <1>3, <2>1, <2>2, <2>3 DEF Post, Flushing
<1>4. CASE x \in Apps
  <2>1. AppSame(x)
    BY <1>1 DEF AppSame
  <2>2. pc[x] # "discard" /\ pc[x] \in Posting /\ pc[x] \in Flushing \cup Placing
    BY <1>1, <1>4, CtlFacts DEF Posting, Flushing
  <2>3. calls[call[x]] \in CallLevels \ Async /\ Inline /\ lvel[x] = calls[call[x]]
    BY <1>4, <2>2, PostLevel
  <2>4. pc[x] = "post" => res'[x] = 0
    BY <1>3, <2>3 DEF NoRace
  <2>5. AppKeeps(x)
    <3>1. lvel'[x] # Rejected
      BY <1>1, <1>2, <2>2
    <3>2. ckptTag'[x] # <<>> => Head(ckptTag'[x]).lvl # Rejected
      BY <1>1, <1>4, <2>3, CtlFacts
    <3>3. pc'[x] \in Flushing \cup Placing /\ (pc'[x] \in Placing <=> pc[x] \in Placing)
          /\ (pc'[x] = "posted" => pc[x] = "post")
      BY <1>1, <2>2 DEF Flushing, Placing
    <3>4. pc[x] \notin CalmPlace /\ pc'[x] \notin {"discard", "wrote", "send"}
      BY <2>2, <3>3 DEF CalmPlace, Ending, Flushing, Placing
    <3>5. Inlining(x)' => Inlining(x)
      BY <2>2, <3>3 DEF Inlining, Flushing, Placing
    <3>6. Inlining(x) => pc'[x] \in {"meta", "send"} \cup Flushing
      BY <2>2, <3>3 DEF Inlining, Flushing, Placing
    <3> QED
      BY <2>4, <3>1, <3>2, <3>3, <3>4, <3>5, <3>6 DEF AppKeeps
  <2> QED
    BY <1>1, <1>4, <2>1, <2>5, AppCtl, LevelsKept
<1>5. CASE x \in Heads
  <2>1. HeadSame(x)
    BY <1>1 DEF HeadSame
  <2>2. After(x) = "answer"
    BY <1>5, Processes DEF After
  <2>3. InlineFour => "post" \notin Faults
    BY DEF InlineFour, Inline, NoRace
  <2>4. \A r \in Body(x) : r \in Apps
    BY <1>5, Processes
  <2>5. HeadKeeps(x)
    <3>1. pc'[x] \in Flushing \cup Placing => lvel'[x] # Rejected
      BY <1>1, <1>2, <2>2 DEF Flushing, Placing
    <3>2. Inline => \A r \in Body(x) : ckptTag'[r] # <<>> => Head(ckptTag'[r]).lvl # Rejected
      BY <1>1, <2>4, CtlFacts
    <3>3. InlineFour => pc'[x] # "discard" /\ (At(x, "posted")' => res'[x] = 0)
      BY <1>1, <1>3, <2>2, <2>3 DEF At, Placing
    <3>4. (pc'[x] \in Flushing <=> pc[x] \in Flushing) /\ (pc'[x] \in Placing <=> pc[x] \in Placing)
          /\ Past(x) /\ pc'[x] # "agree"
      BY <1>1, <2>2 DEF Flushing, Placing, Past, Posting
    <3> QED
      BY <1>1, <3>1, <3>2, <3>3, <3>4 DEF HeadKeeps, At
  <2> QED
    BY <1>5, <2>1, <2>5, HeadCtl
<1> QED
  BY <1>4, <1>5, Processes

LEMMA HeadStepCtl ==
  ASSUME Inv, Ctl, NEW h \in Heads, HeadStep(h), ~Collect(h)
  PROVE  Ctl'
<1> USE HeadFacts
<1>1. PICK p \in {"collect", "listen", "ending", "finished"} : pc' = [pc EXCEPT ![h] = p]
  BY DEF HeadStep, Listen, Answer, ListenFinal, EndListen, Goto
<1>2. /\ pc[h] \in {"listen", "answer", "ending"} /\ pc'[h] = p
      /\ calls' = calls /\ call' = call /\ lvel' = lvel /\ last' = last /\ res' = res
      /\ offline' = offline /\ ckptTag' = ckptTag /\ acked' = acked
      /\ \A y \in Who : y # h => pc'[y] = pc[y]
  BY <1>1 DEF HeadStep, Listen, Answer, ListenFinal, EndListen, At, TypeOK, exec, net
<1>3. /\ \A r \in Apps : finalTag'[r] => finalTag[r]
      /\ \A r \in Apps : r \notin Body(h) => answers'[r] = answers[r]
  BY DEF HeadStep, Listen, Answer, ListenFinal, EndListen, TypeOK, net
<1>4. HeadSame(h)
  BY <1>2, <1>3 DEF HeadSame
<1>5. Inline => \A r \in Body(h) : ckptTag'[r] # <<>> => Head(ckptTag'[r]).lvl # Rejected
  BY <1>2, CtlFacts
<1>6. /\ pc[h] \notin Flushing \cup Placing /\ pc'[h] \notin Flushing \cup Placing
      /\ ~Past(h)' /\ pc'[h] \notin {"agree", "posted", "discard"}
  BY <1>1, <1>2 DEF Flushing, Placing, Past, Posting
<1>7. HeadKeeps(h)
  BY <1>2, <1>5, <1>6 DEF HeadKeeps, At
<1> QED
  BY <1>4, <1>7, HeadCtl

LEMMA CollectCtl ==
  ASSUME Inv, Ctl, NEW h \in Heads, Collect(h)
  PROVE  /\ Ctl' /\ HeadSame(h) /\ pc[h] = "collect" /\ pc'[h] = "agree"
         /\ \A r \in Body(h) : /\ ckptTag[r] # <<>> /\ ckptTag'[r] = <<>>
                               /\ lvel'[h] # Rejected => Head(ckptTag[r]).lvl # Rejected
<1> USE HeadFacts
<1>1. PICK l : /\ l = Chosen(Tokens(h)) /\ l \in Tokens(h)
               /\ lvel' = [lvel EXCEPT ![h] = l]
               /\ res' = [res EXCEPT ![h] = IF l = Rejected THEN 1 ELSE 0]
  BY CollectStep
<1>2. /\ calls' = calls /\ last' = last /\ offline' = offline /\ answers' = answers
      /\ finalTag' = finalTag /\ acked' = acked
      /\ \A y \in Who : y # h => /\ pc'[y] = pc[y] /\ call'[y] = call[y]
                                 /\ lvel'[y] = lvel[y] /\ res'[y] = res[y]
      /\ pc[h] = "collect" /\ pc'[h] = "agree" /\ lvel'[h] = l
      /\ res'[h] = IF l = Rejected THEN 1 ELSE 0
      /\ \A r \in Body(h) : ckptTag[r] # <<>> /\ ckptTag'[r] = Tail(ckptTag[r])
      /\ \A r \in Apps : r \notin Body(h) => ckptTag'[r] = ckptTag[r]
  BY <1>1 DEF Collect, At, Goto, TypeOK, exec
<1>3. HeadSame(h)
  BY <1>2 DEF HeadSame
<1>4. \A r \in Body(h) : ckptTag'[r] = <<>>
  <2> SUFFICES ASSUME NEW r \in Body(h) PROVE ckptTag'[r] = <<>>
    OBVIOUS
  <2>1. PICK m : ckptTag[r] = <<m>>
    BY <1>2 DEF Exchange
  <2>2. Tail(<<m>>) = <<>>
    OBVIOUS
  <2> QED
    BY <1>2, <2>1, <2>2
<1>5. Rejected \in Tokens(h) => l = Rejected
  BY <1>1 DEF Chosen
<1>6. Inline => l # Rejected
  <2>1. PICK r \in Body(h) : l = Head(ckptTag[r]).lvl
    BY <1>1 DEF Tokens
  <2>2. r \in Apps /\ ckptTag[r] # <<>>
    BY <1>2
  <2> QED
    BY <2>1, <2>2, CtlFacts
<1>7. HeadKeeps(h)
  <2>1. Inline => (At(h, "agree")' => res'[h] = 0)
    BY <1>2, <1>6
  <2>2. PICK q \in Body(h) : TRUE
    BY BodyFull
  <2>3. /\ pc[h] \notin Flushing \cup Placing /\ pc'[h] \notin Flushing \cup Placing
        /\ ~Past(h)' /\ pc'[h] \notin {"discard", "posted"}
    BY <1>2 DEF Flushing, Placing, Past, Posting
  <2> QED
    BY <1>2, <1>4, <2>1, <2>2, <2>3 DEF HeadKeeps, At
<1>8. \A r \in Body(h) : lvel'[h] # Rejected => Head(ckptTag[r]).lvl # Rejected
  BY <1>2, <1>5 DEF Tokens
<1> QED
  BY <1>2, <1>3, <1>4, <1>7, <1>8, HeadCtl

-----------------------------------------------------------------------------
(***************************************************************************)
(* The collectives: who is where.                                          *)
(***************************************************************************)

\* A collective of the application processes, none of which expects an answer.
LEMMA AppsMoveCtl ==
  ASSUME Inv, Ctl, NEW p,
         \A r \in Apps : /\ ~Due(r) /\ pc'[r] = p
                         /\ p \in Flushing \cup Placing => lvel[r] # Rejected
                         /\ Inline /\ p \in {"wrote", "send", "posted"} => res'[r] = 0,
         p # "discard",
         \A h \in Heads : pc'[h] = pc[h] /\ res'[h] = res[h],
         calls' = calls, lvel' = lvel, ckptTag' = ckptTag
  PROVE  Ctl'
<1>1. LevelsInv'
  BY LevelsKept
<1>2. \A h \in Heads : /\ pc'[h] \notin Flushing \cup Placing
                       /\ pc'[h] # "discard" /\ pc'[h] # "posted" /\ pc'[h] # "agree" /\ ~Past(h)'
  BY NoneAtWork DEF Past, Flushing
<1>3. FailInv'
  <2>1. \A x \in Who : pc'[x] \in Flushing \cup Placing => lvel'[x] # Rejected
    BY <1>2, Processes
  <2> QED
    BY <1>2, <2>1 DEF Ctl, FailInv, At
<1>4. HeadPhase' /\ Calm'
  BY <1>2 DEF HeadPhase, Calm
<1>5. AppPhase'
  BY DEF AppPhase, Inlining, Flushing, Placing
<1> QED
  BY <1>1, <1>3, <1>4, <1>5 DEF Ctl

\* A collective of the heads.
LEMMA HeadsMoveCtl ==
  ASSUME Inv, Ctl, NEW p,
         \A h \in Heads : /\ Busy(h) /\ pc'[h] = p
                          /\ p \in Flushing \cup Placing => lvel[h] # Rejected
                          /\ InlineFour /\ p = "posted" => res'[h] = 0,
         p # "agree", InlineFour => p # "discard",
         \A r \in Apps : pc'[r] = pc[r] /\ res'[r] = res[r],
         calls' = calls, lvel' = lvel, ckptTag' = ckptTag, call' = call
  PROVE  Ctl'
<1>1. LevelsInv'
  BY LevelsKept
<1>2. \A r \in Apps : Due(r) /\ ckptTag[r] = <<>> /\ pc[r] \in CalmPlace
  <2> SUFFICES ASSUME NEW r \in Apps PROVE Due(r) /\ ckptTag[r] = <<>> /\ pc[r] \in CalmPlace
    OBVIOUS
  <2>1. HeadOf(r) \in Heads /\ r \in Body(HeadOf(r))
    BY Processes
  <2> QED
    BY <2>1, BusyAsked DEF Due, CalmPlace
<1>3. FailInv'
  <2>1. \A x \in Who : pc'[x] \in Flushing \cup Placing => lvel'[x] # Rejected
    BY Processes DEF Ctl, FailInv
  <2>2. \A r \in Apps : pc'[r] # "discard"
    BY DEF Ctl, FailInv
  <2>3. Inline => \A r \in Apps : /\ lvel'[r] # Rejected
                                  /\ pc'[r] \in {"wrote", "send", "posted"} => res'[r] = 0
                                  /\ ckptTag'[r] # <<>> => Head(ckptTag'[r]).lvl # Rejected
    BY DEF Ctl, FailInv
  <2>4. \A h \in Heads : ~At(h, "agree")'
    BY DEF At
  <2>5. InlineFour => \A h \in Heads : pc'[h] # "discard" /\ (At(h, "posted")' => res'[h] = 0)
    BY DEF At
  <2> QED
    BY <2>1, <2>2, <2>3, <2>4, <2>5 DEF FailInv
<1>4. HeadPhase'
  BY DEF HeadPhase
<1>5. Calm'
  BY <1>2 DEF Calm
<1>6. AppPhase'
  <2>1. \A r \in Apps : Inlining(r)' = Inlining(r)
    BY DEF Inlining
  <2> QED
    BY <2>1 DEF Ctl, AppPhase
<1> QED
  BY <1>1, <1>3, <1>4, <1>5, <1>6 DEF Ctl

LEMMA WriteSyncCtl ==
  ASSUME Inv, Ctl, WriteSync
  PROVE  Ctl'
<1>1. \A r \in Apps : pc[r] = "wrote" /\ ~Due(r) /\ (Inline => res[r] = 0)
  BY CtlFacts DEF WriteSync, AllAt, Due
<1>2. PICK p \in {"meta", "send"} :
        /\ pc' = [x \in Who |-> IF x \in Apps THEN p ELSE pc[x]]
        /\ p = "send" => ~(\A r \in Apps : res[r] = 0)
  BY DEF WriteSync, Together
<1>3. /\ calls' = calls /\ lvel' = lvel /\ ckptTag' = ckptTag
      /\ \A h \in Heads : pc'[h] = pc[h] /\ res'[h] = res[h]
      /\ \A r \in Apps : pc'[r] = p
  BY <1>2, Processes DEF WriteSync, net
<1>4. p \notin Flushing \cup Placing /\ p # "discard" /\ (Inline => p = "meta")
  BY <1>1, <1>2 DEF Flushing, Placing
<1> QED
  BY <1>1, <1>2, <1>3, <1>4, AppsMoveCtl

LEMMA AgreeCtl ==
  ASSUME Inv, Ctl, NoRace, Agree
  PROVE  Ctl'
<1>1. PICK p \in {"post", "discard"} :
        /\ pc' = [x \in Who |-> IF x \in Heads THEN p ELSE pc[x]]
        /\ p = IF \A h \in Heads : res[h] = 0 THEN "post" ELSE "discard"
  BY DEF Agree, Together
<1>2. \A h \in Heads : pc[h] = "agree" /\ Busy(h) /\ pc'[h] = p
  BY <1>1, Processes DEF Agree, AllAt, Busy, Serving
<1>3. /\ calls' = calls /\ lvel' = lvel /\ ckptTag' = ckptTag /\ call' = call
      /\ \A r \in Apps : pc'[r] = pc[r] /\ res'[r] = res[r]
  BY <1>1, Processes DEF Agree, net
<1>4. \A h \in Heads : p \in Flushing \cup Placing => lvel[h] # Rejected
  <2> SUFFICES ASSUME NEW h \in Heads, p \in Flushing \cup Placing PROVE lvel[h] # Rejected
    OBVIOUS
  <2>1. res[h] = 0
    BY <1>1 DEF Flushing, Placing
  <2> QED
    BY <1>2, <2>1, HeadFacts DEF ResultInv
<1>5. InlineFour => p = "post"
  BY <1>1, <1>2 DEF Ctl, FailInv, At, InlineFour, Inline
<1> QED
  BY <1>1, <1>2, <1>3, <1>4, <1>5, HeadsMoveCtl

LEMMA PostSyncCtl ==
  ASSUME Inv, Ctl, NoRace, NEW W \in {Apps, Heads}, PostSync(W)
  PROVE  Ctl'
<1>1. PICK p \in {"clean", "discard"} :
        /\ pc' = [x \in Who |-> IF x \in W THEN p ELSE pc[x]]
        /\ p = IF \A x \in W : res[x] = 0 THEN "clean" ELSE "discard"
  BY DEF PostSync, Together
<1>2. /\ calls' = calls /\ lvel' = lvel /\ ckptTag' = ckptTag /\ call' = call /\ res' = res
  BY DEF PostSync, net
<1>3. \A x \in W : x \in Who /\ pc[x] = "posted" /\ lvel[x] # Rejected /\ pc'[x] = p
  BY <1>1, Processes DEF PostSync, AllAt, Ctl, FailInv, Flushing
<1>4. CASE W = Apps
  <2>1. ASSUME NEW r \in Apps PROVE ~Due(r) /\ res[r] = 0
    BY <1>3, <1>4, PostLevel, CtlFacts DEF Posting
  <2>2. p = "clean"
    BY <1>1, <1>4, <2>1
  <2> QED
    BY <1>1, <1>2, <1>3, <1>4, <2>1, <2>2, Processes, AppsMoveCtl
<1>5. CASE W = Heads
  <2>1. ASSUME NEW h \in Heads PROVE Busy(h)
    BY <1>3, <1>5 DEF Busy, Serving, Posting
  <2>2. InlineFour => p = "clean"
    BY <1>1, <1>3, <1>5 DEF Ctl, FailInv, At
  <2> QED
    BY <1>1, <1>2, <1>3, <1>5, <2>1, <2>2, Processes, HeadsMoveCtl
<1> QED
  BY <1>4, <1>5

LEMMA RenameSyncCtl ==
  ASSUME Inv, Ctl, NEW W \in {Apps, Heads}, RenameSync(W)
  PROVE  Ctl'
<1>1. PICK p : p = IF W = Heads THEN "answer" ELSE "return"
  OBVIOUS
<1>2. \A x \in W : After(x) = p
  BY <1>1, Processes DEF After
<1>3. pc' = [x \in Who |-> IF x \in W THEN p ELSE pc[x]]
  BY <1>2 DEF RenameSync
<1>4. /\ calls' = calls /\ lvel' = lvel /\ ckptTag' = ckptTag /\ call' = call /\ res' = res
  BY DEF RenameSync, net
<1>5. \A x \in W : x \in Who /\ pc[x] = "renamed" /\ pc'[x] = p
  BY <1>3, Processes DEF RenameSync, AllAt
<1>6. p \notin Flushing \cup Placing /\ p \notin {"agree", "discard", "wrote", "send", "posted"}
  BY <1>1 DEF Flushing, Placing
<1>7. CASE W = Apps
  <2>1. ASSUME NEW r \in Apps PROVE ~Due(r)
    BY <1>5, <1>7 DEF Due
  <2> QED
    BY <1>3, <1>4, <1>5, <1>6, <1>7, <2>1, Processes, AppsMoveCtl
<1>8. CASE W = Heads
  <2>1. ASSUME NEW h \in Heads PROVE Busy(h)
    BY <1>5, <1>8 DEF Busy, Serving, Posting, Placing
  <2> QED
    BY <1>3, <1>4, <1>5, <1>6, <1>8, <2>1, Processes, HeadsMoveCtl
<1> QED
  BY <1>7, <1>8

LEMMA FinSyncCtl ==
  ASSUME Inv, Ctl, FinSync
  PROVE  Ctl'
<1>1. /\ \A x \in Who : pc[x] = "finished" /\ pc'[x] = "done"
      /\ calls' = calls /\ lvel' = lvel /\ ckptTag' = ckptTag /\ call' = call /\ res' = res
  BY DEF FinSync, AllAt, Together, net
<1>2. FailInv'
  BY <1>1, Processes DEF Ctl, FailInv, At, Flushing, Placing
<1>3. HeadPhase' /\ AppPhase' /\ Calm'
  BY <1>1, Processes DEF HeadPhase, AppPhase, Calm, Inlining, Past, Flushing, Placing, Posting
<1> QED
  BY <1>1, <1>2, <1>3, LevelsKept DEF Ctl

LEMMA NextCtl ==
  ASSUME Inv, Ctl, NoRace, [Next]_vars
  PROVE  Ctl'
<1>1. ASSUME NEW r \in Apps, AppStep(r) PROVE Ctl'
  BY <1>1, FollowCtl, AwaitCtl, WriteCtl, CreateMetadataCtl, SendAsyncCtl, StartInlineCtl,
     ReturnInlineCtl, EndStepCtl DEF AppStep
<1>2. ASSUME NEW r \in Apps, NEW l \in CallLevels \cup {Finalize}, Issue(r, l) PROVE Ctl'
  BY <1>2, IssueCtl
<1>3. ASSUME NEW x \in Who, PostStep(x) PROVE Ctl'
  BY <1>3, PostCtl
<1>4. ASSUME NEW h \in Heads, HeadStep(h) PROVE Ctl'
  BY <1>4, HeadStepCtl, CollectCtl
<1>5. ASSUME Sync PROVE Ctl'
  BY <1>5, WriteSyncCtl, AgreeCtl, FinSyncCtl, PostSyncCtl, RenameSyncCtl DEF Sync
<1>6. ASSUME UNCHANGED vars PROVE Ctl'
  <2>1. calls' = calls /\ pc' = pc /\ call' = call /\ res' = res /\ lvel' = lvel /\ ckptTag' = ckptTag
    BY <1>6 DEF vars, net
  <2>2. LevelsInv' /\ FailInv'
    BY <2>1 DEF Ctl, LevelsInv, FailInv, At
  <2>3. HeadPhase' /\ AppPhase' /\ Calm'
    BY <2>1 DEF Ctl, HeadPhase, AppPhase, Calm, Inlining, Past
  <2> QED
    BY <2>2, <2>3 DEF Ctl
<1> QED
  BY <1>1, <1>2, <1>3, <1>4, <1>5, <1>6 DEF Next, Ended

-----------------------------------------------------------------------------
(***************************************************************************)
(* What a step that concerns one process leaves of the files.              *)
(***************************************************************************)

LEMMA Pairs ==
  /\ \A q, r \in Apps : q[1] = r[1] /\ q[2] = r[2] => q = r
  /\ \A q \in Apps : q[2] \in Group /\ q[1] \in Node
  /\ \A p \in Group : <<0, p>> \in Apps
BY SizesAssumption DEF Apps, Node, Group

LEMMA FilesParts ==
  ASSUME Files
  PROVE  /\ \A r \in Apps : Written(r) /\ Handed(r)
         /\ \A x \in Who : NodePlace(x) /\ RootPlace(x)
         /\ Kept
BY DEF Files

\* A process that is writing is in nobody's way.
LEMMA NobodyPlaces ==
  ASSUME Inv, Ctl, NEW r \in Apps, pc[r] \in {"write", "wrote", "meta", "send"}
  PROVE  \A x \in Who : pc[x] \notin Placing /\ (x \in Heads => pc[x] \notin Flushing)
<1>1. ASSUME NEW h \in Heads PROVE pc[h] \notin Flushing \cup Placing
  BY AllAtWork DEF Ctl
<1>2. \A q \in Apps : pc[q] \notin Placing
  BY DEF Ctl, AppPhase, Placing
<1> QED
  BY <1>1, <1>2, Processes

LEMMA AppFiles ==
  ASSUME Inv, Ctl, Files, NEW r \in Apps, AppSame(r),
         dir' = dir, gdir' = gdir, meta' = meta,
         \A q \in Apps : q # r => /\ tmp'[q] = tmp[q] /\ gtmp'[q] = gtmp[q]
                                  /\ q[1] = 0 => mtmp'[q[2]] = mtmp[q[2]],
         (tmp' = tmp /\ gtmp' = gtmp /\ mtmp' = mtmp) \/ pc[r] \in {"write", "meta"},
         pc[r] \notin Placing \cup {"finished", "done"}, pc'[r] \notin Placing,
         Written(r)', Handed(r)'
  PROVE  Files'
<1> USE FilesParts
<1>1. r \in Who /\ (\A h \in Heads : h \in Who /\ h # r) /\ (\A q \in Apps : q \in Who)
  BY Processes
<1>2. \A x \in Who : x # r => pc'[x] = pc[x] /\ call'[x] = call[x] /\ res'[x] = res[x]
                              /\ lvel'[x] = lvel[x]
  BY DEF AppSame
<1>3. ASSUME NEW q \in Apps, q # r PROVE Written(q)' /\ Handed(q)'
  <2>1. /\ pc'[q] = pc[q] /\ call'[q] = call[q] /\ res'[q] = res[q] /\ ckptTag'[q] = ckptTag[q]
        /\ Round(q)' = Round(q) /\ tmp'[q] = tmp[q] /\ gtmp'[q] = gtmp[q]
        /\ q[1] = 0 => mtmp'[q[2]] = mtmp[q[2]]
    BY <1>1, <1>2, <1>3 DEF AppSame, Round
  <2>2. pc[q] # "run" => calls'[call[q]] = calls[call[q]]
    BY AppFacts DEF AppSame
  <2>4. pc[q] # "run" => FileAt(q, call[q])' = FileAt(q, call[q])
    BY <2>1, <2>2 DEF FileAt
  <2>5. MetaAt(q, call[q])' = MetaAt(q, call[q]) /\ MetaAt(q, Round(q))' = MetaAt(q, Round(q))
    BY <2>1 DEF MetaAt
  <2>6. Written(q)'
    <3>1. Written(q)
      OBVIOUS
    <3> QED
      BY <2>1, <2>4, <2>5, <3>1 DEF Written, Flushing
  <2>7. pc'[HeadOf(q)] = pc[HeadOf(q)] /\ lvel'[HeadOf(q)] = lvel[HeadOf(q)]
    BY <1>1, <1>2, Processes
  <2>8. Handed(q)'
    <3>1. Handed(q)
      OBVIOUS
    <3> QED
      BY <2>1, <2>5, <2>7, <3>1 DEF Handed, At
  <2> QED
    BY <2>6, <2>8
<1>4. ASSUME NEW x \in Who PROVE NodePlace(x)' /\ RootPlace(x)'
  <2>1. CASE pc'[x] \notin Placing
    BY <2>1 DEF NodePlace, At, RootPlace, Placing
  <2>2. CASE pc'[x] \in Placing
    <3>1. x # r /\ pc'[x] = pc[x] /\ call'[x] = call[x] /\ lvel'[x] = lvel[x]
      BY <1>2, <2>2
    <3>2. tmp' = tmp /\ gtmp' = gtmp /\ mtmp' = mtmp
      BY <2>2, <3>1, NobodyPlaces
    <3>3. NodePlace(x) /\ RootPlace(x)
      OBVIOUS
    <3>4. NodePlace(x)'
      BY <3>1, <3>2, <3>3 DEF NodePlace, At
    <3> QED
      BY <3>1, <3>2, <3>3, <3>4 DEF RootPlace
  <2> QED
    BY <2>1, <2>2
<1>5. Kept'
  <2>1. acked' = acked
    BY DEF AppSame
  <2>2. Undisturbed(acked.lvl)' => Undisturbed(acked.lvl)
    <3> SUFFICES ASSUME Undisturbed(acked.lvl)', NEW x \in Who
                 PROVE  /\ pc[x] \in {"rename", "renameGlobal", "renamed"} => lvel[x] < acked.lvl
                        /\ pc[x] \notin {"finished", "done"} \/ AmIaHead(x)
      BY DEF Undisturbed
    <3>1. CASE x = r
      BY <3>1 DEF Placing
    <3>2. CASE x # r
      BY <1>2, <2>1, <3>2 DEF Undisturbed
    <3> QED
      BY <3>1, <3>2
  <2>4. Stored(acked.call, acked.lvl)' = Stored(acked.call, acked.lvl)
    BY <2>1 DEF Stored
  <2> QED
    BY <2>1, <2>2, <2>4 DEF Kept
<1> QED
  BY <1>3, <1>4, <1>5 DEF Files

LEMMA HeadFiles ==
  ASSUME Inv, Files, NEW h \in Heads, HeadSame(h), UNCHANGED <<disk, metas>>,
         pc[h] \notin Placing, pc'[h] \notin Placing,
         \A r \in Body(h) : Handed(r)'
  PROVE  Files'
<1> USE FilesParts
<1>1. h \in Who /\ (\A q \in Apps : q \in Who /\ q # h)
  BY Processes
<1>2. /\ \A x \in Who : x # h => pc'[x] = pc[x] /\ call'[x] = call[x] /\ res'[x] = res[x]
                                 /\ lvel'[x] = lvel[x]
      /\ acked' = acked /\ calls' = calls
  BY DEF HeadSame
<1>3. /\ tmp' = tmp /\ dir' = dir /\ gtmp' = gtmp /\ gdir' = gdir /\ mtmp' = mtmp /\ meta' = meta
  BY DEF disk, metas
<1>4. ASSUME NEW q \in Apps PROVE Written(q)' /\ Handed(q)'
  <2>1. pc'[q] = pc[q] /\ call'[q] = call[q] /\ res'[q] = res[q] /\ Round(q)' = Round(q)
    BY <1>1, <1>2 DEF Round
  <2>2. /\ MetaAt(q, call[q])' = MetaAt(q, call[q]) /\ MetaAt(q, Round(q))' = MetaAt(q, Round(q))
        /\ FileAt(q, call[q])' = FileAt(q, call[q])
    BY <1>2, <1>3, <2>1 DEF MetaAt, FileAt
  <2>3. Written(q)'
    <3>1. Written(q)
      OBVIOUS
    <3> QED
      BY <2>1, <2>2, <3>1 DEF Written
  <2>4. CASE q \notin Body(h)
    <3>1. HeadOf(q) # h /\ HeadOf(q) \in Who /\ ckptTag'[q] = ckptTag[q]
      BY <2>4, Processes DEF HeadSame
    <3>2. pc'[HeadOf(q)] = pc[HeadOf(q)] /\ lvel'[HeadOf(q)] = lvel[HeadOf(q)] /\ Handed(q)
      BY <1>2, <3>1
    <3> QED
      BY <1>3, <2>1, <2>2, <2>3, <3>1, <3>2 DEF Handed, At
  <2> QED
    BY <2>3, <2>4
<1>5. ASSUME NEW x \in Who PROVE NodePlace(x)' /\ RootPlace(x)'
  <2>1. CASE x = h
    BY <2>1 DEF NodePlace, At, RootPlace, Placing
  <2>2. CASE x # h
    <3>1. pc'[x] = pc[x] /\ call'[x] = call[x] /\ lvel'[x] = lvel[x]
      BY <1>2, <2>2
    <3>2. NodePlace(x) /\ RootPlace(x)
      OBVIOUS
    <3>3. NodePlace(x)'
      BY <1>3, <3>1, <3>2 DEF NodePlace, At
    <3> QED
      BY <1>3, <3>1, <3>2, <3>3 DEF RootPlace
  <2> QED
    BY <2>1, <2>2
<1>6. Kept'
  <2>1. Undisturbed(acked.lvl)' => Undisturbed(acked.lvl)
    <3> SUFFICES ASSUME Undisturbed(acked.lvl)', NEW x \in Who
                 PROVE  /\ pc[x] \in {"rename", "renameGlobal", "renamed"} => lvel[x] < acked.lvl
                        /\ pc[x] \notin {"finished", "done"} \/ AmIaHead(x)
      BY DEF Undisturbed
    <3>1. CASE x = h
      BY <3>1, Processes DEF Placing
    <3>2. CASE x # h
      BY <1>2, <3>2 DEF Undisturbed
    <3> QED
      BY <3>1, <3>2
  <2>2. Stored(acked.call, acked.lvl)' = Stored(acked.call, acked.lvl)
    BY <1>2, <1>3 DEF Stored
  <2> QED
    BY <1>2, <2>1, <2>2 DEF Kept
<1> QED
  BY <1>4, <1>5, <1>6 DEF Files


\* The calls of FTI_Checkpoint and FTI_Finalize.
LEMMA EnterFiles ==
  ASSUME Inv, Ctl, Files, NEW r \in Apps, NEW l \in 0 .. 4, At(r, "run"), Enter(r, l),
         \A k \in 1 .. Len(calls) : calls'[k] = calls[k]
  PROVE  Files'
<1> USE AppFacts, FilesParts
<1>1. PICK p \in {"await", "endw", "write"} : pc' = [pc EXCEPT ![r] = p]
  BY DEF Enter, Goto
<1>2. /\ pc[r] = "run" /\ pc'[r] = p /\ lvel' = lvel /\ ckptTag' = ckptTag
      /\ call'[r] = call[r] + 1
      /\ \A x \in Who : x # r => pc'[x] = pc[x] /\ call'[x] = call[x] /\ res'[x] = res[x]
      /\ tmp' = tmp /\ dir' = dir /\ gtmp' = gtmp /\ gdir' = gdir /\ mtmp' = mtmp /\ meta' = meta
  BY <1>1 DEF At, Enter, TypeOK, net, disk, metas
<1>3. AppSame(r)
  BY <1>2 DEF AppSame, Enter, net
<1>4. Round(r)' = Round(r)
  BY <1>1, <1>2 DEF Round, Ending
<1>5. Written(r)'
  BY <1>1, <1>2 DEF Written, Flushing
<1>6. Handed(r)'
  <2>1. Handed(r) /\ pc'[HeadOf(r)] = pc[HeadOf(r)]
    BY <1>2
  <2> QED
    BY <1>2, <1>4, <2>1 DEF Handed, MetaAt, At
<1> QED
  BY <1>1, <1>2, <1>3, <1>5, <1>6, AppFiles DEF Placing

LEMMA IssueFiles ==
  ASSUME Inv, Ctl, Files, NEW r \in Apps, NEW l \in CallLevels \cup {Finalize}, Issue(r, l)
  PROVE  Files'
<1>1. l \in 0 .. 4
  BY LevelsAssumption DEF Finalize
<1>2. \A k \in 1 .. Len(calls) : calls'[k] = calls[k]
  BY <1>1, CallsGrow, AppFacts DEF Issue
<1> QED
  BY <1>1, <1>2, EnterFiles DEF Issue

LEMMA FollowFiles ==
  ASSUME Inv, Ctl, Files, NEW r \in Apps, Follow(r)
  PROVE  Files'
<1>1. calls[call[r] + 1] \in 0 .. 4 /\ calls' = calls
  BY AppFacts DEF Follow, TypeOK
<1> QED
  BY <1>1, EnterFiles DEF Follow

LEMMA AwaitFiles ==
  ASSUME Inv, Ctl, Files, NEW r \in Apps, Await(r)
  PROVE  Files'
<1> USE AppFacts, FilesParts
<1>1. PICK p \in {"endw", "write"} : pc' = [pc EXCEPT ![r] = p]
  BY DEF Await, Goto
<1>2. /\ pc[r] = "await" /\ pc'[r] = p /\ calls' = calls /\ call' = call /\ res' = res
      /\ lvel' = lvel /\ ckptTag' = ckptTag
      /\ \A x \in Who : x # r => pc'[x] = pc[x]
      /\ tmp' = tmp /\ dir' = dir /\ gtmp' = gtmp /\ gdir' = gdir /\ mtmp' = mtmp /\ meta' = meta
  BY <1>1 DEF At, Await, TypeOK, disk, metas
<1>3. AppSame(r)
  BY <1>2 DEF AppSame, Await, TypeOK
<1>4. Round(r)' = Round(r)
  BY <1>1, <1>2 DEF Round, Ending
<1>5. Written(r)'
  BY <1>1, <1>2 DEF Written, Flushing
<1>6. Handed(r)'
  <2>1. Handed(r) /\ pc'[HeadOf(r)] = pc[HeadOf(r)]
    BY <1>2
  <2> QED
    BY <1>2, <1>4, <2>1 DEF Handed, MetaAt, At
<1> QED
  BY <1>1, <1>2, <1>3, <1>5, <1>6, AppFiles DEF Placing

\* A process between FTI_WriteCkpt and its request has no message under way.
LEMMA NotHanded ==
  ASSUME Inv, NEW r \in Apps, ~Due(r)
  PROVE  /\ ckptTag[r] = <<>> /\ pc[HeadOf(r)] \notin {"agree"} \cup Flushing
         /\ pc[HeadOf(r)] \notin Serving
BY AppFacts DEF Exchange, Busy, Serving, Posting, Flushing

LEMMA WriteFiles ==
  ASSUME Inv, Ctl, Files, NEW r \in Apps, NEW bad \in BOOLEAN, Write(r, bad)
  PROVE  Files'
<1> USE AppFacts, FilesParts
<1>1. /\ pc[r] = "write" /\ pc'[r] = "wrote" /\ calls' = calls /\ call' = call
      /\ ckptTag' = ckptTag /\ res'[r] = IF bad THEN 1 ELSE 0
      /\ \A x \in Who : x # r => pc'[x] = pc[x] /\ res'[x] = res[x] /\ lvel'[x] = lvel[x]
      /\ dir' = dir /\ gdir' = gdir /\ mtmp' = mtmp /\ meta' = meta
  BY DEF At, Goto, Write, TypeOK, net, metas
<1>2. AppSame(r)
  BY <1>1 DEF AppSame, Write, net
<1>3. \A q \in Apps : q # r => tmp'[q] = tmp[q] /\ gtmp'[q] = gtmp[q]
  BY DEF Write, TypeOK
<1>4. Written(r)'
  <2>1. ~bad => FileAt(r, call[r])'
    <3>1. CASE calls[call[r]] = 4 /\ 4 \notin Async
      BY <1>1, <3>1 DEF FileAt, Write, TypeOK
    <3>2. CASE ~(calls[call[r]] = 4 /\ 4 \notin Async)
      BY <1>1, <3>2 DEF FileAt, Write, TypeOK
    <3> QED
      BY <3>1, <3>2
  <2> QED
    BY <1>1, <2>1 DEF Written, Flushing
<1>5. Handed(r)'
  <2>1. ckptTag[r] = <<>> /\ pc[HeadOf(r)] \notin {"agree"} \cup Flushing
    BY <1>1, NotHanded DEF Due
  <2> QED
    BY <1>1, <2>1 DEF Handed, At, Flushing
<1> QED
  BY <1>1, <1>2, <1>3, <1>4, <1>5, AppFiles DEF Placing

LEMMA CreateMetadataFiles ==
  ASSUME Inv, Ctl, Files, NEW r \in Apps, NEW bad \in BOOLEAN, CreateMetadata(r, bad)
  PROVE  Files'
<1> USE AppFacts, FilesParts
<1>1. /\ pc[r] = "meta" /\ pc'[r] = "send" /\ calls' = calls /\ call' = call
      /\ ckptTag' = ckptTag /\ lvel' = lvel /\ res'[r] = IF bad THEN 1 ELSE 0
      /\ \A x \in Who : x # r => pc'[x] = pc[x] /\ res'[x] = res[x]
      /\ tmp' = tmp /\ gtmp' = gtmp /\ dir' = dir /\ gdir' = gdir /\ meta' = meta
  BY DEF At, Goto, CreateMetadata, TypeOK, net, disk
<1>2. AppSame(r)
  BY <1>1 DEF AppSame, CreateMetadata, net, exec
<1>3. \A q \in Apps : q # r /\ q[1] = 0 => mtmp'[q[2]] = mtmp[q[2]]
  <2> SUFFICES ASSUME NEW q \in Apps, q # r, q[1] = 0 PROVE mtmp'[q[2]] = mtmp[q[2]]
    OBVIOUS
  <2>1. r[1] = 0 => q[2] # r[2]
    BY Pairs
  <2>2. q[2] \in Group /\ r[2] \in Group
    BY Pairs
  <2> QED
    BY <2>1, <2>2 DEF CreateMetadata, TypeOK
<1>4. Written(r)'
  <2>1. Written(r)
    OBVIOUS
  <2>2. FileAt(r, call[r])' = FileAt(r, call[r])
    BY <1>1 DEF FileAt
  <2>3. r[1] = 0 /\ ~bad => mtmp'[r[2]] = call[r]
    BY Pairs DEF CreateMetadata, TypeOK
  <2>4. ~bad => MetaAt(r, call[r])'
    BY <1>1, <2>3 DEF MetaAt
  <2> QED
    BY <1>1, <2>1, <2>2, <2>4 DEF Written, Flushing
<1>5. Handed(r)'
  <2>1. ckptTag[r] = <<>> /\ pc[HeadOf(r)] \notin {"agree"} \cup Flushing
    BY <1>1, NotHanded DEF Due
  <2> QED
    BY <1>1, <2>1 DEF Handed, At, Flushing
<1> QED
  BY <1>1, <1>2, <1>3, <1>4, <1>5, AppFiles DEF Placing

LEMMA SendAsyncFiles ==
  ASSUME Inv, Ctl, Files, NEW r \in Apps, SendAsync(r)
  PROVE  Files'
<1> USE AppFacts, FilesParts
<1>1. PICK m : m = [lvl |-> IF res[r] = 0 THEN lvel[r] ELSE Rejected, call |-> call[r]]
  OBVIOUS
<1>2. /\ pc[r] = "send" /\ pc'[r] = "run" /\ calls' = calls /\ call' = call /\ res' = res
      /\ ckptTag'[r] = Append(ckptTag[r], m) /\ lvel[r] \in Async
      /\ \A x \in Who : x # r => pc'[x] = pc[x] /\ lvel'[x] = lvel[x]
      /\ tmp' = tmp /\ dir' = dir /\ gtmp' = gtmp /\ gdir' = gdir /\ mtmp' = mtmp /\ meta' = meta
  BY <1>1 DEF At, SendAsync, Goto, TypeOK, disk, metas
<1>3. AppSame(r)
  BY <1>2 DEF AppSame, SendAsync, TypeOK
<1>4. ckptTag[r] = <<>> /\ lvel[r] = calls[call[r]] /\ pc[HeadOf(r)] \notin {"agree"} \cup Flushing
  BY <1>2, NotHanded DEF Due, CallInv
<1>5. Head(ckptTag'[r]) = m
  BY <1>2, <1>4
<1>6. Round(r)' = call[r]
  BY <1>2 DEF Round, Ending
<1>7. Written(r)'
  BY <1>2 DEF Written, Flushing
<1>8. m.lvl # Rejected => tmp[r] = call[r] /\ MetaAt(r, call[r])
  <2>1. m.lvl # Rejected => res[r] = 0
    BY <1>1
  <2>2. Written(r)
    OBVIOUS
  <2>3. m.lvl # Rejected => FileAt(r, call[r]) /\ MetaAt(r, call[r])
    BY <1>2, <2>1, <2>2 DEF Written
  <2> QED
    BY <1>2, <1>4, <2>3 DEF FileAt
<1>9. Handed(r)'
  <2>1. MetaAt(r, Round(r))' = MetaAt(r, call[r])
    BY <1>2, <1>6 DEF MetaAt
  <2>2. pc'[HeadOf(r)] = pc[HeadOf(r)] /\ pc[HeadOf(r)] # "posted"
    BY <1>2, <1>4 DEF Flushing
  <2> QED
    BY <1>2, <1>4, <1>5, <1>6, <1>8, <2>1, <2>2 DEF Handed, At
<1> QED
  BY <1>2, <1>3, <1>7, <1>9, AppFiles DEF Placing

LEMMA StartInlineFiles ==
  ASSUME Inv, Ctl, Files, NEW r \in Apps, StartInline(r)
  PROVE  Files'
<1> USE AppFacts, FilesParts
<1>1. /\ pc[r] = "send" /\ pc'[r] = "post" /\ calls' = calls /\ call' = call /\ res' = res
      /\ ckptTag' = ckptTag /\ lvel' = lvel /\ res[r] = 0
      /\ \A x \in Who : x # r => pc'[x] = pc[x]
      /\ tmp' = tmp /\ dir' = dir /\ gtmp' = gtmp /\ gdir' = gdir /\ mtmp' = mtmp /\ meta' = meta
  BY StartInlineCtl DEF StartInline, At, Goto, TypeOK, net, disk, metas
<1>2. AppSame(r)
  BY <1>1 DEF AppSame, StartInline, TypeOK, net
<1>3. Written(r)'
  <2>1. Written(r)
    OBVIOUS
  <2>2. FileAt(r, call[r])' = FileAt(r, call[r]) /\ MetaAt(r, call[r])' = MetaAt(r, call[r])
    BY <1>1 DEF FileAt, MetaAt
  <2> QED
    BY <1>1, <2>1, <2>2 DEF Written
<1>4. Handed(r)'
  <2>1. ckptTag[r] = <<>> /\ pc[HeadOf(r)] \notin {"agree"} \cup Flushing
    BY <1>1, NotHanded DEF Due
  <2> QED
    BY <1>1, <2>1 DEF Handed, At, Flushing
<1> QED
  BY <1>1, <1>2, <1>3, <1>4, AppFiles DEF Placing

LEMMA ReturnFiles ==
  ASSUME Inv, Ctl, Files, NEW r \in Apps, ReturnInline(r) \/ SendEnd(r) \/ DropConf(r)
  PROVE  Files'
<1> USE AppFacts, FilesParts
<1>1. PICK p \in {"run", "dropConf", "drop"} : pc' = [pc EXCEPT ![r] = p]
  BY DEF ReturnInline, SendEnd, DropConf, Goto
<1>2. /\ pc[r] \in {"return", "endw", "dropConf"} /\ pc'[r] = p /\ calls' = calls /\ call' = call
      /\ ckptTag' = ckptTag /\ lvel' = lvel /\ res' = res
      /\ \A x \in Who : x # r => pc'[x] = pc[x]
      /\ tmp' = tmp /\ dir' = dir /\ gtmp' = gtmp /\ gdir' = gdir /\ mtmp' = mtmp /\ meta' = meta
  BY <1>1 DEF At, ReturnInline, SendEnd, DropConf, TypeOK, net, disk, metas
<1>3. AppSame(r)
  BY <1>2 DEF AppSame, ReturnInline, SendEnd, DropConf, TypeOK, net, exec
<1>4. Written(r)'
  BY <1>1, <1>2 DEF Written, Flushing
<1>5. Handed(r)'
  <2>1. ckptTag[r] = <<>> /\ pc[HeadOf(r)] \notin {"agree"} \cup Flushing
    BY <1>2, NotHanded DEF Due
  <2> QED
    BY <1>2, <2>1 DEF Handed, At, Flushing
<1> QED
  BY <1>1, <1>2, <1>3, <1>4, <1>5, AppFiles DEF Placing


\* The steps of a head outside of FTI_PostCkpt.
LEMMA HeadStepFiles ==
  ASSUME Inv, Ctl, Files, NEW h \in Heads, HeadStep(h), ~Collect(h)
  PROVE  Files'
<1> USE HeadFacts, FilesParts
<1>1. PICK p \in {"collect", "listen", "ending", "finished"} : pc' = [pc EXCEPT ![h] = p]
  BY DEF HeadStep, Listen, Answer, ListenFinal, EndListen, Goto
<1>2. /\ pc[h] \in {"listen", "answer", "ending"} /\ pc'[h] = p
      /\ calls' = calls /\ call' = call /\ lvel' = lvel /\ last' = last /\ res' = res
      /\ offline' = offline /\ ckptTag' = ckptTag /\ acked' = acked
      /\ tmp' = tmp /\ dir' = dir /\ gtmp' = gtmp /\ gdir' = gdir /\ mtmp' = mtmp /\ meta' = meta
      /\ \A y \in Who : y # h => pc'[y] = pc[y]
  BY <1>1
  DEF HeadStep, Listen, Answer, ListenFinal, EndListen, At, TypeOK, exec, net, disk, metas
<1>3. /\ \A r \in Apps : finalTag'[r] => finalTag[r]
      /\ \A r \in Apps : r \notin Body(h) => answers'[r] = answers[r]
  BY DEF HeadStep, Listen, Answer, ListenFinal, EndListen, TypeOK, net
<1>4. HeadSame(h)
  BY <1>2, <1>3 DEF HeadSame
<1>5. ASSUME NEW r \in Body(h) PROVE Handed(r)'
  <2>1. Handed(r) /\ Round(r)' = Round(r)
    BY <1>2 DEF Round
  <2>2. MetaAt(r, Round(r))' = MetaAt(r, Round(r))
    BY <1>2, <2>1 DEF MetaAt
  <2>3. pc'[h] \notin {"agree"} \cup Flushing
    BY <1>1, <1>2 DEF Flushing
  <2> QED
    BY <1>2, <2>1, <2>2, <2>3 DEF Handed, At, Flushing
<1> QED
  BY <1>1, <1>2, <1>4, <1>5, HeadFiles DEF Placing, disk, metas

LEMMA CollectFiles ==
  ASSUME Inv, Ctl, Files, NEW h \in Heads, Collect(h)
  PROVE  Files'
<1> USE HeadFacts, FilesParts
<1>1. /\ HeadSame(h) /\ pc[h] = "collect" /\ pc'[h] = "agree"
      /\ \A r \in Body(h) : /\ ckptTag[r] # <<>> /\ ckptTag'[r] = <<>>
                            /\ lvel'[h] # Rejected => Head(ckptTag[r]).lvl # Rejected
  BY CollectCtl
<1>2. /\ tmp' = tmp /\ dir' = dir /\ gtmp' = gtmp /\ gdir' = gdir /\ mtmp' = mtmp /\ meta' = meta
  BY DEF Collect, disk, metas
<1>3. ASSUME NEW r \in Body(h) PROVE Handed(r)'
  <2>1. Handed(r) /\ Round(r)' = Round(r)
    BY <1>1 DEF Round, HeadSame
  <2>2. MetaAt(r, Round(r))' = MetaAt(r, Round(r))
    BY <1>2, <2>1 DEF MetaAt
  <2> QED
    BY <1>1, <1>2, <2>1, <2>2 DEF Handed, At
<1> QED
  BY <1>1, <1>2, <1>3, HeadFiles DEF Placing, disk, metas

-----------------------------------------------------------------------------
(***************************************************************************)
(* The files, in the collectives.                                          *)
(***************************************************************************)

Moving == {"rename", "renameGlobal", "renamed"}

\* A step that neither touches the levels nor lets a process stop disturbing one.
LEMMA KeptSame ==
  ASSUME Kept, acked' = acked, dir' = dir, gdir' = gdir, meta' = meta, lvel' = lvel,
         \A x \in Who : /\ pc[x] \in Moving => pc'[x] \in Moving
                        /\ pc[x] \in {"finished", "done"} => pc'[x] \in {"finished", "done"}
  PROVE  Kept'
<1>1. Undisturbed(acked.lvl)' => Undisturbed(acked.lvl)
  BY DEF Undisturbed, Moving
<1>2. Stored(acked.call, acked.lvl)' = Stored(acked.call, acked.lvl)
  BY DEF Stored
<1> QED
  BY <1>1, <1>2 DEF Kept

\* Those that post-process a checkpoint together agree about its call and level.
LEMMA SameWork ==
  ASSUME Inv, Ctl, NEW W \in {Apps, Heads}, \A x \in W : pc[x] \in Flushing \cup Placing,
         NEW x \in W, NEW y \in W
  PROVE  call[x] = call[y] /\ lvel[x] = lvel[y]
<1>1. CASE W = Apps
  <2>1. pc[x] \in Posting /\ pc[y] \in Posting
    BY DEF Flushing, Posting
  <2> QED
    BY <1>1, <2>1, PostLevel, SameRound
<1>2. CASE W = Heads
  <2>1. ASSUME NEW h \in W
        PROVE  \E r \in Apps : call[h] = Round(r) /\ lvel[h] = calls[Round(r)]
    <3>1. Busy(h) /\ lvel[h] # Rejected
      BY <1>2, Processes DEF Busy, Serving, Posting, Flushing, Ctl, FailInv
    <3>2. PICK r \in Body(h) : TRUE
      BY <1>2, BodyFull
    <3> QED
      BY <1>2, <3>1, <3>2, BusyAsked DEF Asked
  <2>2. PICK q \in Apps : call[x] = Round(q) /\ lvel[x] = calls[Round(q)]
    BY <2>1
  <2>3. PICK r \in Apps : call[y] = Round(r) /\ lvel[y] = calls[Round(r)]
    BY <2>1
  <2>4. Round(q) = Round(r)
    BY SameRound
  <2> QED
    BY <2>2, <2>3, <2>4
<1> QED
  BY <1>1, <1>2

LEMMA WriteSyncFiles ==
  ASSUME Inv, Ctl, Files, WriteSync
  PROVE  Files'
<1> USE FilesParts
<1>1. \A r \in Apps : pc[r] = "wrote" /\ ~Due(r)
  BY DEF WriteSync, AllAt, Due
<1>2. PICK p \in {"meta", "send"} :
        /\ pc' = [x \in Who |-> IF x \in Apps THEN p ELSE pc[x]]
        /\ p = "meta" => \A r \in Apps : res[r] = 0
        /\ p = "send" => \A r \in Apps : res'[r] = 1
  BY Processes DEF WriteSync, Together
<1>3. /\ calls' = calls /\ lvel' = lvel /\ ckptTag' = ckptTag /\ call' = call /\ acked' = acked
      /\ \A h \in Heads : pc'[h] = pc[h]
      /\ \A r \in Apps : pc'[r] = p
      /\ tmp' = tmp /\ dir' = dir /\ gtmp' = gtmp /\ gdir' = gdir /\ mtmp' = mtmp /\ meta' = meta
  BY <1>2, Processes DEF WriteSync, net, disk, metas
<1>4. ASSUME NEW r \in Apps PROVE Written(r)' /\ Handed(r)'
  <2>1. p = "meta" => FileAt(r, call[r])'
    <3>1. Written(r) /\ pc[r] = "wrote" /\ FileAt(r, call[r])' = FileAt(r, call[r])
      BY <1>1, <1>3 DEF FileAt
    <3> QED
      BY <1>2, <3>1 DEF Written
  <2>2. Written(r)'
    BY <1>2, <1>3, <2>1 DEF Written, Flushing
  <2>3. ckptTag'[r] = <<>> /\ pc'[HeadOf(r)] \notin {"agree"} \cup Flushing
    BY <1>1, <1>3, NotHanded, Processes
  <2> QED
    BY <2>2, <2>3 DEF Handed, At, Flushing
<1>5. ASSUME NEW x \in Who PROVE NodePlace(x)' /\ RootPlace(x)'
  <2>1. pc'[x] \notin Placing
    BY <1>1, <1>2, <1>3, NoneAtWork, Processes DEF Placing
  <2> QED
    BY <2>1 DEF NodePlace, At, RootPlace, Placing
<1>6. Kept'
  BY <1>1, <1>3, KeptSame, Processes DEF Moving
<1> QED
  BY <1>4, <1>5, <1>6 DEF Files

LEMMA AgreeFiles ==
  ASSUME Inv, Ctl, Files, Agree
  PROVE  Files'
<1> USE FilesParts
<1>1. PICK p \in {"post", "discard"} : pc' = [x \in Who |-> IF x \in Heads THEN p ELSE pc[x]]
  BY DEF Agree, Together
<1>2. /\ calls' = calls /\ lvel' = lvel /\ ckptTag' = ckptTag /\ call' = call /\ acked' = acked
      /\ res' = res
      /\ \A h \in Heads : pc[h] = "agree" /\ pc'[h] = p
      /\ \A r \in Apps : pc'[r] = pc[r]
      /\ tmp' = tmp /\ dir' = dir /\ gtmp' = gtmp /\ gdir' = gdir /\ mtmp' = mtmp /\ meta' = meta
  BY <1>1, Processes DEF Agree, AllAt, net, disk, metas
<1>3. ASSUME NEW r \in Apps PROVE Written(r)' /\ Handed(r)'
  <2>1. /\ Round(r)' = Round(r) /\ MetaAt(r, call[r])' = MetaAt(r, call[r])
        /\ FileAt(r, call[r])' = FileAt(r, call[r]) /\ MetaAt(r, Round(r))' = MetaAt(r, Round(r))
    BY <1>2 DEF Round, MetaAt, FileAt
  <2>2. Written(r) /\ Handed(r)
    OBVIOUS
  <2>3. Written(r)'
    BY <1>2, <2>1, <2>2 DEF Written
  <2>4. pc[HeadOf(r)] = "agree" /\ pc'[HeadOf(r)] = p
    BY <1>2, Processes
  <2> QED
    BY <1>1, <1>2, <2>1, <2>2, <2>3, <2>4 DEF Handed, At
<1>4. ASSUME NEW x \in Who PROVE NodePlace(x)' /\ RootPlace(x)'
  <2>1. CASE x \in Heads
    BY <1>1, <1>2, <2>1 DEF NodePlace, At, RootPlace
  <2>2. CASE x \in Apps
    <3>1. pc'[x] = pc[x] /\ NodePlace(x) /\ RootPlace(x)
      BY <1>2, <2>2
    <3>2. NodePlace(x)'
      BY <1>2, <3>1 DEF NodePlace, At
    <3> QED
      BY <1>2, <3>1, <3>2 DEF RootPlace
  <2> QED
    BY <2>1, <2>2, Processes
<1>5. Kept'
  BY <1>2, KeptSame, Processes DEF Moving
<1> QED
  BY <1>3, <1>4, <1>5 DEF Files


\* Each node has one process in W that moves its directories; one of W moves the
\* global ones.
LEMMA Leaders ==
  ASSUME NEW W \in {Apps, Heads}
  PROVE  /\ \A r \in Apps : \E x \in W : NodeFlag(x) /\ x[1] = r[1]
         /\ \E x \in W : SplitRoot(x)
         /\ W \subseteq Who
<1> USE SizesAssumption DEF Apps, Heads, Who, Node, Group, NodeFlag, SplitRoot
<1>1. CASE W = Apps
  <2>1. \A r \in Apps : <<r[1], 1>> \in Apps
    OBVIOUS
  <2>2. <<0, 1>> \in Apps
    OBVIOUS
  <2> QED
    BY <1>1, <2>1, <2>2
<1>2. CASE W = Heads
  <2>1. \A r \in Apps : <<r[1], 0>> \in Heads
    OBVIOUS
  <2>2. <<0, 0>> \in Heads
    OBVIOUS
  <2> QED
    BY <1>2, <2>1, <2>2
<1> QED
  BY <1>1, <1>2

\* When all have succeeded, all files and metadata are there.
LEMMA AllWritten ==
  ASSUME Inv, Ctl, Files, NEW W \in {Apps, Heads}, AllAt(W, "posted"), NEW x \in W
  PROVE  /\ \A r \in Apps : (lvel[x] = 4 /\ 4 \notin Async) \/ tmp[r] = call[x]
         /\ lvel[x] = 4 => \A r \in Apps : gtmp[r] = call[x]
         /\ \A p \in Group : mtmp[p] = call[x]
<1> USE FilesParts
<1>1. \A y \in W : y \in Who /\ pc[y] = "posted" /\ pc[y] \in Flushing \cup Placing
  BY Processes DEF AllAt, Flushing
<1>2. \A y \in W : call[y] = call[x] /\ lvel[y] = lvel[x] /\ lvel[y] # Rejected
  BY <1>1, SameWork DEF Ctl, FailInv
<1>3. ASSUME NEW r \in Apps
      PROVE  /\ (lvel[x] = 4 /\ 4 \notin Async) \/ tmp[r] = call[x]
             /\ lvel[x] = 4 => gtmp[r] = call[x]
             /\ MetaAt(r, call[x])
  <2>1. CASE W = Apps
    <3>1. FileAt(r, call[r]) /\ MetaAt(r, call[r])
      BY <1>1, <2>1 DEF Written, Flushing
    <3>2. lvel[r] = calls[call[r]] /\ lvel[r] \notin Async
      BY <1>1, <2>1, PostLevel DEF Posting
    <3> QED
      BY <1>2, <2>1, <3>1, <3>2 DEF FileAt
  <2>2. CASE W = Heads
    <3>1. HeadOf(r) \in W /\ pc[HeadOf(r)] = "posted"
      BY <1>1, <2>2, Processes
    <3>2. call[HeadOf(r)] = Round(r)
      BY <1>1, <2>2, <3>1, AllAtWork DEF Ctl
    <3>3. Round(r) = call[x] /\ lvel[HeadOf(r)] = lvel[x] /\ lvel[HeadOf(r)] # Rejected
      BY <1>2, <3>1, <3>2
    <3>4. Handed(r)
      OBVIOUS
    <3> QED
      BY <3>1, <3>3, <3>4 DEF Handed, At, Flushing
  <2> QED
    BY <2>1, <2>2
<1>4. ASSUME NEW p \in Group PROVE mtmp[p] = call[x]
  <2>1. <<0, p>> \in Apps
    BY Pairs
  <2> QED
    BY <1>3, <2>1 DEF MetaAt
<1> QED
  BY <1>3, <1>4

LEMMA PostSyncFiles ==
  ASSUME Inv, Ctl, Files, NEW W \in {Apps, Heads}, PostSync(W)
  PROVE  Files'
<1> USE FilesParts
<1>1. PICK p \in {"clean", "discard"} : pc' = [x \in Who |-> IF x \in W THEN p ELSE pc[x]]
  BY DEF PostSync, Together
<1>2. /\ calls' = calls /\ lvel' = lvel /\ ckptTag' = ckptTag /\ call' = call /\ acked' = acked
      /\ res' = res
      /\ tmp' = tmp /\ dir' = dir /\ gtmp' = gtmp /\ gdir' = gdir /\ mtmp' = mtmp /\ meta' = meta
  BY DEF PostSync, net, disk, metas
<1>3. /\ \A x \in W : x \in Who /\ pc[x] = "posted" /\ pc'[x] = p
      /\ \A x \in Who : x \notin W => pc'[x] = pc[x]
  BY <1>1, Processes DEF PostSync, AllAt
<1>4. ASSUME NEW r \in Apps PROVE Written(r)' /\ Handed(r)'
  <2>1. Written(r)'
    <3>1. CASE r \in W
      BY <1>1, <1>3, <3>1 DEF Written, Flushing
    <3>2. CASE r \notin W
      <4>1. /\ pc'[r] = pc[r] /\ FileAt(r, call[r])' = FileAt(r, call[r])
            /\ MetaAt(r, call[r])' = MetaAt(r, call[r]) /\ Written(r)
        BY <1>2, <1>3, <3>2, Processes DEF FileAt, MetaAt
      <4> QED
        BY <1>2, <4>1 DEF Written
    <3> QED
      BY <3>1, <3>2
  <2>2. ckptTag[r] = <<>> /\ pc'[HeadOf(r)] \notin {"agree"} \cup Flushing
    <3>1. CASE W = Apps
      <4>1. ~Due(r) /\ HeadOf(r) \notin W /\ HeadOf(r) \in Who
        BY <1>3, <3>1, Processes DEF Due
      <4> QED
        BY <1>3, <4>1, NotHanded
    <3>2. CASE W = Heads
      <4>1. HeadOf(r) \in W /\ pc[HeadOf(r)] \in Flushing \cup Placing
        BY <1>3, <3>2, Processes DEF Flushing
      <4>2. ckptTag[r] = <<>>
        BY <3>2, <4>1, AllAtWork DEF Ctl
      <4> QED
        BY <1>1, <1>3, <4>1, <4>2 DEF Flushing
    <3> QED
      BY <3>1, <3>2
  <2> QED
    BY <1>2, <2>1, <2>2 DEF Handed, At, Flushing
<1>5. ASSUME NEW x \in Who PROVE NodePlace(x)' /\ RootPlace(x)'
  <2>1. CASE x \notin W
    <3>1. pc'[x] = pc[x] /\ NodePlace(x) /\ RootPlace(x)
      BY <1>3, <2>1
    <3>2. NodePlace(x)'
      BY <1>2, <3>1 DEF NodePlace, At
    <3> QED
      BY <1>2, <3>1, <3>2 DEF RootPlace
  <2>2. CASE x \in W
    <3>1. /\ \A r \in Apps : (lvel[x] = 4 /\ 4 \notin Async) \/ tmp[r] = call[x]
          /\ lvel[x] = 4 => \A r \in Apps : gtmp[r] = call[x]
          /\ \A q \in Group : mtmp[q] = call[x]
      BY <2>2, AllWritten DEF PostSync
    <3>2. NodePlace(x)'
      BY <1>1, <1>2, <1>3, <2>2, <3>1 DEF NodePlace, At
    <3>3. RootPlace(x)'
      BY <1>1, <1>2, <1>3, <2>2, <3>1 DEF RootPlace
    <3> QED
      BY <3>2, <3>3
  <2> QED
    BY <2>1, <2>2
<1>6. Kept'
  BY <1>2, <1>3, KeptSame DEF Moving
<1> QED
  BY <1>4, <1>5, <1>6 DEF Files

\* When all have renamed, the checkpoint is complete.
LEMMA AllPlaced ==
  ASSUME Inv, Ctl, Files, NEW W \in {Apps, Heads}, AllAt(W, "renamed"), NEW x \in W
  PROVE  Stored(call[x], lvel[x])
<1> USE FilesParts
<1>1. \A y \in W : y \in Who /\ pc[y] = "renamed" /\ pc[y] \in Flushing \cup Placing
  BY Processes DEF AllAt, Placing
<1>2. \A y \in W : call[y] = call[x] /\ lvel[y] = lvel[x]
  BY <1>1, SameWork
<1>3. ASSUME NEW r \in Apps PROVE lvel[x] = 4 \/ dir[lvel[x]][r] = call[x]
  <2>1. PICK y \in W : NodeFlag(y) /\ y[1] = r[1]
    BY Leaders
  <2>2. NodePlace(y)
    BY <1>1
  <2> QED
    BY <1>1, <1>2, <2>1, <2>2 DEF NodePlace, At
<1>4. PICK s \in W : SplitRoot(s)
  BY Leaders
<1>5. /\ \A p \in Group : meta[lvel[x]][p] = call[x]
      /\ lvel[x] = 4 => \A r \in Apps : gdir[r] = call[x]
  <2>1. RootPlace(s)
    BY <1>1
  <2> QED
    BY <1>1, <1>2, <1>4, <2>1 DEF RootPlace
<1> QED
  BY <1>3, <1>5 DEF Stored

LEMMA RenameSyncFiles ==
  ASSUME Inv, Ctl, Files, NEW W \in {Apps, Heads}, RenameSync(W)
  PROVE  Files'
<1> USE FilesParts
<1>1. PICK p : p = IF W = Heads THEN "answer" ELSE "return"
  OBVIOUS
<1>2. \A x \in W : After(x) = p
  BY <1>1, Processes DEF After
<1>3. pc' = [x \in Who |-> IF x \in W THEN p ELSE pc[x]]
  BY <1>2 DEF RenameSync
<1>4. /\ calls' = calls /\ lvel' = lvel /\ ckptTag' = ckptTag /\ call' = call /\ res' = res
      /\ tmp' = tmp /\ dir' = dir /\ gtmp' = gtmp /\ gdir' = gdir /\ mtmp' = mtmp /\ meta' = meta
  BY DEF RenameSync, net, disk, metas
<1>5. /\ \A x \in W : x \in Who /\ pc[x] = "renamed" /\ pc'[x] = p
      /\ \A x \in Who : x \notin W => pc'[x] = pc[x]
  BY <1>3, Processes DEF RenameSync, AllAt
<1>6. ASSUME NEW r \in Apps PROVE Written(r)' /\ Handed(r)'
  <2>1. Written(r)'
    <3>1. CASE r \in W
      BY <1>1, <1>5, <3>1 DEF Written, Flushing
    <3>2. CASE r \notin W
      <4>1. /\ pc'[r] = pc[r] /\ FileAt(r, call[r])' = FileAt(r, call[r])
            /\ MetaAt(r, call[r])' = MetaAt(r, call[r]) /\ Written(r)
        BY <1>4, <1>5, <3>2, Processes DEF FileAt, MetaAt
      <4> QED
        BY <1>4, <4>1 DEF Written
    <3> QED
      BY <3>1, <3>2
  <2>2. ckptTag[r] = <<>> /\ pc'[HeadOf(r)] \notin {"agree"} \cup Flushing
    <3>1. CASE W = Apps
      <4>1. ~Due(r) /\ HeadOf(r) \notin W /\ HeadOf(r) \in Who
        BY <1>5, <3>1, Processes DEF Due
      <4> QED
        BY <1>5, <4>1, NotHanded
    <3>2. CASE W = Heads
      <4>1. HeadOf(r) \in W /\ pc[HeadOf(r)] \in Flushing \cup Placing
        BY <1>5, <3>2, Processes DEF Placing
      <4>2. ckptTag[r] = <<>>
        BY <3>2, <4>1, AllAtWork DEF Ctl
      <4> QED
        BY <1>1, <1>5, <4>1, <4>2 DEF Flushing
    <3> QED
      BY <3>1, <3>2
  <2> QED
    BY <1>4, <2>1, <2>2 DEF Handed, At, Flushing
<1>7. ASSUME NEW x \in Who PROVE NodePlace(x)' /\ RootPlace(x)'
  <2>1. CASE x \notin W
    <3>1. pc'[x] = pc[x] /\ NodePlace(x) /\ RootPlace(x)
      BY <1>5, <2>1
    <3>2. NodePlace(x)'
      BY <1>4, <3>1 DEF NodePlace, At
    <3> QED
      BY <1>4, <3>1, <3>2 DEF RootPlace
  <2>2. CASE x \in W
    BY <1>1, <1>5, <2>2 DEF NodePlace, At, RootPlace
  <2> QED
    BY <2>1, <2>2
<1>8. Kept'
  <2>1. PICK x \in W : acked' = [call |-> call[x], lvl |-> lvel[x]]
    BY DEF RenameSync
  <2>2. Stored(call[x], lvel[x])
    BY AllPlaced DEF RenameSync
  <2>5. Stored(acked.call, acked.lvl)'
    BY <1>4, <2>1, <2>2 DEF Stored
  <2> QED
    BY <2>5 DEF Kept
<1> QED
  BY <1>6, <1>7, <1>8 DEF Files

LEMMA FinSyncFiles ==
  ASSUME Inv, Ctl, Files, FinSync
  PROVE  Files'
<1> USE FilesParts
<1>1. /\ \A x \in Who : pc[x] = "finished" /\ pc'[x] = "done"
      /\ calls' = calls /\ lvel' = lvel /\ ckptTag' = ckptTag /\ call' = call /\ acked' = acked
      /\ tmp' = tmp /\ dir' = dir /\ gtmp' = gtmp /\ gdir' = gdir /\ mtmp' = mtmp /\ meta' = meta
  BY DEF FinSync, AllAt, Together, net, disk, metas
<1>2. ASSUME NEW r \in Apps PROVE Written(r)' /\ Handed(r)'
  <2>1. ckptTag[r] = <<>>
    BY <1>1, NotHanded, Processes DEF Due
  <2> QED
    BY <1>1, <2>1, Processes DEF Written, Handed, At, Flushing
<1>3. \A x \in Who : NodePlace(x)' /\ RootPlace(x)'
  BY <1>1 DEF NodePlace, At, RootPlace
<1>4. Kept'
  BY <1>1, KeptSame DEF Moving
<1> QED
  BY <1>2, <1>3, <1>4 DEF Files

-----------------------------------------------------------------------------
(***************************************************************************)
(* The files, in FTI_PostCkpt.                                             *)
(***************************************************************************)

\* While x moves directories, nobody but its companions uses them.
LEMMA PlacingAlone ==
  ASSUME Inv, Ctl, NEW x \in Who, pc[x] \in Placing
  PROVE  /\ lvel[x] \in 1 .. 4
         /\ \A r \in Apps : /\ pc[r] \in {"run", "await"} \cup Placing /\ ckptTag[r] = <<>>
                            /\ pc[HeadOf(r)] \notin {"agree"} \cup Flushing
         /\ \A y \in Who : pc[y] \in Placing => (y \in Heads <=> x \in Heads)
<1>1. CASE x \in Apps
  <2>1. \A r \in Apps : pc[r] \in Placing /\ ~Due(r)
    BY <1>1 DEF Ctl, AppPhase, Due, Placing
  <2>2. /\ \A h \in Heads : pc[h] \notin Flushing \cup Placing /\ pc[h] # "agree"
        /\ \A r \in Apps : ckptTag[r] = <<>>
    BY <2>1, NoneAtWork
  <2>3. lvel[x] \in 1 .. 4
    <3>1. call[x] \in 1 .. Len(calls) /\ lvel[x] = calls[call[x]] /\ calls[call[x]] \in CallLevels
      BY <1>1, PostLevel DEF Posting
    <3> QED
      BY <3>1, LevelsAssumption
  <2> QED
    BY <1>1, <2>1, <2>2, <2>3, Processes
<1>2. CASE x \in Heads
  <2>1. \A h \in Heads : pc[h] \in Placing
    BY <1>2 DEF Ctl, HeadPhase, Flushing, Placing
  <2>2. \A r \in Apps : pc[r] \in {"run", "await"} /\ ckptTag[r] = <<>> /\ HeadOf(r) \in Heads
    BY <1>2, AllAtWork DEF Ctl
  <2>3. lvel[x] \in 1 .. 4
    <3>1. Busy(x) /\ lvel[x] # Rejected
      BY <1>2 DEF Busy, Serving, Posting, Ctl, FailInv
    <3> QED
      BY <1>2, <3>1, BusyLevel
  <2>4. \A r \in Apps : pc[HeadOf(r)] \notin {"agree"} \cup Flushing
    BY <2>1, <2>2 DEF Placing, Flushing
  <2>5. \A y \in Who : pc[y] \in Placing => y \in Heads
    BY <2>2, Processes DEF Placing
  <2> QED
    BY <1>2, <2>2, <2>3, <2>4, <2>5
<1> QED
  BY <1>1, <1>2, Processes

\* What a step of x that moves directories shows.
LEMMA PlaceFrame ==
  ASSUME Inv, Ctl, Files, NEW x \in Who, pc[x] \in Placing, pc'[x] \in Placing,
         calls' = calls, call' = call, lvel' = lvel, ckptTag' = ckptTag, acked' = acked,
         \A y \in Who : y # x => pc'[y] = pc[y],
         \A y \in Who : pc[y] \in Placing => NodePlace(y)' /\ RootPlace(y)',
         pc'[x] \in Moving, 
         lvel[x] < acked.lvl /\ Stored(acked.call, acked.lvl) => Stored(acked.call, acked.lvl)'
  PROVE  Files'
<1> USE FilesParts
<1>1. ASSUME NEW r \in Apps PROVE Written(r)' /\ Handed(r)'
  <2>1. /\ pc[r] \in {"run", "await"} \cup Placing /\ ckptTag[r] = <<>>
        /\ pc[HeadOf(r)] \notin {"agree"} \cup Flushing
    BY PlacingAlone
  <2>2. pc'[r] \in {"run", "await"} \cup Placing /\ pc'[HeadOf(r)] \notin {"agree"} \cup Flushing
    BY <2>1, Processes DEF Placing, Flushing
  <2> QED
    BY <2>1, <2>2 DEF Written, Handed, At, Placing, Flushing
<1>2. ASSUME NEW y \in Who PROVE NodePlace(y)' /\ RootPlace(y)'
  <2>1. CASE pc[y] \in Placing
    BY <2>1
  <2>2. CASE pc[y] \notin Placing
    <3>1. pc'[y] \notin Placing
      BY <2>2
    <3> QED
      BY <3>1 DEF NodePlace, At, RootPlace, Placing
  <2> QED
    BY <2>1, <2>2
<1>3. Kept'
  <2>1. Undisturbed(acked.lvl)' => Undisturbed(acked.lvl) /\ lvel[x] < acked.lvl
    <3> SUFFICES ASSUME Undisturbed(acked.lvl)'
                 PROVE  Undisturbed(acked.lvl) /\ lvel[x] < acked.lvl
      OBVIOUS
    <3>1. lvel[x] < acked.lvl
      BY DEF Undisturbed, Moving
    <3>2. ASSUME NEW y \in Who
          PROVE  /\ pc[y] \in {"rename", "renameGlobal", "renamed"} => lvel[y] < acked.lvl
                 /\ pc[y] \notin {"finished", "done"} \/ AmIaHead(y)
      <4>1. CASE y = x
        BY <3>1, <4>1 DEF Placing
      <4>2. CASE y # x
        BY <4>2 DEF Undisturbed
      <4> QED
        BY <4>1, <4>2
    <3> QED
      BY <3>1, <3>2 DEF Undisturbed
  <2> QED
    BY <2>1 DEF Kept
<1> QED
  BY <1>1, <1>2, <1>3 DEF Files

\* Of those that move directories, one does so for each node and one for all.
LEMMA OneLeader ==
  ASSUME Inv, Ctl, NEW x \in Who, pc[x] \in Placing, NEW y \in Who, pc[y] \in Placing, y # x
  PROVE  /\ NodeFlag(x) /\ NodeFlag(y) => x[1] # y[1]
         /\ ~(SplitRoot(x) /\ SplitRoot(y))
<1>1. y \in Heads <=> x \in Heads
  BY PlacingAlone
<1>2. x \in Node \X (Group \cup {0}) /\ y \in Node \X (Group \cup {0})
  BY DEF Who, Apps, Heads
<1>3. /\ x \in Heads <=> x[2] = 0
      /\ y \in Heads <=> y[2] = 0
  BY <1>2, SizesAssumption DEF Heads, Group
<1>4. x = <<x[1], x[2]>> /\ y = <<y[1], y[2]>>
  BY <1>2
<1>5. ASSUME NodeFlag(x), NodeFlag(y) PROVE x[2] = y[2]
  BY <1>1, <1>3, <1>5 DEF NodeFlag
<1>6. ASSUME SplitRoot(x) PROVE NodeFlag(x) /\ x[1] = 0
  BY <1>6 DEF SplitRoot, NodeFlag
<1>7. ASSUME SplitRoot(y) PROVE NodeFlag(y) /\ y[1] = 0
  BY <1>7 DEF SplitRoot, NodeFlag
<1> QED
  BY <1>4, <1>5, <1>6, <1>7

LEMMA CleanFiles ==
  ASSUME Inv, Ctl, Files, NEW x \in Who, Clean(x)
  PROVE  Files'
<1> USE FilesParts
<1>1. TypeOK
  BY DEF Inv
<1>2. /\ pc[x] = "clean" /\ pc'[x] = IF NodeFlag(x) THEN "rename" ELSE "renamed"
      /\ calls' = calls /\ call' = call /\ lvel' = lvel /\ ckptTag' = ckptTag /\ acked' = acked
      /\ \A y \in Who : y # x => pc'[y] = pc[y]
      /\ tmp' = tmp /\ gtmp' = gtmp /\ mtmp' = mtmp
  BY <1>1 DEF Clean, At, Goto, TypeOK, net
<1>3. /\ lvel[x] \in 1 .. 4 /\ pc[x] \in Placing
      /\ \A y \in Who : pc[y] \in Placing => lvel[y] \in 1 .. 4
  BY <1>2, PlacingAlone DEF Placing
<1>4. \A l \in 1 .. 3, r \in Apps :
        ~(NodeFlag(x) /\ r[1] = x[1]) \/ l > lvel[x] => dir'[l][r] = dir[l][r]
  BY <1>3 DEF Clean, CleanLevels
<1>5. ~SplitRoot(x) \/ 4 > lvel[x] => gdir' = gdir
  BY <1>3 DEF Clean, CleanLevels
<1>6. \A l \in 1 .. 4 : ~SplitRoot(x) \/ l > lvel[x] => meta'[l] = meta[l]
  BY <1>3 DEF Clean, CleanLevels
<1>7. ASSUME NEW y \in Who, pc[y] \in Placing PROVE NodePlace(y)' /\ RootPlace(y)'
  <2>1. CASE y = x
    <3>1. NodePlace(x) /\ RootPlace(x)
      OBVIOUS
    <3>2. SplitRoot(x) => NodeFlag(x)
      BY DEF SplitRoot, NodeFlag
    <3>3. NodePlace(x)'
      BY <1>2, <3>1 DEF NodePlace, At
    <3>4. RootPlace(x)'
      BY <1>2, <3>1, <3>2 DEF RootPlace
    <3> QED
      BY <2>1, <3>3, <3>4
  <2>2. CASE y # x
    <3>1. /\ pc'[y] = pc[y] /\ NodePlace(y) /\ RootPlace(y) /\ lvel[y] \in 1 .. 4
          /\ NodeFlag(x) /\ NodeFlag(y) => x[1] # y[1]
          /\ SplitRoot(y) => ~SplitRoot(x)
      BY <1>2, <1>3, <1>7, <2>2, OneLeader
    <3>2. ASSUME NEW r \in Apps, NodeFlag(y), r[1] = y[1], lvel[y] # 4
          PROVE  dir'[lvel[y]][r] = dir[lvel[y]][r]
      BY <1>4, <3>1, <3>2
    <3>3. NodePlace(y)'
      BY <1>2, <3>1, <3>2 DEF NodePlace, At
    <3>4. RootPlace(y)'
      BY <1>2, <1>5, <1>6, <3>1 DEF RootPlace
    <3> QED
      BY <3>3, <3>4
  <2> QED
    BY <2>1, <2>2
<1>8. ASSUME lvel[x] < acked.lvl, Stored(acked.call, acked.lvl)
      PROVE  Stored(acked.call, acked.lvl)'
  <2>1. acked.lvl \in 1 .. 4 /\ lvel[x] \in 1 .. 4 /\ acked.lvl > lvel[x]
    BY <1>1, <1>3, <1>8 DEF TypeOK
  <2>2. meta'[acked.lvl] = meta[acked.lvl] /\ (acked.lvl = 4 => gdir' = gdir)
    BY <1>5, <1>6, <2>1
  <2>3. acked.lvl # 4 => \A r \in Apps : dir'[acked.lvl][r] = dir[acked.lvl][r]
    BY <1>4, <2>1
  <2> QED
    BY <1>2, <1>8, <2>2, <2>3 DEF Stored
<1> QED
  BY <1>2, <1>3, <1>7, <1>8, PlaceFrame DEF Moving, Placing

LEMMA RenameFiles ==
  ASSUME Inv, Ctl, Files, NEW x \in Who, Rename(x)
  PROVE  Files'
<1> USE FilesParts
<1>1. TypeOK
  BY DEF Inv
<1>2. /\ pc[x] = "rename" /\ pc'[x] = IF SplitRoot(x) THEN "renameGlobal" ELSE "renamed"
      /\ calls' = calls /\ call' = call /\ lvel' = lvel /\ ckptTag' = ckptTag /\ acked' = acked
      /\ \A y \in Who : y # x => pc'[y] = pc[y]
      /\ gtmp' = gtmp /\ gdir' = gdir /\ mtmp' = mtmp /\ meta' = meta
  BY <1>1 DEF Rename, At, Goto, TypeOK, net, metas
<1>3. /\ lvel[x] \in 1 .. 4 /\ pc[x] \in Placing /\ NodeFlag(x)
      /\ \A y \in Who : pc[y] \in Placing => lvel[y] \in 1 .. 4
  BY <1>2, PlacingAlone DEF Placing, NodePlace, At
<1>4. /\ \A r \in Apps : r[1] # x[1] => tmp'[r] = tmp[r]
      /\ \A l \in 1 .. 3, r \in Apps : r[1] # x[1] => dir'[l][r] = dir[l][r]
  <2>1. CASE lvel[x] = 4 /\ 4 \notin Async
    BY <2>1 DEF Rename
  <2>2. CASE ~(lvel[x] = 4 /\ 4 \notin Async)
    BY <1>1, <2>2 DEF Rename, TypeOK
  <2> QED
    BY <2>1, <2>2
<1>5. \A l \in 1 .. 3 : l > lvel[x] => dir'[l] = dir[l]
  <2>1. CASE lvel[x] = 4
    BY <2>1
  <2>2. CASE lvel[x] # 4
    <3>1. \E f : dir' = [dir EXCEPT ![lvel[x]] = f]
      BY <2>2 DEF Rename
    <3> QED
      BY <1>1, <1>3, <3>1 DEF TypeOK
  <2> QED
    BY <2>1, <2>2
<1>6. ASSUME lvel[x] # 4, NEW r \in Apps, r[1] = x[1] PROVE dir'[lvel[x]][r] = tmp[r]
  <2>1. lvel[x] \in 1 .. 3
    BY <1>3, <1>6
  <2>2. dir' = [dir EXCEPT ![lvel[x]] = [q \in Apps |-> IF q[1] = x[1] THEN tmp[q] ELSE @[q]]]
    BY <1>6 DEF Rename
  <2>3. dir'[lvel[x]] = [q \in Apps |-> IF q[1] = x[1] THEN tmp[q] ELSE dir[lvel[x]][q]]
    BY <1>1, <2>1, <2>2 DEF TypeOK
  <2> QED
    BY <1>6, <2>3
<1>7. ASSUME NEW y \in Who, pc[y] \in Placing PROVE NodePlace(y)' /\ RootPlace(y)'
  <2>1. CASE y = x
    <3>1. NodePlace(x) /\ RootPlace(x)
      OBVIOUS
    <3>2. NodePlace(x)'
      BY <1>2, <1>3, <1>6, <3>1 DEF NodePlace, At
    <3>3. RootPlace(x)'
      BY <1>2, <3>1 DEF RootPlace
    <3> QED
      BY <2>1, <3>2, <3>3
  <2>2. CASE y # x
    <3>1. /\ pc'[y] = pc[y] /\ NodePlace(y) /\ RootPlace(y) /\ lvel[y] \in 1 .. 4
          /\ NodeFlag(y) => x[1] # y[1]
      BY <1>2, <1>3, <1>7, <2>2, OneLeader
    <3>2. ASSUME NEW r \in Apps, NodeFlag(y), r[1] = y[1]
          PROVE  tmp'[r] = tmp[r] /\ (lvel[y] # 4 => dir'[lvel[y]][r] = dir[lvel[y]][r])
      <4>1. r[1] # x[1] /\ (lvel[y] # 4 => lvel[y] \in 1 .. 3)
        BY <3>1, <3>2
      <4> QED
        BY <1>4, <4>1
    <3>3. NodePlace(y)'
      BY <1>2, <3>1, <3>2 DEF NodePlace, At
    <3>4. RootPlace(y)'
      BY <1>2, <3>1 DEF RootPlace
    <3> QED
      BY <3>3, <3>4
  <2> QED
    BY <2>1, <2>2
<1>8. ASSUME lvel[x] < acked.lvl, Stored(acked.call, acked.lvl)
      PROVE  Stored(acked.call, acked.lvl)'
  <2>1. acked.lvl \in 1 .. 4 /\ acked.lvl > lvel[x]
    BY <1>1, <1>3, <1>8 DEF TypeOK
  <2>2. acked.lvl # 4 => dir'[acked.lvl] = dir[acked.lvl]
    BY <1>5, <2>1
  <2> QED
    BY <1>2, <1>8, <2>2 DEF Stored
<1> QED
  BY <1>2, <1>3, <1>7, <1>8, PlaceFrame DEF Moving, Placing

LEMMA RenameGlobalFiles ==
  ASSUME Inv, Ctl, Files, NEW x \in Who, RenameGlobal(x)
  PROVE  Files'
<1> USE FilesParts
<1>1. TypeOK
  BY DEF Inv
<1>2. /\ pc[x] = "renameGlobal" /\ pc'[x] = "renamed"
      /\ calls' = calls /\ call' = call /\ lvel' = lvel /\ ckptTag' = ckptTag /\ acked' = acked
      /\ \A y \in Who : y # x => pc'[y] = pc[y]
      /\ tmp' = tmp /\ dir' = dir
  BY <1>1 DEF RenameGlobal, At, Goto, TypeOK, net
<1>3. lvel[x] \in 1 .. 4 /\ pc[x] \in Placing /\ SplitRoot(x)
  BY <1>2, PlacingAlone DEF Placing, NodePlace, At
<1>4. /\ meta'[lvel[x]] = mtmp
      /\ \A l \in 1 .. 4 : l # lvel[x] => meta'[l] = meta[l]
      /\ gdir' = IF lvel[x] = 4 THEN gtmp ELSE gdir
  <2>1. meta' = [meta EXCEPT ![lvel[x]] = mtmp] /\ meta \in [1 .. 4 -> [Group -> Index]]
    BY <1>1 DEF RenameGlobal, TypeOK
  <2>2. gdir' = IF lvel[x] = 4 THEN gtmp ELSE gdir
    BY DEF RenameGlobal
  <2> QED
    BY <1>3, <2>1, <2>2
<1>5. ASSUME NEW y \in Who, pc[y] \in Placing PROVE NodePlace(y)' /\ RootPlace(y)'
  <2>1. NodePlace(y) /\ RootPlace(y)
    OBVIOUS
  <2>2. CASE y = x
    <3>1. NodePlace(x)'
      BY <1>2, <2>1, <2>2 DEF NodePlace, At
    <3>2. RootPlace(x)'
      BY <1>2, <1>4, <2>1, <2>2 DEF RootPlace
    <3> QED
      BY <2>2, <3>1, <3>2
  <2>3. CASE y # x
    <3>1. pc'[y] = pc[y] /\ ~SplitRoot(y)
      BY <1>2, <1>3, <1>5, <2>3, OneLeader
    <3>2. NodePlace(y)'
      BY <1>2, <2>1, <3>1 DEF NodePlace, At
    <3> QED
      BY <3>1, <3>2 DEF RootPlace
  <2> QED
    BY <2>2, <2>3
<1>6. ASSUME lvel[x] < acked.lvl, Stored(acked.call, acked.lvl)
      PROVE  Stored(acked.call, acked.lvl)'
  <2>1. acked.lvl \in 1 .. 4 /\ acked.lvl # lvel[x] /\ lvel[x] # 4
    BY <1>1, <1>3, <1>6 DEF TypeOK
  <2> QED
    BY <1>2, <1>4, <1>6, <2>1 DEF Stored
<1> QED
  BY <1>2, <1>3, <1>5, <1>6, PlaceFrame DEF Moving, Placing

LEMMA PostFiles ==
  ASSUME Inv, Ctl, Files, NoRace, NEW x \in Who, NEW bad \in BOOLEAN, NEW lost \in BOOLEAN,
         Post(x, bad, lost)
  PROVE  Files'
<1> USE FilesParts
<1>1. /\ calls' = calls /\ call' = call /\ lvel' = lvel /\ last' = last
      /\ offline' = offline /\ ckptTag' = ckptTag /\ answers' = answers
      /\ finalTag' = finalTag /\ acked' = acked
      /\ \A y \in Who : y # x => pc'[y] = pc[y] /\ res'[y] = res[y]
  BY PostEffect DEF PostStep
<1>2. /\ pc[x] = "post" /\ pc'[x] = "posted"
      /\ tmp' = tmp /\ dir' = dir /\ gdir' = gdir /\ mtmp' = mtmp /\ meta' = meta
  BY DEF Inv, Post, At, Goto, TypeOK, metas
<1>3. CASE x \in Apps
  <2>1. AppSame(x)
    BY <1>1 DEF AppSame
  <2>2. gtmp' = gtmp
    BY <1>3, Processes DEF Post
  <2>3. Written(x)'
    <3>1. Written(x) /\ FileAt(x, call[x])' = FileAt(x, call[x]) /\ MetaAt(x, call[x])' = MetaAt(x, call[x])
      BY <1>1, <1>2, <1>3, <2>2 DEF FileAt, MetaAt
    <3> QED
      BY <1>1, <1>2, <3>1 DEF Written, Flushing
  <2>4. Handed(x)'
    <3>1. ~Due(x) /\ HeadOf(x) # x /\ HeadOf(x) \in Who
      BY <1>2, <1>3, Processes DEF Due
    <3>2. ckptTag'[x] = <<>> /\ pc'[HeadOf(x)] \notin {"agree"} \cup Flushing
      BY <1>1, <1>3, <3>1, NotHanded
    <3> QED
      BY <3>2 DEF Handed, At, Flushing
  <2> QED
    BY <1>2, <1>3, <2>1, <2>2, <2>3, <2>4, AppFiles DEF Placing
<1>4. CASE x \in Heads
  <2>1. \A h \in Heads : pc[h] \in Flushing
    BY <1>2, <1>4 DEF Ctl, HeadPhase, Flushing, Placing
  <2>2. \A r \in Apps : /\ pc[r] \in {"run", "await"} /\ r # x /\ r \in Who
                        /\ HeadOf(r) \in Heads /\ r \in Body(HeadOf(r))
    BY <1>4, <2>1, AllAtWork, Processes DEF Ctl
  <2>3. \A y \in Who : y # x => pc'[y] = pc[y]
    BY <1>1
  <2>4. lvel[x] # Rejected
    BY <1>2 DEF Ctl, FailInv, Flushing
  <2>5. ASSUME NEW r \in Apps PROVE Written(r)' /\ Handed(r)'
    <3>1. Written(r)'
      BY <2>2, <2>3 DEF Written, Flushing
    <3>2. Handed(r) /\ Round(r)' = Round(r)
      BY <1>1, <2>2, <2>3 DEF Round
    <3>3. MetaAt(r, Round(r))' = MetaAt(r, Round(r))
      BY <1>2, <3>2 DEF MetaAt
    <3>4. CASE HeadOf(r) = x
      <4>1. tmp[r] = Round(r) /\ MetaAt(r, Round(r))
        BY <1>2, <2>4, <3>2, <3>4 DEF Handed, Flushing
      <4>2. lvel[x] = 4 => gtmp'[r] = tmp[r]
        <5>1. ~lost
          BY DEF Post, May, NoRace
        <5>2. r \in Mine(x) /\ AmIaHead(x)
          BY <1>4, <2>2, <3>4, Processes DEF Mine
        <5> QED
          BY <5>1, <5>2 DEF Post
      <4> QED
        BY <1>1, <1>2, <3>1, <3>2, <3>3, <3>4, <4>1, <4>2 DEF Handed
    <3>5. CASE HeadOf(r) # x
      <4>1. r \notin Mine(x)
        BY <1>4, <3>5, Processes DEF Mine
      <4>2. gtmp'[r] = gtmp[r]
        BY <4>1 DEF Post
      <4>3. pc'[HeadOf(r)] = pc[HeadOf(r)]
        BY <2>2, <2>3, <3>5, Processes
      <4> QED
        BY <1>1, <1>2, <3>1, <3>2, <3>3, <4>2, <4>3 DEF Handed, At
    <3> QED
      BY <3>4, <3>5
  <2>6. ASSUME NEW y \in Who PROVE NodePlace(y)' /\ RootPlace(y)'
    <3>1. pc'[y] \notin Placing
      BY <1>2, <2>1, <2>2, <2>3, Processes DEF Flushing, Placing
    <3> QED
      BY <3>1 DEF NodePlace, At, RootPlace, Placing
  <2>7. Kept'
    BY <1>1, <1>2, KeptSame DEF Moving
  <2> QED
    BY <2>5, <2>6, <2>7 DEF Files
<1> QED
  BY <1>3, <1>4, Processes

LEMMA DiscardFiles ==
  ASSUME Inv, Ctl, Files, NEW x \in Who, Discard(x)
  PROVE  Files'
<1> USE FilesParts
<1>1. /\ calls' = calls /\ call' = call /\ lvel' = lvel /\ ckptTag' = ckptTag /\ acked' = acked
      /\ \A y \in Who : y # x => pc'[y] = pc[y] /\ res'[y] = res[y]
  BY PostEffect DEF PostStep
<1>2. /\ pc[x] = "discard" /\ pc'[x] = After(x)
      /\ dir' = dir /\ gdir' = gdir /\ meta' = meta
  BY DEF Inv, Discard, At, Goto, TypeOK
<1>3. x \in Heads /\ pc'[x] = "answer"
  BY <1>2, Processes DEF Ctl, FailInv, After
<1>4. /\ \A r \in Apps : /\ pc[r] \in CalmPlace /\ ckptTag[r] = <<>> /\ r # x
                         /\ HeadOf(r) \in Heads /\ HeadOf(r) \in Who
      /\ \A h \in Heads : pc[h] # "agree" /\ pc[h] \notin Flushing \cup Placing
  <2>1. Past(x)
    BY <1>2 DEF Past, Posting
  <2>2. \A h \in Heads : pc[h] \notin Flushing \cup Placing
    BY <1>2, <1>3 DEF Ctl, HeadPhase, Flushing, Placing
  <2> QED
    BY <1>3, <2>1, <2>2, Processes DEF Ctl, Calm
<1>5. ASSUME NEW r \in Apps PROVE Written(r)' /\ Handed(r)'
  <2>1. pc'[r] = pc[r] /\ res'[r] = res[r] /\ Written(r)
    BY <1>1, <1>4, Processes
  <2>2. ASSUME pc[r] = "wrote" PROVE FileAt(r, call[r])' = FileAt(r, call[r])
    <3>1. r[1] # x[1]
      <4>1. HeadOf(r) # x
        BY <1>2, <2>2, NotHanded DEF Due, Serving, Posting
      <4> QED
        BY <1>3, <4>1, Processes DEF HeadOf, Heads
    <3>2. tmp'[r] = tmp[r]
      BY <3>1 DEF Discard
    <3>3. ~(calls[call[r]] = 4 /\ 4 \notin Async)
      <4>1. calls[call[r]] # Finalize
        BY <2>2, AppFacts DEF CallInv, At, Ending
      <4>2. calls[call[r]] \in CallLevels
        BY <2>2, <4>1, CallLevel
      <4> QED
        BY <1>2, <1>3, <4>2 DEF Ctl, FailInv, InlineFour
    <3> QED
      BY <1>1, <3>2, <3>3 DEF FileAt
  <2>3. Written(r)'
    BY <1>1, <1>4, <2>1, <2>2 DEF Written, CalmPlace, Ending, Flushing
  <2>4. ckptTag'[r] = <<>> /\ pc'[HeadOf(r)] \notin {"agree"} \cup Flushing
    <3>1. CASE HeadOf(r) = x
      BY <1>1, <1>3, <1>4, <3>1 DEF Flushing
    <3>2. CASE HeadOf(r) # x
      BY <1>1, <1>4, <3>2
    <3> QED
      BY <3>1, <3>2
  <2> QED
    BY <2>3, <2>4 DEF Handed, At, Flushing
<1>6. ASSUME NEW y \in Who PROVE NodePlace(y)' /\ RootPlace(y)'
  <2>1. pc'[y] \notin Placing
    BY <1>1, <1>3, <1>4, Processes DEF CalmPlace, Ending, Placing
  <2> QED
    BY <2>1 DEF NodePlace, At, RootPlace, Placing
<1>7. Kept'
  BY <1>1, <1>2, KeptSame DEF Moving
<1> QED
  BY <1>5, <1>6, <1>7 DEF Files

LEMMA DropFiles ==
  ASSUME Inv, Ctl, Files, NEW r \in Apps, Drop(r)
  PROVE  Files'
<1> USE FilesParts
<1>1. /\ pc[r] = "drop" /\ pc'[r] = "finished" /\ calls' = calls /\ call' = call
      /\ ckptTag' = ckptTag /\ lvel' = lvel /\ res' = res
      /\ \A x \in Who : x # r => pc'[x] = pc[x]
      /\ tmp' = tmp /\ gtmp' = gtmp /\ mtmp' = mtmp
  BY Processes DEF Inv, Drop, At, Goto, TypeOK, net
<1>2. r \in Who /\ ~AmIaHead(r) /\ ~Due(r)
  BY <1>1, Processes DEF Due
<1>3. \A x \in Who : pc[x] \notin Placing
  <2>1. \A h \in Heads : pc[h] \notin Placing
    BY <1>1, AllAtWork DEF Ctl
  <2>2. \A q \in Apps : pc[q] \notin Placing
    BY <1>1 DEF Ctl, AppPhase, Placing
  <2> QED
    BY <2>1, <2>2, Processes
<1>4. ASSUME NEW q \in Apps PROVE Written(q)' /\ Handed(q)'
  <2>1. /\ Written(q) /\ Handed(q) /\ Round(q)' = Round(q)
        /\ HeadOf(q) \in Who /\ HeadOf(q) # r /\ pc'[HeadOf(q)] = pc[HeadOf(q)]
    BY <1>1, Processes DEF Round, Ending
  <2>2. /\ MetaAt(q, call[q])' = MetaAt(q, call[q]) /\ MetaAt(q, Round(q))' = MetaAt(q, Round(q))
        /\ FileAt(q, call[q])' = FileAt(q, call[q])
    BY <1>1, <2>1 DEF MetaAt, FileAt
  <2>3. Written(q)'
    <3>1. CASE q = r
      BY <1>1, <3>1 DEF Written, Flushing
    <3>2. CASE q # r
      <4>1. pc'[q] = pc[q]
        BY <1>1, <3>2, Processes
      <4> QED
        BY <1>1, <2>1, <2>2, <4>1 DEF Written
    <3> QED
      BY <3>1, <3>2
  <2> QED
    BY <1>1, <2>1, <2>2, <2>3 DEF Handed, At
<1>5. ASSUME NEW y \in Who PROVE NodePlace(y)' /\ RootPlace(y)'
  <2>1. pc'[y] \notin Placing
    BY <1>1, <1>3 DEF Placing
  <2> QED
    BY <2>1 DEF NodePlace, At, RootPlace, Placing
<1>6. Kept'
  <2>1. ~Undisturbed(acked.lvl)'
    BY <1>1, <1>2 DEF Undisturbed, AmIaHead
  <2> QED
    BY <2>1 DEF Kept
<1> QED
  BY <1>4, <1>5, <1>6 DEF Files

LEMMA StutterFiles ==
  ASSUME Files, UNCHANGED vars
  PROVE  Files'
<1> USE FilesParts
<1>1. /\ calls' = calls /\ pc' = pc /\ call' = call /\ res' = res /\ lvel' = lvel
      /\ ckptTag' = ckptTag /\ acked' = acked
      /\ tmp' = tmp /\ dir' = dir /\ gtmp' = gtmp /\ gdir' = gdir /\ mtmp' = mtmp /\ meta' = meta
  BY DEF vars, net, disk, metas
<1>2. ASSUME NEW r \in Apps PROVE Written(r)' /\ Handed(r)'
  <2>1. Written(r) /\ Handed(r) /\ Round(r)' = Round(r)
    BY <1>1 DEF Round
  <2>2. /\ MetaAt(r, call[r])' = MetaAt(r, call[r]) /\ MetaAt(r, Round(r))' = MetaAt(r, Round(r))
        /\ FileAt(r, call[r])' = FileAt(r, call[r])
    BY <1>1, <2>1 DEF MetaAt, FileAt
  <2> QED
    BY <1>1, <2>1, <2>2 DEF Written, Handed, At
<1>3. ASSUME NEW x \in Who PROVE NodePlace(x)' /\ RootPlace(x)'
  <2>1. NodePlace(x) /\ RootPlace(x)
    OBVIOUS
  <2>2. NodePlace(x)'
    BY <1>1, <2>1 DEF NodePlace, At
  <2> QED
    BY <1>1, <2>1, <2>2 DEF RootPlace
<1>4. Kept'
  BY <1>1, KeptSame DEF Moving
<1> QED
  BY <1>2, <1>3, <1>4 DEF Files

LEMMA NextFiles ==
  ASSUME Inv, Ctl, Files, NoRace, [Next]_vars
  PROVE  Files'
<1>1. ASSUME NEW r \in Apps, AppStep(r) PROVE Files'
  BY <1>1, FollowFiles, AwaitFiles, WriteFiles, CreateMetadataFiles, SendAsyncFiles,
     StartInlineFiles, ReturnFiles, DropFiles DEF AppStep
<1>2. ASSUME NEW r \in Apps, NEW l \in CallLevels \cup {Finalize}, Issue(r, l) PROVE Files'
  BY <1>2, IssueFiles
<1>3. ASSUME NEW x \in Who, PostStep(x) PROVE Files'
  BY <1>3, PostFiles, DiscardFiles, CleanFiles, RenameFiles, RenameGlobalFiles DEF PostStep
<1>4. ASSUME NEW h \in Heads, HeadStep(h) PROVE Files'
  BY <1>4, HeadStepFiles, CollectFiles
<1>5. ASSUME Sync PROVE Files'
  BY <1>5, WriteSyncFiles, AgreeFiles, FinSyncFiles, PostSyncFiles, RenameSyncFiles DEF Sync
<1>6. ASSUME UNCHANGED vars PROVE Files'
  BY <1>6, StutterFiles
<1> QED
  BY <1>1, <1>2, <1>3, <1>4, <1>5, <1>6 DEF Next, Ended

LEMMA InitStore == Init => StoreInv
<1> SUFFICES ASSUME Init PROVE StoreInv
  OBVIOUS
<1>1. /\ \A r \in Apps : /\ pc[r] = "run" /\ ckptTag[r] = <<>> /\ lvel[r] = 0
                         /\ HeadOf(r) \in Heads
      /\ \A h \in Heads : pc[h] = "listen"
      /\ calls = <<>> /\ acked.call = NoCall
  BY Processes DEF Init
<1>2. \A x \in Who : pc[x] \in {"run", "listen"}
  BY <1>1, Processes
<1>3. LevelsInv /\ FailInv
  BY <1>1, <1>2 DEF LevelsInv, FailInv, At, Rejected, Flushing, Placing
<1>4. HeadPhase /\ AppPhase /\ Calm
  BY <1>1 DEF HeadPhase, AppPhase, Calm, Inlining, Past, Posting, Flushing, Placing
<1>5. \A r \in Apps : Written(r) /\ Handed(r)
  BY <1>1 DEF Written, Handed, At, Flushing
<1>6. \A x \in Who : NodePlace(x) /\ RootPlace(x)
  BY <1>2 DEF NodePlace, At, RootPlace
<1>7. Kept
  BY <1>1 DEF Kept
<1> QED
  BY <1>3, <1>4, <1>5, <1>6, <1>7 DEF StoreInv, Ctl, Files

LEMMA NextStore ==
  ASSUME NoRace
  PROVE  Inv /\ StoreInv /\ [Next]_vars => StoreInv'
BY NextCtl, NextFiles DEF StoreInv

-----------------------------------------------------------------------------

\* A checkpoint that FTI_PostCkpt has put in its place, in a head or in the application
\* processes, stays there, whole, until one of its level or above replaces it or
\* FTI_Finalize removes it: neither FTI_Clean nor the renaming for lower levels, nor
\* what becomes of later checkpoints that fail, touches it.
THEOREM AckedStays ==
  ASSUME NoRace
  PROVE  Spec => []AckedIsStored
<1>1. Inv /\ StoreInv => AckedIsStored
  <2> SUFFICES ASSUME Inv, StoreInv, acked.call # NoCall, Undisturbed(acked.lvl)
               PROVE  \E c \in acked.call .. Len(calls), l \in acked.lvl .. 4 : Stored(c, l)
    BY DEF AckedIsStored
  <2>1. Stored(acked.call, acked.lvl)
    BY DEF StoreInv, Files, Kept
  <2>2. acked.call \in 0 .. Len(calls) /\ acked.lvl \in 0 .. 4 /\ Len(calls) \in Nat
    BY DEF Inv, TypeOK, Index
  <2>3. acked.call \in acked.call .. Len(calls) /\ acked.lvl \in acked.lvl .. 4
    BY <2>2
  <2> QED
    BY <2>1, <2>3
<1> QED
  BY <1>1, InitStore, NextStore, InvHolds, PTL DEF Spec

=============================================================================

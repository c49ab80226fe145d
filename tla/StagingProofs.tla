---------------------------- MODULE StagingProofs ----------------------------
(***************************************************************************)
(* Proofs about Staging, for every number of processes, IDs, requests and  *)
(* failing copies: every invariant the runs check, and that Staging        *)
(* implements the safety part of StageService.                             *)
(***************************************************************************)
EXTENDS Staging, FiniteSetTheorems, TLAPS

(* Where a process can be, and which steps change a status byte. *)

Field == State \cup Availability
Posting == {"NAVL", "PEND", "isend"}          \* in FTI_SendFile
Clearing == {"NINI", "IAVL"}                  \* at the end of FTI_GetStageStatus
Copying == {"ACTV", "copy"}
Working == Copying \cup Final
AppPlace == {"run", "test", "release", "barrier", "done"} \cup Posting \cup Clearing
HeadPlace == {"listen", "ending", "barrier", "done"} \cup Working

Places == (\A r \in Apps : pc[r] \in AppPlace) /\ pc[TheHead] \in HeadPlace

Open(r) == ~Ending(r)
Posts(r, i) == pc[r] \in Posting /\ id[r] = i
Clears(r, i) == pc[r] \in Clearing /\ id[r] = i
Mailed(r, i) == \E k \in DOMAIN net[r] : net[r][k].id = i
Works(r, i) == pc[TheHead] \in Working /\ source = r /\ id[TheHead] = i

\* A byte is loaded only to be stored, and is not changed in between.
Loaded ==
  /\ \A w \in Who : pc[w] \notin Field => copy[w] = NoByte
  /\ NoLostUpdate

\* Where the request an ID stands for has got to, as its status byte tells.
IdStage(r, i) ==
  /\ Posts(r, i) =>
       /\ holder[r][i] # 0 /\ ~Mailed(r, i) /\ ~Works(r, i)
       /\ status[r][i] = [avl |-> IF pc[r] = "NAVL" THEN "IAVL" ELSE "NAVL",
                          val |-> IF pc[r] = "isend" THEN "PEND" ELSE "NINI"]
       /\ outcome[holder[r][i]] = "none"
  /\ holder[r][i] = 0 => ~Mailed(r, i) /\ ~Works(r, i)
  /\ Clears(r, i) =>
       /\ holder[r][i] = 0 /\ status[r][i].avl = "NAVL"
       /\ pc[r] = "IAVL" => status[r][i].val = "NINI"
  /\ holder[r][i] = 0 /\ ~Clears(r, i) => status[r][i] = [avl |-> "IAVL", val |-> "NINI"]
  /\ Mailed(r, i) => ~Works(r, i) /\ status[r][i] = [avl |-> "NAVL", val |-> "PEND"]
  /\ Works(r, i) =>
       /\ serving = holder[r][i]
       /\ status[r][i] = [avl |-> "NAVL",
                          val |-> IF pc[TheHead] = "ACTV" THEN "PEND" ELSE "ACTV"]
  /\ holder[r][i] # 0 /\ ~Posts(r, i) /\ ~Mailed(r, i) /\ ~Works(r, i) =>
       /\ status[r][i].avl = "NAVL"
       /\ status[r][i].val \in Final
       /\ outcome[holder[r][i]] = status[r][i].val

\* What FTI_GetStageStatus has read is past or present, never ahead.
SeenStage(r) ==
  At(r, "test") =>
    /\ seen[r] = "NINI" <=> holder[r][id[r]] = 0
    /\ seen[r] \in Final \cup {"ACTV"} => ~Mailed(r, id[r])
    /\ seen[r] \in Final => ~Works(r, id[r]) /\ status[r][id[r]].val = seen[r]

\* IDs not yet given out stand for nothing, and no two stand for the same request.
Holding(r) ==
  /\ \A i \in ID : i >= reqCnt[r] => holder[r][i] = 0
  /\ \A i, j \in ID : holder[r][i] = holder[r][j] /\ holder[r][i] # 0 => i = j

\* Table and array describe each other, and an element holds the buffer of the
\* request its ID stands for.
TableInv(r) ==
  /\ \A i \in ID : table[r][i].all =>
       table[r][i].idx \in DOMAIN request[r] /\ request[r][table[r][i].idx].id = i
  /\ \A k \in DOMAIN request[r] :
       /\ table[r][request[r][k].id] = [all |-> TRUE, idx |-> k]
       /\ holder[r][request[r][k].id] # 0
       /\ request[r][k].buf = IF Posts(r, request[r][k].id) THEN 0
                              ELSE holder[r][request[r][k].id]
  /\ \A i \in ID : Posts(r, i) => table[r][i].all

\* What is known of an open process.
OpenInv(r) ==
  /\ \A i \in ID : IdStage(r, i)
  /\ SeenStage(r) /\ Holding(r) /\ TableInv(r)
  /\ \A k \in DOMAIN net[r] : net[r][k].n = holder[r][net[r][k].id]

\* A message is of one request, whose file is still to be copied; so is the request
\* the head works on.
MailInv(r) ==
  /\ \A k, l \in DOMAIN net[r] : net[r][k].n = net[r][l].n => k = l
  /\ \A k \in DOMAIN net[r] : outcome[net[r][k].n] = "none"
  /\ pc[TheHead] \in Copying /\ source = r => \A k \in DOMAIN net[r] : net[r][k].n # serving

WorkInv ==
  /\ pc[TheHead] \in Working => serving \in Request
  /\ pc[TheHead] \in Copying => outcome[serving] = "none"
  /\ pc[TheHead] \in Final => outcome[serving] = pc[TheHead]

HeadTable ==
  \A r \in Apps :
    hrequest[r] = IF pc[TheHead] \in Copying /\ source = r THEN <<id[TheHead]>> ELSE <<>>

\* Request n is of process r, wherever it is.
Has(r, n) ==
  \/ \E i \in ID : holder[r][i] = n
  \/ \E k \in DOMAIN net[r] : net[r][k].n = n
  \/ \E k \in DOMAIN request[r] : request[r][k].buf = n
  \/ pc[TheHead] \in Working /\ source = r /\ serving = n

\* No request is of two processes, only a process that ends spoils its own, and
\* what is lent is in a message.
OwnInv ==
  /\ \A n \in Request, r \in Apps : Has(r, n) =>
       /\ n <= sent
       /\ Open(r) => n \notin spoilt
       /\ \A q \in Apps : Has(q, n) => q = r
  /\ \A n \in Request : n > sent => n \notin spoilt /\ outcome[n] = "none"
  /\ \A n \in lent : \E r \in Apps : \E k \in DOMAIN net[r] : net[r][k].n = n

Inv ==
  /\ TypeOK /\ Places /\ Loaded
  /\ \A r \in Apps : Open(r) => OpenInv(r)
  /\ \A r \in Apps : MailInv(r)
  /\ WorkInv /\ HeadTable /\ OwnInv /\ AnswerIsTrue

-----------------------------------------------------------------------------
(***************************************************************************)
(* Frames: what a step leaves alone stays as it was.                       *)
(***************************************************************************)

\* The head is none of the application processes.
LEMMA Processes ==
  /\ Apps \subseteq Who /\ TheHead \in Who /\ TheHead \notin Apps /\ 1 \in Apps
  /\ \A w \in Who : w = TheHead \/ w \in Apps
  /\ ID \subseteq Nat /\ 0 \in ID /\ Request \subseteq 0 .. MaxSends
BY SizesAssumption, BoundsAssumption DEF Apps, Who, TheHead, ID, Request

\* What belongs to process q.
SameFor(q) ==
  /\ pc'[q] = pc[q] /\ id'[q] = id[q] /\ status'[q] = status[q] /\ net'[q] = net[q]
  /\ holder'[q] = holder[q] /\ reqCnt'[q] = reqCnt[q] /\ seen'[q] = seen[q]
  /\ table'[q] = table[q] /\ request'[q] = request[q]

HeadSame ==
  /\ pc'[TheHead] = pc[TheHead] /\ id'[TheHead] = id[TheHead]
  /\ source' = source /\ serving' = serving /\ outcome' = outcome

\* A process is as it was when neither it nor the head moves.
LEMMA OpenFrame ==
  ASSUME NEW q \in Apps, OpenInv(q), SameFor(q), HeadSame
  PROVE  OpenInv(q)'
BY DEF OpenInv, SameFor, HeadSame, IdStage, SeenStage, Holding, TableInv, Posts, Clears,
       Mailed, Works, At

LEMMA MailFrame ==
  ASSUME NEW q \in Apps, MailInv(q), net'[q] = net[q], HeadSame
  PROVE  MailInv(q)'
BY DEF MailInv, HeadSame

LEMMA WorkFrame ==
  ASSUME WorkInv, HeadSame
  PROVE  WorkInv'
BY DEF WorkInv, HeadSame

LEMMA HeadTableFrame ==
  ASSUME HeadTable, HeadSame, hrequest' = hrequest
  PROVE  HeadTable'
BY DEF HeadTable, HeadSame

\* Loading or losing the copy of a byte changes nothing else.
LEMMA CopyFrame ==
  ASSUME Inv, UNCHANGED <<pc, id, status, mine, net, spoilt, heads, outcome, history>>
  PROVE  /\ Places'
         /\ \A r \in Apps : Open(r)' => OpenInv(r)'
         /\ \A r \in Apps : MailInv(r)'
         /\ WorkInv' /\ HeadTable' /\ AnswerIsTrue'
<1> USE DEF mine, heads, history
<1>1. HeadSame /\ \A q \in Apps : SameFor(q)
  BY DEF HeadSame, SameFor
<1>2. Places' /\ AnswerIsTrue'
  BY DEF Inv, Places, AnswerIsTrue
<1>3. \A r \in Apps : Open(r)' => OpenInv(r)'
  BY <1>1, OpenFrame DEF Inv, Open, Ending
<1>4. \A r \in Apps : MailInv(r)'
  BY <1>1, MailFrame DEF Inv
<1>5. WorkInv' /\ HeadTable'
  BY <1>1, WorkFrame, HeadTableFrame DEF Inv
<1> QED
  BY <1>2, <1>3, <1>4, <1>5

-----------------------------------------------------------------------------
(***************************************************************************)
(* The steps.                                                              *)
(***************************************************************************)

\* The types, value by value.
LEMMA Types ==
  ASSUME TypeOK
  PROVE  /\ \A w \in Who : pc[w] \in Where /\ id[w] \in ID /\ copy[w] \in Byte \cup {NoByte}
         /\ \A r \in Apps, i \in ID :
              /\ status[r][i] \in Byte
              /\ table[r][i] \in [all : BOOLEAN, idx : 0 .. MaxNum]
              /\ holder[r][i] \in 0 .. MaxSends
         /\ \A r \in Apps :
              /\ reqCnt[r] \in 0 .. MaxNum /\ seen[r] \in State
              /\ request[r] \in Seq([id : ID, buf : 0 .. MaxSends])
              /\ net[r] \in Seq([id : ID, n : Request]) /\ hrequest[r] \in Seq(ID)
BY DEF TypeOK

\* A sequence holds what it is a sequence of.
LEMMA SeqElement ==
  ASSUME NEW S, NEW s \in Seq(S)
  PROVE  DOMAIN s = 1 .. Len(s) /\ Len(s) \in Nat /\ \A k \in DOMAIN s : s[k] \in S
OBVIOUS

LEMMA SeqReplace ==
  ASSUME NEW S, NEW s \in Seq(S), NEW k \in DOMAIN s, NEW e \in S
  PROVE  [s EXCEPT ![k] = e] \in Seq(S)
OBVIOUS

LEMMA ElementTypes ==
  ASSUME TypeOK, NEW r \in Apps
  PROVE  /\ DOMAIN request[r] = 1 .. Len(request[r]) /\ Len(request[r]) \in Nat
         /\ DOMAIN net[r] = 1 .. Len(net[r]) /\ Len(net[r]) \in Nat
         /\ \A k \in DOMAIN request[r] :
              request[r][k].id \in ID /\ request[r][k].buf \in 0 .. MaxSends
         /\ \A k \in DOMAIN net[r] : net[r][k].id \in ID /\ net[r][k].n \in Request
<1>1. request[r] \in Seq([id : ID, buf : 0 .. MaxSends]) /\ net[r] \in Seq([id : ID, n : Request])
  BY DEF TypeOK
<1>2. \A k \in DOMAIN request[r] : request[r][k] \in [id : ID, buf : 0 .. MaxSends]
  BY <1>1, SeqElement
<1>3. \A k \in DOMAIN net[r] : net[r][k] \in [id : ID, n : Request]
  BY <1>1, SeqElement
<1> QED
  BY <1>1, <1>2, <1>3

\* Every byte there is can be loaded.
LEMMA OwnerType ==
  ASSUME TypeOK, NEW w \in Who
  PROVE  /\ Owner(w) \in Apps /\ id[w] \in ID
         /\ status[Owner(w)][id[w]] \in Byte
<1>1. Owner(w) \in Apps
  BY Processes DEF TypeOK, Owner
<1> QED
  BY <1>1, Types

LEMMA NoByteIsNone == NoByte \notin Byte
BY DEF NoByte, Byte, Availability, State

LEMMA LoadFieldInv ==
  ASSUME Inv, NEW w \in Who, LoadField(w)
  PROVE  Inv'
<1> USE DEF LoadField, mine, msgs, heads, history
<1>1. TypeOK'
  BY OwnerType DEF Inv, TypeOK
<1>2. Loaded'
  <2>1. copy \in [Who -> Byte \cup {NoByte}]
    BY DEF Inv, TypeOK
  <2>2. \A v \in Who : /\ Owner(v)' = Owner(v)
                       /\ copy'[v] = IF v = w THEN status[Owner(w)][id[w]] ELSE copy[v]
    BY <2>1 DEF Owner
  <2> QED
    BY <2>2 DEF Inv, Loaded, NoLostUpdate, Field
<1>3. OwnInv'
  BY DEF Inv, OwnInv, Has, Open, Ending
<1> QED
  BY <1>1, <1>2, <1>3, CopyFrame DEF Inv

\* MPI may take a message early: less is lent.
LEMMA BufferedInv ==
  ASSUME Inv, NEW n \in Request, Buffered(n)
  PROVE  Inv'
<1> USE DEF Buffered, shared, mine, heads, history
<1>1. TypeOK'
  BY DEF Inv, TypeOK
<1>2. Loaded'
  BY DEF Inv, Loaded, NoLostUpdate, Owner
<1>3. OwnInv'
  BY DEF Inv, OwnInv, Has, Open, Ending
<1> QED
  BY <1>1, <1>2, <1>3, CopyFrame DEF Inv
\* Whose a request is, when no process gets one.
LEMMA OwnFrame ==
  ASSUME OwnInv, sent' = sent, spoilt' = spoilt,
         \A n \in Request : n > sent => outcome'[n] = "none",
         \A r \in Apps, n \in Request : Has(r, n)' => Has(r, n),
         \A r \in Apps : Open(r)' => Open(r),
         \A n \in lent' : \E r \in Apps : \E k \in DOMAIN net'[r] : net'[r][k].n = n
  PROVE  OwnInv'
BY DEF OwnInv

\* FTI_SetStatusField changes one field and leaves the other.
LEMMA SetFieldValue ==
  ASSUME NEW b \in Byte, NEW to \in Field
  PROVE  /\ SetField(b, to) \in Byte
         /\ SetField(b, to) = [avl |-> IF to \in Availability THEN to ELSE b.avl,
                               val |-> IF to \in Availability THEN b.val ELSE to]
BY DEF Byte, Field, SetField, State, Availability

\* What storing a field does to the bytes, and to the process that stores it.
LEMMA StoreFieldStep ==
  ASSUME Inv, NEW w \in Who, StoreField(w)
  PROVE  /\ pc[w] \in Field
         /\ copy[w] = status[Owner(w)][id[w]]
         /\ \A r \in Apps, i \in ID :
              status'[r][i] = IF r = Owner(w) /\ i = id[w] THEN SetField(copy[w], pc[w])
                              ELSE status[r][i]
         /\ \A v \in Who : /\ pc'[v] = IF v = w THEN Then(pc[w]) ELSE pc[v]
                           /\ v # w => id'[v] = id[v]
                           /\ copy'[v] = IF v = w THEN NoByte ELSE copy[v]
         /\ id'[w] = IF Then(pc[w]) \in {"run", "listen"} THEN 0 ELSE id[w]
         /\ w # TheHead => source' = source /\ serving' = serving
<1> USE DEF StoreField, Goto, Forget, heads
<1>1. pc[w] \in Field /\ copy[w] = status[Owner(w)][id[w]]
  BY DEF Inv, Loaded, NoLostUpdate, Field
<1>2. \A r \in Apps, i \in ID :
        status'[r][i] = IF r = Owner(w) /\ i = id[w] THEN SetField(copy[w], pc[w])
                        ELSE status[r][i]
  <2>1. status \in [Apps -> [ID -> Byte]] /\ Owner(w) \in Apps /\ id[w] \in ID
    BY OwnerType DEF Inv, TypeOK
  <2> QED
    BY <2>1
<1>3. pc \in [Who -> Where] /\ id \in [Who -> ID] /\ copy \in [Who -> Byte \cup {NoByte}]
  BY DEF Inv, TypeOK
<1>4. \A v \in Who : /\ pc'[v] = IF v = w THEN Then(pc[w]) ELSE pc[v]
                     /\ v # w => id'[v] = id[v]
                     /\ copy'[v] = IF v = w THEN NoByte ELSE copy[v]
  BY <1>3
<1>5. id'[w] = IF Then(pc[w]) \in {"run", "listen"} THEN 0 ELSE id[w]
  BY <1>3
<1>6. w # TheHead => source' = source /\ serving' = serving
  OBVIOUS
<1> QED
  BY <1>1, <1>2, <1>4, <1>5, <1>6

\* What a process is about to set, and where that leaves it.
LEMMA ThenPlace ==
  ASSUME Places, NEW w \in Who, pc[w] \in Field
  PROVE  /\ w \in Apps => /\ pc[w] \in {"NAVL", "PEND"} \cup Clearing
                          /\ Then(pc[w]) \in {"PEND", "isend", "IAVL", "run"}
         /\ w = TheHead => /\ pc[w] \in {"ACTV"} \cup Final
                           /\ Then(pc[w]) = IF pc[w] = "ACTV" THEN "copy" ELSE "listen"
         /\ Then(pc[w]) \in Where
BY Processes DEF Places, Field, State, Availability, AppPlace, HeadPlace, Posting, Clearing,
                 Working, Copying, Final, Then, Where

LEMMA StoreFieldType ==
  ASSUME Inv, NEW w \in Who, StoreField(w)
  PROVE  TypeOK'
<1> USE DEF StoreField, Forget, mine, msgs, heads, history
<1>1. /\ copy[w] \in Byte /\ SetField(copy[w], pc[w]) \in Byte
      /\ Owner(w) \in Apps /\ id[w] \in ID
  BY OwnerType, StoreFieldStep, SetFieldValue DEF Inv
<1>2. pc' \in [Who -> Where]
  BY StoreFieldStep, ThenPlace DEF Inv, TypeOK, Goto
<1>3. id' \in [Who -> ID] /\ source' \in Apps /\ serving' \in 0 .. MaxSends
  <2>1. id \in [Who -> ID] /\ source \in Apps /\ serving \in 0 .. MaxSends
        /\ 0 \in ID /\ 1 \in Apps /\ 0 \in 0 .. MaxSends
    BY Processes, BoundsAssumption DEF Inv, TypeOK
  <2>2. id' = id \/ id' = [id EXCEPT ![w] = 0]
    OBVIOUS
  <2>3. (source' = source /\ serving' = serving) \/ (source' = 1 /\ serving' = 0)
    OBVIOUS
  <2> QED
    BY <2>1, <2>2, <2>3
<1>4. copy' \in [Who -> Byte \cup {NoByte}]
  BY DEF Inv, TypeOK
<1>5. status' \in [Apps -> [ID -> Byte]]
  BY <1>1 DEF Inv, TypeOK
<1> QED
  BY <1>2, <1>3, <1>4, <1>5 DEF Inv, TypeOK

\* A process in a call is open, and what it stores is what its ID calls for.
LEMMA AppStoreByte ==
  ASSUME Inv, NEW r \in Apps, StoreField(r)
  PROVE  /\ pc[r] \in {"NAVL", "PEND"} \cup Clearing
         /\ Open(r) /\ Open(r)' /\ OpenInv(r) /\ id[r] \in ID
         /\ HeadSame
         /\ \A q \in Apps : q # r => SameFor(q) /\ Open(q)' = Open(q)
         /\ \A j \in ID :
              status'[r][j] =
                IF j # id[r] THEN status[r][j]
                ELSE CASE pc[r] = "NAVL" -> [avl |-> "NAVL", val |-> "NINI"]
                       [] pc[r] = "PEND" -> [avl |-> "NAVL", val |-> "PEND"]
                       [] pc[r] = "NINI" -> [avl |-> "NAVL", val |-> "NINI"]
                       [] pc[r] = "IAVL" -> [avl |-> "IAVL", val |-> "NINI"]
<1> USE Processes
<1>1. /\ pc[r] \in Field
      /\ pc[r] \in {"NAVL", "PEND"} \cup Clearing
      /\ Then(pc[r]) \in {"PEND", "isend", "IAVL", "run"}
  BY StoreFieldStep, ThenPlace DEF Inv
<1>2. Open(r) /\ Open(r)'
  BY <1>1, StoreFieldStep DEF Open, Ending, Clearing
<1>3. OpenInv(r) /\ id[r] \in ID /\ status[r][id[r]] \in Byte
  BY <1>2, Types DEF Inv
<1>4. HeadSame
  BY StoreFieldStep DEF HeadSame, StoreField
<1>5. \A q \in Apps : q # r => SameFor(q) /\ Open(q)' = Open(q)
  <2> SUFFICES ASSUME NEW q \in Apps, q # r
               PROVE  SameFor(q) /\ Open(q)' = Open(q)
    OBVIOUS
  <2>1. status' = [status EXCEPT ![r][id[r]] = SetField(copy[r], pc[r])]
    BY DEF StoreField, Owner
  <2>2. status'[q] = status[q]
    BY <2>1 DEF Inv, TypeOK
  <2> QED
    BY <2>2, StoreFieldStep DEF SameFor, StoreField, mine, msgs, history, Open, Ending
<1>6. Owner(r) = r /\ copy[r] = status[r][id[r]]
  BY StoreFieldStep DEF Owner
<1>7. IdStage(r, id[r])
  BY <1>3 DEF OpenInv
<1>8. status[r][id[r]].avl = IF pc[r] = "NAVL" THEN "IAVL" ELSE "NAVL"
  BY <1>1, <1>7 DEF IdStage, Posts, Clears, Posting, Clearing
<1>9. pc[r] # "NINI" => status[r][id[r]].val = "NINI"
  BY <1>1, <1>7 DEF IdStage, Posts, Clears, Posting, Clearing
<1>10. SetField(copy[r], pc[r]) =
         [avl |-> IF pc[r] \in Availability THEN pc[r] ELSE status[r][id[r]].avl,
          val |-> IF pc[r] \in Availability THEN status[r][id[r]].val ELSE pc[r]]
  BY <1>1, <1>3, <1>6, SetFieldValue
<1>11. SetField(copy[r], pc[r]) =
         CASE pc[r] = "NAVL" -> [avl |-> "NAVL", val |-> "NINI"]
           [] pc[r] = "PEND" -> [avl |-> "NAVL", val |-> "PEND"]
           [] pc[r] = "NINI" -> [avl |-> "NAVL", val |-> "NINI"]
           [] pc[r] = "IAVL" -> [avl |-> "IAVL", val |-> "NINI"]
  BY <1>1, <1>8, <1>9, <1>10 DEF Clearing, Availability
<1>12. \A j \in ID : status'[r][j] = IF j = id[r] THEN SetField(copy[r], pc[r])
                                     ELSE status[r][j]
  BY <1>6, StoreFieldStep
<1> QED
  BY <1>1, <1>2, <1>3, <1>4, <1>5, <1>11, <1>12

LEMMA AppStoreInv ==
  ASSUME Inv, NEW r \in Apps, StoreField(r)
  PROVE  Inv'
<1> USE Processes
<1>0. PICK i \in ID : i = id[r]
  BY AppStoreByte
<1> USE <1>0
<1>1. /\ \A v \in Who : /\ pc'[v] = IF v = r THEN Then(pc[r]) ELSE pc[v]
                        /\ v # r => id'[v] = id[v]
      /\ id'[r] = IF Then(pc[r]) \in {"run", "listen"} THEN 0 ELSE i
  BY StoreFieldStep
<1>2. /\ request' = request /\ table' = table /\ net' = net /\ holder' = holder
      /\ seen' = seen /\ reqCnt' = reqCnt /\ sent' = sent /\ lent' = lent
      /\ spoilt' = spoilt /\ told' = told /\ outcome' = outcome /\ hrequest' = hrequest
      /\ source' = source /\ serving' = serving
  BY StoreFieldStep DEF StoreField, mine, msgs, history, Forget, heads
<1>3. HeadSame /\ Open(r) /\ OpenInv(r) /\ i \in ID
  BY AppStoreByte
<1>4. /\ pc[r] \in {"NAVL", "PEND", "NINI", "IAVL"}
      /\ pc'[r] = CASE pc[r] = "NAVL" -> "PEND" [] pc[r] = "PEND" -> "isend"
                    [] pc[r] = "NINI" -> "IAVL" [] pc[r] = "IAVL" -> "run"
      /\ pc[r] # "IAVL" => id'[r] = i
  BY <1>1, AppStoreByte DEF Then, Clearing, Final
<1>5. TypeOK'
  BY StoreFieldType
<1>6. Places'
  BY <1>1, <1>4 DEF Inv, Places, AppPlace, Posting, Clearing
<1>7. Loaded'
  <2>1. \A v \in Who : copy'[v] = IF v = r THEN NoByte ELSE copy[v]
    BY StoreFieldStep
  <2>2. ASSUME NEW v \in Who, pc'[v] \notin Field PROVE copy'[v] = NoByte
    BY <1>1, <2>1, <2>2 DEF Inv, Loaded
  <2>3. ASSUME NEW v \in Who, copy'[v] # NoByte
        PROVE  copy'[v] = status'[Owner(v)'][id'[v]]
    <3>1. v # r /\ copy'[v] = copy[v] /\ id'[v] = id[v] /\ Owner(v)' = Owner(v)
      BY <1>1, <1>2, <2>1, <2>3 DEF Owner
    <3>2. copy[v] = status[Owner(v)][id[v]] /\ pc[v] \in Field
      BY <2>3, <3>1 DEF Inv, Loaded, NoLostUpdate
    <3>3. ASSUME Owner(v) = r PROVE id[v] # i
      <4>1. v = TheHead /\ source = r
        BY <3>1, <3>3 DEF Owner
      <4>2. pc[TheHead] \in Working
        BY <3>2, <4>1 DEF Inv, Places, HeadPlace, Field, Working, State, Availability
      <4>3. ~Works(r, i)
        BY <1>3, <1>4 DEF OpenInv, IdStage, Posts, Clears, Posting, Clearing
      <4> QED
        BY <4>1, <4>2, <4>3 DEF Works
    <3>4. \A q \in Apps, j \in ID : q # r \/ j # i => status'[q][j] = status[q][j]
      BY StoreFieldStep DEF Owner
    <3>5. Owner(v) \in Apps /\ id[v] \in ID
      BY OwnerType DEF Inv
    <3> QED
      BY <3>1, <3>2, <3>3, <3>4, <3>5
  <2> QED
    BY <2>2, <2>3 DEF Loaded, NoLostUpdate
<1>8. OpenInv(r)'
  <2>1. \A j \in ID : IdStage(r, j)
    BY <1>3 DEF OpenInv
  <2>2. ASSUME NEW j \in ID, j # i PROVE IdStage(r, j)'
    <3>1. status'[r][j] = status[r][j]
      BY <2>2, AppStoreByte
    <3>2. /\ ~Posts(r, j) /\ ~Posts(r, j)' /\ ~Clears(r, j) /\ ~Clears(r, j)'
      BY <1>1, <1>4, <2>2 DEF Posts, Clears, Posting, Clearing
    <3>3. Works(r, j)' = Works(r, j) /\ Mailed(r, j)' = Mailed(r, j)
      BY <1>2, <1>3 DEF Works, Mailed, HeadSame
    <3> QED
      BY <1>2, <1>3, <2>1, <3>1, <3>2, <3>3 DEF IdStage, HeadSame
  <2>3. IdStage(r, i)'
    <3>1. Works(r, i)' = Works(r, i) /\ Mailed(r, i)' = Mailed(r, i)
      BY <1>2, <1>3 DEF Works, Mailed, HeadSame
    <3>2. IdStage(r, i)
      BY <1>3, <2>1
    <3>3. CASE pc[r] \in {"NAVL", "PEND"}
      <4>1. /\ Posts(r, i) /\ Posts(r, i)' /\ ~Clears(r, i)'
        BY <1>3, <1>4, <3>3 DEF Posts, Clears, Posting, Clearing
      <4>2. status'[r][i] = [avl |-> "NAVL", val |-> IF pc[r] = "PEND" THEN "PEND" ELSE "NINI"]
        BY <1>3, <3>3, AppStoreByte
      <4> QED
        BY <1>2, <1>4, <3>1, <3>2, <3>3, <4>1, <4>2 DEF IdStage
    <3>4. CASE pc[r] = "NINI"
      <4>1. /\ Clears(r, i) /\ Clears(r, i)' /\ ~Posts(r, i)'
        BY <1>3, <1>4, <3>4 DEF Posts, Clears, Posting, Clearing
      <4>2. status'[r][i] = [avl |-> "NAVL", val |-> "NINI"]
        BY <1>3, <3>4, AppStoreByte
      <4> QED
        BY <1>2, <3>1, <3>2, <4>1, <4>2 DEF IdStage
    <3>5. CASE pc[r] = "IAVL"
      <4>1. /\ Clears(r, i) /\ ~Clears(r, i)' /\ ~Posts(r, i)'
        BY <1>3, <1>4, <3>5 DEF Posts, Clears, Posting, Clearing
      <4>2. status'[r][i] = [avl |-> "IAVL", val |-> "NINI"]
        BY <1>3, <3>5, AppStoreByte
      <4> QED
        BY <1>2, <3>1, <3>2, <4>1, <4>2 DEF IdStage
    <3> QED
      BY <1>4, <3>3, <3>4, <3>5
  <2>4. SeenStage(r)' /\ Holding(r)'
    BY <1>2, <1>3, <1>4 DEF OpenInv, SeenStage, Holding, At
  <2>5. \A j \in ID : Posts(r, j)' = Posts(r, j)
    BY <1>1, <1>4 DEF Posts, Posting
  <2>6. TableInv(r)'
    <3>1. TableInv(r) /\ \A k \in DOMAIN request[r] : request[r][k].id \in ID
      BY <1>3, ElementTypes DEF OpenInv, Inv
    <3> QED
      BY <1>2, <2>5, <3>1 DEF TableInv
  <2> QED
    BY <1>2, <1>3, <2>2, <2>3, <2>4, <2>6 DEF OpenInv
<1>9. \A q \in Apps : Open(q)' => OpenInv(q)'
  BY <1>3, <1>8, AppStoreByte, OpenFrame DEF Inv
<1>10. (\A q \in Apps : MailInv(q)') /\ WorkInv' /\ HeadTable'
  BY <1>2, <1>3, MailFrame, WorkFrame, HeadTableFrame DEF Inv
<1>11. OwnInv'
  <2>1. \A q \in Apps, n \in Request : Has(q, n)' => Has(q, n)
    BY <1>2, <1>3 DEF Has, HeadSame
  <2>2. \A q \in Apps : Open(q)' => Open(q)
    BY <1>3, AppStoreByte
  <2> QED
    BY <1>2, <2>1, <2>2, OwnFrame DEF Inv, OwnInv
<1>12. AnswerIsTrue'
  BY <1>2 DEF Inv, AnswerIsTrue
<1> QED
  BY <1>5, <1>6, <1>7, <1>9, <1>10, <1>11, <1>12 DEF Inv

\* What the head stores is what the request it works on has come to.
LEMMA HeadStoreByte ==
  ASSUME Inv, StoreField(TheHead)
  PROVE  /\ pc[TheHead] \in {"ACTV", "SCES", "FAIL"}
         /\ pc'[TheHead] = IF pc[TheHead] = "ACTV" THEN "copy" ELSE "listen"
         /\ source \in Apps /\ id[TheHead] \in ID
         /\ \A q \in Apps : /\ pc'[q] = pc[q] /\ id'[q] = id[q] /\ Open(q)' = Open(q)
                            /\ q # source => status'[q] = status[q]
         /\ \A j \in ID : j # id[TheHead] => status'[source][j] = status[source][j]
         /\ Open(source) =>
              /\ Works(source, id[TheHead])
              /\ status'[source][id[TheHead]] = [avl |-> "NAVL", val |-> pc[TheHead]]
         /\ pc[TheHead] = "ACTV" =>
              id'[TheHead] = id[TheHead] /\ source' = source /\ serving' = serving
<1> USE Processes
<1>1. /\ pc[TheHead] \in Field /\ pc[TheHead] \in {"ACTV", "SCES", "FAIL"}
      /\ Then(pc[TheHead]) = IF pc[TheHead] = "ACTV" THEN "copy" ELSE "listen"
  BY StoreFieldStep, ThenPlace DEF Inv, Final
<1>2. Owner(TheHead) = source /\ source \in Apps /\ id[TheHead] \in ID
  BY OwnerType DEF Inv, Owner
<1>3. status' = [status EXCEPT ![source][id[TheHead]] = SetField(copy[TheHead], pc[TheHead])]
  BY <1>2 DEF StoreField
<1>4. ASSUME NEW q \in Apps
      PROVE  /\ pc'[q] = pc[q] /\ id'[q] = id[q] /\ Open(q)' = Open(q)
             /\ q # source => status'[q] = status[q]
  <2>1. pc'[q] = pc[q] /\ id'[q] = id[q]
    BY StoreFieldStep
  <2>2. q # source => status'[q] = status[q]
    BY <1>3 DEF Inv, TypeOK
  <2> QED
    BY <2>1, <2>2 DEF Open, Ending
<1>5. \A j \in ID : status'[source][j] = IF j = id[TheHead]
                                         THEN SetField(copy[TheHead], pc[TheHead])
                                         ELSE status[source][j]
  BY <1>2, StoreFieldStep
<1>6. ASSUME Open(source)
      PROVE  /\ Works(source, id[TheHead])
             /\ status'[source][id[TheHead]] = [avl |-> "NAVL", val |-> pc[TheHead]]
  <2>1. Works(source, id[TheHead])
    BY <1>1 DEF Works, Working, Copying, Final
  <2>2. IdStage(source, id[TheHead])
    BY <1>2, <1>6 DEF Inv, OpenInv
  <2>3. /\ copy[TheHead] = status[source][id[TheHead]]
        /\ copy[TheHead].avl = "NAVL" /\ copy[TheHead] \in Byte
    BY <1>2, <2>1, <2>2, StoreFieldStep, OwnerType DEF IdStage, Inv
  <2>4. SetField(copy[TheHead], pc[TheHead]) = [avl |-> "NAVL", val |-> pc[TheHead]]
    BY <1>1, <2>3, SetFieldValue DEF Availability
  <2> QED
    BY <1>2, <1>5, <2>1, <2>4
<1>7. pc[TheHead] = "ACTV" =>
        id'[TheHead] = id[TheHead] /\ source' = source /\ serving' = serving
  BY <1>1, StoreFieldStep DEF StoreField, heads
<1>8. pc'[TheHead] = IF pc[TheHead] = "ACTV" THEN "copy" ELSE "listen"
  BY <1>1, StoreFieldStep
<1> QED
  BY <1>1, <1>2, <1>4, <1>5, <1>6, <1>7, <1>8

LEMMA HeadStoreInv ==
  ASSUME Inv, StoreField(TheHead)
  PROVE  Inv'
<1> USE Processes
<1>0. PICK i \in ID, r \in Apps : i = id[TheHead] /\ r = source
  BY HeadStoreByte
<1>1. /\ request' = request /\ table' = table /\ net' = net /\ holder' = holder
      /\ seen' = seen /\ reqCnt' = reqCnt /\ sent' = sent /\ lent' = lent
      /\ spoilt' = spoilt /\ told' = told /\ outcome' = outcome /\ hrequest' = hrequest
  BY DEF StoreField, mine, msgs, history, Forget, heads
<1>2. /\ pc[TheHead] \in {"ACTV", "SCES", "FAIL"}
      /\ pc'[TheHead] = IF pc[TheHead] = "ACTV" THEN "copy" ELSE "listen"
      /\ pc[TheHead] = "ACTV" => id'[TheHead] = i /\ source' = r /\ serving' = serving
  BY <1>0, HeadStoreByte
<1>3. \A q \in Apps : pc'[q] = pc[q] /\ id'[q] = id[q] /\ Open(q)' = Open(q)
  BY HeadStoreByte
<1>4. \A q \in Apps, j \in ID : q # r \/ j # i => status'[q][j] = status[q][j]
  BY <1>0, HeadStoreByte
<1>5. Open(r) => Works(r, i) /\ status'[r][i] = [avl |-> "NAVL", val |-> pc[TheHead]]
  BY <1>0, HeadStoreByte
<1>6. TypeOK'
  BY StoreFieldType
<1>7. Places'
  BY <1>2, <1>3 DEF Inv, Places, HeadPlace, Working, Copying
<1>8. Loaded'
  <2>1. \A v \in Who : copy'[v] = IF v = TheHead THEN NoByte ELSE copy[v]
    BY StoreFieldStep
  <2>2. ASSUME NEW v \in Who, pc'[v] \notin Field PROVE copy'[v] = NoByte
    BY <1>3, <2>1, <2>2 DEF Inv, Loaded
  <2>3. ASSUME NEW v \in Who, copy'[v] # NoByte
        PROVE  copy'[v] = status'[Owner(v)'][id'[v]]
    <3>1. v \in Apps /\ copy'[v] = copy[v] /\ id'[v] = id[v] /\ Owner(v)' = v /\ Owner(v) = v
      BY <1>3, <2>1, <2>3 DEF Owner
    <3>2. copy[v] = status[v][id[v]] /\ pc[v] \in Field
      BY <2>3, <3>1 DEF Inv, Loaded, NoLostUpdate
    <3>3. ASSUME v = r PROVE id[v] # i
      <4>1. Open(r) /\ pc[r] \in Posting \cup Clearing
        BY <3>1, <3>2, <3>3 DEF Inv, Places, AppPlace, Field, State, Availability, Posting,
                                Clearing, Open, Ending
      <4>2. IdStage(r, i) /\ Works(r, i)
        BY <1>5, <4>1 DEF Inv, OpenInv
      <4>3. ~Posts(r, i) /\ ~Clears(r, i)
        BY <4>2 DEF IdStage
      <4> QED
        BY <3>3, <4>1, <4>3 DEF Posts, Clears
    <3>4. id[v] \in ID
      BY <3>1, Types DEF Inv
    <3> QED
      BY <1>4, <3>1, <3>2, <3>3, <3>4
  <2> QED
    BY <2>2, <2>3 DEF Loaded, NoLostUpdate
<1>9. ASSUME NEW q \in Apps, Open(q)' PROVE OpenInv(q)'
  <2>1. Open(q) /\ OpenInv(q)
    BY <1>3, <1>9 DEF Inv
  <2>2. \A j \in ID : IdStage(q, j)
    BY <2>1 DEF OpenInv
  <2>3. \A j \in ID : /\ Posts(q, j)' = Posts(q, j) /\ Clears(q, j)' = Clears(q, j)
                      /\ Mailed(q, j)' = Mailed(q, j)
    BY <1>1, <1>3 DEF Posts, Clears, Mailed
  <2>4. ASSUME NEW j \in ID, q # r \/ j # i PROVE IdStage(q, j)'
    <3>1. ~Works(q, j) /\ ~Works(q, j)' /\ status'[q][j] = status[q][j]
      BY <1>0, <1>2, <1>4, <2>4 DEF Works, Working, Copying, Final
    <3> QED
      BY <1>1, <1>3, <2>2, <2>3, <3>1 DEF IdStage
  <2>5. ASSUME q = r PROVE IdStage(q, i)'
    <3>1. Works(r, i) /\ status'[r][i] = [avl |-> "NAVL", val |-> pc[TheHead]]
      BY <1>5, <2>1, <2>5
    <3>2. /\ holder[r][i] # 0 /\ ~Posts(r, i) /\ ~Clears(r, i) /\ ~Mailed(r, i)
          /\ serving = holder[r][i]
      BY <2>2, <2>5, <3>1 DEF IdStage
    <3>3. CASE pc[TheHead] = "ACTV"
      <4>1. Works(r, i)'
        BY <1>2, <3>3 DEF Works, Working, Copying
      <4> QED
        BY <1>1, <1>2, <2>3, <2>5, <3>1, <3>2, <3>3, <4>1 DEF IdStage
    <3>4. CASE pc[TheHead] \in Final
      <4>1. ~Works(r, i)'
        BY <1>2, <3>4 DEF Works, Working, Copying, Final
      <4>2. outcome[holder[r][i]] = pc[TheHead]
        BY <3>2, <3>4 DEF Inv, WorkInv
      <4> QED
        BY <1>1, <2>3, <2>5, <3>1, <3>2, <3>4, <4>1, <4>2 DEF IdStage
    <3> QED
      BY <1>2, <3>3, <3>4 DEF Final
  <2>6. SeenStage(q)'
    <3> SUFFICES ASSUME pc[q] = "test"
                 PROVE  SeenStage(q)'
      BY <1>3 DEF SeenStage, At
    <3>1. PICK j \in ID : j = id[q]
      BY Types DEF Inv
    <3>2. SeenStage(q) /\ id'[q] = j
      BY <1>3, <2>1, <3>1 DEF OpenInv
    <3>3. ASSUME seen[q] \in Final
          PROVE  ~Works(q, j)' /\ status'[q][j].val = seen[q]
      <4>1. ~Works(q, j) /\ status[q][j].val = seen[q]
        BY <3>1, <3>2, <3>3 DEF SeenStage, At
      <4>2. q # r \/ j # i
        BY <1>0, <1>2, <4>1 DEF Works, Working, Copying, Final
      <4> QED
        BY <1>0, <1>2, <1>4, <4>1, <4>2 DEF Works, Working, Copying, Final
    <3> QED
      BY <1>1, <2>3, <3>1, <3>2, <3>3 DEF SeenStage, At
  <2>7. Holding(q)' /\ TableInv(q)'
    <3>1. TableInv(q) /\ \A k \in DOMAIN request[q] : request[q][k].id \in ID
      BY <2>1, ElementTypes DEF OpenInv, Inv
    <3> QED
      BY <1>1, <2>1, <2>3, <3>1 DEF OpenInv, Holding, TableInv
  <2> QED
    BY <1>1, <2>1, <2>4, <2>5, <2>6, <2>7 DEF OpenInv
<1>10. (\A q \in Apps : MailInv(q)') /\ WorkInv'
  BY <1>0, <1>1, <1>2 DEF Inv, MailInv, WorkInv, Working, Copying, Final
<1>11. HeadTable'
  BY <1>0, <1>1, <1>2 DEF Inv, HeadTable, Copying
<1>12. OwnInv'
  <2>1. \A q \in Apps, n \in Request : Has(q, n)' => Has(q, n)
    BY <1>0, <1>1, <1>2 DEF Has, Working, Copying, Final
  <2> QED
    BY <1>1, <1>3, <2>1, OwnFrame DEF Inv, OwnInv
<1>13. AnswerIsTrue'
  BY <1>1 DEF Inv, AnswerIsTrue
<1> QED
  BY <1>6, <1>7, <1>8, <1>9, <1>10, <1>11, <1>12, <1>13 DEF Inv

\* A step of one process that changes no byte.
LEMMA AppMove ==
  ASSUME Inv, NEW r \in Apps,
         HeadSame, hrequest' = hrequest, copy' = copy, status' = status,
         \A q \in Apps : q # r => SameFor(q),
         pc[r] \notin Field, pc'[r] \in AppPlace,
         TypeOK', Open(r)' => OpenInv(r)', MailInv(r)', OwnInv', AnswerIsTrue'
  PROVE  Inv'
<1> USE Processes
<1>1. Places'
  BY DEF Inv, Places, SameFor, HeadSame
<1>2. Loaded'
  <2>1. \A v \in Who : v # r => pc'[v] = pc[v] /\ id'[v] = id[v]
    BY DEF SameFor, HeadSame
  <2>2. copy[r] = NoByte /\ \A v \in Who : Owner(v)' = Owner(v)
    BY DEF Inv, Loaded, HeadSame, Owner
  <2> QED
    BY <2>1, <2>2 DEF Inv, Loaded, NoLostUpdate
<1>3. ASSUME NEW q \in Apps, q # r, Open(q)' PROVE OpenInv(q)'
  BY <1>3, OpenFrame DEF Inv, Open, Ending, SameFor
<1>4. ASSUME NEW q \in Apps, q # r PROVE MailInv(q)'
  BY <1>4, MailFrame DEF Inv, SameFor
<1>5. WorkInv' /\ HeadTable'
  BY WorkFrame, HeadTableFrame DEF Inv
<1> QED
  BY <1>1, <1>2, <1>3, <1>4, <1>5 DEF Inv

\* Where a process runs, its IDs are in nobody's hands but the head's.
LEMMA Running ==
  ASSUME Inv, NEW r \in Apps, pc[r] \in {"run", "test"}
  PROVE  /\ Open(r) /\ OpenInv(r) /\ pc[r] \notin Field
         /\ \A i \in ID : IdStage(r, i) /\ ~Posts(r, i) /\ ~Clears(r, i)
BY DEF Inv, OpenInv, Open, Ending, Field, State, Availability, Posts, Clears, Posting, Clearing

\* As long as an ID stands for nothing, the array has room for one more element.
LEMMA RoomInArray ==
  ASSUME TypeOK, NEW r \in Apps, TableInv(r), NEW i \in ID, holder[r][i] = 0
  PROVE  Len(request[r]) + 1 \in 1 .. MaxNum
<1> DEFINE D == DOMAIN request[r]
           f == [k \in D |-> request[r][k].id]
<1>1. D = 1 .. Len(request[r]) /\ Len(request[r]) \in Nat
  BY ElementTypes
<1>2. \A k \in D : request[r][k].id \in ID \ {i}
  BY ElementTypes DEF TableInv
<1>3. f \in [D -> ID \ {i}]
  BY <1>2
<1>4. \A k, l \in D : f[k] = f[l] => k = l
  <2>1. ASSUME NEW k \in D PROVE table[r][f[k]].idx = k
    <3>1. table[r][request[r][k].id] = [all |-> TRUE, idx |-> k]
      BY DEF TableInv
    <3> QED
      BY <3>1
  <2> HIDE DEF f
  <2> QED
    BY <2>1
<1>5. IsFiniteSet(D) /\ Cardinality(D) = Len(request[r])
  BY <1>1, FS_Interval
<1>6. IsFiniteSet(ID) /\ Cardinality(ID) = MaxNum
  <2>1. 0 \in Int /\ MaxNum - 1 \in Int /\ MaxNum \in Nat \ {0}
    BY SizesAssumption
  <2> QED
    BY <2>1, FS_Interval DEF ID
<1>7. IsFiniteSet(ID \ {i}) /\ Cardinality(ID \ {i}) = MaxNum - 1
  BY <1>6, FS_RemoveElement
<1> HIDE DEF D, f
<1>8. ~(MaxNum - 1 < Len(request[r]))
  <2> SUFFICES ASSUME Cardinality(ID \ {i}) < Cardinality(D)
               PROVE  FALSE
    BY <1>5, <1>7
  <2> QED
    BY <1>3, <1>4, <1>5, <1>7, FS_PigeonHole
<1> QED
  BY <1>1, <1>8, SizesAssumption

\* FTI_GetRequestID hands out an ID that stands for nothing.
LEMMA NextIDIsFree ==
  ASSUME Inv, NEW r \in Apps, NEW i \in ID, At(r, "run"), i \in NextIDs(r)
  PROVE  /\ holder[r][i] = 0 /\ ~Mailed(r, i) /\ ~Works(r, i)
         /\ status[r][i] = [avl |-> "IAVL", val |-> "NINI"]
<1>1. OpenInv(r) /\ IdStage(r, i) /\ ~Posts(r, i) /\ ~Clears(r, i)
  BY Running DEF At
<1>2. CASE reqCnt[r] < MaxNum
  <2>1. i = reqCnt[r] /\ i \in Nat
    BY <1>2, Processes DEF NextIDs
  <2>2. holder[r][i] = 0
    BY <1>1, <2>1 DEF OpenInv, Holding
  <2> QED
    BY <1>1, <2>2 DEF IdStage
<1>3. CASE ~(reqCnt[r] < MaxNum)
  <2>1. status[r][i].avl = "IAVL"
    BY <1>3 DEF NextIDs
  <2>2. ~Mailed(r, i) /\ ~Works(r, i)
    BY <1>1, <2>1 DEF IdStage
  <2>3. holder[r][i] = 0
    BY <1>1, <2>1, <2>2 DEF IdStage
  <2> QED
    BY <1>1, <2>3 DEF IdStage
<1> QED
  BY <1>2, <1>3

\* Appending an element leaves the ones before it.
LEMMA AppendElement ==
  ASSUME NEW S, NEW s \in Seq(S), NEW e \in S
  PROVE  /\ Append(s, e) \in Seq(S)
         /\ DOMAIN s = 1 .. Len(s) /\ Len(s) \in Nat
         /\ DOMAIN Append(s, e) = 1 .. Len(s) + 1
         /\ \A k \in 1 .. Len(s) : Append(s, e)[k] = s[k]
         /\ Append(s, e)[Len(s) + 1] = e
OBVIOUS

LEMMA SendFileType ==
  ASSUME Inv, NEW r \in Apps, NEW i \in ID, SendFile(r, i)
  PROVE  TypeOK'
<1> USE Processes DEF SendFile, Goto, shared, msgs, heads
<1>1. OpenInv(r) /\ holder[r][i] = 0
  BY Running, NextIDIsFree DEF At
<1>2. Len(request[r]) + 1 \in 1 .. MaxNum
  BY <1>1, RoomInArray DEF Inv, OpenInv
<1>3. pc' \in [Who -> Where] /\ id' \in [Who -> ID]
  BY DEF Inv, TypeOK, Where, State, Availability
<1>4. reqCnt' \in [Apps -> 0 .. MaxNum]
  <2>1. reqCnt \in [Apps -> 0 .. MaxNum] /\ MaxNum \in Nat
    BY SizesAssumption DEF Inv, TypeOK
  <2> QED
    BY <2>1
<1>5. request' \in [Apps -> Seq([id : ID, buf : 0 .. MaxSends])]
  <2>1. [id |-> i, buf |-> 0] \in [id : ID, buf : 0 .. MaxSends]
    BY BoundsAssumption, 0 \in 0 .. MaxSends
  <2>2. request[r] \in Seq([id : ID, buf : 0 .. MaxSends])
    BY DEF Inv, TypeOK
  <2>3. Append(request[r], [id |-> i, buf |-> 0]) \in Seq([id : ID, buf : 0 .. MaxSends])
    BY <2>1, <2>2, AppendElement
  <2> QED
    BY <2>3 DEF Inv, TypeOK
<1>6. table' \in [Apps -> [ID -> [all : BOOLEAN, idx : 0 .. MaxNum]]]
  <2>1. table \in [Apps -> [ID -> [all : BOOLEAN, idx : 0 .. MaxNum]]]
    BY DEF Inv, TypeOK
  <2>2. [all |-> TRUE, idx |-> Len(request[r]) + 1] \in [all : BOOLEAN, idx : 0 .. MaxNum]
    BY <1>2
  <2> QED
    BY <2>1, <2>2
<1>7. sent' \in 0 .. MaxSends /\ holder' \in [Apps -> [ID -> 0 .. MaxSends]]
  <2>1. sent + 1 \in 0 .. MaxSends
    BY BoundsAssumption DEF Inv, TypeOK
  <2> QED
    BY <2>1 DEF Inv, TypeOK
<1> QED
  BY <1>3, <1>4, <1>5, <1>6, <1>7 DEF Inv, TypeOK

LEMMA SendFileInv ==
  ASSUME Inv, NEW r \in Apps, NEW i \in ID, SendFile(r, i)
  PROVE  Inv'
<1> USE Processes
<1> DEFINE e == [id |-> i, buf |-> 0]
<1>1. /\ holder[r][i] = 0 /\ ~Mailed(r, i) /\ ~Works(r, i)
      /\ status[r][i] = [avl |-> "IAVL", val |-> "NINI"]
      /\ pc[r] = "run" /\ i \in NextIDs(r)
  BY NextIDIsFree DEF SendFile, At
<1>2. /\ Open(r) /\ OpenInv(r) /\ pc[r] \notin Field
      /\ \A j \in ID : IdStage(r, j) /\ ~Posts(r, j) /\ ~Clears(r, j)
  BY <1>1, Running
<1>3. TypeOK /\ OwnInv /\ MailInv(r)
  BY DEF Inv
<1>4. /\ HeadSame /\ hrequest' = hrequest /\ copy' = copy /\ status' = status
      /\ net' = net /\ lent' = lent /\ spoilt' = spoilt /\ told' = told /\ outcome' = outcome
  BY <1>3 DEF SendFile, Goto, TypeOK, HeadSame, heads, shared, msgs
<1>5. \A q \in Apps : q # r => SameFor(q)
  BY <1>3, <1>4 DEF SendFile, Goto, TypeOK, SameFor
<1>6. /\ pc'[r] = "NAVL" /\ id'[r] = i /\ sent' = sent + 1 /\ seen' = seen
      /\ reqCnt'[r] = IF reqCnt[r] < MaxNum THEN reqCnt[r] + 1 ELSE reqCnt[r]
      /\ request'[r] = Append(request[r], e)
  BY <1>3 DEF SendFile, Goto, TypeOK
<1>7. /\ \A j \in ID : holder'[r][j] = IF j = i THEN sent + 1 ELSE holder[r][j]
      /\ \A j \in ID : table'[r][j] = IF j = i THEN [all |-> TRUE, idx |-> Len(request[r]) + 1]
                                      ELSE table[r][j]
  BY <1>3 DEF SendFile, TypeOK
<1>8. sent \in Nat /\ sent + 1 \in Request
  BY <1>3, BoundsAssumption DEF SendFile, TypeOK, Request
<1>9. \A j \in ID : holder[r][j] # sent + 1
  BY <1>3, <1>8 DEF OwnInv, Has
<1>10. /\ DOMAIN request[r] = 1 .. Len(request[r]) /\ Len(request[r]) \in Nat
       /\ DOMAIN request'[r] = 1 .. Len(request[r]) + 1
       /\ \A k \in DOMAIN request[r] : request'[r][k] = request[r][k]
       /\ request'[r][Len(request[r]) + 1] = e
  <2>1. request[r] \in Seq([id : ID, buf : 0 .. MaxSends])
    BY <1>3, Types
  <2>2. e \in [id : ID, buf : 0 .. MaxSends]
    BY BoundsAssumption, 0 \in 0 .. MaxSends
  <2> HIDE DEF e
  <2> QED
    BY <1>6, <2>1, <2>2, AppendElement
<1>11. \A j \in ID : Mailed(r, j)' = Mailed(r, j) /\ Works(r, j)' = Works(r, j)
  BY <1>4 DEF Mailed, Works, HeadSame
<1>12. \A j \in ID : ~Clears(r, j)' /\ (Posts(r, j)' <=> j = i)
  BY <1>6 DEF Clears, Posts, Clearing, Posting
<1>13. ASSUME NEW j \in ID PROVE IdStage(r, j)'
  <2>1. CASE j # i
    BY <1>2, <1>4, <1>7, <1>11, <1>12, <2>1 DEF IdStage, HeadSame
  <2>2. CASE j = i
    <3>1. holder'[r][i] # 0 /\ outcome'[holder'[r][i]] = "none"
      BY <1>3, <1>4, <1>7, <1>8 DEF OwnInv
    <3> QED
      BY <1>1, <1>4, <1>6, <1>11, <1>12, <2>2, <3>1 DEF IdStage
  <2> QED
    BY <2>1, <2>2
<1>14. Holding(r)'
  <2>1. reqCnt[r] \in 0 .. MaxNum /\ MaxNum \in Nat
    BY <1>3, SizesAssumption DEF TypeOK
  <2>2. \A j \in ID : j \in Nat /\ j < MaxNum
    BY SizesAssumption DEF ID
  <2>3. ASSUME NEW j \in ID, j >= reqCnt'[r] PROVE holder'[r][j] = 0
    BY <1>1, <1>2, <1>6, <1>7, <2>1, <2>2, <2>3 DEF OpenInv, Holding, NextIDs
  <2>4. \A j, k \in ID : holder'[r][j] = holder'[r][k] /\ holder'[r][j] # 0 => j = k
    BY <1>2, <1>7, <1>9 DEF OpenInv, Holding
  <2> QED
    BY <2>3, <2>4 DEF Holding
<1>15. TableInv(r)'
  <2>1. \A k \in DOMAIN request[r] : request[r][k].id \in ID /\ request[r][k].id # i
    BY <1>1, <1>2, <1>3, ElementTypes DEF OpenInv, TableInv
  <2>2. TableInv(r)
    BY <1>2 DEF OpenInv
  <2>3. ASSUME NEW j \in ID, table'[r][j].all
        PROVE  table'[r][j].idx \in DOMAIN request'[r] /\ request'[r][table'[r][j].idx].id = j
    <3>1. CASE j = i
      <4>1. table'[r][j].idx = Len(request[r]) + 1
        BY <1>7, <3>1
      <4>2. request'[r][Len(request[r]) + 1].id = i
        BY <1>10
      <4> QED
        BY <1>10, <3>1, <4>1, <4>2
    <3>2. CASE j # i
      <4>1. table'[r][j] = table[r][j]
        BY <1>7, <3>2
      <4>2. /\ table[r][j].idx \in DOMAIN request[r]
            /\ request[r][table[r][j].idx].id = j
        BY <2>2, <2>3, <4>1 DEF TableInv
      <4>3. /\ table[r][j].idx \in DOMAIN request'[r]
            /\ request'[r][table[r][j].idx] = request[r][table[r][j].idx]
        BY <1>10, <4>2
      <4> QED
        BY <4>1, <4>2, <4>3
    <3> QED
      BY <3>1, <3>2
  <2>4. ASSUME NEW k \in DOMAIN request'[r]
        PROVE  /\ table'[r][request'[r][k].id] = [all |-> TRUE, idx |-> k]
               /\ holder'[r][request'[r][k].id] # 0
               /\ request'[r][k].buf = IF Posts(r, request[r][k].id)' THEN 0
                                       ELSE holder'[r][request'[r][k].id]
    <3>1. CASE k \in DOMAIN request[r]
      <4>1. request'[r][k] = request[r][k] /\ request[r][k].id \in ID /\ request[r][k].id # i
        BY <1>10, <2>1, <3>1
      <4>2. ~Posts(r, request[r][k].id)
        BY <1>2, <4>1
      <4>3. ~Posts(r, request[r][k].id)'
        BY <1>6, <4>1 DEF Posts
      <4>4. /\ table[r][request[r][k].id] = [all |-> TRUE, idx |-> k]
            /\ holder[r][request[r][k].id] # 0
            /\ request[r][k].buf = holder[r][request[r][k].id]
        BY <2>2, <3>1, <4>2 DEF TableInv
      <4>5. /\ table'[r][request'[r][k].id] = table[r][request[r][k].id]
            /\ holder'[r][request'[r][k].id] = holder[r][request[r][k].id]
        BY <1>7, <4>1
      <4> QED
        BY <4>1, <4>3, <4>4, <4>5
    <3>2. CASE k = Len(request[r]) + 1
      <4>1. request'[r][k].id = i /\ request'[r][k].buf = 0
        BY <1>10, <3>2
      <4>2. Posts(r, request[r][k].id)'
        BY <1>6, <4>1 DEF Posts, Posting
      <4>3. table'[r][i] = [all |-> TRUE, idx |-> k] /\ holder'[r][i] # 0
        <5>1. holder'[r][i] = sent + 1 /\ sent + 1 # 0
          BY <1>7, <1>8
        <5>2. table'[r][i] = [all |-> TRUE, idx |-> Len(request[r]) + 1]
          BY <1>7
        <5> QED
          BY <3>2, <5>1, <5>2
      <4>4. /\ table'[r][request'[r][k].id] = [all |-> TRUE, idx |-> k]
            /\ holder'[r][request'[r][k].id] # 0
        BY <4>1, <4>3
      <4>5. request'[r][k].buf = IF Posts(r, request[r][k].id)' THEN 0
                                 ELSE holder'[r][request'[r][k].id]
        BY <4>1, <4>2
      <4> QED
        BY <4>4, <4>5
    <3> QED
      BY <1>10, <3>1, <3>2
  <2>5. \A j \in ID : Posts(r, j)' => table'[r][j].all
    BY <1>7, <1>12
  <2> QED
    BY <2>3, <2>4, <2>5 DEF TableInv
<1>16. OpenInv(r)'
  <2>1. SeenStage(r)'
    BY <1>6 DEF SeenStage, At
  <2>2. \A k \in DOMAIN net'[r] : net'[r][k].n = holder'[r][net'[r][k].id]
    <3>1. \A k \in DOMAIN net[r] : net[r][k].id \in ID /\ net[r][k].id # i
      BY <1>1, <1>3, ElementTypes DEF Mailed
    <3> QED
      BY <1>2, <1>4, <1>7, <3>1 DEF OpenInv
  <2> QED
    BY <1>13, <1>14, <1>15, <2>1, <2>2 DEF OpenInv
<1>17. OwnInv'
  <2>1. ASSUME NEW q \in Apps, NEW n \in Request, Has(q, n)'
        PROVE  Has(q, n) \/ (q = r /\ n = sent + 1)
    <3>1. CASE q # r
      BY <1>4, <1>5, <2>1, <3>1 DEF Has, SameFor, HeadSame
    <3>2. CASE q = r
      <4>1. n # 0
        BY DEF Request
      <4>2. (\E j \in ID : holder'[r][j] = n) => (\E j \in ID : holder[r][j] = n) \/ n = sent + 1
        BY <1>7
      <4>3. (\E k \in DOMAIN request'[r] : request'[r][k].buf = n)
              => (\E k \in DOMAIN request[r] : request[r][k].buf = n)
        BY <1>10, <4>1
      <4> QED
        BY <1>4, <2>1, <3>2, <4>2, <4>3 DEF Has, HeadSame
    <3> QED
      BY <3>1, <3>2
  <2>2. \A q \in Apps : Open(q)' = Open(q)
    BY <1>1, <1>5, <1>6 DEF Open, Ending, SameFor
  <2>3. \A n \in Request : n \in Nat
    BY DEF Request
  <2>4. ASSUME NEW q \in Apps, NEW n \in Request, Has(q, n)'
        PROVE  n <= sent' /\ (Open(q)' => n \notin spoilt') /\ \A p \in Apps : Has(p, n)' => p = q
    <3>1. \A p \in Apps : Has(p, n) => n <= sent /\ (Open(p) => n \notin spoilt)
      BY <1>3 DEF OwnInv
    <3>2. CASE n = sent + 1
      <4>1. \A p \in Apps : ~Has(p, n)
        BY <1>8, <3>1, <3>2
      <4>2. n \notin spoilt
        BY <1>3, <1>8, <3>2 DEF OwnInv
      <4> QED
        BY <1>4, <1>6, <1>8, <2>1, <2>4, <3>2, <4>1, <4>2
    <3>3. CASE n # sent + 1
      <4>1. Has(q, n) /\ \A p \in Apps : Has(p, n)' => Has(p, n)
        BY <2>1, <2>4, <3>3
      <4>2. n <= sent'
        BY <1>6, <1>8, <2>3, <3>1, <4>1
      <4> QED
        BY <1>3, <1>4, <2>2, <3>1, <4>1, <4>2 DEF OwnInv
    <3> QED
      BY <3>2, <3>3
  <2>5. \A n \in Request : n > sent' => n \notin spoilt' /\ outcome'[n] = "none"
    BY <1>3, <1>4, <1>6, <1>8, <2>3 DEF OwnInv
  <2> QED
    BY <1>3, <1>4, <2>4, <2>5 DEF OwnInv
<1>18. MailInv(r)' /\ AnswerIsTrue'
  BY <1>3, <1>4, MailFrame DEF Inv, AnswerIsTrue
<1> QED
  BY <1>2, <1>4, <1>5, <1>6, <1>16, <1>17, <1>18, SendFileType, AppMove
     DEF AppPlace, Posting

\* MPI_Isend sends the message, and the element keeps its buffer.
LEMMA IsendInv ==
  ASSUME Inv, NEW r \in Apps, Isend(r)
  PROVE  Inv'
<1> USE Processes
<1>0. PICK i \in ID : i = id[r]
  BY Types DEF Inv
<1>1. PICK n, k : n = holder[r][i] /\ k = table[r][i].idx
  OBVIOUS
<1>2. /\ n \in Request /\ k \in DOMAIN request[r]
      /\ Open(r) /\ OpenInv(r) /\ Posts(r, i) /\ IdStage(r, i) /\ pc[r] = "isend"
      /\ request[r][k].id = i
      /\ [id |-> i, n |-> n] \in [id : ID, n : Request]
      /\ net'[r] = Append(net[r], [id |-> i, n |-> n])
      /\ DOMAIN request'[r] = DOMAIN request[r]
      /\ \A l \in DOMAIN request[r] :
           /\ request'[r][l].id = request[r][l].id
           /\ request'[r][l].buf = IF l = k THEN n ELSE request[r][l].buf
      /\ request'[r] \in Seq([id : ID, buf : 0 .. MaxSends])
  <2>1. pc[r] = "isend" /\ Open(r) /\ OpenInv(r) /\ Posts(r, i) /\ TypeOK
    BY <1>0 DEF Isend, At, Inv, Open, Ending, Posts, Posting
  <2>2. IdStage(r, i) /\ n # 0
    BY <1>1, <2>1 DEF OpenInv, IdStage
  <2>3. n \in Request
    BY <1>1, <2>1, <2>2, Types, BoundsAssumption DEF Request
  <2>4. k \in DOMAIN request[r] /\ request[r][k].id = i
    BY <1>1, <2>1 DEF OpenInv, TableInv
  <2>5. request[r] \in Seq([id : ID, buf : 0 .. MaxSends])
        /\ request[r][k] \in [id : ID, buf : 0 .. MaxSends] /\ n \in 0 .. MaxSends
    BY <1>1, <2>1, <2>3, <2>4, Types, SeqElement, BoundsAssumption DEF Request
  <2>6. request'[r] = [request[r] EXCEPT ![k] = [@ EXCEPT !.buf = n]]
    BY <1>0, <1>1, <2>1 DEF Isend, TypeOK
  <2>7. \A l \in DOMAIN request[r] : request'[r][l] = IF l = k THEN [request[r][k] EXCEPT !.buf = n]
                                                      ELSE request[r][l]
    BY <2>4, <2>6
  <2>8. [request[r][k] EXCEPT !.buf = n].id = request[r][k].id
        /\ [request[r][k] EXCEPT !.buf = n].buf = n
        /\ [request[r][k] EXCEPT !.buf = n] \in [id : ID, buf : 0 .. MaxSends]
    BY <2>5
  <2>9. request'[r] \in Seq([id : ID, buf : 0 .. MaxSends])
    <3>1. PICK e \in [id : ID, buf : 0 .. MaxSends] : e = [request[r][k] EXCEPT !.buf = n]
      BY <2>8
    <3>2. [request[r] EXCEPT ![k] = e] \in Seq([id : ID, buf : 0 .. MaxSends])
      BY <2>4, <2>5, SeqReplace
    <3>3. request'[r] = [request[r] EXCEPT ![k] = e]
      BY <2>6, <3>1
    <3> QED
      BY <3>2, <3>3
  <2>10. DOMAIN request'[r] = DOMAIN request[r]
    BY <2>6
  <2>11. net'[r] = Append(net[r], [id |-> i, n |-> n])
    BY <1>0, <1>1, <2>1 DEF Isend, TypeOK
  <2> QED
    BY <2>1, <2>2, <2>3, <2>4, <2>7, <2>8, <2>9, <2>10, <2>11
<1>3. TypeOK /\ OwnInv /\ MailInv(r) /\ \A j \in ID : IdStage(r, j)
  BY <1>2 DEF Inv, OpenInv
<1>4. /\ HeadSame /\ hrequest' = hrequest /\ copy' = copy /\ status' = status
      /\ lent' = lent \cup {n} /\ spoilt' = spoilt /\ told' = told /\ outcome' = outcome
      /\ holder' = holder /\ table' = table /\ reqCnt' = reqCnt /\ sent' = sent
  BY <1>0, <1>1, <1>3 DEF Isend, Goto, TypeOK, HeadSame, heads, shared, history
<1>17. n # 0 /\ \A j \in ID : holder[r][j] = n => j = i
  <2>1. Holding(r)
    BY <1>2 DEF OpenInv
  <2>2. n # 0 /\ n = holder[r][i]
    BY <1>1, <1>2 DEF Request
  <2> QED
    BY <1>1, <2>1, <2>2 DEF Holding
<1>5. \A q \in Apps : q # r => SameFor(q)
  BY <1>3, <1>4 DEF Isend, Goto, TypeOK, SameFor
<1>6. pc'[r] = "run" /\ id'[r] = 0
  BY <1>3 DEF Isend, Goto, TypeOK
<1>7. /\ DOMAIN net[r] = 1 .. Len(net[r]) /\ Len(net[r]) \in Nat
      /\ DOMAIN net'[r] = 1 .. Len(net[r]) + 1
      /\ \A l \in DOMAIN net[r] : net'[r][l] = net[r][l]
      /\ net'[r][Len(net[r]) + 1].id = i /\ net'[r][Len(net[r]) + 1].n = n
      /\ net'[r] \in Seq([id : ID, n : Request])
  <2>1. net[r] \in Seq([id : ID, n : Request])
    BY <1>3, Types
  <2>2. PICK m \in [id : ID, n : Request] : m = [id |-> i, n |-> n]
    BY <1>2
  <2>3. m.id = i /\ m.n = n
    BY <2>2
  <2>4. net'[r] = Append(net[r], m)
    BY <1>2, <2>2
  <2> QED
    BY <2>1, <2>3, <2>4, AppendElement
<1>8. TypeOK'
  <2>1. pc' \in [Who -> Where] /\ id' \in [Who -> ID]
    BY <1>3 DEF Isend, Goto, TypeOK, Where
  <2>2. request' \in [Apps -> Seq([id : ID, buf : 0 .. MaxSends])]
    <3>1. request \in [Apps -> Seq([id : ID, buf : 0 .. MaxSends])]
      BY <1>3 DEF TypeOK
    <3>2. request' = [request EXCEPT ![r] = request'[r]]
      BY <3>1 DEF Isend
    <3> QED
      BY <1>2, <3>1, <3>2
  <2>3. net' \in [Apps -> Seq([id : ID, n : Request])]
    <3>1. net \in [Apps -> Seq([id : ID, n : Request])]
      BY <1>3 DEF TypeOK
    <3>2. net' = [net EXCEPT ![r] = net'[r]]
      BY <3>1 DEF Isend
    <3>3. net'[r] \in Seq([id : ID, n : Request])
      BY <1>7
    <3> QED
      BY <3>1, <3>2, <3>3
  <2>4. lent' \subseteq Request
    BY <1>2, <1>3, <1>4 DEF TypeOK
  <2>5. /\ seen' = seen /\ final' = final /\ faults' = faults /\ source' = source
        /\ serving' = serving /\ hrequest' = hrequest /\ copy' = copy /\ status' = status
        /\ spoilt' = spoilt /\ told' = told /\ outcome' = outcome /\ holder' = holder
        /\ table' = table /\ reqCnt' = reqCnt /\ sent' = sent
    BY <1>4 DEF Isend, heads
  <2>6. TypeOK
    BY <1>3
  <2> QED
    BY <2>1, <2>2, <2>3, <2>4, <2>5, <2>6 DEF TypeOK
<1>9. \A j \in ID : Mailed(r, j)' <=> Mailed(r, j) \/ j = i
  <2>1. \A l \in 1 .. Len(net[r]) + 1 : l \in 1 .. Len(net[r]) \/ l = Len(net[r]) + 1
    BY <1>7
  <2>2. \A l \in 1 .. Len(net[r]) : l \in 1 .. Len(net[r]) + 1
    BY <1>7
  <2>3. Len(net[r]) + 1 \in 1 .. Len(net[r]) + 1
    BY <1>7
  <2> QED
    BY <1>7, <2>1, <2>2, <2>3 DEF Mailed
<1>10. \A j \in ID : ~Posts(r, j)' /\ ~Clears(r, j)' /\ Works(r, j)' = Works(r, j)
                     /\ ~Clears(r, j) /\ (Posts(r, j) <=> j = i)
  BY <1>0, <1>2, <1>4, <1>6 DEF Posts, Clears, Works, Posting, Clearing, HeadSame
<1>11. ASSUME NEW j \in ID PROVE IdStage(r, j)'
  <2>1. CASE j # i
    BY <1>3, <1>4, <1>9, <1>10, <2>1 DEF IdStage, HeadSame
  <2>2. CASE j = i
    BY <1>2, <1>4, <1>9, <1>10, <2>2 DEF IdStage
  <2> QED
    BY <2>1, <2>2
<1>12. TableInv(r)'
  <2>1. TableInv(r) /\ \A l \in DOMAIN request[r] : request[r][l].id \in ID
    BY <1>2, <1>3, ElementTypes DEF OpenInv
  <2>2. \A l \in DOMAIN request[r] : request[r][l].id = i => l = k
    <3> SUFFICES ASSUME NEW l \in DOMAIN request[r], request[r][l].id = i
                 PROVE  l = k
      OBVIOUS
    <3>1. table[r][i] = [all |-> TRUE, idx |-> l]
      BY <2>1 DEF TableInv
    <3> QED
      BY <1>1, <3>1
  <2>3. ASSUME NEW l \in DOMAIN request[r]
        PROVE  request'[r][l].buf = holder[r][request[r][l].id]
    <3>1. CASE l = k
      BY <1>1, <1>2, <3>1
    <3>2. CASE l # k
      <4>1. request[r][l].id # i
        BY <2>2, <3>2
      <4>2. request'[r][l].buf = request[r][l].buf
        BY <1>2, <2>3, <3>2
      <4>3. ~Posts(r, request[r][l].id)
        BY <1>0, <4>1 DEF Posts
      <4> QED
        BY <2>1, <4>2, <4>3 DEF TableInv
    <3> QED
      BY <3>1, <3>2
  <2>4. \A l \in DOMAIN request'[r] : ~Posts(r, request[r][l].id)'
    BY <1>6 DEF Posts, Posting
  <2>5. ASSUME NEW l \in DOMAIN request'[r]
        PROVE  /\ table'[r][request'[r][l].id] = [all |-> TRUE, idx |-> l]
               /\ holder'[r][request'[r][l].id] # 0
               /\ request'[r][l].buf = holder'[r][request'[r][l].id]
    <3>1. /\ table[r][request[r][l].id] = [all |-> TRUE, idx |-> l]
          /\ holder[r][request[r][l].id] # 0
      BY <1>2, <2>1 DEF TableInv
    <3> QED
      BY <1>2, <1>4, <2>3, <3>1
  <2>6. ASSUME NEW j \in ID, table'[r][j].all
        PROVE  table'[r][j].idx \in DOMAIN request'[r] /\ request'[r][table'[r][j].idx].id = j
    BY <1>2, <1>4, <2>1, <2>6 DEF TableInv
  <2> QED
    BY <1>10, <2>4, <2>5, <2>6 DEF TableInv
<1>13. OpenInv(r)'
  <2>1. SeenStage(r)'
    BY <1>6 DEF SeenStage, At
  <2>2. Holding(r)'
    BY <1>2, <1>4 DEF OpenInv, Holding
  <2>3. \A l \in DOMAIN net'[r] : net'[r][l].n = holder'[r][net'[r][l].id]
    BY <1>1, <1>2, <1>4, <1>7 DEF OpenInv
  <2> QED
    BY <1>11, <1>12, <2>1, <2>2, <2>3 DEF OpenInv
<1>14. MailInv(r)'
  <2>1. \A l \in DOMAIN net[r] : net[r][l].n # n
    <3> SUFFICES ASSUME NEW l \in DOMAIN net[r]
                 PROVE  net[r][l].n # n
      OBVIOUS
    <3>1. net[r][l].id \in ID /\ net[r][l].id # i
      BY <1>2, <1>3, ElementTypes DEF IdStage, Mailed
    <3>2. net[r][l].n = holder[r][net[r][l].id]
      BY <1>2 DEF OpenInv
    <3> QED
      BY <1>17, <3>1, <3>2
  <2>2. outcome[n] = "none"
    BY <1>1, <1>2 DEF IdStage
  <2>3. pc[TheHead] \in Copying /\ source = r => n # serving
    <3> SUFFICES ASSUME pc[TheHead] \in Copying, source = r
                 PROVE  n # serving
      OBVIOUS
    <3>1. PICK j \in ID : j = id[TheHead]
      BY <1>3, Types
    <3>2. Works(r, j)
      BY <3>1 DEF Works, Working
    <3>3. serving = holder[r][j] /\ j # i
      BY <1>2, <1>3, <3>2 DEF IdStage
    <3> QED
      BY <1>17, <3>3
  <2>4. \A l \in DOMAIN net'[r] : l \in DOMAIN net[r] \/ (net'[r][l].n = n /\ l = Len(net[r]) + 1)
    <3>1. \A l \in 1 .. Len(net[r]) + 1 : l \in 1 .. Len(net[r]) \/ l = Len(net[r]) + 1
      BY <1>7
    <3> QED
      BY <1>7, <3>1
  <2>5. \A l, m \in DOMAIN net'[r] : net'[r][l].n = net'[r][m].n => l = m
    BY <1>3, <1>7, <2>1, <2>4 DEF MailInv
  <2>6. \A l \in DOMAIN net'[r] : outcome'[net'[r][l].n] = "none"
    BY <1>3, <1>4, <1>7, <2>2, <2>4 DEF MailInv
  <2>7. pc'[TheHead] \in Copying /\ source' = r => \A l \in DOMAIN net'[r] : net'[r][l].n # serving'
    BY <1>3, <1>4, <1>7, <2>3, <2>4 DEF MailInv, HeadSame
  <2> QED
    BY <2>5, <2>6, <2>7 DEF MailInv
<1>15. OwnInv'
  <2>1. ASSUME NEW q \in Apps, NEW m \in Request, Has(q, m)' PROVE Has(q, m)
    <3>1. CASE q # r
      BY <1>4, <1>5, <2>1, <3>1 DEF Has, SameFor, HeadSame
    <3>2. CASE q = r
      <4>1. (\E l \in DOMAIN net'[r] : net'[r][l].n = m)
              => (\E l \in DOMAIN net[r] : net[r][l].n = m) \/ m = n
        BY <1>7
      <4>2. (\E l \in DOMAIN request'[r] : request'[r][l].buf = m)
              => (\E l \in DOMAIN request[r] : request[r][l].buf = m) \/ m = n
        BY <1>2
      <4>3. m = n => \E j \in ID : holder[r][j] = m
        BY <1>1
      <4> QED
        BY <1>4, <2>1, <3>2, <4>1, <4>2, <4>3 DEF Has, HeadSame
    <3> QED
      BY <3>1, <3>2
  <2>2. \A q \in Apps : Open(q)' => Open(q)
    BY <1>2, <1>5 DEF Open, Ending, SameFor
  <2>3. ASSUME NEW m \in lent'
        PROVE  \E q \in Apps : \E l \in DOMAIN net'[q] : net'[q][l].n = m
    <3>1. CASE m = n
      BY <1>7, <3>1
    <3>2. CASE m # n
      <4>1. PICK q \in Apps : \E l \in DOMAIN net[q] : net[q][l].n = m
        BY <1>3, <1>4, <2>3, <3>2 DEF OwnInv
      <4>2. PICK l \in DOMAIN net[q] : net[q][l].n = m
        BY <4>1
      <4>3. l \in DOMAIN net'[q] /\ net'[q][l] = net[q][l]
        <5>1. CASE q = r
          BY <1>7, <4>2, <5>1
        <5>2. CASE q # r
          BY <1>5, <4>2, <5>2 DEF SameFor
        <5> QED
          BY <5>1, <5>2
      <4> QED
        BY <4>2, <4>3
    <3> QED
      BY <3>1, <3>2
  <2> QED
    BY <1>3, <1>4, <2>1, <2>2, <2>3, OwnFrame DEF OwnInv
<1>16. AnswerIsTrue'
  BY <1>4 DEF Inv, AnswerIsTrue
<1> QED
  BY <1>2, <1>4, <1>5, <1>6, <1>8, <1>13, <1>14, <1>15, <1>16, AppMove
     DEF AppPlace, Field, State, Availability

\* FTI_GetStageStatus takes note of the state it sees.
LEMMA ReadStatusInv ==
  ASSUME Inv, NEW r \in Apps, NEW i \in ID, ReadStatus(r, i)
  PROVE  Inv'
<1> USE Processes
<1>1. /\ Open(r) /\ OpenInv(r) /\ pc[r] \notin Field /\ pc[r] = "run"
      /\ \A j \in ID : IdStage(r, j) /\ ~Posts(r, j) /\ ~Clears(r, j)
  BY Running DEF ReadStatus, At
<1>2. TypeOK /\ OwnInv /\ MailInv(r)
  BY DEF Inv
<1>3. /\ HeadSame /\ hrequest' = hrequest /\ copy' = copy /\ status' = status
      /\ net' = net /\ lent' = lent /\ spoilt' = spoilt /\ told' = told /\ outcome' = outcome
      /\ holder' = holder /\ table' = table /\ reqCnt' = reqCnt /\ sent' = sent
      /\ request' = request
  BY <1>2 DEF ReadStatus, Goto, TypeOK, HeadSame, heads, shared, msgs, history
<1>4. \A q \in Apps : q # r => SameFor(q)
  BY <1>2, <1>3 DEF ReadStatus, Goto, TypeOK, SameFor
<1>5. pc'[r] = "test" /\ id'[r] = i /\ seen'[r] = status[r][i].val
  BY <1>2 DEF ReadStatus, Goto, TypeOK
<1>6. TypeOK'
  <2>1. status[r][i].val \in State
    BY <1>2, Types DEF Byte
  <2>2. pc' \in [Who -> Where] /\ id' \in [Who -> ID] /\ seen' \in [Apps -> State]
    BY <1>2, <2>1 DEF ReadStatus, Goto, TypeOK, Where
  <2> QED
    BY <1>2, <1>3, <2>2 DEF ReadStatus, TypeOK, heads, msgs, history
<1>7. \A j \in ID : ~Posts(r, j)' /\ ~Clears(r, j)' /\ Works(r, j)' = Works(r, j)
                    /\ Mailed(r, j)' = Mailed(r, j)
  BY <1>3, <1>5 DEF Posts, Clears, Works, Posting, Clearing, HeadSame, Mailed
<1>8. ASSUME NEW j \in ID PROVE IdStage(r, j)'
  BY <1>1, <1>3, <1>7 DEF IdStage, HeadSame
<1>9. SeenStage(r)'
  <2>1. IdStage(r, i) /\ ~Posts(r, i) /\ ~Clears(r, i)
    BY <1>1
  <2>2. status[r][i].val = "NINI" <=> holder[r][i] = 0
    BY <2>1 DEF IdStage, Final
  <2>3. status[r][i].val \in Final \cup {"ACTV"} => ~Mailed(r, i)
    BY <2>1 DEF IdStage, Final
  <2>4. status[r][i].val \in Final => ~Works(r, i)
    BY <2>1 DEF IdStage, Final
  <2> QED
    BY <1>3, <1>5, <1>7, <2>2, <2>3, <2>4 DEF SeenStage, At
<1>10. OpenInv(r)'
  <2>1. TableInv(r) /\ \A k \in DOMAIN request[r] : request[r][k].id \in ID
    BY <1>1, <1>2, ElementTypes DEF OpenInv
  <2>2. TableInv(r)'
    BY <1>1, <1>3, <1>7, <2>1 DEF TableInv
  <2> QED
    BY <1>1, <1>3, <1>8, <1>9, <2>2 DEF OpenInv, Holding
<1>11. OwnInv'
  <2>1. \A q \in Apps, n \in Request : Has(q, n)' => Has(q, n)
    BY <1>3 DEF Has, HeadSame
  <2>2. \A q \in Apps : Open(q)' => Open(q)
    BY <1>1, <1>4 DEF Open, Ending, SameFor
  <2> QED
    BY <1>2, <1>3, <2>1, <2>2, OwnFrame DEF OwnInv
<1>12. MailInv(r)' /\ AnswerIsTrue'
  BY <1>2, <1>3, MailFrame DEF Inv, AnswerIsTrue
<1> QED
  BY <1>1, <1>3, <1>4, <1>5, <1>6, <1>10, <1>11, <1>12, AppMove DEF AppPlace

\* Removing an element moves those behind it up by one.
LEMMA RemoveAtElement ==
  ASSUME NEW S, NEW s \in Seq(S), NEW k \in DOMAIN s
  PROVE  /\ RemoveAt(s, k) \in Seq(S)
         /\ DOMAIN RemoveAt(s, k) = 1 .. Len(s) - 1 /\ Len(RemoveAt(s, k)) = Len(s) - 1
         /\ \A m \in 1 .. Len(s) - 1 : RemoveAt(s, k)[m] = s[IF m < k THEN m ELSE m + 1]
<1> DEFINE front == SubSeq(s, 1, k - 1)
           back == SubSeq(s, k + 1, Len(s))
<1>1. k \in 1 .. Len(s) /\ Len(s) \in Nat /\ k \in Nat
  OBVIOUS
<1>2. /\ front \in Seq(S) /\ Len(front) = k - 1
      /\ \A m \in 1 .. k - 1 : front[m] = s[m]
  BY <1>1
<1>3. /\ back \in Seq(S) /\ Len(back) = Len(s) - k
      /\ \A m \in 1 .. Len(s) - k : back[m] = s[m + k]
  BY <1>1
<1>4. RemoveAt(s, k) = front \o back
  BY DEF RemoveAt
<1> HIDE DEF front, back
<1>5. /\ front \o back \in Seq(S) /\ Len(front \o back) = Len(s) - 1
      /\ DOMAIN (front \o back) = 1 .. Len(s) - 1
  BY <1>1, <1>2, <1>3
<1>6. \A m \in 1 .. Len(s) - 1 : (front \o back)[m] = IF m < k THEN front[m] ELSE back[m - (k - 1)]
  BY <1>1, <1>2, <1>3
<1>7. \A m \in 1 .. Len(s) - 1 : m >= k => back[m - (k - 1)] = s[m + 1]
  <2> SUFFICES ASSUME NEW m \in 1 .. Len(s) - 1, m >= k
               PROVE  back[m - (k - 1)] = s[m + 1]
    OBVIOUS
  <2>1. m - (k - 1) \in 1 .. Len(s) - k /\ m - (k - 1) + k = m + 1
    BY <1>1
  <2> QED
    BY <1>3, <2>1
<1>8. \A m \in 1 .. Len(s) - 1 : m < k => front[m] = s[m]
  BY <1>1, <1>2
<1>9. \A m \in 1 .. Len(s) - 1 : (front \o back)[m] = s[IF m < k THEN m ELSE m + 1]
  <2> SUFFICES ASSUME NEW m \in 1 .. Len(s) - 1
               PROVE  (front \o back)[m] = s[IF m < k THEN m ELSE m + 1]
    OBVIOUS
  <2>1. CASE m < k
    BY <1>6, <1>8, <2>1
  <2>2. CASE ~(m < k)
    <3>1. m >= k
      BY <1>1, <2>2
    <3> QED
      BY <1>6, <1>7, <2>2, <3>1
  <2> QED
    BY <2>1, <2>2
<1> QED
  BY <1>4, <1>5, <1>9

\* A table and an array that describe each other, without the ID that was freed.
Freed(r, i) ==
  /\ request'[r] \in Seq([id : ID, buf : 0 .. MaxSends])
  /\ table'[r] \in [ID -> [all : BOOLEAN, idx : 0 .. MaxNum]]
  /\ \A j \in ID : table'[r][j].all =>
       table'[r][j].idx \in DOMAIN request'[r] /\ request'[r][table'[r][j].idx].id = j
  /\ \A m \in DOMAIN request'[r] :
       /\ table'[r][request'[r][m].id] = [all |-> TRUE, idx |-> m]
       /\ request'[r][m].id # i
       /\ \E l \in DOMAIN request[r] : request'[r][m] = request[r][l]

\* That is what FTI_FreeStageRequest leaves.
LEMMA FreedTable ==
  ASSUME TypeOK, NEW r \in Apps, TableInv(r), NEW i \in ID, table[r][i].all, FreeRequest(r, i)
  PROVE  Freed(r, i)
<1>1. PICK k : k = table[r][i].idx
  OBVIOUS
<1>2. k \in DOMAIN request[r] /\ request[r][k].id = i
  BY <1>1 DEF TableInv
<1>3. PICK s \in Seq([id : ID, buf : 0 .. MaxSends]) : s = request[r]
  BY Types
<1>4. DOMAIN s = 1 .. Len(s) /\ Len(s) \in Nat /\ k \in 1 .. Len(s) /\ k \in Nat
  BY <1>2, <1>3
<1>5. PICK rest : rest = RemoveAt(s, k)
  OBVIOUS
<1>6. request'[r] = rest
  BY <1>1, <1>3, <1>5 DEF FreeRequest, TypeOK
<1>7. /\ rest \in Seq([id : ID, buf : 0 .. MaxSends])
      /\ DOMAIN rest = 1 .. Len(s) - 1 /\ Len(rest) = Len(s) - 1
      /\ \A m \in 1 .. Len(s) - 1 : rest[m] = s[IF m < k THEN m ELSE m + 1]
  BY <1>2, <1>3, <1>5, RemoveAtElement
<1> DEFINE Moved(j) == {m \in k .. Len(rest) : rest[m].id = j}
           New(j) == [all |-> j # i /\ table[r][j].all,
                      idx |-> IF Moved(j) = {} THEN table[r][j].idx
                              ELSE CHOOSE m \in Moved(j) : TRUE]
<1>8. table'[r] = [j \in ID |-> New(j)]
  BY <1>1, <1>3, <1>5 DEF FreeRequest, TypeOK
<1>9. \A l \in 1 .. Len(s) : /\ s[l].id \in ID
                             /\ table[r][s[l].id].all /\ table[r][s[l].id].idx = l
  <2> SUFFICES ASSUME NEW l \in 1 .. Len(s)
               PROVE  s[l].id \in ID /\ table[r][s[l].id].all /\ table[r][s[l].id].idx = l
    OBVIOUS
  <2>1. s[l].id \in ID
    BY <1>3, <1>4, ElementTypes
  <2>2. table[r][s[l].id] = [all |-> TRUE, idx |-> l]
    BY <1>3, <1>4 DEF TableInv
  <2> QED
    BY <2>1, <2>2
<1>10. \A l, m \in 1 .. Len(s) : s[l].id = s[m].id => l = m
  BY <1>9
<1> DEFINE old(m) == IF m < k THEN m ELSE m + 1
<1>11. \A m \in 1 .. Len(s) - 1 : old(m) \in 1 .. Len(s) /\ old(m) # k /\ rest[m] = s[old(m)]
  BY <1>4, <1>7
<1>12. \A l, m \in 1 .. Len(s) - 1 : old(l) = old(m) => l = m
  BY <1>4
<1>13. \A m \in 1 .. Len(s) - 1 : rest[m].id \in ID /\ rest[m].id # i
  <2> SUFFICES ASSUME NEW m \in 1 .. Len(s) - 1
               PROVE  rest[m].id \in ID /\ rest[m].id # i
    OBVIOUS
  <2>1. PICK l \in 1 .. Len(s) : l # k /\ rest[m] = s[l]
    BY <1>11
  <2>2. s[l].id \in ID /\ s[l].id # s[k].id
    BY <1>4, <1>9, <1>10, <2>1
  <2> QED
    BY <1>2, <1>3, <2>1, <2>2
<1>14. \A l, m \in 1 .. Len(s) - 1 : rest[l].id = rest[m].id => l = m
  <2> SUFFICES ASSUME NEW l \in 1 .. Len(s) - 1, NEW m \in 1 .. Len(s) - 1,
                      rest[l].id = rest[m].id
               PROVE  l = m
    OBVIOUS
  <2> HIDE DEF old
  <2>1. PICK a \in 1 .. Len(s) : a = old(l) /\ rest[l] = s[a]
    BY <1>11
  <2>2. PICK b \in 1 .. Len(s) : b = old(m) /\ rest[m] = s[b]
    BY <1>11
  <2>3. a = b
    BY <1>10, <2>1, <2>2
  <2> QED
    BY <1>12, <2>1, <2>2, <2>3
<1>15. ASSUME NEW m \in 1 .. Len(s) - 1, NEW j \in ID, j = rest[m].id
       PROVE  New(j).all /\ New(j).idx = m /\ table'[r][j] = [all |-> TRUE, idx |-> m]
  <2>1. j # i /\ table[r][j].all /\ table[r][j].idx = old(m) /\ old(m) \in 1 .. Len(s)
    <3> HIDE DEF old
    <3>1. old(m) \in 1 .. Len(s) /\ rest[m] = s[old(m)]
      BY <1>11, <1>15
    <3>2. PICK a \in 1 .. Len(s) : a = old(m)
      BY <3>1
    <3>3. s[a].id = j
      BY <1>15, <3>1, <3>2
    <3>4. j # i
      BY <1>13, <1>15
    <3> QED
      BY <1>9, <3>1, <3>2, <3>3, <3>4
  <2>2. CASE m >= k
    <3>1. Moved(j) = {m}
      BY <1>4, <1>7, <1>14, <1>15, <2>2
    <3>2. New(j) = [all |-> TRUE, idx |-> m]
      BY <2>1, <3>1
    <3> QED
      BY <1>8, <3>2
  <2>3. CASE m < k
    <3>1. Moved(j) = {}
      <4> SUFFICES ASSUME NEW l \in k .. Len(rest), rest[l].id = j
                   PROVE  FALSE
        OBVIOUS
      <4>1. l \in 1 .. Len(s) - 1 /\ l # m
        BY <1>4, <1>7, <2>3
      <4> QED
        BY <1>14, <1>15, <4>1
    <3>2. New(j) = [all |-> TRUE, idx |-> m]
      BY <2>1, <2>3, <3>1
    <3> QED
      BY <1>8, <3>2
  <2> QED
    BY <1>4, <2>2, <2>3
<1>16. ASSUME NEW j \in ID, table'[r][j].all
       PROVE  \E m \in 1 .. Len(s) - 1 : rest[m].id = j
  <2>1. j # i /\ table[r][j].all
    <3>1. table'[r][j].all = (j # i /\ table[r][j].all)
      BY <1>8
    <3> QED
      BY <1>16, <3>1
  <2>2. PICK l \in 1 .. Len(s) : s[l].id = j
    BY <1>3, <1>4, <2>1 DEF TableInv
  <2>3. l # k
    <3>1. s[k].id = i
      BY <1>2, <1>3
    <3> QED
      BY <2>1, <2>2, <3>1
  <2>4. CASE l < k
    <3>1. l \in 1 .. Len(s) - 1
      BY <1>4, <2>4
    <3>2. rest[l] = s[l]
      BY <1>7, <2>4, <3>1
    <3> QED
      BY <2>2, <3>1, <3>2
  <2>5. CASE l > k
    <3>1. l - 1 \in 1 .. Len(s) - 1 /\ ~(l - 1 < k) /\ l - 1 + 1 = l
      BY <1>4, <2>5
    <3>2. rest[l - 1] = s[l]
      BY <1>7, <3>1
    <3> QED
      BY <2>2, <3>1, <3>2
  <2>6. l < k \/ l > k
    BY <1>4, <2>3
  <2> QED
    BY <2>4, <2>5, <2>6
<1>17. table'[r] \in [ID -> [all : BOOLEAN, idx : 0 .. MaxNum]]
  <2> SUFFICES ASSUME NEW j \in ID
               PROVE  New(j) \in [all : BOOLEAN, idx : 0 .. MaxNum]
    BY <1>8
  <2>1. table[r][j] \in [all : BOOLEAN, idx : 0 .. MaxNum]
    BY Types
  <2>2. CASE Moved(j) = {}
    BY <2>1, <2>2
  <2>3. CASE Moved(j) # {}
    <3>1. PICK m \in k .. Len(rest) : rest[m].id = j
      BY <2>3
    <3>2. m \in 1 .. Len(s) - 1
      BY <1>4, <1>7
    <3>3. New(j).all /\ New(j).idx = m
      BY <1>15, <3>1, <3>2
    <3>4. New(j) = [all |-> New(j).all, idx |-> New(j).idx]
      OBVIOUS
    <3>5. m \in 0 .. MaxNum
      <4>1. table[r][s[m].id].idx = m /\ s[m].id \in ID
        BY <1>4, <1>9, <3>2
      <4>2. table[r][s[m].id] \in [all : BOOLEAN, idx : 0 .. MaxNum]
        BY <4>1, Types
      <4> QED
        BY <4>1, <4>2
    <3> HIDE DEF New
    <3> QED
      BY <3>3, <3>4, <3>5
  <2> QED
    BY <2>2, <2>3
<1> HIDE DEF New, old
<1>18. ASSUME NEW j \in ID, table'[r][j].all
       PROVE  table'[r][j].idx \in DOMAIN rest /\ rest[table'[r][j].idx].id = j
  <2>1. PICK m \in 1 .. Len(s) - 1 : rest[m].id = j
    BY <1>16, <1>18
  <2>2. table'[r][j] = [all |-> TRUE, idx |-> m]
    BY <1>15, <2>1
  <2> QED
    BY <1>7, <2>1, <2>2
<1>19. ASSUME NEW m \in DOMAIN rest
       PROVE  /\ table'[r][rest[m].id] = [all |-> TRUE, idx |-> m] /\ rest[m].id # i
              /\ \E l \in DOMAIN request[r] : rest[m] = request[r][l]
  <2>1. m \in 1 .. Len(s) - 1 /\ rest[m].id \in ID /\ rest[m].id # i
    BY <1>7, <1>13
  <2>2. table'[r][rest[m].id] = [all |-> TRUE, idx |-> m]
    BY <1>15, <2>1
  <2> QED
    BY <1>3, <1>4, <1>11, <2>1, <2>2
<1> QED
  BY <1>6, <1>7, <1>17, <1>18, <1>19 DEF Freed

\* What an answer frees.  No buffer is spoilt by it, and once an ID is given back
\* no element is left of it.
LEMMA AnswerTable ==
  ASSUME Inv, NEW r \in Apps, NEW i \in ID, i = id[r], Answer(r)
  PROVE  /\ spoilt' = spoilt
         /\ request' \in [Apps -> Seq([id : ID, buf : 0 .. MaxSends])]
         /\ table' \in [Apps -> [ID -> [all : BOOLEAN, idx : 0 .. MaxNum]]]
         /\ \A q \in Apps : q # r => request'[q] = request[q] /\ table'[q] = table[q]
         /\ \A j \in ID : table'[r][j].all =>
              table'[r][j].idx \in DOMAIN request'[r] /\ request'[r][table'[r][j].idx].id = j
         /\ \A m \in DOMAIN request'[r] :
              /\ table'[r][request'[r][m].id] = [all |-> TRUE, idx |-> m]
              /\ Ended(seen[r]) => request'[r][m].id # i
              /\ \E l \in DOMAIN request[r] : request'[r][m] = request[r][l]
<1>1. pc[r] = "test" /\ Open(r) /\ OpenInv(r) /\ TypeOK
  BY Running DEF Answer, At, Inv
<1>2. TableInv(r) /\ SeenStage(r) /\ IdStage(r, i) /\ ~Posts(r, i)
  BY <1>1 DEF OpenInv, Posts, Posting
<1>3. /\ request \in [Apps -> Seq([id : ID, buf : 0 .. MaxSends])]
      /\ table \in [Apps -> [ID -> [all : BOOLEAN, idx : 0 .. MaxNum]]]
  BY <1>1 DEF TypeOK
<1>4. CASE table[r][i].all /\ (seen[r] = "PEND" => Taken(r, i))
  <2>1. FreeRequest(r, i)
    BY <1>4 DEF Answer
  <2>2. PICK k \in DOMAIN request[r] : k = table[r][i].idx /\ request[r][k].id = i
    BY <1>2, <1>4 DEF TableInv
  <2>3. request[r][k].buf = holder[r][i] /\ holder[r][i] # 0
    BY <1>2, <2>2 DEF TableInv
  <2>4. request[r][k].buf \notin lent
    <3>1. CASE seen[r] = "PEND"
      BY <1>4, <2>2, <3>1 DEF Taken
    <3>2. CASE seen[r] # "PEND"
      <4>1. seen[r] \in Final \cup {"ACTV"}
        BY <1>1, <1>2, <2>3, <3>2, Types DEF SeenStage, At, State, Final
      <4>2. ~Mailed(r, i)
        BY <1>1, <1>2, <4>1 DEF SeenStage, At
      <4> SUFFICES ASSUME holder[r][i] \in lent
                   PROVE  FALSE
        BY <2>3
      <4>8. PICK q \in Apps : \E l \in DOMAIN net[q] : net[q][l].n = holder[r][i]
        BY DEF Inv, OwnInv
      <4>3. PICK l \in DOMAIN net[q] : net[q][l].n = holder[r][i]
        BY <4>8
      <4>4. holder[r][i] \in Request
        BY <1>1 DEF TypeOK
      <4>5. q = r
        BY <4>3, <4>4 DEF Inv, OwnInv, Has
      <4>6. net[r][l].n = holder[r][net[r][l].id] /\ net[r][l].id \in ID
        BY <1>1, <4>3, <4>5, ElementTypes DEF OpenInv
      <4>7. net[r][l].id = i
        BY <1>1, <2>3, <4>3, <4>5, <4>6 DEF OpenInv, Holding
      <4> QED
        BY <4>2, <4>3, <4>5, <4>7 DEF Mailed
    <3> QED
      BY <3>1, <3>2
  <2>5. spoilt' = spoilt
    BY <2>1, <2>2, <2>4 DEF FreeRequest
  <2>6. /\ request' = [request EXCEPT ![r] = request'[r]]
        /\ table' = [table EXCEPT ![r] = table'[r]]
    BY <1>3, <2>1 DEF FreeRequest
  <2>7. /\ request'[r] \in Seq([id : ID, buf : 0 .. MaxSends])
        /\ table'[r] \in [ID -> [all : BOOLEAN, idx : 0 .. MaxNum]]
        /\ \A j \in ID : table'[r][j].all =>
             table'[r][j].idx \in DOMAIN request'[r] /\ request'[r][table'[r][j].idx].id = j
        /\ \A m \in DOMAIN request'[r] :
             /\ table'[r][request'[r][m].id] = [all |-> TRUE, idx |-> m]
             /\ request'[r][m].id # i
             /\ \E l \in DOMAIN request[r] : request'[r][m] = request[r][l]
    <3>1. TypeOK /\ TableInv(r) /\ table[r][i].all /\ FreeRequest(r, i)
      BY <1>1, <1>2, <1>4, <2>1
    <3>2. Freed(r, i)
      BY <3>1, FreedTable
    <3> QED
      BY <3>2 DEF Freed
  <2>8. \A q \in Apps : q # r => request'[q] = request[q] /\ table'[q] = table[q]
    BY <1>3, <2>6
  <2>9. request' \in [Apps -> Seq([id : ID, buf : 0 .. MaxSends])]
    BY <1>3, <2>6, <2>7
  <2>10. table' \in [Apps -> [ID -> [all : BOOLEAN, idx : 0 .. MaxNum]]]
    BY <1>3, <2>6, <2>7
  <2> QED
    BY <2>5, <2>7, <2>8, <2>9, <2>10
<1>5. CASE ~(table[r][i].all /\ (seen[r] = "PEND" => Taken(r, i)))
  <2>1. request' = request /\ table' = table /\ spoilt' = spoilt
    BY <1>5 DEF Answer
  <2>2. \A m \in DOMAIN request[r] : Ended(seen[r]) => request[r][m].id # i
    <3> SUFFICES ASSUME NEW m \in DOMAIN request[r], seen[r] \in Final, request[r][m].id = i
                 PROVE  FALSE
      BY DEF Ended
    <3>1. ~table[r][i].all
      BY <1>5 DEF Final
    <3>2. table[r][i] = [all |-> TRUE, idx |-> m]
      BY <1>2 DEF TableInv
    <3> QED
      BY <3>1, <3>2
  <2> QED
    BY <1>2, <1>3, <2>1, <2>2 DEF TableInv
<1> QED
  BY <1>4, <1>5

LEMMA AnswerInv ==
  ASSUME Inv, NEW r \in Apps, Answer(r)
  PROVE  Inv'
<1> USE Processes
<1>0. PICK i \in ID : i = id[r]
  BY Types DEF Inv
<1>1. /\ Open(r) /\ OpenInv(r) /\ pc[r] \notin Field /\ pc[r] = "test"
      /\ \A j \in ID : IdStage(r, j) /\ ~Posts(r, j) /\ ~Clears(r, j)
  BY Running DEF Answer, At
<1>2. TypeOK /\ OwnInv /\ MailInv(r) /\ SeenStage(r) /\ TableInv(r)
  BY <1>1 DEF Inv, OpenInv
<1>3. /\ HeadSame /\ hrequest' = hrequest /\ copy' = copy /\ status' = status
      /\ net' = net /\ lent' = lent /\ outcome' = outcome /\ reqCnt' = reqCnt /\ sent' = sent
  BY <1>2 DEF Answer, Goto, TypeOK, HeadSame, heads, shared
<1>4. /\ spoilt' = spoilt
      /\ request' \in [Apps -> Seq([id : ID, buf : 0 .. MaxSends])]
      /\ table' \in [Apps -> [ID -> [all : BOOLEAN, idx : 0 .. MaxNum]]]
      /\ \A q \in Apps : q # r => request'[q] = request[q] /\ table'[q] = table[q]
  BY <1>0, AnswerTable
<1>5. \A q \in Apps : q # r => SameFor(q)
  BY <1>2, <1>3, <1>4 DEF Answer, Goto, TypeOK, SameFor
<1>6. /\ pc'[r] = IF Ended(seen[r]) THEN "NINI" ELSE "run"
      /\ Ended(seen[r]) => id'[r] = i
  BY <1>0, <1>2 DEF Answer, Goto, TypeOK
<1>7. \A j \in ID : holder'[r][j] = IF Ended(seen[r]) /\ j = i THEN 0 ELSE holder[r][j]
  BY <1>0, <1>2 DEF Answer, TypeOK
<1>8. ASSUME Ended(seen[r])
      PROVE  /\ ~Mailed(r, i) /\ ~Works(r, i) /\ holder[r][i] # 0
             /\ status[r][i].avl = "NAVL" /\ seen[r] \in Final
             /\ outcome[holder[r][i]] = seen[r] /\ told' = told \cup {<<holder[r][i], seen[r]>>}
  <2>1. seen[r] \in Final
    BY <1>8 DEF Ended
  <2>2. ~Mailed(r, i) /\ ~Works(r, i) /\ holder[r][i] # 0 /\ status[r][i].val = seen[r]
    BY <1>0, <1>1, <1>2, <2>1 DEF SeenStage, At, Final
  <2> QED
    BY <1>0, <1>1, <1>8, <2>1, <2>2 DEF IdStage, Answer
<1>9. TypeOK'
  <2>1. pc' \in [Who -> Where] /\ id' \in [Who -> ID] /\ seen' \in [Apps -> State]
    BY <1>2 DEF Answer, Goto, TypeOK, Where, State, Availability
  <2>2. told' \subseteq (0 .. MaxSends) \X Final
    <3>1. CASE Ended(seen[r])
      <4>1. holder[r][i] \in 0 .. MaxSends /\ seen[r] \in Final
        BY <1>2, <1>8, <3>1, Types
      <4>2. told' = told \cup {<<holder[r][i], seen[r]>>} /\ told \subseteq (0 .. MaxSends) \X Final
        BY <1>2, <1>8, <3>1 DEF TypeOK
      <4> QED
        BY <4>1, <4>2
    <3>2. CASE ~Ended(seen[r])
      BY <1>2, <3>2 DEF Answer, TypeOK
    <3> QED
      BY <3>1, <3>2
  <2>3. holder' \in [Apps -> [ID -> 0 .. MaxSends]]
    <3>1. 0 \in 0 .. MaxSends /\ holder \in [Apps -> [ID -> 0 .. MaxSends]]
      BY <1>2, BoundsAssumption DEF TypeOK
    <3>2. holder' = holder \/ holder' = [holder EXCEPT ![r][i] = 0]
      BY <1>0 DEF Answer
    <3> QED
      BY <3>1, <3>2
  <2>4. /\ final' = final /\ faults' = faults /\ source' = source
        /\ serving' = serving /\ hrequest' = hrequest
    BY DEF Answer, heads
  <2> QED
    BY <1>2, <1>3, <1>4, <2>1, <2>2, <2>3, <2>4 DEF TypeOK
<1>10. \A j \in ID : /\ ~Posts(r, j)' /\ Works(r, j)' = Works(r, j)
                     /\ Mailed(r, j)' = Mailed(r, j)
                     /\ Clears(r, j)' <=> Ended(seen[r]) /\ j = i
  BY <1>3, <1>6 DEF Posts, Clears, Works, Posting, Clearing, HeadSame, Mailed
<1>11. ASSUME NEW j \in ID PROVE IdStage(r, j)'
  <2>1. CASE Ended(seen[r]) /\ j = i
    BY <1>3, <1>6, <1>7, <1>8, <1>10, <2>1 DEF IdStage
  <2>2. CASE ~(Ended(seen[r]) /\ j = i)
    BY <1>1, <1>3, <1>7, <1>10, <2>2 DEF IdStage, HeadSame
  <2> QED
    BY <2>1, <2>2
<1>12. Holding(r)'
  BY <1>1, <1>3, <1>7 DEF OpenInv, Holding
<1>18. ASSUME NEW m \in DOMAIN request'[r]
       PROVE  /\ table'[r][request'[r][m].id] = [all |-> TRUE, idx |-> m]
              /\ Ended(seen[r]) => request'[r][m].id # i
              /\ \E l \in DOMAIN request[r] : request'[r][m] = request[r][l]
  BY <1>0, AnswerTable
<1>13. TableInv(r)'
  <2>1. \A j \in ID : table'[r][j].all =>
          table'[r][j].idx \in DOMAIN request'[r] /\ request'[r][table'[r][j].idx].id = j
    BY <1>0, AnswerTable
  <2>2. ASSUME NEW m \in DOMAIN request'[r]
        PROVE  /\ table'[r][request'[r][m].id] = [all |-> TRUE, idx |-> m]
               /\ holder'[r][request'[r][m].id] # 0
               /\ request'[r][m].buf = holder'[r][request'[r][m].id]
               /\ ~Posts(r, request[r][m].id)'
    <3>1. /\ table'[r][request'[r][m].id] = [all |-> TRUE, idx |-> m]
          /\ Ended(seen[r]) => request'[r][m].id # i
          /\ \E l \in DOMAIN request[r] : request'[r][m] = request[r][l]
      BY <1>18
    <3>2. PICK l \in DOMAIN request[r] : request'[r][m] = request[r][l]
      BY <3>1
    <3>3. PICK j \in ID : j = request'[r][m].id
      BY <1>2, <3>2, ElementTypes
    <3>4. holder[r][j] # 0 /\ request[r][l].buf = holder[r][j]
      BY <1>1, <1>2, <3>2, <3>3 DEF TableInv
    <3>5. holder'[r][j] = holder[r][j]
      BY <1>7, <3>1, <3>3
    <3>6. ~Posts(r, request[r][m].id)'
      BY <1>6 DEF Posts, Posting
    <3> QED
      BY <3>1, <3>2, <3>3, <3>4, <3>5, <3>6
  <2> QED
    BY <1>10, <2>1, <2>2 DEF TableInv
<1>14. OpenInv(r)'
  <2>1. SeenStage(r)'
    BY <1>6 DEF SeenStage, At
  <2>2. \A k \in DOMAIN net'[r] : net'[r][k].n = holder'[r][net'[r][k].id]
    <3> SUFFICES ASSUME NEW k \in DOMAIN net[r]
                 PROVE  net[r][k].n = holder'[r][net[r][k].id]
      BY <1>3
    <3>1. net[r][k].id \in ID /\ (Ended(seen[r]) => net[r][k].id # i)
      BY <1>2, <1>8, ElementTypes DEF Mailed
    <3> QED
      BY <1>1, <1>7, <3>1 DEF OpenInv
  <2> QED
    BY <1>11, <1>12, <1>13, <2>1, <2>2 DEF OpenInv
<1>15. OwnInv'
  <2>1. ASSUME NEW q \in Apps, NEW n \in Request, Has(q, n)' PROVE Has(q, n)
    <3>1. CASE q # r
      BY <1>3, <1>5, <2>1, <3>1 DEF Has, SameFor, HeadSame
    <3>2. CASE q = r
      <4>1. (\E j \in ID : holder'[r][j] = n) => \E j \in ID : holder[r][j] = n
        <5>1. n # 0
          BY DEF Request
        <5> QED
          BY <1>7, <5>1
      <4>2. (\E m \in DOMAIN request'[r] : request'[r][m].buf = n)
              => \E l \in DOMAIN request[r] : request[r][l].buf = n
        <5> SUFFICES ASSUME NEW m \in DOMAIN request'[r], request'[r][m].buf = n
                     PROVE  \E l \in DOMAIN request[r] : request[r][l].buf = n
          OBVIOUS
        <5>1. PICK l \in DOMAIN request[r] : request'[r][m] = request[r][l]
          BY <1>18
        <5> QED
          BY <5>1
      <4> QED
        BY <1>3, <2>1, <3>2, <4>1, <4>2 DEF Has, HeadSame
    <3> QED
      BY <3>1, <3>2
  <2>2. \A q \in Apps : Open(q)' => Open(q)
    BY <1>1, <1>5 DEF Open, Ending, SameFor
  <2> QED
    BY <1>2, <1>3, <1>4, <2>1, <2>2, OwnFrame DEF OwnInv
<1>16. AnswerIsTrue'
  <2>1. CASE Ended(seen[r])
    <3>1. holder[r][i] \in Request
      <4>1. holder[r][i] \in 0 .. MaxSends /\ holder[r][i] # 0
        BY <1>2, <1>8, <2>1, Types
      <4> QED
        BY <4>1, BoundsAssumption DEF Request
    <3> QED
      BY <1>3, <1>8, <2>1, <3>1 DEF Inv, AnswerIsTrue
  <2>2. CASE ~Ended(seen[r])
    BY <1>3, <2>2 DEF Inv, AnswerIsTrue, Answer
  <2> QED
    BY <2>1, <2>2
<1>17. MailInv(r)' /\ pc'[r] \in AppPlace
  BY <1>2, <1>3, <1>6, MailFrame DEF AppPlace, Clearing
<1> QED
  BY <1>1, <1>3, <1>5, <1>9, <1>14, <1>15, <1>16, <1>17, AppMove

\* Taking the first element leaves those behind it, one place further up.
LEMMA TailElement ==
  ASSUME NEW S, NEW s \in Seq(S), s # <<>>
  PROVE  /\ 1 \in DOMAIN s /\ Head(s) = s[1] /\ Head(s) \in S
         /\ Tail(s) \in Seq(S)
         /\ \A k \in DOMAIN Tail(s) : k + 1 \in DOMAIN s /\ k + 1 # 1 /\ Tail(s)[k] = s[k + 1]
         /\ \A k \in DOMAIN s : k # 1 => k - 1 \in DOMAIN Tail(s) /\ Tail(s)[k - 1] = s[k]
OBVIOUS

\* A process is as it was when the head works for it neither before nor after.
LEMMA OtherFrame ==
  ASSUME TypeOK, NEW q \in Apps, OpenInv(q), SameFor(q),
         \A j \in ID : /\ ~Works(q, j) /\ ~Works(q, j)'
                       /\ holder[q][j] # 0 => outcome'[holder[q][j]] = outcome[holder[q][j]]
  PROVE  OpenInv(q)'
<1>1. \A j \in ID : /\ Posts(q, j)' = Posts(q, j) /\ Clears(q, j)' = Clears(q, j)
                    /\ Mailed(q, j)' = Mailed(q, j)
  BY DEF SameFor, Posts, Clears, Mailed
<1>2. ASSUME NEW j \in ID PROVE IdStage(q, j)'
  BY <1>1 DEF OpenInv, SameFor, IdStage
<1>3. SeenStage(q)'
  <2>1. PICK i \in ID : i = id[q]
    BY Types, Processes
  <2> QED
    BY <1>1, <2>1 DEF OpenInv, SameFor, SeenStage, At
<1>4. TableInv(q)'
  <2>1. TableInv(q) /\ \A k \in DOMAIN request[q] : request[q][k].id \in ID
    BY ElementTypes DEF OpenInv
  <2> QED
    BY <1>1, <2>1 DEF TableInv, SameFor
<1> QED
  BY <1>2, <1>3, <1>4 DEF OpenInv, Holding, SameFor

\* A step of the head that changes no byte.
LEMMA HeadMove ==
  ASSUME Inv, pc[TheHead] \notin Field, pc'[TheHead] \in HeadPlace,
         \A q \in Apps : pc'[q] = pc[q] /\ id'[q] = id[q],
         copy' = copy, status' = status
  PROVE  Places' /\ Loaded' /\ \A q \in Apps : Open(q)' = Open(q)
<1> USE Processes
<1>1. Places'
  BY DEF Inv, Places
<1>2. copy[TheHead] = NoByte /\ \A v \in Who : v = TheHead \/ Owner(v)' = Owner(v)
  BY DEF Inv, Loaded, Owner
<1>3. Loaded'
  BY <1>2 DEF Inv, Loaded, NoLostUpdate
<1> QED
  BY <1>1, <1>3 DEF Open, Ending

\* The head takes a message; that of an open process is not spoilt, so that the ID
\* in it is the one the process has sent.
LEMMA HandleStageRequestInv ==
  ASSUME Inv, NEW r \in Apps, NEW i \in ID, HandleStageRequest(r, i)
  PROVE  Inv'
<1> USE Processes
<1>1. TypeOK /\ OwnInv /\ (\A q \in Apps : MailInv(q)) /\ HeadTable /\ WorkInv
  BY DEF Inv
<1>2. PICK s \in Seq([id : ID, n : Request]) : s = net[r] /\ s # <<>>
  BY <1>1, Types DEF HandleStageRequest
<1>3. PICK m \in [id : ID, n : Request] : m = Head(s) /\ m = s[1] /\ 1 \in DOMAIN s
  BY <1>2, TailElement
<1>4. PICK t \in Seq([id : ID, n : Request]) : t = Tail(s)
  BY <1>2, TailElement
<1>5. /\ \A k \in DOMAIN t : k + 1 \in DOMAIN s /\ k + 1 # 1 /\ t[k] = s[k + 1]
      /\ \A k \in DOMAIN s : k # 1 => k - 1 \in DOMAIN t /\ t[k - 1] = s[k]
  BY <1>2, <1>4, TailElement
<1>6. /\ pc[TheHead] = "listen" /\ pc'[TheHead] = "ACTV" /\ id'[TheHead] = i
      /\ source' = r /\ serving' = m.n
      /\ \A q \in Apps : /\ pc'[q] = pc[q] /\ id'[q] = id[q]
                         /\ net'[q] = IF q = r THEN t ELSE net[q]
                         /\ hrequest'[q] = IF q = r THEN Append(hrequest[r], i) ELSE hrequest[q]
  BY <1>1, <1>2, <1>3, <1>4 DEF HandleStageRequest, At, Goto, TypeOK
<1>7. /\ status' = status /\ copy' = copy /\ reqCnt' = reqCnt /\ table' = table
      /\ request' = request /\ seen' = seen /\ spoilt' = spoilt /\ final' = final
      /\ faults' = faults /\ outcome' = outcome /\ sent' = sent /\ holder' = holder
      /\ told' = told /\ lent' = lent \ {m.n}
  BY <1>2, <1>3 DEF HandleStageRequest, shared, mine, history
<1>8. m.id \in ID /\ m.n \in Request /\ net[r][1] = m /\ 1 \in DOMAIN net[r]
  BY <1>2, <1>3
<1>9. Places' /\ Loaded' /\ \A q \in Apps : Open(q)' = Open(q)
  BY <1>6, <1>7, HeadMove DEF Field, State, Availability, HeadPlace, Working, Copying
<1>10. \A q \in Apps, j \in ID : ~Works(q, j) /\ (Works(q, j)' <=> q = r /\ j = i)
  BY <1>6 DEF Works, Working, Copying, Final
<1>11. ASSUME Open(r)
       PROVE  i = m.id /\ m.n = holder[r][i] /\ Mailed(r, i)
  <2>1. m.n \notin spoilt
    BY <1>1, <1>8, <1>11 DEF OwnInv, Has
  <2>2. i = m.id
    BY <1>2, <1>3, <2>1 DEF HandleStageRequest
  <2> QED
    BY <1>8, <1>11, <2>2 DEF Inv, OpenInv, Mailed
<1>12. \A k, l \in DOMAIN s : s[k].n = s[l].n => k = l
  BY <1>1, <1>2 DEF MailInv
<1>13. TypeOK'
  <2>1. pc' \in [Who -> Where] /\ id' \in [Who -> ID]
    BY <1>1 DEF HandleStageRequest, Goto, TypeOK, Where, State
  <2>2. net' \in [Apps -> Seq([id : ID, n : Request])]
    <3>1. net \in [Apps -> Seq([id : ID, n : Request])] /\ net' = [net EXCEPT ![r] = t]
      BY <1>1, <1>2, <1>4 DEF HandleStageRequest, TypeOK
    <3> QED
      BY <3>1
  <2>3. hrequest' \in [Apps -> Seq(ID)]
    <3>1. hrequest \in [Apps -> Seq(ID)] /\ hrequest' = [hrequest EXCEPT ![r] = Append(hrequest[r], i)]
      BY <1>1 DEF HandleStageRequest, TypeOK
    <3>2. Append(hrequest[r], i) \in Seq(ID)
      BY <3>1, AppendElement
    <3> QED
      BY <3>1, <3>2
  <2>4. lent' \subseteq Request /\ source' \in Apps /\ serving' \in 0 .. MaxSends
    BY <1>1, <1>6, <1>7, <1>8 DEF TypeOK
  <2> QED
    BY <1>1, <1>7, <2>1, <2>2, <2>3, <2>4 DEF TypeOK
<1>14. ASSUME NEW q \in Apps, q # r, Open(q) PROVE OpenInv(q)'
  <2>1. SameFor(q)
    BY <1>6, <1>7, <1>14 DEF SameFor
  <2> QED
    BY <1>1, <1>7, <1>10, <1>14, <2>1, OtherFrame DEF Inv
<1>15. ASSUME Open(r) PROVE OpenInv(r)'
  <2>1. OpenInv(r) /\ \A j \in ID : IdStage(r, j)
    BY <1>15 DEF Inv, OpenInv
  <2>2. \A j \in ID : Posts(r, j)' = Posts(r, j) /\ Clears(r, j)' = Clears(r, j)
    BY <1>6 DEF Posts, Clears
  <2>3. \A k \in DOMAIN t : k + 1 \in DOMAIN net[r] /\ t[k] = net[r][k + 1] /\ t[k].id \in ID
    BY <1>1, <1>2, <1>5, ElementTypes
  <2>4. \A j \in ID : Mailed(r, j)' => Mailed(r, j)
    <3> SUFFICES ASSUME NEW j \in ID, NEW k \in DOMAIN t, t[k].id = j
                 PROVE  Mailed(r, j)
      BY <1>6 DEF Mailed
    <3> QED
      BY <2>3 DEF Mailed
  <2>5. \A j \in ID : j # i => (Mailed(r, j) => Mailed(r, j)')
    <3> SUFFICES ASSUME NEW j \in ID, j # i, NEW k \in DOMAIN net[r], net[r][k].id = j
                 PROVE  Mailed(r, j)'
      BY DEF Mailed
    <3>1. k # 1
      BY <1>8, <1>11, <1>15
    <3>2. k - 1 \in DOMAIN t /\ t[k - 1] = net[r][k]
      BY <1>2, <1>5, <3>1
    <3> QED
      BY <1>6, <3>2 DEF Mailed
  <2>6. ~Mailed(r, i)'
    <3> SUFFICES ASSUME NEW k \in DOMAIN t, t[k].id = i
                 PROVE  FALSE
      BY <1>6 DEF Mailed
    <3>1. t[k].n = holder[r][i]
      BY <2>1, <2>3 DEF OpenInv
    <3>2. s[k + 1].n = s[1].n
      BY <1>3, <1>5, <1>11, <1>15, <3>1
    <3> QED
      BY <1>3, <1>5, <1>12, <3>2
  <2>7. ASSUME NEW j \in ID PROVE IdStage(r, j)'
    <3>1. CASE j # i
      <4>1. Mailed(r, j)' <=> Mailed(r, j)
        BY <2>4, <2>5, <3>1
      <4>2. ~Works(r, j) /\ ~Works(r, j)' /\ pc'[r] = pc[r]
        BY <1>6, <1>10, <3>1
      <4> QED
        BY <1>7, <2>1, <2>2, <4>1, <4>2 DEF IdStage
    <3>2. CASE j = i
      <4>1. /\ Mailed(r, i) /\ holder[r][i] # 0 /\ ~Posts(r, i) /\ ~Clears(r, i)
            /\ status[r][i] = [avl |-> "NAVL", val |-> "PEND"]
        BY <1>11, <1>15, <2>1 DEF IdStage
      <4> QED
        BY <1>6, <1>7, <1>10, <1>11, <1>15, <2>2, <2>6, <3>2, <4>1 DEF IdStage
    <3> QED
      BY <3>1, <3>2
  <2>8. SeenStage(r)'
    <3>1. PICK j \in ID : j = id[r]
      BY <1>1, Types
    <3>2. SeenStage(r) /\ id'[r] = j
      BY <1>6, <2>1, <3>1 DEF OpenInv
    <3>3. seen[r] \in Final => j # i \/ ~At(r, "test")
      BY <1>11, <1>15, <3>1, <3>2 DEF SeenStage
    <3> QED
      BY <1>6, <1>7, <1>10, <2>4, <3>1, <3>2, <3>3 DEF SeenStage, At
  <2>9. TableInv(r)'
    <3>1. TableInv(r) /\ \A k \in DOMAIN request[r] : request[r][k].id \in ID
      BY <1>1, <2>1, ElementTypes DEF OpenInv
    <3> QED
      BY <1>7, <2>2, <3>1 DEF TableInv
  <2>10. \A k \in DOMAIN net'[r] : net'[r][k].n = holder'[r][net'[r][k].id]
    <3>1. net'[r] = t /\ \A k \in DOMAIN t : t[k].n = holder[r][t[k].id]
      <4>1. \A k \in DOMAIN net[r] : net[r][k].n = holder[r][net[r][k].id]
        BY <2>1 DEF OpenInv
      <4> QED
        BY <1>6, <2>3, <4>1
    <3> QED
      BY <1>7, <3>1
  <2> QED
    BY <1>7, <2>1, <2>7, <2>8, <2>9, <2>10 DEF OpenInv, Holding
<1>16. ASSUME NEW q \in Apps PROVE MailInv(q)'
  <2>1. CASE q # r
    BY <1>1, <1>6, <1>7, <2>1 DEF MailInv
  <2>2. CASE q = r
    <3>1. \A k \in DOMAIN t : t[k].n # s[1].n
      BY <1>3, <1>5, <1>12
    <3>2. \A k, l \in DOMAIN t : t[k].n = t[l].n => k = l
      <4> SUFFICES ASSUME NEW k \in DOMAIN t, NEW l \in DOMAIN t, t[k].n = t[l].n
                   PROVE  k = l
        OBVIOUS
      <4>1. k + 1 = l + 1
        BY <1>5, <1>12
      <4>2. k \in Nat /\ l \in Nat
        BY <1>4, SeqElement
      <4> QED
        BY <4>1, <4>2
    <3>3. \A k \in DOMAIN t : outcome[t[k].n] = "none"
      BY <1>1, <1>2, <1>5 DEF MailInv
    <3>4. \A k \in DOMAIN t : t[k].n # serving'
      BY <1>3, <1>6, <3>1
    <3> QED
      BY <1>6, <1>7, <2>2, <3>2, <3>3, <3>4 DEF MailInv
  <2> QED
    BY <2>1, <2>2
<1>17. WorkInv'
  <2>1. outcome[m.n] = "none"
    BY <1>1, <1>8 DEF MailInv
  <2> QED
    BY <1>6, <1>7, <1>8, <2>1 DEF WorkInv, Working, Copying, Final
<1>18. HeadTable'
  <2>1. \A q \in Apps : hrequest[q] = <<>>
    BY <1>1, <1>6 DEF HeadTable, Copying
  <2>2. \A q \in Apps : hrequest'[q] = IF q = r THEN <<i>> ELSE <<>>
    <3>1. Append(<<>>, i) = <<i>>
      OBVIOUS
    <3> QED
      BY <1>6, <2>1, <3>1
  <2> QED
    BY <1>6, <2>2 DEF HeadTable, Copying
<1>19. OwnInv'
  <2>1. ASSUME NEW q \in Apps, NEW n \in Request, Has(q, n)' PROVE Has(q, n)
    <3>1. CASE q # r
      BY <1>6, <1>7, <2>1, <3>1 DEF Has
    <3>2. CASE q = r
      <4>1. (\E k \in DOMAIN net'[r] : net'[r][k].n = n) => \E k \in DOMAIN net[r] : net[r][k].n = n
        <5> SUFFICES ASSUME NEW k \in DOMAIN t, t[k].n = n
                     PROVE  \E l \in DOMAIN net[r] : net[r][l].n = n
          BY <1>6
        <5>1. k + 1 \in DOMAIN net[r] /\ net[r][k + 1].n = n
          BY <1>2, <1>5
        <5> QED
          BY <5>1
      <4>2. serving' = n => \E k \in DOMAIN net[r] : net[r][k].n = n
        BY <1>6, <1>8
      <4> QED
        BY <1>7, <2>1, <3>2, <4>1, <4>2 DEF Has
    <3> QED
      BY <3>1, <3>2
  <2>2. ASSUME NEW n \in lent' PROVE \E q \in Apps : \E k \in DOMAIN net'[q] : net'[q][k].n = n
    <3>1. n \in lent /\ n # m.n
      BY <1>7
    <3>2. PICK q \in Apps : \E k \in DOMAIN net[q] : net[q][k].n = n
      BY <1>1, <3>1 DEF OwnInv
    <3>3. PICK k \in DOMAIN net[q] : net[q][k].n = n
      BY <3>2
    <3>4. CASE q # r
      BY <1>6, <3>3, <3>4
    <3>5. CASE q = r
      <4>1. k # 1
        BY <1>8, <3>1, <3>3, <3>5
      <4>2. k - 1 \in DOMAIN t /\ t[k - 1].n = n
        BY <1>2, <1>5, <3>3, <3>5, <4>1
      <4> QED
        BY <1>6, <4>2
    <3> QED
      BY <3>4, <3>5
  <2> QED
    BY <1>1, <1>7, <1>9, <2>1, <2>2, OwnFrame DEF OwnInv
<1>20. AnswerIsTrue'
  BY <1>7 DEF Inv, AnswerIsTrue
<1>21. \A q \in Apps : Open(q)' => OpenInv(q)'
  BY <1>9, <1>14, <1>15
<1> QED
  BY <1>9, <1>13, <1>16, <1>17, <1>18, <1>19, <1>20, <1>21 DEF Inv

\* The copy ends, and only the request the head works on learns how.
LEMMA CopyInv ==
  ASSUME Inv, NEW ok \in BOOLEAN, Copy(ok)
  PROVE  Inv'
<1> USE Processes
<1>1. TypeOK /\ OwnInv /\ (\A q \in Apps : MailInv(q)) /\ HeadTable /\ WorkInv
  BY DEF Inv
<1>2. PICK r \in Apps, i \in ID, n \in Request, how \in Final :
        r = source /\ i = id[TheHead] /\ n = serving /\ how = IF ok THEN "SCES" ELSE "FAIL"
  <2>1. source \in Apps /\ id[TheHead] \in ID
    BY <1>1, Types DEF TypeOK
  <2>2. serving \in Request
    BY <1>1 DEF WorkInv, Copy, At, Working, Copying
  <2> QED
    BY <2>1, <2>2 DEF Final
<1>3. /\ pc[TheHead] = "copy" /\ pc'[TheHead] = how
      /\ \A q \in Apps : pc'[q] = pc[q]
      /\ \A k \in Request : outcome'[k] = IF k = n THEN how ELSE outcome[k]
  BY <1>1, <1>2 DEF Copy, At, Goto, TypeOK
<1>4. /\ id' = id /\ status' = status /\ copy' = copy /\ reqCnt' = reqCnt /\ table' = table
      /\ request' = request /\ seen' = seen /\ net' = net /\ lent' = lent
      /\ spoilt' = spoilt /\ final' = final /\ source' = source /\ serving' = serving
      /\ sent' = sent /\ holder' = holder /\ told' = told
  BY DEF Copy, shared, mine, msgs, history
<1>5. how \in Field /\ how \in HeadPlace /\ how \notin Copying /\ how \in Working /\ how # "none"
      /\ how \in Where /\ how # "ACTV"
  BY DEF Final, Field, State, HeadPlace, Working, Copying, Where
<1>6. Places' /\ Loaded' /\ \A q \in Apps : Open(q)' = Open(q)
  BY <1>3, <1>4, <1>5, HeadMove DEF Field, State, Availability
<1>7. outcome[n] = "none"
  BY <1>1, <1>2, <1>3 DEF WorkInv, Copying
<1>8. Has(r, n) /\ \A q \in Apps : Has(q, n) => q = r
  <2>1. Has(r, n)
    BY <1>1, <1>2, <1>3 DEF Has, Working, Copying
  <2> QED
    BY <1>1, <1>2, <2>1 DEF OwnInv
<1>9. \A q \in Apps, j \in ID : /\ Works(q, j)' = Works(q, j)
                                /\ Works(q, j) <=> q = r /\ j = i
  BY <1>2, <1>3, <1>4, <1>5 DEF Works, Working, Copying
<1>10. hrequest' = [q \in Apps |-> <<>>]
  <2>1. hrequest \in [Apps -> Seq(ID)]
    BY <1>1 DEF TypeOK
  <2>2. \A q \in Apps : hrequest[q] = IF q = r THEN <<i>> ELSE <<>>
    BY <1>1, <1>2, <1>3 DEF HeadTable, Copying
  <2>3. <<i>> # <<>> /\ Head(<<i>>) = i /\ Tail(<<i>>) = <<>>
    OBVIOUS
  <2>4. hrequest' = [hrequest EXCEPT ![r] = <<>>]
    BY <1>2, <2>2, <2>3 DEF Copy, HeadFree
  <2> QED
    BY <2>1, <2>2, <2>4
<1>11. TypeOK'
  <2>1. pc' \in [Who -> Where]
    BY <1>1, <1>2, <1>5 DEF Copy, Goto, TypeOK
  <2>2. outcome' \in [Request -> Final \cup {"none"}]
    BY <1>1, <1>2 DEF Copy, TypeOK
  <2>3. faults' \in 0 .. MaxFault
    BY <1>1, BoundsAssumption DEF Copy, TypeOK
  <2>4. hrequest' \in [Apps -> Seq(ID)]
    BY <1>10
  <2> QED
    BY <1>1, <1>4, <2>1, <2>2, <2>3, <2>4 DEF TypeOK
<1>12. \A q \in Apps, j \in ID : holder[q][j] # 0 => holder[q][j] \in Request
  BY <1>1, Types, BoundsAssumption DEF Request
<1>13. ASSUME NEW q \in Apps, q # r, Open(q) PROVE OpenInv(q)'
  <2>1. SameFor(q)
    BY <1>3, <1>4 DEF SameFor
  <2>2. \A j \in ID : holder[q][j] # 0 => outcome'[holder[q][j]] = outcome[holder[q][j]]
    <3> SUFFICES ASSUME NEW j \in ID, holder[q][j] # 0
                 PROVE  outcome'[holder[q][j]] = outcome[holder[q][j]]
      OBVIOUS
    <3>1. holder[q][j] # n
      BY <1>8, <1>13 DEF Has
    <3> QED
      BY <1>3, <1>12, <3>1
  <2> QED
    BY <1>1, <1>9, <1>13, <2>1, <2>2, OtherFrame DEF Inv
<1>14. ASSUME Open(r) PROVE OpenInv(r)'
  <2>1. OpenInv(r) /\ \A j \in ID : IdStage(r, j)
    BY <1>14 DEF Inv, OpenInv
  <2>2. /\ Works(r, i) /\ holder[r][i] = n
        /\ status[r][i] = [avl |-> "NAVL", val |-> "ACTV"]
    BY <1>2, <1>3, <1>9, <2>1 DEF IdStage
  <2>3. \A j \in ID : /\ Posts(r, j)' = Posts(r, j) /\ Clears(r, j)' = Clears(r, j)
                      /\ Mailed(r, j)' = Mailed(r, j) /\ Works(r, j)' = Works(r, j)
    BY <1>3, <1>4, <1>9 DEF Posts, Clears, Mailed
  <2>4. ASSUME NEW j \in ID PROVE IdStage(r, j)'
    <3>1. CASE j # i
      <4>1. holder[r][j] # 0 => outcome'[holder[r][j]] = outcome[holder[r][j]]
        <5> SUFFICES ASSUME holder[r][j] # 0
                     PROVE  outcome'[holder[r][j]] = outcome[holder[r][j]]
          OBVIOUS
        <5>1. holder[r][j] # n
          BY <2>1, <2>2, <3>1 DEF OpenInv, Holding
        <5> QED
          BY <1>3, <1>12, <5>1
      <4>2. ~Works(r, j)
        BY <1>9, <3>1
      <4> QED
        BY <1>3, <1>4, <2>1, <2>3, <4>1, <4>2 DEF IdStage
    <3>2. CASE j = i
      <4>1. ~Posts(r, i) /\ ~Mailed(r, i) /\ ~Clears(r, i) /\ holder[r][i] # 0
        BY <2>1, <2>2 DEF IdStage
      <4> QED
        BY <1>2, <1>3, <1>4, <1>5, <2>2, <2>3, <3>2, <4>1 DEF IdStage
    <3> QED
      BY <3>1, <3>2
  <2>5. SeenStage(r)'
    <3>1. PICK j \in ID : j = id[r]
      BY <1>1, Types
    <3> QED
      BY <1>3, <1>4, <2>1, <2>3, <3>1 DEF OpenInv, SeenStage, At
  <2>6. TableInv(r)'
    <3>1. TableInv(r) /\ \A k \in DOMAIN request[r] : request[r][k].id \in ID
      BY <1>1, <2>1, ElementTypes DEF OpenInv
    <3> QED
      BY <1>4, <2>3, <3>1 DEF TableInv
  <2> QED
    BY <1>4, <2>1, <2>4, <2>5, <2>6 DEF OpenInv, Holding
<1>15. ASSUME NEW q \in Apps PROVE MailInv(q)'
  <2>1. \A k \in DOMAIN net[q] : net[q][k].n \in Request /\ net[q][k].n # n
    <3> SUFFICES ASSUME NEW k \in DOMAIN net[q]
                 PROVE  net[q][k].n \in Request /\ net[q][k].n # n
      OBVIOUS
    <3>1. net[q][k].n \in Request
      BY <1>1, ElementTypes
    <3>2. CASE q # r
      BY <1>8, <3>1, <3>2 DEF Has
    <3>3. CASE q = r
      BY <1>1, <1>2, <1>3, <3>1, <3>3 DEF MailInv, Copying
    <3> QED
      BY <3>1, <3>2, <3>3
  <2> QED
    BY <1>1, <1>3, <1>4, <1>5, <2>1 DEF MailInv
<1>16. WorkInv'
  BY <1>2, <1>3, <1>4, <1>5 DEF WorkInv
<1>17. HeadTable'
  BY <1>3, <1>5, <1>10 DEF HeadTable
<1>18. OwnInv'
  <2>1. \A q \in Apps, k \in Request : Has(q, k)' => Has(q, k)
    BY <1>2, <1>3, <1>4 DEF Has, Working, Copying
  <2>2. \A k \in Request : k > sent => outcome'[k] = "none"
    <3>1. n <= sent /\ sent \in Int /\ n \in Int
      BY <1>1, <1>8 DEF OwnInv, TypeOK, Request
    <3> QED
      BY <1>1, <1>3, <3>1 DEF OwnInv, Request
  <2> QED
    BY <1>1, <1>4, <1>6, <2>1, <2>2, OwnFrame DEF OwnInv
<1>19. AnswerIsTrue'
  <2> SUFFICES ASSUME NEW t \in told
               PROVE  t[1] \in Request /\ outcome'[t[1]] = t[2]
    BY <1>4 DEF AnswerIsTrue
  <2>1. t[1] \in Request /\ outcome[t[1]] = t[2] /\ t[2] \in Final
    BY <1>1 DEF Inv, AnswerIsTrue, TypeOK
  <2>2. t[1] # n
    BY <1>7, <2>1 DEF Final
  <2> QED
    BY <1>3, <2>1, <2>2
<1>20. \A q \in Apps : Open(q)' => OpenInv(q)'
  BY <1>6, <1>13, <1>14
<1> QED
  BY <1>6, <1>11, <1>15, <1>16, <1>17, <1>18, <1>19, <1>20 DEF Inv

\* A process that ends is no longer held to what it was told of its IDs.
LEMMA SendEndInv ==
  ASSUME Inv, NEW r \in Apps, SendEnd(r)
  PROVE  Inv'
<1> USE Processes
<1>1. TypeOK /\ OwnInv /\ MailInv(r)
  BY DEF Inv
<1>2. /\ HeadSame /\ hrequest' = hrequest /\ copy' = copy /\ status' = status
      /\ net' = net /\ lent' = lent /\ spoilt' = spoilt /\ told' = told /\ outcome' = outcome
      /\ table' = table /\ reqCnt' = reqCnt /\ sent' = sent /\ request' = request /\ seen' = seen
  BY <1>1 DEF SendEnd, Goto, TypeOK, HeadSame, heads, shared, mine
<1>3. \A q \in Apps : q # r => SameFor(q)
  BY <1>1, <1>2 DEF SendEnd, Goto, TypeOK, SameFor
<1>4. pc[r] = "run" /\ pc'[r] = "release" /\ \A j \in ID : holder'[r][j] = 0
  BY <1>1 DEF SendEnd, Goto, At, TypeOK
<1>5. TypeOK'
  <2>1. pc' \in [Who -> Where] /\ final' \in [Apps -> BOOLEAN]
    BY <1>1 DEF SendEnd, Goto, TypeOK, Where
  <2>2. holder' \in [Apps -> [ID -> 0 .. MaxSends]]
    <3>1. [i \in ID |-> 0] \in [ID -> 0 .. MaxSends]
      BY BoundsAssumption
    <3> QED
      BY <1>1, <3>1 DEF SendEnd, TypeOK
  <2> QED
    BY <1>1, <1>2, <2>1, <2>2 DEF SendEnd, TypeOK, heads
<1>6. OwnInv'
  <2>1. ASSUME NEW q \in Apps, NEW n \in Request, Has(q, n)' PROVE Has(q, n)
    <3>1. CASE q # r
      BY <1>2, <1>3, <2>1, <3>1 DEF Has, SameFor, HeadSame
    <3>2. CASE q = r
      <4>1. n # 0
        BY DEF Request
      <4>2. ~\E j \in ID : holder'[r][j] = n
        BY <1>4, <4>1
      <4> QED
        BY <1>2, <2>1, <3>2, <4>2 DEF Has, HeadSame
    <3> QED
      BY <3>1, <3>2
  <2>2. \A q \in Apps : Open(q)' => Open(q)
    BY <1>3, <1>4 DEF Open, Ending, SameFor
  <2> QED
    BY <1>1, <1>2, <2>1, <2>2, OwnFrame DEF OwnInv
<1>7. MailInv(r)' /\ AnswerIsTrue' /\ ~Open(r)'
  BY <1>1, <1>2, <1>4, MailFrame DEF Inv, AnswerIsTrue, Open, Ending
<1> QED
  BY <1>2, <1>3, <1>4, <1>5, <1>6, <1>7, AppMove DEF AppPlace, Field, State, Availability

\* FTI_FinalizeStage frees what the process still has; nothing of it is another's.
LEMMA ReleaseInv ==
  ASSUME Inv, NEW r \in Apps, Release(r)
  PROVE  Inv'
<1> USE Processes
<1>1. TypeOK /\ OwnInv /\ MailInv(r)
  BY DEF Inv
<1>2. /\ HeadSame /\ hrequest' = hrequest /\ copy' = copy /\ status' = status
      /\ net' = net /\ lent' = lent /\ told' = told /\ outcome' = outcome
      /\ table' = table /\ reqCnt' = reqCnt /\ sent' = sent /\ holder' = holder /\ seen' = seen
  BY <1>1 DEF Release, Goto, TypeOK, HeadSame, heads, shared, history
<1>3. \A q \in Apps : q # r => SameFor(q)
  BY <1>1, <1>2 DEF Release, Goto, TypeOK, SameFor
<1>4. pc[r] = "release" /\ pc'[r] = "barrier" /\ request'[r] = <<>>
  BY <1>1 DEF Release, Goto, At, TypeOK
<1>5. TypeOK'
  <2>1. pc' \in [Who -> Where]
    BY <1>1 DEF Release, Goto, TypeOK, Where
  <2>3. request' \in [Apps -> Seq([id : ID, buf : 0 .. MaxSends])]
    <3>1. <<>> \in Seq([id : ID, buf : 0 .. MaxSends])
      OBVIOUS
    <3> QED
      BY <1>1, <3>1 DEF Release, TypeOK
  <2>2. spoilt' \subseteq Request
    BY <1>1 DEF Release, TypeOK
  <2> QED
    BY <1>1, <1>2, <2>1, <2>2, <2>3 DEF Release, TypeOK, heads
<1>6. \A n \in Request : n \in spoilt' => n \in spoilt \/ Has(r, n)
  BY DEF Release, Has
<1>7. ~Open(r) /\ \A q \in Apps : Open(q)' => Open(q)
  BY <1>3, <1>4 DEF Open, Ending, SameFor
<1>8. OwnInv'
  <2>1. ASSUME NEW q \in Apps, NEW n \in Request, Has(q, n)' PROVE Has(q, n)
    <3>1. CASE q # r
      BY <1>2, <1>3, <2>1, <3>1 DEF Has, SameFor, HeadSame
    <3>2. CASE q = r
      BY <1>2, <1>4, <2>1, <3>2 DEF Has, HeadSame
    <3> QED
      BY <3>1, <3>2
  <2>2. ASSUME NEW q \in Apps, NEW n \in Request, Has(q, n)'
        PROVE  n <= sent' /\ (Open(q)' => n \notin spoilt') /\ \A p \in Apps : Has(p, n)' => p = q
    <3>1. Has(q, n) /\ n <= sent /\ (Open(q) => n \notin spoilt) /\ \A p \in Apps : Has(p, n) => p = q
      BY <1>1, <2>1, <2>2 DEF OwnInv
    <3>2. Open(q)' => n \notin spoilt'
      BY <1>6, <1>7, <3>1
    <3> QED
      BY <1>2, <2>1, <3>1, <3>2
  <2>3. ASSUME NEW n \in Request, n > sent' PROVE n \notin spoilt' /\ outcome'[n] = "none"
    <3>1. n \notin spoilt /\ outcome[n] = "none"
      BY <1>1, <1>2, <2>3 DEF OwnInv
    <3>2. ~(n <= sent)
      BY <1>1, <1>2, <2>3 DEF TypeOK, Request
    <3>3. ~Has(r, n)
      BY <1>1, <3>2 DEF OwnInv
    <3> QED
      BY <1>2, <1>6, <3>1, <3>3
  <2> QED
    BY <1>1, <1>2, <2>2, <2>3 DEF OwnInv
<1>9. MailInv(r)' /\ AnswerIsTrue' /\ ~Open(r)'
  BY <1>1, <1>2, <1>4, MailFrame DEF Inv, AnswerIsTrue, Open, Ending
<1> QED
  BY <1>2, <1>3, <1>4, <1>5, <1>8, <1>9, AppMove DEF AppPlace, Field, State, Availability

\* The head stops listening only between two requests.
LEMMA HeadIdle ==
  ASSUME Inv, ListenFinal \/ EndListen
  PROVE  Inv'
<1> USE Processes
<1>1. TypeOK /\ OwnInv /\ (\A q \in Apps : MailInv(q)) /\ HeadTable
  BY DEF Inv
<1>2. /\ pc[TheHead] \in {"listen", "ending"} /\ pc'[TheHead] \in {"ending", "barrier"}
      /\ \A q \in Apps : pc'[q] = pc[q]
  BY <1>1 DEF ListenFinal, EndListen, At, Goto, TypeOK
<1>3. /\ id' = id /\ status' = status /\ copy' = copy /\ reqCnt' = reqCnt /\ table' = table
      /\ request' = request /\ seen' = seen /\ net' = net /\ lent' = lent
      /\ spoilt' = spoilt /\ final' = final /\ source' = source /\ serving' = serving
      /\ faults' = faults /\ outcome' = outcome /\ sent' = sent /\ holder' = holder
      /\ told' = told
  BY DEF ListenFinal, EndListen, shared, mine, msgs, heads, history
<1>4. hrequest' = [q \in Apps |-> <<>>]
  <2>1. hrequest \in [Apps -> Seq(ID)]
    BY <1>1 DEF TypeOK
  <2>2. \A q \in Apps : hrequest[q] = <<>>
    BY <1>1, <1>2 DEF HeadTable, Copying
  <2>3. hrequest' = hrequest \/ hrequest' = [q \in Apps |-> <<>>]
    BY DEF ListenFinal, EndListen, heads
  <2> QED
    BY <2>1, <2>2, <2>3
<1>5. Places' /\ Loaded' /\ \A q \in Apps : Open(q)' = Open(q)
  BY <1>2, <1>3, HeadMove DEF Field, State, Availability, HeadPlace
<1>6. pc[TheHead] \notin Working /\ pc'[TheHead] \notin Working /\ pc'[TheHead] \notin Copying
      /\ pc'[TheHead] \notin Final
  BY <1>2 DEF Working, Copying, Final
<1>7. TypeOK'
  <2>1. pc' \in [Who -> Where]
    BY <1>1 DEF ListenFinal, EndListen, Goto, TypeOK, Where
  <2>2. hrequest' \in [Apps -> Seq(ID)]
    BY <1>4
  <2> QED
    BY <1>1, <1>3, <2>1, <2>2 DEF TypeOK
<1>8. ASSUME NEW q \in Apps, Open(q)' PROVE OpenInv(q)'
  <2>1. SameFor(q)
    BY <1>2, <1>3 DEF SameFor
  <2>2. OpenInv(q) /\ \A j \in ID : ~Works(q, j) /\ ~Works(q, j)'
    BY <1>5, <1>6, <1>8 DEF Inv, Works
  <2> QED
    BY <1>1, <1>3, <2>1, <2>2, OtherFrame
<1>9. (\A q \in Apps : MailInv(q)') /\ WorkInv' /\ HeadTable'
  BY <1>1, <1>3, <1>4, <1>6 DEF MailInv, WorkInv, HeadTable, Working
<1>10. OwnInv'
  <2>1. \A q \in Apps, n \in Request : Has(q, n)' => Has(q, n)
    BY <1>3, <1>6 DEF Has
  <2> QED
    BY <1>1, <1>3, <1>5, <2>1, OwnFrame DEF OwnInv
<1>11. AnswerIsTrue'
  BY <1>3 DEF Inv, AnswerIsTrue
<1> QED
  BY <1>5, <1>7, <1>8, <1>9, <1>10, <1>11 DEF Inv

LEMMA BarrierInv ==
  ASSUME Inv, Barrier
  PROVE  Inv'
<1> USE Processes
<1>1. TypeOK /\ OwnInv /\ (\A q \in Apps : MailInv(q)) /\ HeadTable
  BY DEF Inv
<1>2. \A v \in Who : pc[v] = "barrier" /\ pc'[v] = "done"
  BY DEF Barrier, AllAt
<1>3. /\ id' = id /\ status' = status /\ copy' = copy /\ reqCnt' = reqCnt /\ table' = table
      /\ request' = request /\ seen' = seen /\ net' = net /\ lent' = lent
      /\ spoilt' = spoilt /\ final' = final /\ source' = source /\ serving' = serving
      /\ faults' = faults /\ outcome' = outcome /\ sent' = sent /\ holder' = holder
      /\ told' = told /\ hrequest' = hrequest
  BY DEF Barrier, shared, mine, msgs, heads, history
<1>4. TypeOK' /\ Places'
  <2>1. pc' \in [Who -> Where]
    BY DEF Barrier, Where
  <2> QED
    BY <1>1, <1>2, <1>3, <2>1 DEF TypeOK, Places, AppPlace, HeadPlace
<1>5. Loaded'
  BY <1>2, <1>3 DEF Inv, Loaded, NoLostUpdate, Field, State, Availability
<1>6. \A q \in Apps : ~Open(q) /\ ~Open(q)'
  BY <1>2 DEF Open, Ending
<1>7. pc[TheHead] \notin Working /\ pc'[TheHead] \notin Working
      /\ pc[TheHead] \notin Copying /\ pc'[TheHead] \notin Copying
  BY <1>2 DEF Working, Copying, Final
<1>8. (\A q \in Apps : MailInv(q)') /\ WorkInv' /\ HeadTable'
  BY <1>1, <1>3, <1>7 DEF MailInv, WorkInv, HeadTable, Working
<1>9. OwnInv'
  <2>1. \A q \in Apps, n \in Request : Has(q, n)' => Has(q, n)
    BY <1>3, <1>7 DEF Has
  <2> QED
    BY <1>1, <1>3, <1>6, <2>1, OwnFrame DEF OwnInv
<1>10. AnswerIsTrue'
  BY <1>3 DEF Inv, AnswerIsTrue
<1> QED
  BY <1>4, <1>5, <1>6, <1>8, <1>9, <1>10 DEF Inv

LEMMA InitInv == Init => Inv
<1> SUFFICES ASSUME Init PROVE Inv
  OBVIOUS
<1> USE Processes
<1>1. TypeOK
  <2>1. 0 \in 0 .. MaxNum /\ 0 \in 0 .. MaxSends /\ 0 \in 0 .. MaxFault
    BY SizesAssumption, BoundsAssumption
  <2>2. /\ pc \in [Who -> Where] /\ id \in [Who -> ID] /\ copy \in [Who -> Byte \cup {NoByte}]
        /\ seen \in [Apps -> State] /\ final \in [Apps -> BOOLEAN]
    BY DEF Init, Where, State
  <2>3. status \in [Apps -> [ID -> Byte]]
    <3>1. [avl |-> "IAVL", val |-> "NINI"] \in Byte
      BY DEF Byte, Availability, State
    <3> QED
      BY <3>1 DEF Init
  <2>4. table \in [Apps -> [ID -> [all : BOOLEAN, idx : 0 .. MaxNum]]]
    <3>1. [all |-> FALSE, idx |-> 0] \in [all : BOOLEAN, idx : 0 .. MaxNum]
      BY <2>1
    <3> QED
      BY <3>1 DEF Init
  <2>5. /\ reqCnt \in [Apps -> 0 .. MaxNum] /\ holder \in [Apps -> [ID -> 0 .. MaxSends]]
        /\ source \in Apps /\ serving \in 0 .. MaxSends
        /\ faults \in 0 .. MaxFault /\ sent \in 0 .. MaxSends
        /\ outcome \in [Request -> Final \cup {"none"}]
    BY <2>1 DEF Init
  <2>6. /\ request \in [Apps -> Seq([id : ID, buf : 0 .. MaxSends])]
        /\ net \in [Apps -> Seq([id : ID, n : Request])] /\ hrequest \in [Apps -> Seq(ID)]
    BY DEF Init
  <2>7. lent \subseteq Request /\ spoilt \subseteq Request /\ told \subseteq (0 .. MaxSends) \X Final
    BY DEF Init
  <2> QED
    BY <2>2, <2>3, <2>4, <2>5, <2>6, <2>7 DEF TypeOK
<1>2. Places /\ Loaded
  BY DEF Init, Places, AppPlace, HeadPlace, Loaded, NoLostUpdate
<1>3. pc[TheHead] \notin Working /\ pc[TheHead] \notin Copying /\ pc[TheHead] \notin Final
  BY DEF Init, Working, Copying, Final
<1>4. \A r \in Apps : DOMAIN net[r] = {} /\ DOMAIN request[r] = {} /\ net[r] = <<>>
                      /\ pc[r] = "run" /\ id[r] = 0
  BY DEF Init
<1>5. ASSUME NEW r \in Apps PROVE OpenInv(r)
  <2>1. \A j \in ID : ~Posts(r, j) /\ ~Clears(r, j) /\ ~Mailed(r, j) /\ ~Works(r, j)
    BY <1>3, <1>4 DEF Posts, Clears, Mailed, Works, Posting, Clearing
  <2>2. \A j \in ID : IdStage(r, j)
    BY <2>1 DEF IdStage, Init
  <2>3. SeenStage(r) /\ Holding(r)
    BY <1>4 DEF SeenStage, Holding, At, Init
  <2>4. TableInv(r)
    BY <1>4, <2>1 DEF TableInv, Init
  <2> QED
    BY <1>4, <2>2, <2>3, <2>4 DEF OpenInv
<1>6. (\A r \in Apps : MailInv(r)) /\ WorkInv /\ HeadTable
  BY <1>3, <1>4 DEF MailInv, WorkInv, HeadTable, Working, Init
<1>7. OwnInv
  <2>1. \A r \in Apps, n \in Request : ~Has(r, n)
    <3> SUFFICES ASSUME NEW r \in Apps, NEW n \in Request
                 PROVE  ~Has(r, n)
      OBVIOUS
    <3>1. n # 0
      BY DEF Request
    <3> QED
      BY <1>3, <1>4, <3>1 DEF Has, Init
  <2> QED
    BY <2>1 DEF OwnInv, Init
<1>8. AnswerIsTrue
  BY DEF AnswerIsTrue, Init
<1> QED
  BY <1>1, <1>2, <1>5, <1>6, <1>7, <1>8 DEF Inv

\* No step takes the node out of the invariant.
LEMMA NextInv ==
  ASSUME Inv, [Next]_vars
  PROVE  Inv'
<1> USE Processes
<1>1. ASSUME NEW r \in Apps, AppStep(r) PROVE Inv'
  BY <1>1, LoadFieldInv, AppStoreInv, IsendInv, AnswerInv, ReleaseInv DEF AppStep
<1>2. ASSUME NEW r \in Apps, NEW i \in ID, SendFile(r, i) \/ ReadStatus(r, i) PROVE Inv'
  BY <1>2, SendFileInv, ReadStatusInv
<1>3. ASSUME NEW r \in Apps, SendEnd(r) PROVE Inv'
  BY <1>3, SendEndInv
<1>4. ASSUME NEW n \in Request, Buffered(n) PROVE Inv'
  BY <1>4, BufferedInv
<1>5. CASE HeadStep
  <2>1. CASE LoadField(TheHead)
    BY <2>1, LoadFieldInv
  <2>2. CASE StoreField(TheHead)
    BY <2>2, HeadStoreInv
  <2>3. CASE \E r \in Apps, i \in ID : HandleStageRequest(r, i)
    BY <2>3, HandleStageRequestInv
  <2>4. CASE \E ok \in BOOLEAN : Copy(ok)
    BY <2>4, CopyInv
  <2>5. CASE ListenFinal \/ EndListen
    BY <2>5, HeadIdle
  <2> QED
    BY <1>5, <2>1, <2>2, <2>3, <2>4, <2>5 DEF HeadStep
<1>6. CASE Barrier
  BY <1>6, BarrierInv
<1>7. CASE UNCHANGED vars
  <2>1. UNCHANGED <<pc, id, shared, mine, msgs, heads, faults, outcome, history>>
    BY <1>7 DEF vars
  <2>2. TypeOK'
    BY <2>1 DEF Inv, TypeOK, shared, mine, msgs, heads, history
  <2>3. Loaded'
    BY <2>1 DEF Inv, Loaded, NoLostUpdate, Owner, shared, heads
  <2>4. OwnInv'
    BY <2>1 DEF Inv, OwnInv, Has, Open, Ending, mine, msgs, heads, history
  <2>5. UNCHANGED <<pc, id, status, mine, net, spoilt, heads, outcome, history>>
    BY <2>1 DEF shared, msgs
  <2> QED
    BY <2>2, <2>3, <2>4, <2>5, CopyFrame DEF Inv
<1> QED
  BY <1>1, <1>2, <1>3, <1>4, <1>5, <1>6, <1>7 DEF Next, Done

\* Inv holds in every state.
THEOREM InvHolds == Spec => []Inv
<1>1. Inv /\ [Next]_vars => Inv'
  BY NextInv
<1> QED
  BY InitInv, <1>1, PTL DEF Spec

-----------------------------------------------------------------------------
(***************************************************************************)
(* What follows from the invariant.                                        *)
(***************************************************************************)

\* Every variable keeps its type.
THEOREM TypeCorrect == Spec => []TypeOK
BY InvHolds, PTL DEF Inv

\* The copy of a byte is never out of date when it is stored (FTI_SetStatusField):
\* process and head share the byte without a lock, and each changes it only while
\* the other has no reason to.
THEOREM UpdatesKept == Spec => []NoLostUpdate
<1>1. Inv => NoLostUpdate
  BY DEF Inv, Loaded
<1> QED
  BY <1>1, InvHolds, PTL

\* The look-up table of a process and its array of requests describe each other, and
\* the head has at most the request it serves (FTI_InitStageRequestApp,
\* FTI_FreeStageRequest).
THEOREM TablesMatch == Spec => []TableMatches
<1>1. Inv => TableMatches
  BY DEF Inv, OpenInv, TableInv, HeadTable, TableMatches, Open, Copying
<1> QED
  BY <1>1, InvHolds, PTL

\* No buffer of a message still to be read is freed before FTI_Finalize.
THEOREM BuffersKept == Spec => []BufferKept
<1>1. Inv => BufferKept
  <2> SUFFICES ASSUME Inv, NEW r \in Apps, Open(r), NEW k \in DOMAIN net[r]
               PROVE  net[r][k].n \notin spoilt
    BY DEF BufferKept, Open
  <2>1. net[r][k].n \in Request
    BY ElementTypes DEF Inv
  <2>2. Has(r, net[r][k].n)
    BY DEF Has
  <2> QED
    BY <2>1, <2>2 DEF Inv, OwnInv
<1> QED
  BY <1>1, InvHolds, PTL

\* An ID is unavailable exactly as long as it stands for a request whose end the
\* application has not been told (FTI_GetRequestID, FTI_GetStageStatus).
THEOREM EveryIdAccounted == Spec => []IdsAccounted
<1>1. Inv => IdsAccounted
  <2> SUFFICES ASSUME Inv, NEW r \in Apps, At(r, "run"), NEW i \in ID
               PROVE  status[r][i].avl = "NAVL" <=> holder[r][i] # 0
    BY DEF IdsAccounted
  <2>1. IdStage(r, i) /\ ~Posts(r, i) /\ ~Clears(r, i)
    BY Running DEF At
  <2> QED
    BY <2>1 DEF IdStage
<1> QED
  BY <1>1, InvHolds, PTL

\* What the application is told of a request is how its copy ended
\* (FTI_GetStageStatus).
THEOREM AnswersAreTrue == Spec => []AnswerIsTrue
BY InvHolds, PTL DEF Inv

-----------------------------------------------------------------------------
(***************************************************************************)
(* Staging implements the safety part of StageService.                     *)
(***************************************************************************)

\* A process that ends has given up its requests.
Closed == \A r \in Apps : Open(r) \/ \A i \in ID : holder[r][i] = 0

LEMMA ClosedStep ==
  ASSUME Inv, Closed, [Next]_vars
  PROVE  Closed'
<1> USE Processes
<1>1. TypeOK
  BY DEF Inv
<1>2. ASSUME NEW r \in Apps, pc'[r] = pc[r], holder'[r] = holder[r]
      PROVE  Open(r)' \/ \A i \in ID : holder'[r][i] = 0
  BY <1>2 DEF Closed, Open, Ending
<1>3. ASSUME NEW r \in Apps, NEW q \in Apps, q # r,
             AppStep(r) \/ (\E i \in ID : SendFile(r, i) \/ ReadStatus(r, i)) \/ SendEnd(r)
      PROVE  pc'[q] = pc[q] /\ holder'[q] = holder[q]
  BY ZenonT(60), <1>1, <1>3 DEF AppStep, LoadField, StoreField, Isend, Answer, Release, SendFile, ReadStatus,
                    SendEnd, Goto, TypeOK, history
<1>4. ASSUME NEW r \in Apps,
             AppStep(r) \/ (\E i \in ID : SendFile(r, i) \/ ReadStatus(r, i)) \/ SendEnd(r)
      PROVE  Open(r)' \/ \A i \in ID : holder'[r][i] = 0
  <2>1. CASE LoadField(r)
    BY <1>2, <2>1 DEF LoadField, history
  <2>2. CASE StoreField(r)
    BY <2>2, AppStoreByte
  <2>3. CASE Isend(r) \/ (\E i \in ID : SendFile(r, i) \/ ReadStatus(r, i)) \/ Answer(r)
    BY <1>1, <2>3 DEF Isend, SendFile, ReadStatus, Answer, Goto, TypeOK, Open, Ending
  <2>4. CASE Release(r)
    <3>1. ~Open(r) /\ holder' = holder
      BY <2>4 DEF Release, At, Open, Ending, history
    <3> QED
      BY <3>1 DEF Closed
  <2>5. CASE SendEnd(r)
    BY <1>1, <2>5 DEF SendEnd, TypeOK
  <2> QED
    BY <1>4, <2>1, <2>2, <2>3, <2>4, <2>5 DEF AppStep
<1>5. CASE \E r \in Apps : \/ AppStep(r)
                           \/ \E i \in ID : SendFile(r, i) \/ ReadStatus(r, i)
                           \/ SendEnd(r)
  BY <1>2, <1>3, <1>4, <1>5 DEF Closed
<1>6. CASE HeadStep
  <2>1. \A r \in Apps : pc'[r] = pc[r] /\ holder'[r] = holder[r]
    BY <1>1, <1>6 DEF HeadStep, LoadField, StoreField, HandleStageRequest, Copy, ListenFinal,
                      EndListen, Goto, TypeOK, history
  <2> QED
    BY <1>2, <2>1 DEF Closed
<1>7. CASE Barrier
  <2>1. \A r \in Apps : ~Open(r) /\ holder'[r] = holder[r]
    BY <1>7 DEF Barrier, AllAt, Open, Ending, history
  <2> QED
    BY <2>1 DEF Closed
<1>8. CASE (\E n \in Request : Buffered(n)) \/ UNCHANGED vars
  <2>1. pc' = pc /\ holder' = holder
    BY <1>8 DEF Buffered, vars, history
  <2> QED
    BY <1>2, <2>1 DEF Closed
<1> QED
  BY <1>5, <1>6, <1>7, <1>8 DEF Next, Done

THEOREM ClosedHolds == Spec => [](Inv /\ Closed)
<1>1. Init => Closed
  BY DEF Init, Closed
<1>2. Inv /\ Closed /\ [Next]_vars => Closed'
  BY ClosedStep
<1> QED
  BY <1>1, <1>2, InvHolds, PTL DEF Spec

\* Which requests a process has under way, and which of them are over.
LEMMA HeldElement ==
  ASSUME NEW r \in Apps, NEW n
  PROVE  n \in Held[r] <=> \E i \in ID : holder[r][i] # 0 /\ holder[r][i] = n
BY DEF Held, Under

LEMMA OverElement ==
  ASSUME NEW e
  PROVE  e \in AllOver <=>
           \E r \in Apps, i \in ID : /\ holder[r][i] # 0 /\ status[r][i].val \in Final
                                     /\ e = <<holder[r][i], status[r][i].val>>
BY DEF AllOver, Over, Under

LEMMA CallersElement ==
  ASSUME NEW r \in Apps
  PROVE  r \in Callers <=> Open(r)
BY DEF Callers, Open

\* A request under way is in nobody else's hands, and under one ID.
LEMMA OneHolder ==
  ASSUME Inv, Closed, NEW r \in Apps, NEW i \in ID, holder[r][i] # 0
  PROVE  /\ holder[r][i] \in Request /\ Open(r)
         /\ \A q \in Apps, j \in ID : holder[q][j] = holder[r][i] => q = r /\ j = i
<1>1. holder[r][i] \in Request
  BY Types, BoundsAssumption DEF Inv, Request
<1>2. Open(r)
  BY DEF Closed
<1>3. ASSUME NEW q \in Apps, NEW j \in ID, holder[q][j] = holder[r][i]
      PROVE  q = r /\ j = i
  <2>1. q = r
    BY <1>1, <1>3 DEF Inv, OwnInv, Has
  <2> QED
    BY <1>2, <1>3, <2>1 DEF Inv, OpenInv, Holding
<1> QED
  BY <1>1, <1>2, <1>3

\* The service does not move when no request comes, ends or goes.
LEMMA ServiceStutters ==
  ASSUME sent' = sent, told' = told,
         \A r \in Apps : Open(r)' = Open(r) /\ \A i \in ID : holder'[r][i] = holder[r][i],
         \A r \in Apps, i \in ID : holder[r][i] # 0 =>
           \/ status'[r][i].val = status[r][i].val
           \/ status'[r][i].val \notin Final /\ status[r][i].val \notin Final
  PROVE  UNCHANGED Service!vars
<1>1. Held' = Held
  BY DEF Held, Under
<1>2. AllOver' = AllOver
  <2>1. \A r \in Apps : Over(r)' = Over(r)
    BY DEF Over, Under
  <2>2. \A r \in Apps : \A i \in Over(r) : <<holder'[r][i], status'[r][i].val>>
                                           = <<holder[r][i], status[r][i].val>>
    BY DEF Over, Under
  <2>3. \A r \in Apps : {<<holder'[r][i], status'[r][i].val>> : i \in Over(r)}
                        = {<<holder[r][i], status[r][i].val>> : i \in Over(r)}
    BY <2>2
  <2> QED
    BY <2>1, <2>3 DEF AllOver
<1>3. Callers' = Callers
  BY DEF Callers, Open
<1> QED
  BY <1>1, <1>2, <1>3 DEF Service!vars

\* As long as an ID is free, the process may ask for one more request.
LEMMA RoomForOne ==
  ASSUME Inv, NEW r \in Apps, NEW i \in ID, holder[r][i] = 0
  PROVE  Cardinality(Held[r]) < MaxNum
<1>1. Held[r] \subseteq 0 .. MaxSends
  BY HeldElement, Types DEF Inv
<1>2. IsFiniteSet(Held[r]) /\ Cardinality(Held[r]) \in Nat
  <2>1. IsFiniteSet(0 .. MaxSends)
    BY FS_Interval, BoundsAssumption
  <2>2. IsFiniteSet(Held[r])
    BY <1>1, <2>1, FS_Subset
  <2> QED
    BY <2>2, FS_CardinalityType
<1>3. IsFiniteSet(ID) /\ Cardinality(ID) = MaxNum
  <2>1. 0 \in Int /\ MaxNum - 1 \in Int /\ MaxNum \in Nat \ {0}
    BY SizesAssumption
  <2> QED
    BY <2>1, FS_Interval DEF ID
<1>4. IsFiniteSet(ID \ {i}) /\ Cardinality(ID \ {i}) = MaxNum - 1
  BY <1>3, FS_RemoveElement
<1> DEFINE f == [n \in Held[r] |-> CHOOSE j \in ID : holder[r][j] # 0 /\ holder[r][j] = n]
<1>5. \A n \in Held[r] : f[n] \in ID \ {i} /\ holder[r][f[n]] = n
  BY HeldElement
<1>6. f \in [Held[r] -> ID \ {i}]
  BY <1>5
<1> HIDE DEF f
<1>7. \A m, n \in Held[r] : f[m] = f[n] => m = n
  BY <1>5
<1>8. ~(MaxNum - 1 < Cardinality(Held[r]))
  <2> SUFFICES ASSUME Cardinality(ID \ {i}) < Cardinality(Held[r])
               PROVE  FALSE
    BY <1>4
  <2> QED
    BY <1>2, <1>4, <1>6, <1>7, FS_PigeonHole
<1> QED
  BY <1>2, <1>8, SizesAssumption

\* FTI_SendFile asks for a request.
LEMMA SendFileAsks ==
  ASSUME Inv, Closed, NEW r \in Apps, NEW i \in ID, SendFile(r, i)
  PROVE  Service!Ask(r)
<1> USE Processes
<1>1. TypeOK /\ sent \in Nat
  <2>1. TypeOK
    BY DEF Inv
  <2>2. sent \in 0 .. MaxSends
    BY <2>1 DEF TypeOK
  <2> QED
    BY <2>1, <2>2
<1>2. holder[r][i] = 0 /\ status[r][i].val = "NINI"
  BY NextIDIsFree DEF SendFile
<1>3. /\ pc[r] = "run" /\ pc'[r] = "NAVL" /\ \A q \in Apps : q # r => pc'[q] = pc[q]
      /\ sent < MaxSends /\ sent' = sent + 1 /\ told' = told /\ status' = status
      /\ \A q \in Apps, j \in ID : holder'[q][j] = IF q = r /\ j = i THEN sent + 1 ELSE holder[q][j]
  BY <1>1 DEF SendFile, At, Goto, TypeOK, shared
<1>4. \A q \in Apps : Open(q)' = Open(q)
  BY <1>3 DEF Open, Ending
<1>5. Open(r) /\ Callers' = Callers
  BY <1>3, <1>4 DEF Open, Ending, Callers
<1>6. sent + 1 # 0
  BY <1>1
<1>7. Held' = [Held EXCEPT ![r] = @ \cup {sent + 1}]
  <2>1. ASSUME NEW q \in Apps, q # r PROVE Held'[q] = Held[q]
    BY <1>3, <2>1 DEF Held, Under
  <2>2. \A n : n \in Held'[r] <=> n \in Held[r] \/ n = sent + 1
    BY <1>2, <1>3, <1>6 DEF Held, Under
  <2>3. Held'[r] = Held[r] \cup {sent + 1}
    BY <2>2
  <2> QED
    BY <2>1, <2>3 DEF Held
<1>8. AllOver' = AllOver
  <2>1. \A q \in Apps : Over(q)' = Over(q)
    <3> SUFFICES ASSUME NEW q \in Apps, NEW j \in ID
                 PROVE  /\ holder'[q][j] # 0 /\ status'[q][j].val \in Final
                        <=> holder[q][j] # 0 /\ status[q][j].val \in Final
      BY DEF Over, Under
    <3>1. CASE q = r /\ j = i
      BY <1>2, <1>3, <3>1 DEF Final
    <3>2. CASE ~(q = r /\ j = i)
      BY <1>3, <3>2
    <3> QED
      BY <3>1, <3>2
  <2>2. \A q \in Apps : {<<holder'[q][j], status'[q][j].val>> : j \in Over(q)}
                        = {<<holder[q][j], status[q][j].val>> : j \in Over(q)}
    BY <1>2, <1>3 DEF Over, Under
  <2> QED
    BY <2>1, <2>2 DEF AllOver
<1>9. Service!Cardinality(Held[r]) < MaxNum
  <2>1. Service!Cardinality(Held[r]) = Cardinality(Held[r])
    BY DEF Service!Cardinality, Cardinality
  <2> QED
    BY <1>2, <2>1, RoomForOne
<1>10. r \in Callers
  BY <1>5, CallersElement
<1> QED
  BY <1>3, <1>5, <1>7, <1>8, <1>9, <1>10 DEF Service!Ask

\* The head's last store ends the request, or nothing when the process has ended.
LEMMA HeadStoreFinishes ==
  ASSUME Inv, Closed, StoreField(TheHead)
  PROVE  Service!FinishOne \/ UNCHANGED Service!vars
<1> USE Processes
<1>1. PICK r \in Apps, i \in ID : r = source /\ i = id[TheHead]
  BY HeadStoreByte
<1>2. /\ sent' = sent /\ told' = told /\ holder' = holder
      /\ \A q \in Apps : Open(q)' = Open(q)
      /\ \A q \in Apps, j \in ID : q # r \/ j # i => status'[q][j] = status[q][j]
      /\ Open(r) => Works(r, i) /\ status'[r][i] = [avl |-> "NAVL", val |-> pc[TheHead]]
      /\ pc[TheHead] \in {"ACTV", "SCES", "FAIL"}
  BY <1>1, HeadStoreByte DEF StoreField, history
<1>3. CASE Open(r) /\ pc[TheHead] \in Final
  <2>1. IdStage(r, i)
    BY <1>3 DEF Inv, OpenInv
  <2>2. holder[r][i] # 0 /\ status[r][i].val = "ACTV"
    BY <1>2, <1>3, <2>1 DEF IdStage, Final
  <2>3. PICK n \in Request : n = holder[r][i]
    BY <2>2, OneHolder
  <2>4. \A q \in Apps, j \in ID : holder[q][j] = n => q = r /\ j = i
    BY <2>2, <2>3, OneHolder
  <2>5. r \in Callers /\ n \in Held[r]
    BY <1>3, <2>2, <2>3, CallersElement, HeldElement
  <2>6. \A s \in Final : <<n, s>> \notin AllOver
    <3> SUFFICES ASSUME NEW s \in Final, <<n, s>> \in AllOver
                 PROVE  FALSE
      OBVIOUS
    <3>1. PICK q \in Apps, j \in ID : /\ status[q][j].val \in Final
                                      /\ <<n, s>> = <<holder[q][j], status[q][j].val>>
      BY OverElement
    <3>2. q = r /\ j = i
      BY <2>4, <3>1
    <3> QED
      BY <2>2, <3>1, <3>2 DEF Final
  <2>7. AllOver' = AllOver \cup {<<n, pc[TheHead]>>}
    <3>1. \A q \in Apps, j \in ID :
            holder[q][j] # 0 /\ status'[q][j].val \in Final <=>
              \/ q = r /\ j = i
              \/ holder[q][j] # 0 /\ status[q][j].val \in Final
      BY <1>2, <1>3, <2>2
    <3>2. \A q \in Apps, j \in ID :
            <<holder[q][j], status'[q][j].val>> =
              IF q = r /\ j = i THEN <<n, pc[TheHead]>> ELSE <<holder[q][j], status[q][j].val>>
      BY <1>2, <1>3, <2>3
    <3>3. \A e : e \in AllOver' <=>
            \E q \in Apps, j \in ID : /\ holder[q][j] # 0 /\ status'[q][j].val \in Final
                                      /\ e = <<holder[q][j], status'[q][j].val>>
      BY <1>2 DEF AllOver, Over, Under
    <3>4. \A e : e \in AllOver' <=> e \in AllOver \/ e = <<n, pc[TheHead]>>
      <4>1. \A e : e \in AllOver' => e \in AllOver \/ e = <<n, pc[TheHead]>>
        <5> SUFFICES ASSUME NEW e \in AllOver'
                     PROVE  e \in AllOver \/ e = <<n, pc[TheHead]>>
          OBVIOUS
        <5>1. PICK q \in Apps, j \in ID : /\ holder[q][j] # 0 /\ status'[q][j].val \in Final
                                          /\ e = <<holder[q][j], status'[q][j].val>>
          BY <3>3
        <5>2. CASE q = r /\ j = i
          BY <3>2, <5>1, <5>2
        <5>3. CASE ~(q = r /\ j = i)
          <6>1. holder[q][j] # 0 /\ status[q][j].val \in Final
            BY <3>1, <5>1, <5>3
          <6>2. e = <<holder[q][j], status[q][j].val>>
            BY <3>2, <5>1, <5>3
          <6> QED
            BY <6>1, <6>2, OverElement
        <5> QED
          BY <5>2, <5>3
      <4>2. \A e : e \in AllOver => e \in AllOver'
        <5> SUFFICES ASSUME NEW e \in AllOver
                     PROVE  e \in AllOver'
          OBVIOUS
        <5>1. PICK q \in Apps, j \in ID : /\ holder[q][j] # 0 /\ status[q][j].val \in Final
                                          /\ e = <<holder[q][j], status[q][j].val>>
          BY OverElement
        <5>2. ~(q = r /\ j = i)
          BY <2>2, <5>1 DEF Final
        <5> QED
          BY <3>1, <3>2, <3>3, <5>1, <5>2
      <4>3. <<n, pc[TheHead]>> \in AllOver'
        BY <3>1, <3>2, <3>3
      <4> QED
        BY <4>1, <4>2, <4>3
    <3> QED
      BY <3>4
  <2>8. Held' = Held /\ Callers' = Callers
    BY <1>2 DEF Held, Under, Callers, Open
  <2>9. Service!Finish(n, pc[TheHead])
    BY <1>2, <2>5, <2>6, <2>7, <2>8 DEF Service!Finish, Service!Final, Final
  <2> QED
    BY <1>3, <2>9 DEF Service!FinishOne, Service!Final, Service!Request, Request, Final
<1>4. CASE ~(Open(r) /\ pc[TheHead] \in Final)
  <2>1. ASSUME NEW q \in Apps, NEW j \in ID, holder[q][j] # 0
        PROVE  \/ status'[q][j].val = status[q][j].val
               \/ status'[q][j].val \notin Final /\ status[q][j].val \notin Final
    <3>1. CASE q # r \/ j # i
      BY <1>2, <3>1
    <3>2. CASE q = r /\ j = i
      <4>1. Open(r) /\ pc[TheHead] = "ACTV"
        BY <1>2, <1>4, <2>1, <3>2 DEF Closed, Final
      <4>2. IdStage(r, i)
        BY <4>1 DEF Inv, OpenInv
      <4>3. status[r][i].val = "PEND" /\ status'[r][i].val = "ACTV"
        BY <1>2, <4>1, <4>2 DEF IdStage
      <4> QED
        BY <3>2, <4>3 DEF Final
    <3> QED
      BY <3>1, <3>2
  <2> QED
    BY <1>2, <2>1, ServiceStutters
<1> QED
  BY <1>3, <1>4

\* FTI_GetStageStatus tells how a request ended, if it has.
LEMMA AnswerTells ==
  ASSUME Inv, Closed, NEW r \in Apps, Answer(r)
  PROVE  \/ \E n \in Request, how \in Final : Service!Tell(r, n, how)
         \/ UNCHANGED Service!vars
<1> USE Processes
<1>1. TypeOK
  BY DEF Inv
<1>2. PICK i \in ID : i = id[r]
  BY <1>1, Types
<1>3. /\ pc[r] = "test" /\ pc'[r] \in {"NINI", "run"} /\ (\A q \in Apps : q # r => pc'[q] = pc[q])
      /\ sent' = sent /\ status' = status
      /\ \A q \in Apps, j \in ID : holder'[q][j] = IF Ended(seen[r]) /\ q = r /\ j = i THEN 0
                                                   ELSE holder[q][j]
      /\ told' = IF Ended(seen[r]) THEN told \cup {<<holder[r][i], seen[r]>>} ELSE told
  BY <1>1, <1>2 DEF Answer, At, Goto, TypeOK, shared
<1>4. Open(r) /\ \A q \in Apps : Open(q)' = Open(q)
  BY <1>3 DEF Open, Ending
<1>5. CASE Ended(seen[r])
  <2>1. PICK how \in Final : how = seen[r]
    BY <1>5 DEF Ended
  <2>2. OpenInv(r)
    BY <1>4 DEF Inv
  <2>3. holder[r][i] # 0 /\ status[r][i].val = how
    BY <1>2, <1>3, <2>1, <2>2 DEF OpenInv, SeenStage, At, Final
  <2>4. PICK n \in Request : n = holder[r][i]
    BY <2>3, OneHolder
  <2>5. \A q \in Apps, j \in ID : holder[q][j] = n => q = r /\ j = i
    BY <2>3, <2>4, OneHolder
  <2>6. r \in Callers /\ n \in Held[r] /\ <<n, how>> \in AllOver
    BY <1>4, <2>3, <2>4, CallersElement, HeldElement, OverElement
  <2>7. Held' = [Held EXCEPT ![r] = @ \ {n}]
    <3>1. ASSUME NEW q \in Apps, q # r PROVE Held'[q] = Held[q]
      BY <1>3, <3>1 DEF Held, Under
    <3>2. n # 0
      BY <2>3, <2>4
    <3>3. \A m : m \in Held'[r] <=> \E j \in ID : holder'[r][j] # 0 /\ holder'[r][j] = m
      BY DEF Held, Under
    <3>4. \A m : m \in Held'[r] <=> m \in Held[r] \ {n}
      <4>1. \A m : m \in Held'[r] => m \in Held[r] /\ m # n
        BY <1>3, <1>5, <2>5, <3>3, HeldElement
      <4>2. \A m : m \in Held[r] /\ m # n => m \in Held'[r]
        BY <1>3, <2>4, <3>3, HeldElement
      <4> QED
        BY <4>1, <4>2
    <3>5. Held'[r] = Held[r] \ {n}
      BY <3>4
    <3> QED
      BY <3>1, <3>5 DEF Held
  <2>8. AllOver' = AllOver \ {<<n, how>>}
    <3>1. \A e : e \in AllOver' <=>
            \E q \in Apps, j \in ID : /\ holder'[q][j] # 0 /\ status[q][j].val \in Final
                                      /\ e = <<holder'[q][j], status[q][j].val>>
      <4>1. status' = status
        BY <1>3
      <4> QED
        BY <4>1 DEF AllOver, Over, Under
    <3>2. ASSUME NEW e \in AllOver' PROVE e \in AllOver /\ e # <<n, how>>
      <4>1. PICK q \in Apps, j \in ID : /\ holder'[q][j] # 0 /\ status[q][j].val \in Final
                                        /\ e = <<holder'[q][j], status[q][j].val>>
        BY <3>1, <3>2
      <4>2. ~(q = r /\ j = i) /\ holder'[q][j] = holder[q][j]
        BY <1>3, <1>5, <4>1
      <4>3. e \in AllOver
        BY <4>1, <4>2, OverElement
      <4>4. holder[q][j] # n
        BY <2>5, <4>2
      <4> QED
        BY <4>1, <4>2, <4>3, <4>4
    <3>3. ASSUME NEW e \in AllOver, e # <<n, how>> PROVE e \in AllOver'
      <4>1. PICK q \in Apps, j \in ID : /\ holder[q][j] # 0 /\ status[q][j].val \in Final
                                        /\ e = <<holder[q][j], status[q][j].val>>
        BY <3>3, OverElement
      <4>2. ~(q = r /\ j = i)
        BY <2>3, <2>4, <3>3, <4>1
      <4>3. holder'[q][j] = holder[q][j]
        BY <1>3, <4>2
      <4> QED
        BY <3>1, <4>1, <4>3
    <3> QED
      BY <3>2, <3>3
  <2>9. Callers' = Callers
    BY <1>4 DEF Callers, Open
  <2>10. told' = told \cup {<<n, how>>}
    BY <1>3, <1>5, <2>1, <2>4
  <2>11. Service!Tell(r, n, how)
    BY <1>3, <2>6, <2>7, <2>8, <2>9, <2>10 DEF Service!Tell
  <2> QED
    BY <2>11
<1>6. CASE ~Ended(seen[r])
  BY <1>3, <1>4, <1>6, ServiceStutters
<1> QED
  BY <1>5, <1>6

\* FTI_Finalize gives up what is under way.
LEMMA SendEndCloses ==
  ASSUME Inv, Closed, NEW r \in Apps, SendEnd(r)
  PROVE  Service!Close(r)
<1> USE Processes
<1>1. TypeOK
  BY DEF Inv
<1>2. /\ pc[r] = "run" /\ pc'[r] = "release" /\ (\A q \in Apps : q # r => pc'[q] = pc[q])
      /\ sent' = sent /\ told' = told /\ status' = status
      /\ \A q \in Apps, j \in ID : holder'[q][j] = IF q = r THEN 0 ELSE holder[q][j]
  BY <1>1 DEF SendEnd, At, Goto, TypeOK, shared
<1>3. r \in Callers /\ Callers' = Callers \ {r}
  BY <1>2 DEF Callers, Ending
<1>4. Held' = [Held EXCEPT ![r] = {}]
  <2>1. ASSUME NEW q \in Apps, q # r PROVE Held'[q] = Held[q]
    BY <1>2, <2>1 DEF Held, Under
  <2>2. Held'[r] = {}
    BY <1>2 DEF Held, Under
  <2> QED
    BY <2>1, <2>2 DEF Held
<1>5. AllOver' = {e \in AllOver : e[1] \notin Held[r]}
  <2>1. \A e : e \in AllOver' <=>
          \E q \in Apps, j \in ID : /\ holder'[q][j] # 0 /\ status[q][j].val \in Final
                                    /\ e = <<holder'[q][j], status[q][j].val>>
    BY <1>2 DEF AllOver, Over, Under
  <2>2. ASSUME NEW e \in AllOver' PROVE e \in AllOver /\ e[1] \notin Held[r]
    <3>1. PICK q \in Apps, j \in ID : /\ holder'[q][j] # 0 /\ status[q][j].val \in Final
                                      /\ e = <<holder'[q][j], status[q][j].val>>
      BY <2>1, <2>2
    <3>2. q # r /\ holder'[q][j] = holder[q][j]
      BY <1>2, <3>1
    <3>3. e \in AllOver
      BY <3>1, <3>2, OverElement
    <3>4. e[1] = holder[q][j] /\ holder[q][j] # 0
      BY <3>1, <3>2
    <3>5. holder[q][j] \notin Held[r]
      BY <3>2, <3>4, OneHolder, HeldElement
    <3> QED
      BY <3>3, <3>4, <3>5
  <2>3. ASSUME NEW e \in AllOver, e[1] \notin Held[r] PROVE e \in AllOver'
    <3>1. PICK q \in Apps, j \in ID : /\ holder[q][j] # 0 /\ status[q][j].val \in Final
                                      /\ e = <<holder[q][j], status[q][j].val>>
      BY <2>3, OverElement
    <3>2. q # r
      BY <2>3, <3>1, HeldElement
    <3>3. holder'[q][j] = holder[q][j]
      BY <1>2, <3>2
    <3> QED
      BY <2>1, <3>1, <3>3
  <2> QED
    BY <2>2, <2>3
<1> QED
  BY <1>2, <1>3, <1>4, <1>5 DEF Service!Close

\* Every step of the node is a step of the service or nothing to it.
LEMMA ServiceStep ==
  ASSUME Inv, Closed, [Next]_vars
  PROVE  [Service!Next]_Service!vars
<1> USE Processes
<1>1. TypeOK
  BY DEF Inv
<1>2. ASSUME sent' = sent, told' = told, holder' = holder, status' = status,
             \A r \in Apps : Open(r)' = Open(r)
      PROVE  UNCHANGED Service!vars
  BY <1>2, ServiceStutters
<1>3. ASSUME NEW w \in Who, LoadField(w) PROVE UNCHANGED Service!vars
  BY <1>2, <1>3 DEF LoadField, history, Open, Ending
<1>4. ASSUME NEW r \in Apps, StoreField(r) PROVE UNCHANGED Service!vars
  <2>1. PICK i \in ID : i = id[r]
    BY <1>1, Types
  <2>2. /\ pc[r] \in {"NAVL", "PEND"} \cup Clearing /\ Open(r) /\ Open(r)' /\ OpenInv(r)
        /\ \A q \in Apps : q # r => SameFor(q) /\ Open(q)' = Open(q)
        /\ \A j \in ID : j # i => status'[r][j] = status[r][j]
        /\ pc[r] \in {"NAVL", "PEND"} => status'[r][i].val \in {"NINI", "PEND"}
    BY <1>4, <2>1, AppStoreByte DEF Clearing
  <2>3. sent' = sent /\ told' = told /\ holder' = holder
    BY <1>4 DEF StoreField, history
  <2>4. IdStage(r, i)
    BY <2>2 DEF OpenInv
  <2>5. holder[r][i] # 0 => status[r][i].val \notin Final /\ status'[r][i].val \notin Final
    BY <2>1, <2>2, <2>4 DEF IdStage, Posts, Clears, Posting, Clearing, Final
  <2>6. \A q \in Apps, j \in ID : q # r \/ j # i => status'[q][j] = status[q][j]
    BY <2>2 DEF SameFor
  <2> QED
    <3>1. ASSUME NEW q \in Apps, NEW j \in ID, holder[q][j] # 0
          PROVE  \/ status'[q][j].val = status[q][j].val
                 \/ status'[q][j].val \notin Final /\ status[q][j].val \notin Final
      BY <2>5, <2>6, <3>1
    <3>2. \A q \in Apps : Open(q)' = Open(q)
      <4>1. Open(r)' = Open(r)
        BY <2>2 DEF Open
      <4> QED
        BY <2>2, <4>1
    <3> QED
      BY <2>3, <3>1, <3>2, ServiceStutters
<1>5. ASSUME NEW r \in Apps, Isend(r) \/ Release(r) \/ \E i \in ID : ReadStatus(r, i)
      PROVE  UNCHANGED Service!vars
  <2>1. \A q \in Apps : Open(q)' = Open(q)
    BY <1>1, <1>5 DEF Isend, Release, ReadStatus, At, Goto, TypeOK, Open, Ending
  <2>2. sent' = sent /\ told' = told /\ holder' = holder /\ status' = status
    BY <1>5 DEF Isend, Release, ReadStatus, history, shared
  <2> QED
    BY <1>2, <2>1, <2>2
<1>6. ASSUME NEW r \in Apps, AppStep(r) PROVE Service!Next \/ UNCHANGED Service!vars
  <2>1. CASE Answer(r)
    BY <2>1, AnswerTells DEF Service!Next, Service!Request, Service!Final, Request, Final
  <2>2. CASE LoadField(r) \/ StoreField(r) \/ Isend(r) \/ Release(r)
    BY <1>3, <1>4, <1>5, <2>2
  <2> QED
    BY <1>6, <2>1, <2>2 DEF AppStep
<1>7. ASSUME NEW r \in Apps, NEW i \in ID, SendFile(r, i) PROVE Service!Next
  BY <1>7, SendFileAsks DEF Service!Next
<1>8. ASSUME NEW r \in Apps, SendEnd(r) PROVE Service!Next
  BY <1>8, SendEndCloses DEF Service!Next
<1>9. CASE HeadStep
  <2>1. CASE StoreField(TheHead)
    BY <2>1, HeadStoreFinishes DEF Service!Next
  <2>2. CASE LoadField(TheHead)
    BY <1>3, <2>2
  <2>3. CASE (\E r \in Apps, i \in ID : HandleStageRequest(r, i)) \/ (\E ok \in BOOLEAN : Copy(ok))
             \/ ListenFinal \/ EndListen
    <3>1. \A q \in Apps : Open(q)' = Open(q)
      BY <1>1, <2>3 DEF HandleStageRequest, Copy, ListenFinal, EndListen, Goto, TypeOK, Open, Ending
    <3>2. sent' = sent /\ told' = told /\ holder' = holder /\ status' = status
      BY <2>3 DEF HandleStageRequest, Copy, ListenFinal, EndListen, history, shared
    <3> QED
      BY <1>2, <3>1, <3>2
  <2> QED
    BY <1>9, <2>1, <2>2, <2>3 DEF HeadStep
<1>10. CASE (\E n \in Request : Buffered(n)) \/ Barrier \/ UNCHANGED vars
  <2>1. \A q \in Apps : Open(q)' = Open(q)
    BY <1>10 DEF Buffered, Barrier, AllAt, vars, Open, Ending
  <2>2. sent' = sent /\ told' = told /\ holder' = holder /\ status' = status
    BY <1>10 DEF Buffered, Barrier, vars, history, shared
  <2> QED
    BY <1>2, <2>1, <2>2
<1> QED
  BY <1>5, <1>6, <1>7, <1>8, <1>9, <1>10 DEF Next, Done

\* Staging does only what the service does: a process has at most as many requests
\* under way as it has IDs, each ends once, and the process is told its end once and
\* as it was.
THEOREM ServiceSafe == Spec => Service!SafeSpec
<1>1. Init => Service!Init
  <2> SUFFICES ASSUME Init PROVE Service!Init
    OBVIOUS
  <2>1. Held = [r \in Apps |-> {}] /\ AllOver = {}
    BY DEF Init, Held, AllOver, Over, Under
  <2>2. Callers = Apps
    BY Processes DEF Init, Callers, Ending
  <2> QED
    BY <2>1, <2>2 DEF Init, Service!Init
<1>2. Inv /\ Closed /\ [Next]_vars => [Service!Next]_Service!vars
  BY ServiceStep
<1> QED
  BY <1>1, <1>2, ClosedHolds, PTL DEF Spec, Service!SafeSpec

=============================================================================

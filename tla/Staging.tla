------------------------------- MODULE Staging -------------------------------
(***************************************************************************)
(* Staging of files by FTI (stage.c): FTI_SendFile asks the head of the    *)
(* node to copy a local file to the parallel file system, and              *)
(* FTI_GetStageStatus asks what became of the request.  The request is     *)
(* known by an ID, reused once the application has seen how the request    *)
(* ended.                                                                  *)
(*                                                                         *)
(* One node: its application processes, ranks 1 .. A of nodeComm, and the  *)
(* head, rank 0.  They share a window with one status byte per process and *)
(* ID, which holds two fields, the availability of the ID and the state of *)
(* the request; a field is changed by loading the byte and storing it back *)
(* (FTI_SetStatusField), which are two steps here.  Everything else is     *)
(* private to a process, and what a process does to its private data       *)
(* between two of these steps is part of the one or the other.             *)
(*                                                                         *)
(* The requests of the node are numbered as they are made, and the number  *)
(* stands for the file; the paths are abstracted.  A local variable goes   *)
(* back to its initial value when its call is over.  Checkpoint requests,  *)
(* which the head serves before stage requests, are left out, and so is    *)
(* synchronous staging, which runs when there is no head.                  *)
(***************************************************************************)
EXTENDS Integers, FiniteSets, SequencesExt

CONSTANTS
  A,            \* application processes of the node
  MaxNum,       \* FTI_SI_MAX_NUM, how many IDs a process has
  MaxSends,     \* bound: calls of FTI_SendFile
  MaxFault      \* bound: copies that fail

ASSUME SizesAssumption == A \in Nat \ {0} /\ MaxNum \in Nat \ {0}
ASSUME BoundsAssumption == MaxSends \in Nat /\ MaxFault \in Nat

Apps == 1 .. A
TheHead == 0                    \* headRankNode
Who == Apps \cup {TheHead}
ID == 0 .. MaxNum - 1
Request == 1 .. MaxSends

State == {"NINI", "PEND", "ACTV", "SCES", "FAIL"}      \* FTI_SIF_VAL
Availability == {"IAVL", "NAVL"}                       \* FTI_SIF_AVL
Byte == [avl : Availability, val : State]
NoByte == [avl |-> "none", val |-> "none"]
Final == {"SCES", "FAIL"}

VARIABLES
  pc,         \* where each process is; a state or an availability: about to set it
  id,         \* the ID it works on
  copy,       \* the byte it has loaded and not yet stored
  status,     \* the shared bytes of each application process
  reqCnt,     \* req_cnt
  table,      \* idxRequest: whether an ID has an element in request, and where
  request,    \* stageInfo->request: IDs and the buffers of their messages
  seen,       \* the state FTI_GetStageStatus has read
  net,        \* stage messages from each application process to the head
  lent,       \* the messages whose buffer MPI still has to read
  spoilt,     \* the messages whose buffer was freed before that
  final,      \* whether the process's FTI_ENDW is under way
  source,     \* the head: whose request it serves
  serving,    \* which one
  hrequest,   \* the head: stageInfo[source - 1].request, the IDs in it
  faults,     \* copies that failed
  sent,       \* history: requests made so far
  holder,     \* history: which request an ID stands for, 0 for none or too late
  outcome,    \* history: how the copy of a request's file ended
  told        \* history: what the application was told of its requests

shared == <<status, copy>>
mine == <<reqCnt, table, request, seen>>
msgs == <<net, lent, spoilt, final>>
heads == <<source, serving, hrequest>>
history == <<sent, holder, told>>
vars == <<pc, id, shared, mine, msgs, heads, faults, outcome, history>>

At(w, l) == pc[w] = l
AllAt(W, l) == \A w \in W : pc[w] = l
Goto(w, l) == pc' = [pc EXCEPT ![w] = l]

-----------------------------------------------------------------------------
(* FTI_SetStatusField *)

\* Whose window w changes.
Owner(w) == IF w = TheHead THEN source ELSE w

LoadField(w) ==
  /\ pc[w] \in State \cup Availability
  /\ copy[w] = NoByte
  /\ copy' = [copy EXCEPT ![w] = status[Owner(w)][id[w]]]
  /\ UNCHANGED <<pc, id, status, mine, msgs, heads, faults, outcome, history>>

\* Mutant: the masks of the two fields are confused.
SetFieldMask(byte, to) ==
  IF to \in Availability THEN [byte EXCEPT !.val = to] ELSE [byte EXCEPT !.val = to]

SetField(byte, to) ==
  IF to \in Availability THEN [byte EXCEPT !.avl = to] ELSE [byte EXCEPT !.val = to]

\* Mutant: the ID of a request that has ended stays unavailable.
ThenKeep(to) ==
  CASE to = "NAVL" -> "PEND"
    [] to = "PEND" -> "isend"
    [] to = "ACTV" -> "copy"
    [] to \in Final -> "listen"
    [] to \in {"NINI", "IAVL"} -> "run"

\* What the caller does next.
Then(to) ==
  CASE to = "NAVL" -> "PEND"          \* FTI_GetRequestID, FTI_InitStageRequestApp
    [] to = "PEND" -> "isend"         \* FTI_AsyncStage
    [] to = "ACTV" -> "copy"          \* FTI_HandleStageRequest
    [] to \in Final -> "listen"
    [] to = "NINI" -> "IAVL"          \* FTI_GetStageStatus
    [] to = "IAVL" -> "run"

Forget(w) ==
  /\ id' = [id EXCEPT ![w] = 0]
  /\ IF w = TheHead THEN source' = 1 /\ serving' = 0 ELSE UNCHANGED <<source, serving>>
  /\ UNCHANGED hrequest

StoreField(w) ==
  /\ pc[w] \in State \cup Availability
  /\ copy[w] # NoByte
  /\ status' = [status EXCEPT ![Owner(w)][id[w]] = SetField(copy[w], pc[w])]
  /\ copy' = [copy EXCEPT ![w] = NoByte]
  /\ Goto(w, Then(pc[w]))
  /\ IF Then(pc[w]) \in {"run", "listen"} THEN Forget(w) ELSE UNCHANGED <<id, heads>>
  /\ UNCHANGED <<mine, msgs, faults, outcome, history>>

-----------------------------------------------------------------------------
(* FTI_SendFile *)

\* Mutant: the first ID is given out again without a look at its status.
NextIDsAny(r) == IF reqCnt[r] < MaxNum THEN {reqCnt[r]} ELSE {0}

\* FTI_GetRequestID: a new ID as long as there are any, then the first one that is
\* available, if there is one.
NextIDs(r) ==
  LET available == {i \in ID : status[r][i].avl = "IAVL"}
  IN IF reqCnt[r] < MaxNum THEN {reqCnt[r]}
     ELSE {i \in available : \A j \in available : i <= j}

\* With the element FTI_InitStageRequestApp appends; without an ID the call
\* returns and changes nothing.
SendFile(r, i) ==
  /\ At(r, "run")
  /\ sent < MaxSends
  /\ i \in NextIDs(r)
  /\ id' = [id EXCEPT ![r] = i]
  /\ reqCnt' = [reqCnt EXCEPT ![r] = IF @ < MaxNum THEN @ + 1 ELSE @]
  /\ request' = [request EXCEPT ![r] = Append(@, [id |-> i, buf |-> 0])]
  /\ table' = [table EXCEPT ![r][i] = [all |-> TRUE, idx |-> Len(request[r]) + 1]]
  /\ sent' = sent + 1
  /\ holder' = [holder EXCEPT ![r][i] = sent + 1]
  /\ Goto(r, "NAVL")
  /\ UNCHANGED <<shared, seen, msgs, heads, faults, outcome, told>>

\* MPI_Isend of FTI_AsyncStage; the element keeps the buffer.
Isend(r) ==
  LET i == id[r]
      n == holder[r][i]
  IN /\ At(r, "isend")
     /\ net' = [net EXCEPT ![r] = Append(@, [id |-> i, n |-> n])]
     /\ lent' = lent \cup {n}
     /\ request' = [request EXCEPT ![r][table[r][i].idx].buf = n]
     /\ id' = [id EXCEPT ![r] = 0]
     /\ Goto(r, "run")
     /\ UNCHANGED <<shared, reqCnt, table, seen, spoilt, final, heads, faults, outcome,
                    history>>

\* MPI takes the message before the head receives it.
Buffered(n) ==
  /\ n \in lent
  /\ lent' = lent \ {n}
  /\ UNCHANGED <<pc, id, shared, mine, net, spoilt, final, heads, faults, outcome, history>>

-----------------------------------------------------------------------------
(* FTI_GetStageStatus *)

\* Of an ID that FTI_SendFile has returned, even if its request has ended.
ReadStatus(r, i) ==
  /\ At(r, "run")
  /\ i < reqCnt[r]
  /\ id' = [id EXCEPT ![r] = i]
  /\ seen' = [seen EXCEPT ![r] = status[r][i].val]
  /\ Goto(r, "test")
  /\ UNCHANGED <<shared, reqCnt, table, request, msgs, heads, faults, outcome, history>>

\* Mutant: the elements behind the freed one keep their old places in the table.
FreeRequestInPlace(r, i) ==
  LET k == table[r][i].idx
  IN /\ request' = [request EXCEPT ![r] = RemoveAt(@, k)]
     /\ spoilt' = spoilt \cup ({request[r][k].buf} \cap lent)
     /\ table' = [table EXCEPT ![r][i].all = FALSE]

\* FTI_FreeStageRequest: the elements behind the freed one move up, and the table
\* learns their new places.
FreeRequest(r, i) ==
  LET k == table[r][i].idx
      rest == RemoveAt(request[r], k)
      Moved(j) == {m \in k .. Len(rest) : rest[m].id = j}
  IN /\ request' = [request EXCEPT ![r] = rest]
     /\ spoilt' = spoilt \cup ({request[r][k].buf} \cap lent)
     /\ table' = [table EXCEPT ![r] =
                    [j \in ID |-> [all |-> j # i /\ @[j].all,
                                  idx |-> IF Moved(j) = {} THEN @[j].idx
                                          ELSE CHOOSE m \in Moved(j) : TRUE]]]

\* Mutant: a pending request is freed without MPI_Test.
TakenUntested(r, i) == r \in Apps /\ i \in ID

\* MPI_Test of a pending request: MPI has read the send buffer.
Taken(r, i) == request[r][table[r][i].idx].buf \notin lent

\* Mutant: a request the head works on is taken for one that has ended.
EndedActive(val) == val # "PEND" /\ val # "NINI"

Ended(val) == val \in Final

\* The element is freed unless MPI still needs its buffer; a request that has
\* ended gives its ID back.
Answer(r) ==
  LET i == id[r]
      ended == Ended(seen[r])
  IN /\ At(r, "test")
     /\ IF table[r][i].all /\ (seen[r] = "PEND" => Taken(r, i))
          THEN FreeRequest(r, i)
          ELSE UNCHANGED <<table, request, spoilt>>
     /\ told' = IF ended THEN told \cup {<<holder[r][i], seen[r]>>} ELSE told
     /\ holder' = IF ended THEN [holder EXCEPT ![r][i] = 0] ELSE holder
     /\ seen' = [seen EXCEPT ![r] = "NINI"]
     /\ id' = IF ended THEN id ELSE [id EXCEPT ![r] = 0]
     /\ Goto(r, IF ended THEN "NINI" ELSE "run")
     /\ UNCHANGED <<shared, reqCnt, net, lent, final, heads, faults, outcome, sent>>

-----------------------------------------------------------------------------
(* The head: FTI_Listen, FTI_HandleStageRequest *)

\* MPI_Recv and FTI_InitStageRequestHead.  A spoilt message may hold any ID.
HandleStageRequest(r, i) ==
  LET m == Head(net[r])
  IN /\ At(TheHead, "listen")
     /\ net[r] # <<>>
     /\ m.n \notin spoilt => i = m.id
     /\ net' = [net EXCEPT ![r] = Tail(@)]
     /\ lent' = lent \ {m.n}
     /\ id' = [id EXCEPT ![TheHead] = i]
     /\ source' = r
     /\ serving' = m.n
     /\ hrequest' = [hrequest EXCEPT ![r] = Append(@, i)]
     /\ Goto(TheHead, "ACTV")
     /\ UNCHANGED <<shared, mine, spoilt, final, faults, outcome, history>>

\* FTI_FreeStageRequest of the head: the search looks at the first element only.
HeadFree(r, i) ==
  hrequest' = IF hrequest[r] # <<>> /\ Head(hrequest[r]) = i
                THEN [hrequest EXCEPT ![r] = Tail(@)]
                ELSE hrequest

\* Mutant: a copy that fails leaves the status as it is, as in FTI_SyncStage.
CopySilent(ok) ==
  /\ At(TheHead, "copy")
  /\ ~ok => faults < MaxFault
  /\ faults' = IF ok THEN faults ELSE faults + 1
  /\ outcome' = [outcome EXCEPT ![serving] = IF ok THEN "SCES" ELSE "FAIL"]
  /\ HeadFree(source, id[TheHead])
  /\ Goto(TheHead, IF ok THEN "SCES" ELSE "listen")
  /\ UNCHANGED <<id, shared, mine, msgs, source, serving, history>>

\* The file is on the parallel file system; or something on the way failed, as it
\* does with the paths of a spoilt message.
Copy(ok) ==
  LET spoiltOne == serving \in spoilt
  IN /\ At(TheHead, "copy")
     /\ ok => ~spoiltOne
     /\ ~ok /\ ~spoiltOne => faults < MaxFault
     /\ faults' = IF ok \/ spoiltOne THEN faults ELSE faults + 1
     /\ outcome' = [outcome EXCEPT ![serving] = IF ok THEN "SCES" ELSE "FAIL"]
     /\ HeadFree(source, id[TheHead])
     /\ Goto(TheHead, IF ok THEN "SCES" ELSE "FAIL")
     /\ UNCHANGED <<id, shared, mine, msgs, source, serving, history>>

-----------------------------------------------------------------------------
(* FTI_Finalize *)

SendEnd(r) ==
  /\ At(r, "run")
  /\ final' = [final EXCEPT ![r] = TRUE]
  /\ holder' = [holder EXCEPT ![r] = [i \in ID |-> 0]]
  /\ Goto(r, "release")
  /\ UNCHANGED <<id, shared, mine, net, lent, spoilt, heads, faults, outcome, sent, told>>

\* FTI_FinalizeStage frees every buffer the process still has, without MPI_Test.
Release(r) ==
  /\ At(r, "release")
  /\ request' = [request EXCEPT ![r] = <<>>]
  /\ spoilt' = spoilt \cup ({request[r][k].buf : k \in DOMAIN request[r]} \cap lent)
  /\ Goto(r, "barrier")
  /\ UNCHANGED <<id, shared, reqCnt, table, seen, net, lent, final, heads, faults, outcome,
                 history>>

\* The head has found no request and a final message, and waits for the others'.
ListenFinal ==
  /\ At(TheHead, "listen")
  /\ \A r \in Apps : net[r] = <<>>
  /\ \E r \in Apps : final[r]
  /\ Goto(TheHead, "ending")
  /\ UNCHANGED <<id, shared, mine, msgs, heads, faults, outcome, history>>

EndListen ==
  /\ At(TheHead, "ending")
  /\ \A r \in Apps : final[r]
  /\ hrequest' = [r \in Apps |-> <<>>]
  /\ Goto(TheHead, "barrier")
  /\ UNCHANGED <<id, shared, mine, msgs, source, serving, faults, outcome, history>>

\* After it the head removes the staging directory.
Barrier ==
  /\ AllAt(Who, "barrier")
  /\ pc' = [w \in Who |-> "done"]
  /\ UNCHANGED <<id, shared, mine, msgs, heads, faults, outcome, history>>

-----------------------------------------------------------------------------

Init ==
  /\ pc = [w \in Who |-> IF w = TheHead THEN "listen" ELSE "run"]
  /\ id = [w \in Who |-> 0]
  /\ copy = [w \in Who |-> NoByte]
  /\ status = [r \in Apps |-> [i \in ID |-> [avl |-> "IAVL", val |-> "NINI"]]]
  /\ reqCnt = [r \in Apps |-> 0]
  /\ table = [r \in Apps |-> [i \in ID |-> [all |-> FALSE, idx |-> 0]]]
  /\ request = [r \in Apps |-> <<>>]
  /\ seen = [r \in Apps |-> "NINI"]
  /\ net = [r \in Apps |-> <<>>]
  /\ lent = {} /\ spoilt = {}
  /\ final = [r \in Apps |-> FALSE]
  /\ source = 1 /\ serving = 0
  /\ hrequest = [r \in Apps |-> <<>>]
  /\ faults = 0
  /\ sent = 0
  /\ holder = [r \in Apps |-> [i \in ID |-> 0]]
  /\ outcome = [n \in Request |-> "none"]
  /\ told = {}

\* The steps of r inside a call.
AppStep(r) == LoadField(r) \/ StoreField(r) \/ Isend(r) \/ Answer(r) \/ Release(r)

HeadStep ==
  \/ LoadField(TheHead) \/ StoreField(TheHead)
  \/ \E r \in Apps, i \in ID : HandleStageRequest(r, i)
  \/ \E ok \in BOOLEAN : Copy(ok)
  \/ ListenFinal \/ EndListen

Done == AllAt(Who, "done") /\ UNCHANGED vars

Next ==
  \/ \E r \in Apps :
       \/ AppStep(r)
       \/ \E i \in ID : SendFile(r, i) \/ ReadStatus(r, i)
       \/ SendEnd(r)
  \/ \E n \in Request : Buffered(n)
  \/ HeadStep
  \/ Barrier
  \/ Done

Spec == Init /\ [][Next]_vars

\* Calls run to their end and the head does not stop; the application need not
\* call, nor MPI take a message early.
FairSpec ==
  /\ Spec
  /\ \A r \in Apps : WF_vars(AppStep(r))
  /\ WF_vars(HeadStep)
  /\ WF_vars(Barrier)
-----------------------------------------------------------------------------
(* Properties *)

Where == State \cup Availability \cup
         {"run", "isend", "test", "listen", "copy", "ending", "release", "barrier", "done"}

Ending(r) == pc[r] \in {"release", "barrier", "done"}

\* Type invariant.
TypeOK ==
  /\ pc \in [Who -> Where]
  /\ id \in [Who -> ID]
  /\ copy \in [Who -> Byte \cup {NoByte}]
  /\ status \in [Apps -> [ID -> Byte]]
  /\ reqCnt \in [Apps -> 0 .. MaxNum]
  /\ table \in [Apps -> [ID -> [all : BOOLEAN, idx : 0 .. MaxNum]]]
  /\ request \in [Apps -> Seq([id : ID, buf : 0 .. MaxSends])]
  /\ seen \in [Apps -> State]
  /\ net \in [Apps -> Seq([id : ID, n : Request])]
  /\ lent \subseteq Request /\ spoilt \subseteq Request
  /\ final \in [Apps -> BOOLEAN]
  /\ source \in Apps /\ serving \in 0 .. MaxSends
  /\ hrequest \in [Apps -> Seq(ID)]
  /\ faults \in 0 .. MaxFault
  /\ sent \in 0 .. MaxSends
  /\ holder \in [Apps -> [ID -> 0 .. MaxSends]]
  /\ outcome \in [Request -> Final \cup {"none"}]
  /\ told \subseteq (0 .. MaxSends) \X Final

\* The note at the top of stage.c: a status byte is changed on a copy.  Process and
\* head share the byte, but never change it at the same time: the copy is never
\* out of date when it is stored.
NoLostUpdate ==
  \A w \in Who : copy[w] # NoByte => copy[w] = status[Owner(w)][id[w]]

\* The look-up table of a process and its array of requests describe each other,
\* whatever the order in which requests are freed; the head, which finds a request
\* only at the front of its array, has the one it serves there and no other.
TableMatches ==
  /\ \A r \in Apps : ~Ending(r) =>
       /\ \A i \in ID : table[r][i].all =>
            table[r][i].idx \in DOMAIN request[r] /\ request[r][table[r][i].idx].id = i
       /\ \A k \in DOMAIN request[r] :
            table[r][request[r][k].id] = [all |-> TRUE, idx |-> k]
  /\ \A r \in Apps :
       hrequest[r] = IF pc[TheHead] \in {"ACTV", "copy"} /\ source = r THEN <<id[TheHead]>>
                     ELSE <<>>

\* "keep send buffer until it may be freed": until FTI_Finalize, no buffer is freed
\* that MPI still has to read.
BufferKept ==
  \A r \in Apps : ~Ending(r) => \A k \in DOMAIN net[r] : net[r][k].n \notin spoilt

\* An ID is unavailable exactly as long as it stands for a request whose end the
\* application has not been told: none is lost, none is given out twice.
IdsAccounted ==
  \A r \in Apps : At(r, "run") =>
    \A i \in ID : status[r][i].avl = "NAVL" <=> holder[r][i] # 0

\* What FTI_GetStageStatus says of a request is how the copy of that request's file
\* ended, and it says so once.
AnswerIsTrue == \A t \in told : t[1] \in Request /\ outcome[t[1]] = t[2]

\* The refinement: the requests under way are those with an ID, and one has ended
\* when its status byte says so.
Under(r) == {i \in ID : holder[r][i] # 0}
Over(r) == {i \in Under(r) : status[r][i].val \in Final}

Held == [r \in Apps |-> {holder[r][i] : i \in Under(r)}]
AllOver == UNION {{<<holder[r][i], status[r][i].val>> : i \in Over(r)} : r \in Apps}
Callers == {r \in Apps : ~Ending(r)}

Service == INSTANCE StageService WITH
  Limit <- MaxNum, asked <- sent, held <- Held, ended <- AllOver, open <- Callers

\* Window, IDs, messages and buffers together give the application a service that
\* takes MaxNum requests of a process at a time, ends each once, tells its end once
\* and as it was, and, as long as nobody calls FTI_Finalize, ends every one.
ServiceKept == Service!Spec

\* "we first process all checkpoint and staging request before we call finalize":
\* no request is left when the head stops.
ServedBeforeEnd ==
  pc[TheHead] \in {"barrier", "done"} => \A r \in Apps : net[r] = <<>>
=============================================================================

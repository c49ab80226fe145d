---------------------------- MODULE StageService ----------------------------
(***************************************************************************)
(* What staging promises the application (FTI_SendFile, FTI_GetStageStatus *)
(* and FTI_Finalize in api.c), without IDs, status bytes and messages:     *)
(* a process has a limited number of requests under way, each ends once,   *)
(* and the process is told once how it ended.  Staging implements it.      *)
(***************************************************************************)
EXTENDS Integers, FiniteSets

CONSTANTS
  Apps,         \* application processes of the node
  Limit,        \* requests a process may have under way
  MaxSends      \* bound: requests

Request == 1 .. MaxSends
Final == {"SCES", "FAIL"}

VARIABLES
  asked,        \* requests made so far
  held,         \* the requests of each process whose end it has not been told
  ended,        \* those that have ended, and how
  told,         \* what the processes were told
  open          \* the processes that have not called FTI_Finalize

vars == <<asked, held, ended, told, open>>

Init ==
  /\ asked = 0
  /\ held = [r \in Apps |-> {}]
  /\ ended = {} /\ told = {}
  /\ open = Apps

\* FTI_SendFile
Ask(r) ==
  /\ r \in open
  /\ asked < MaxSends
  /\ Cardinality(held[r]) < Limit
  /\ asked' = asked + 1
  /\ held' = [held EXCEPT ![r] = @ \cup {asked + 1}]
  /\ UNCHANGED <<ended, told, open>>

\* The head's work on request n is over.
Finish(n, how) ==
  /\ \E r \in open : n \in held[r]
  /\ \A s \in Final : <<n, s>> \notin ended
  /\ ended' = ended \cup {<<n, how>>}
  /\ UNCHANGED <<asked, held, told, open>>

FinishOne == \E n \in Request, how \in Final : Finish(n, how)

\* FTI_GetStageStatus answers with a final status, and forgets the request.
Tell(r, n, how) ==
  /\ r \in open
  /\ n \in held[r]
  /\ <<n, how>> \in ended
  /\ told' = told \cup {<<n, how>>}
  /\ ended' = ended \ {<<n, how>>}
  /\ held' = [held EXCEPT ![r] = @ \ {n}]
  /\ UNCHANGED <<asked, open>>

\* FTI_Finalize gives up what is under way.
Close(r) ==
  /\ r \in open
  /\ open' = open \ {r}
  /\ held' = [held EXCEPT ![r] = {}]
  /\ ended' = {e \in ended : e[1] \notin held[r]}
  /\ UNCHANGED <<asked, told>>

Next ==
  \/ \E r \in Apps : Ask(r) \/ Close(r)
  \/ \E r \in Apps, n \in Request, how \in Final : Tell(r, n, how)
  \/ FinishOne

\* What the service may do.
SafeSpec == Init /\ [][Next]_vars

\* As long as no process of the node finalises, requests end until there is none
\* under way.
Spec == SafeSpec /\ WF_vars(open = Apps /\ FinishOne)
=============================================================================

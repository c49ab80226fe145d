# A TLA+ model of FTI

FTI (Fault Tolerance Interface) is a C library for multilevel checkpointing of
MPI programs.  An application calls `FTI_Init`, `FTI_Protect`, `FTI_Checkpoint`
(or `FTI_Snapshot`), `FTI_Recover` and `FTI_Finalize`; the library stores the
protected variables at one of four levels:

| level | where the data is | what it survives |
|---|---|---|
| L1 | the local storage of the process's node | a crash of the job |
| L2 | L1, and a copy on the right neighbour's node | losses of nodes that are not neighbours |
| L3 | L1, and Reed-Solomon encoded files in the group | the loss of half of the group |
| L4 | the parallel file system (PFS) | the loss of every node |

This directory holds TLA+ modules translated from the sources under
`src/src/`, TLC configurations that check them on small instances, and proofs
that TLAPS checks for every value of the constants.

## The system's parts

| part | state it keeps | operations | interacts with | what is hard | what makes it correct |
|---|---|---|---|---|---|
| Checkpoint call (`api.c`, `checkpoint.c`) | `ckptID`, `ckptLvel`, `lastCkptLvel`, `wasLastOffline` per process | `FTI_Checkpoint`, `FTI_WriteCkpt`, `FTI_PostCkpt` | all processes through collectives; the directories | one process fails, others do not; clean-up and renames by different processes; crashes in between | a checkpoint reported as done is stored; a failed one leaves the last one alone |
| Post-processing (`postckpt.c`) | files in the temporary directories | `FTI_Local`, `FTI_Ptner`, `FTI_RSenc`, `FTI_Flush` | neighbours in the ring, by messages | one side of an exchange fails | the group has redundant files, or the checkpoint is discarded |
| Recovery (`recover.c`, `postreco.c`) | erasures, the level tried | `FTI_RecoverFiles`, `FTI_RecoverL1`-`L4`, `FTI_Decode` | group by messages; directories | crash during recovery; stale files under reused names | the newest checkpoint that can be recovered is, and all processes load the same |
| Metadata, clean-up (`meta.c`, `tools.c`) | one file per group and level | `FTI_CreateMetadata`, `FTI_LoadMeta`, `FTI_Clean` | all of the above | metadata and data replaced at different moments | the metadata of a level describes the files of that level |
| Configuration file (`conf.c`) | `restart`, `failure` | `FTI_UpdateConf`, `FTI_ReadConf` | the next launch of the job | | after a done checkpoint the next launch recovers |
| Heads (`FTI_Listen`) | pending requests | `FTI_HandleCkptRequest` | messages with the processes of the node | late answers, finalisation racing a request | checkpoints never overlap; every request is answered |
| Staging (`stage.c`) | request identifiers, status fields, request arrays | `FTI_SendFile`, `FTI_GetStageStatus` | shared window, messages to the head | asynchronous completion, reuse of identifiers | a request ends in exactly one final status, and is reported once and as it ended |
| Incremental checkpoint (`api.c`, `incremental-checkpoint.c`) | `iCPInfo`: status, counter and result of the call, and the id, level and first-flag from before it | `FTI_InitICP`, `FTI_AddVarICP`, `FTI_FinalizeICP` | post-processing, heads, the restart flag | Init and Add are local: processes run at different speeds and fail one by one | a file that lacks a variable is never committed; failed calls leave ids, levels and answers as they were |
| Protected variables, types | `FTI_Data`, `nbVar`, `ckptSize` | `FTI_Protect`, `FTI_RecoverVar`, `FTI_Realloc` | file layout | change of size between checkpoint and recovery | variables are read from where they were written |
| Snapshot timing (`api.c`, `checkpoint.c`) | iteration and minute counters, times, the next check (`ckptNext`) | `FTI_Snapshot`, `FTI_UpdateIterTime` | all processes (the mean iteration time), checkpoint call | everything but the mean is local; the next check moves while it is waited for | all processes choose the same level for the same iteration; a check is made every minute |
| Topology (`topo.c`) | node list, ring | `FTI_Topology` | restart on new nodes | replaced nodes | a process finds its old files |
| FTI-FF (`ftiff.c`) | the data blocks and containers of each process (`firstdb`), no metadata beside the files | `FTIFF_UpdateDatastructFTIFF`, `FTIFF_WriteFTIFF`, `FTIFF_ReadDbFTIFF`, `FTIFF_Recover`, `FTIFF_CheckL1RecoverInit` ... | checkpoint call, `FTI_Protect`, recovery | variables grow, shrink and appear; files are found by name | the layout of the file stays sound; all processes take files of one checkpoint |
| Differential checkpoints (`diff-checkpoint.c`) | hash blocks of each container, a static cursor | `FTI_HashCmp`, `FTI_ReceiveDataChunk`, `FTI_UpdateDcpChanges` | FTI-FF file, overwritten in place | failed and interrupted writes, a plain checkpoint in between | a block that is left out is on the file |
| MPI-IO, SIONlib, HDF5, GPU, Fortran | | back ends | | | |

## Modules

| module | what it is | models |
|---|---|---|
| `MultilevelCkpt` | the multilevel protocol with every level post-processed inline: Init, Checkpoint, Recover, Finalize, crashes, node losses, I/O failures | `api.c`, `checkpoint.c`, `postckpt.c`, `recover.c`, `postreco.c`, `meta.c`, `tools.c`, `conf.c`, `topo.c` |
| `MCMultilevelCkpt` | constant values for TLC that a `.cfg` cannot spell | |
| `MultilevelCkptProofs` | theorems about `MultilevelCkpt` and their proofs | |
| `MultilevelStorageProofs` | further theorems about `MultilevelCkpt`: what is stored, kept and restored, after the loss of nodes too | |
| `HeadProtocol` | asynchronous post-processing by one head per node | `checkpoint.c` (`FTI_Listen`, `FTI_HandleCkptRequest`), `api.c` |
| `HeadProtocolProofs` | theorems about `HeadProtocol` and their proofs | |
| `StageService` | what staging promises the application, without identifiers, bytes and messages | the comments of `FTI_SendFile` and `FTI_GetStageStatus` as `Staging` realises them |
| `Staging` | asynchronous staging of files through the head; implements `StageService` | `stage.c`, `api.c` (`FTI_SendFile`, `FTI_GetStageStatus`) |
| `StagingProofs` | theorems about `Staging` and their proofs, the refinement among them | |
| `FtiffFile` | one process, one FTI-FF file: data blocks and containers, plain and differential checkpoints, failed writes, crashes, recovery | `ftiff.c`, `diff-checkpoint.c`, `api.c` (`FTI_Checkpoint`, `FTI_Protect`) |
| `FtiffFileProofs` | theorems about `FtiffFile` and their proofs | |
| `IncrementalCkpt` | incremental checkpoints of N processes, their post-processing and heads | `api.c`, `incremental-checkpoint.c`, `checkpoint.c`, `tools.c` |
| `FtiffRestart` | `IncrementalCkpt` with crashes, lost nodes, and the restart from FTI-FF files | `ftiff.c` (`FTIFF_Check...`), `recover.c`, `postreco.c`, `api.c` |
| `MCFtiffRestart` | the symmetry of the variables, for TLC | |
| `FtiffRestartProofs` | theorems about `FtiffRestart` and their proofs | |
| `FtiffNewestProofs` | a further theorem about `FtiffRestart`: a restart gives back the newest checkpoint | |
| `SumLemmas` | lemmas about sums over finite sets, for `FtiffFileProofs` and `FtiffNewestProofs` | |

The map from definitions to source lines is in `PROJECT.json`.  Definitions
whose comment begins with "Mutant:" are not part of a specification: each is a
plausible bug of one definition, used to see that a property would notice it.

### `MultilevelCkpt`

*Processes.*  `N` nodes with `K` application processes each; process `<<n, p>>`
is the p-th of node n, `<<0, 0>>` is splitRank 0.  Processes with equal p form a
group, the ring in which L2 copies and L3 encodes.

*State.*  `tmp` and `dir` are `lTmpDir` and `FTI_Ckpt[1..3].dir` of each node,
`gtmp` and `gdir` are `gTmpDir` and `FTI_Ckpt[4].dir`, `mtmp` and `meta` the
metadata directories (one entry per group and level: the call the metadata
describes), `conf` the restart flag.  `lvel`, `mem`, `res`, `loaded` are the
process's `FTI_Exec`; `pc` says where in the code a process is.  `acked`, `hurt`,
`open`, `torn` are history variables: the last checkpoint every process
completed, the nodes wiped since then, the nodes that crashed inside
`FTI_Decode`, the levels a crash caught while they were being replaced.

*Data.*  A file is a record of its kind (own file, partner copy, encoded file),
the rank in its name and the call of `FTI_Checkpoint` whose data it holds.  A
damaged file fails the size or MD5 test of `FTI_CheckFile` and is modelled as
absent.  The id in the name comes from the call, so that two calls with one id
have files of the same name and different content.  `Short` names the processes
whose file is smaller than the group's largest: `FTI_Decode` pads those in place.

*Actions.*  Each is the code between two points where other processes can
observe it.  `Enter` (in `Issue` and `Follow`) is the head of `FTI_Checkpoint`
or `FTI_Finalize`; `Write`, `CreateMetadata`, `PostLocal`, `Exchange`, `Clean`,
`Rename`, `RenameGlobal`, `RenameMeta`, `Return` are the steps of one call; the
collectives (`WriteSync`, `PostSync`, `RenameSync`, ...) fire when all processes
wait in them.  `Discard` is the failure path, which has no barrier.  `Fin...`,
`Flush`, `Drop...` are `FTI_Finalize`; `BootFresh` and `BootRecover` are
`FTI_Init`; `TryLocal` ... `RecoverSync` are `FTI_RecoverFiles`; `Recover` is
`FTI_Recover`.  `Crash(F)` stops the job and wipes the local directories of the
nodes in F, at any moment, including during recovery; `Relaunch` starts it
again.

*Abstractions.*  `FTI_Clean` by one process is one step, and so is the exchange
of one group, whose failures are those of the last operation of a process, when
nobody waits for it any more (earlier ones leave a neighbour blocked, see below).
The application's ids are those of `FTI_Snapshot` (`ckptCnt`).  `keep_l4_ckpt`,
differential checkpoints and FTI-FF are off, and the files are POSIX files: the
other back ends differ in their I/O calls.  A failure to write
metadata (fault kind `meta`) is in the module and in the theorems, but in no run of it:
at an inline L2 or L3 the rest of the group hangs.  `HeadsRing` explores it with heads.

### `HeadProtocol`

Process `<<n, 0>>` is the head of node n, `<<n, 1>>` ... `<<n, A>>` its
application processes.  The levels in `Async` are post-processed by the heads,
the others inline; L1 is always inline (`conf.c:150`).  `ckptTag`, `finalTag`
and `answers` are the messages between a process and its head, `offline` is
`wasLastOffline`, `last` is `lastCkptLvel`.  A checkpoint is the call that took
it, a directory maps each process to the call its file is from.

`Issue`, `Follow`, `Await` are the head of a call, with the blocking receive of
the last answer; `Write` ... `SendAsync` the call itself; `StartInline` and
`ReturnInline` the inline branch; `Post`, `PostSync`, `Discard`, `Clean`,
`Rename`, `RenameGlobal`, `RenameSync` are `FTI_PostCkpt`, run by the heads or by
the application processes; `Listen`, `Collect`, `Agree`, `Answer`,
`ListenFinal`, `EndListen` are the head's loop; `SendEnd` ... `FinSync` are
`FTI_Finalize`.

Not in it: crashes (the directories behave as in `MultilevelCkpt`),
`keep_last_ckpt`, the files L2 and L3 add, staging requests.

### `Staging`

One node: the head (rank 0 of `nodeComm`) and `A` application processes.
`status` is the shared window with a byte per process and ID, made of two
fields; `FTI_SetStatusField` is two steps, `LoadField` and `StoreField`, with the
byte in `copy` between them.  `table` is `idxRequest`, `request` and `hrequest`
the arrays `stageInfo->request` of the processes and of the head, `reqCnt` is
`req_cnt`; `net` holds the stage messages, `lent` those whose send buffer MPI
still has to read, `spoilt` those whose buffer was freed before.  `sent`,
`holder`, `outcome`, `told` are history variables: how many requests were made,
which one an ID stands for, how the copy of its file ended, what the
application was told.

`SendFile` and `Isend` are `FTI_SendFile`; `ReadStatus` and `Answer` are
`FTI_GetStageStatus`; `HandleStageRequest` and `Copy` are
`FTI_HandleStageRequest`; `SendEnd`, `Release`, `ListenFinal`, `EndListen`,
`Barrier` are the end.  `Buffered` is MPI taking a message early; it is external.

Not in it: synchronous staging (no head), failing allocations and a failing
`FTI_InitStage`, the paths, checkpoint requests (they only delay the head).

### `StageService`, and how `Staging` implements it

The service knows requests by number: `asked` were made, a process may have
`Limit` under way (`held`), each ends once (`ended`), the process is `told` once.
`Staging` maps `held` to the requests that `holder` has an identifier for (`Held`),
`ended` to those of them whose status byte is final (`AllOver`), `Limit` to `MaxNum`,
and `open` to the processes that have not begun `FTI_Finalize` (`Callers`); `Service`
is the substitution.  `ServiceKept` is the abstract specification with its fairness, so the
run checks that every step of the windows, tables, buffers and messages is a step
of the service or invisible to it, and that requests end as long as no process of
the node has called `FTI_Finalize`; after that they need not (finding 1).

### `FtiffFile`

Memory and file are sequences of cells: each metadata structure is one cell, the
data of a variable a sequence of bits, so that which byte overwrites which is
exact and sizes stay small.  `db` is the chain `firstdb` with its containers: where
a container is in the file (`fptr`), what part of its variable it holds (`dptr`,
`chunk`), how many cells it has for ever (`csize`), whether it is in use (`has`),
its `update` flag, its hash and its blocks.  `Fit` and `UpdateDatastruct` are
`FTIFF_UpdateDatastructFTIFF`; `MetaOps` and `DataOps` are the writes of
`FTIFF_WriteFTIFF`, in order; `Walk`, `Read` and `Verdict` are the walk through a
file that computes its checksum, `ReadDb` rebuilds the chain from it.

`ChangeCell`, `Resize` and `Protect` are the application; `Checkpoint`,
`CheckpointLosesMeta` (a write of metadata fails, unnoticed), `OpenFails` and
`DataFails` the outcomes of `FTI_Checkpoint`; `Crash`, `CrashInWrite` (after any
prefix of the writes) and `CrashBeforeRename` the moments a crash can be told apart;
`Restart` is `FTI_Init` and `FTI_Recover`.

`saved`, `done` and `trying` are what was asked to be saved, what the last
completed checkpoint saved and what was being saved in the crash.  `spoilt` names
what has happened that costs the code the last checkpoint; the properties except
exactly these causes:

| cause | what it is |
|---|---|
| `plain after dcp` | finding 3 |
| `slot` | `hashchk` of an unused container is not computed, and happens to equal the hash on file (`ftiff.c:1037`) |
| `uninit` | `FTIFF_ReadDbFTIFF` leaves the update flags as `malloc` made them |
| `lost` | a write of metadata failed: the test is `fd == -1` (`ftiff.c:1016`) |
| `unwritten`, `cursor` | a write of data failed: the block is marked clean, the static position goes on from there (`diff-checkpoint.c:625`) |
| `torn`, `mixed` | a crash in a differential checkpoint, which overwrites the only copy (`ftiff.c:944`); `mixed` if it also changed how much of a container is in use |
| `window` | a crash between the clean-up and the rename |

Not in it: other processes, CRC32 hashes, `FTIFF_RecoverVar`, L1 to L3, dCP by heads.

### `IncrementalCkpt`

N processes on a node each make the same calls.  `icp` is `iCPInfo` with `wrote`
for its counter, `id`, `lvel`, `last` and `offline` are the process's `ckptID`,
`ckptLvel`, `lastCkptLvel` and `wasLastOffline`; `token` and `answer` are the
messages to and from its head; `ltmp`, `gtmp` and `dir` are the directories.  A file
is its name (kind and id), the call it is from, the variables in it and those that
changed after their hash was taken (`stale`).

`InitICP` and `AddVarICP` are the local calls; `FinalizeICP`, `SumICP`, `CloseICP`,
`MetaICP`, then `SendICP` (a level for the heads) or `PostICP` are `FTI_FinalizeICP`;
`SyncPost`, `DiscardICP`, `CleanICP`, `RenameICP`, `BarrierICP`, `EndICP` are
`FTI_PostCkpt`; `HeadsICP` is what all heads do for one checkpoint.  `Taken` is the
point at which this code differs from `FTI_Checkpoint`: whether the id is kept
depends on the process's own file and not on the post-processing.

Not in it: levels 3, dCP and levels FTI does not know; MPI-IO, SIONlib and HDF5
files; several processes per node; the detail of the heads' work, which is in
`HeadProtocol`.

### `FtiffRestart`

Extends `IncrementalCkpt`: `Work` is a step of it, `Crash` stops the job between any
two steps and takes the local directories of the nodes `gone`, `Restart`,
`RecoverL1`, `RecoverL2` and `RecoverL4` are `FTI_Init` and `FTI_Recover`.  `tries`
is the level recovery is at, `restored` the file each process has loaded; `lost`,
`losses` and `torn` are history variables.  A directory search returns any of the
files that fit (`Found`), a file is intact if all variables are in it and none is
stale (`Sound`).  Level 2 goes by the average of the ids (`AverageId`).

## Runs

Passing runs explore the whole bounded instance.

| run | instance | properties | what it shows |
|---|---|---|---|
| `Ring` | 3 nodes, 1 group, L2 and L3, 2 calls, 2 crashes that wipe any of 3 nodes, 1 fault (a write, or an exchange), two processes with smaller files | `TypeOK`, `LevelOrder`, `AckedIsStored`, `RestoredTogether`, `Durable` | checkpoints with redundancy survive what their level promises, including a second crash during recovery and ids used again |
| `Pfs` | 2 nodes, 2 groups, L1 and L4, `keep_last_ckpt`, 2 calls, a crash, 1 lost node | `AckedIsStored`, `Durable`, `RestartFlag`, `KeptAtEnd`, `CallReturns` | where no operation fails: L4 survives the loss of everything local; `FTI_Finalize` brings the last checkpoint to the PFS and a crash inside it does not lose it; the next launch recovers; every call returns on every process, also after a crash and a recovery |
| `HeadsMixed` | 2 nodes of 2 processes and a head, inline L1 and asynchronous L4 in turn, 3 calls | `NoCollision`, `HeadsStop` | inline and asynchronous calls may follow each other |
| `HeadsRing` | 3 nodes, asynchronous L2 and L3, 2 calls, 1 fault (write, metadata, exchange) | `TypeOK`, `AckedIsStored`, `LastLevelKnown`, `NoStrayMessages`, `HeadsStop` | a failure anywhere reaches every process as an answer; requests, answers and the end never miss each other |
| `Staging` | 2 processes and a head, 2 IDs each, 3 requests, 1 failing copy | `TypeOK`, `NoLostUpdate`, `TableMatches`, `BufferKept`, `IdsAccounted`, `AnswerIsTrue`, `ServiceKept` | the shared bytes need no lock; IDs, table and array stay consistent under reuse and out-of-order release; together they implement `StageService` |
| `FtiffDcp` | 3 variables of up to 3 cells, blocks of 2 cells, 4 differential checkpoints, 3 changes | `TypeOK`, `LayoutSound`, `CleanIsOnFile`, `DoneRecoverable` | a file rewritten in place through shrinking, growing and new variables misses no changed block and is recovered as what was saved last |
| `FtiffCrash` | 2 variables, plain and differential checkpoints, 2 ids, 2 changes, 1 failed write, 1 crash | `LayoutSound`, `CleanIsOnFile`, `DoneRecoverable`, `RestoredIsSaved` | what a restart recovers is the last completed checkpoint, but for the named causes, and never a mixture; the data blocks read back are as sound as those written, and count no block as clean that is not on the file |
| `FtiffRestart` | 2 processes, 2 variables, POSIX or FTI-FF, inline L1 and L2, asynchronous L4, 3 calls, 1 fault (open, write, post-processing), 2 crashes, 1 lost node | `TypeOK`, `CommittedWhole`, `FlagSet`, `OneAnswer`, `Agreed`, `RestoredTogether`, `NewestRestored`, `DoneIsStored` | all processes commit or none, failed calls leave ids, levels, flag and answers right, and a restart that goes by file names gives all processes the newest checkpoint |
| `FirstFails` | 2 nodes, L1, first write fails | `RestartFlag` (violated) | finding 2 |
| `StagedAtEnd` | 2 processes, one request | `ServedBeforeEnd` (violated) | finding 1 |
| `PlainAfterDcp` | 2 variables, a differential and then a plain L4 checkpoint | `DoneIsRecovered` (violated) | finding 3 |
| `EarlyHash` | 1 incremental FTI-FF checkpoint of a variable computed during it | `NewestRestored` (violated) | finding 4 |

*Why the bounds are enough for the interesting cases.*  `FTI_TestConfig` wants
groups of more than two processes when L2 or L3 is configured, so `Ring` and `HeadsRing`
have three nodes: the smallest ring in which a node's neighbours differ, in which
two adjacent losses defeat L2 and one loss leaves L3 a majority.  Two calls are
what it takes to replace a checkpoint, by the same or another level, and to reuse
the name of a failed one.  Two crashes are one to recover from and one during or
after that recovery.  One fault per run is one process that fails while the
others do not; more faults only repeat the discard.  `Pfs` has two groups, since
each has its own metadata file.  It has no faults, so what it shows is about crashes and lost nodes; failing calls
are explored by `Ring`, and with heads by `HeadsRing`.  In `Staging` three requests of one process with
two IDs use an ID again and leave an element behind a freed one; two processes
make the head serve two windows.  In `FtiffDcp` variables of three cells and blocks of two have a whole and
a partial block, and four checkpoints are one to write a container, one to shrink
it, one to grow it again, and one to leave out what did not change.  `FtiffRestart`
is a ring of two, in which both neighbours are the same process: `FTI_TestConfig`
asks for a larger group only when an interval is set for L2 or L3 (`conf.c:279`), and
an application that names the level itself needs none.  All that matters here,
one process with and one without its file, copy or fault, happens with two; the
same properties hold for three nodes, two calls without faults, two crashes and two
lost nodes, but there a restart that finds a torn commit may wait for ever in
`RecoverL2`, for a file under the average of two ids.
Three calls are a failed one between two that are not, with the id given
back; two variables are one that was added and one that was not.

The bounds are the constants `MaxCalls`, `MaxCrash`, `MaxLost`, `MaxFault`,
`MaxSends`, `MaxCkpt`, `MaxEdit`, and they guard only the application's calls and
changes, crashes and failures.  `Crash` in `FtiffRestart` is also bounded by `torn`: after a crash that
found a checkpoint half renamed or a leftover file nothing is said of later ones.

*Deadlock* is checked in every run but those of `FtiffFile`: a state without a step
is an error unless every process has finished (`Ended`, `Done`, `Finished`).  The
process of `FtiffFile` stops when its checkpoints and changes are used up, or when
its only file is refused.

*Fairness.*  `FairSpec` asks for weak fairness of each process's steps inside a
call and of each collective once all its processes are in it: the processes are
operating-system processes that do nothing else, `FTI_Listen` polls forever, and
MPI collectives and receives complete when matched.  Nothing is assumed of the
application (that it calls again), of crashes, or of MPI taking a message before
it is received.  The fairness of `StageService` is a promise and not an
assumption: it follows from that of `Staging`.

*What the properties are about*

- `AckedIsStored`, `Durable`: what `FTI_DONE` means, between crashes and after
  them.  `Durable` excepts two windows in which the code keeps no intact copy: a
  crash between `FTI_Clean` and the renames that follow it (`torn`), and one while
  `FTI_Decode` has padded the survivors' files (`open`, such nodes count as lost).
- `LevelOrder`: `FTI_RecoverFiles` takes the lowest level that works "because of
  reliability" without comparing ids.  That this is the newest checkpoint rests on
  every commit having removed the lower levels' metadata.
- `RestoredTogether`: all processes load the same checkpoint, though files are
  found by name and L4 has two candidates.  With FTI-FF there are no ids to compare
  at all; the property excepts `torn`, and fails without the exception.
- `RestartFlag`, `KeptAtEnd`: the next launch knows that it must recover;
  `keep_last_ckpt` keeps its promise.  Both hold through crashes, and break when
  certain calls fail (finding 2, and see below).
- `CallReturns`: nobody waits forever in a call, in a recovery or in `FTI_Finalize`, as
  long as no operation fails.  For failing ones it is checked with heads (`HeadsStop`).
- `NoCollision`, `NoStrayMessages`, `LastLevelKnown`, `HeadsStop`: the request and
  answer protocol between processes and heads.
- `NoLostUpdate`, `TableMatches`, `BufferKept`, `IdsAccounted`, `AnswerIsTrue`,
  `ServiceKept`: the status bytes, look-up table, send buffers and identifiers of
  staging, and that every request ends and is reported once and as it ended.
- `LayoutSound`, `CleanIsOnFile`: containers never overlap and never leave a gap,
  however sizes change; a block that the next differential checkpoint leaves out is
  already on the file, before a crash and after it.
- `DoneRecoverable`, `RestoredIsSaved`: what a completed FTI-FF checkpoint is worth,
  and that a restart never returns a mixture of two.
- `CommittedWhole`, `Agreed`, `OneAnswer`, `FlagSet`, `DoneIsStored`: processes that
  run at their own pace and fail one by one still commit the same checkpoints, with
  the same ids, owe and await the same answers, and leave the flag right.
- `NewestRestored`: a restart gives every process the last checkpoint, if its level
  bears the nodes lost since then.

## Findings

1. **A stage request made while another process of the node finalises is never
   served** (`checkpoint.c:425`, run `StagedAtEnd`).
2. **The restart flag is lost when the first checkpoint fails** (`api.c:1101`, run
   `FirstFails`).  `ckptFirst` is computed from `ckptID`, which the failed call has
   already set; the call that then succeeds does not set the flag, and a restart
   begins from scratch.  `FTI_FinalizeICP` gives a failed call's id back and is
   right (`FlagSet`).
3. **A plain L4 checkpoint after a differential one cannot be recovered**
   (`api.c:1142`, run `PlainAfterDcp`).  The update flags of data blocks and
   containers are one set for two files.
4. **An FTI-FF incremental checkpoint of a variable that is computed during it
   cannot be recovered** (`incremental-checkpoint.c:485`, run `EarlyHash`).  The
   hashes are taken in `FTI_InitICP`, the data in `FTI_AddVarICP`.

Other places where the code is weaker than one might expect, met while modelling
and kept in the models, without a run of their own:

- At the reject level no case of the switch in `FTI_PostCkpt` assigns `res`
  (`checkpoint.c:278`); when the uninitialised value is 0 on every process, a
  rejected checkpoint is committed.  The runs and the theorems take the value to
  be non-zero (`UninitRes = {1}`, `0 \notin UninitRes`).
- `FTI_Clean(0)` has no barrier (`checkpoint.c:299`): a process or head that is
  still discarding removes files of the next checkpoint, where processes share a
  temporary directory.  With heads, an answer orders only its own node, so
  `HeadsMixed` has no faults and `HeadsRing` no inline levels; the inline runs with
  faults and several calls have one process per node and use L2 and L3; and in
  `FtiffRestart` L4 is asynchronous, as an inline one that fails to open a file lets
  process 0 remove `gTmpDir` under a faster process.
- `FTI_Decode` opens the survivors' files for writing (`postreco.c:136`) and pads
  them; a crash there makes the next restart count them as erased.
- `keep_last_ckpt` after a failed checkpoint of another level (`api.c:2089`): the
  data of `lastCkptLvel` is stored, the metadata of `ckptLvel` is renamed, and the
  old L4 metadata is gone.  TLC finds `KeptAtEnd` violated with `N = 3`, `K = 1`,
  `CallLevels = {1, 2}`, `MaxCalls = 2`, `Faults = {"post"}`, `MaxFault = 1`, no
  crash and `KeepLast`.  When it was a write that failed, `ckptLvel` is the reject level
  and `FTI_Ckpt[6]` is beyond the end of the array; the model takes it that such a
  rename fails.
- `FTI_Flush` ignores the result of `FTI_FlushPosix` (`postckpt.c:573`): an
  incomplete copy replaces the L4 checkpoint.  The fault kind `flush` models it;
  TLC finds `KeptAtEnd` violated with `N = 2`, `K = 1`, `CallLevels = {1}`, `MaxCalls = 2`,
  `Faults = {"flush"}`, `MaxFault = 1`, no crash and `KeepLast`.
- Only the first process of a group learns that metadata could not be written
  (`meta.c:882`).  It goes on to the `MPI_Allreduce` of `FTI_PostCkpt`, and at an inline L2
  or L3 the others wait for it in the exchange: TLC finds a deadlock with
  `N = 3`, `K = 1`, `CallLevels = {2}`, `MaxCalls = 1`, `Faults = {"meta"}`, `MaxFault = 1`,
  no crash.
- `FTI_UpdateIterTime` may move the next check to the iteration it is about to count
  (`checkpoint.c:86`); as `FTI_Snapshot` compares the two for equality, that check is
  missed, and if the mean iteration time does not shrink again, every later one.  When the
  mean is more than a minute, a process counts the minutes of its own iterations
  (`api.c:1952`), and two processes may choose different levels.  This was read, not
  modelled.
- A process whose `fclose` fails in an incremental checkpoint
  does not enter `FTI_CreateMetadata` (`api.c:1620`), where the others wait.
- With heads the restart flag is set before anything is stored (`api.c:1254`).
- `FTI_FinalizeStage` frees send buffers that MPI may still read
  (`stage.c:268`); `BufferKept` stops there.
- `FTI_SyncStage` has two error paths that set no final status (`stage.c:686`,
  `stage.c:724`).
- FTI-FF compares no ids between processes (`ftiff.c:1773`) and averages them at
  level 2 (`ftiff.c:2265`): a crash between two nodes' renames, or a file left in a
  temporary directory and renamed with the next checkpoint (`Leftover`), restores
  different checkpoints, or leaves a process waiting for a file under an id that
  no process has.
- The causes listed under `FtiffFile`.

## Proofs

No theorem assumes more than the named assumptions on the constants, which TLC
evaluates in every run, and where it says so `0 \notin UninitRes`, `NoRace`, or what is
said there of formats, faults and levels.

### `MultilevelCkptProofs`

Proved for every number of nodes and processes, every set
of faults, every number of calls, crashes and lost nodes:

- `TypeCorrect`: `Spec => []TypeOK`;
- `LevelsOrdered`: `Spec => []LevelOrder`, assuming `0 \notin UninitRes` (without
  it a rejected checkpoint, whose metadata was never written, may be committed);
- `FlagIsSet`: `Spec => []RestartFlag`, assuming `Faults \subseteq {"flush"}`: no call of
  `FTI_Checkpoint` fails.  The run `FirstFails` shows that one that fails first breaks it
  (finding 2); crashes, recoveries and finished executions do not.

*The invariant.*  `TypeOK` is not inductive: the level a process commits at, or the
call it indexes, is only well typed because collectives keep the processes
together.  `TypeInv` adds two facts.  `Lockstep`: all processes are between the
same two collectives of the same call, or some have entered the next call and the
others are still to follow (`Together`, `Apart`).  `Checked`: while a level is being
recovered its metadata exists, and `FTI_Recover` only runs after a verdict.

*The order of levels.*  `OrderInv` says why lower levels are newer: `LevelAt` (a
rejected checkpoint never gets past `PostSync`; only splitRank 0 renames
metadata), `Staged` (what `mTmpDir` holds when splitRank 0 starts to commit is the
current call, in every group: the argument goes through `WriteSync` and
`PostSync`), `Newest` (all metadata is older than the current call, and gone from
the levels about to be replaced) and `LevelOrder` itself.  The proof has one lemma
per part of `Next`; a step that only removes metadata or leaves it alone preserves
the order by `ShrinkOrder` and `ShrinkNewest`.

*The restart flag.*  `FlagInv` follows splitRank 0: once it has an id, the flag is set, or it
is still in the checkpoint for which it computed `ckptFirst`, or it has taken the flag away in
`FTI_Finalize` (`RootFlag`).  This depends on ids being positive (`IdsInv`) and on no
call failing (`Passing`).  A checkpoint counts as done when the last process returns, which may be
after splitRank 0 has gone on to the next call or to `FTI_Finalize`: `Trailing` says what
it has left by then.  TLC found `FlagInv` to hold on three instances before it was proved.

### `MultilevelStorageProofs`

Proved for every number of nodes and processes, any levels, calls, crashes and losses of nodes:

- `AllRestoreTheSame`: `Spec => []RestoredTogether`, assuming `0 \notin UninitRes`, whatever fails;
- `AckedStored`: `Spec => []AckedIsStored`, assuming `NoRace`;
- `LastIsKept`: `Spec => []KeptAtEnd`, assuming `NoRace`;
- `RestartsDurably`: `Spec => Durable`, assuming `NoRace` and `~KeepLast`, for any sequence of
  crashes and losses of nodes, crashes during a recovery included.

*`NoRace`* is `0 \notin UninitRes`; only a flush may fail, or else there is one process per
node, no L4 and no `keep_last_ckpt`; and with `keep_last_ckpt` nothing fails.  `Ring` and `Pfs`
satisfy it, and each part is needed: TLC finds files lost when a write fails with two
processes on a node (one runs `FTI_Clean(0)`, which no barrier follows, while the other is
already writing the next checkpoint into the same `lTmpDir`), or with L4 (the same
for `gTmpDir`); and with `keep_last_ckpt`, when a flush fails (its result is ignored) or
when the last call of `FTI_Checkpoint` has (`FTI_Exec.ckptLvel` is then not the level
of the last checkpoint, whose metadata FTI_Finalize therefore does not move).

*The invariant for recovery.*  `RecoveryInv` begins with what is known of names and calls.
`Names`: no directory holds two files of one name; `CallInv`: what the call, the level and the id in a process's
memory are at each place of the code.  `MetaInv`: the metadata of all groups is of one call.
`RepairInv` is what the verdict of `FTI_RecoverFiles` rests on: for each process between the check of
the erasures and the `MPI_Allreduce`, which files are there and which are about to be
(for L2 this involves the neighbours: the copy that `fixOwn` takes is not missing,
the file that `fixCopy` takes has been restored or was there).  `LoadedAt` then says that what a
process has loaded, or will load by its name, is the file of `acked.call`, in the directory
where it will look first; it ends with the first process in `FTI_Finalize`.

*The invariant for storage.*  `StorageInv` adds `Passing` (where only a flush may fail, no call does),
`WrittenAt`, which follows the files of the call under way through `lTmpDir` and `gTmpDir` into
their directory, and `History`, `Returning`, `Safe` and `Kept`.  `Safe` is `AckedIsStored`
made inductive: the stored checkpoint is named together with its level, a recovery has not gone beyond that
level and will not fail there (`Awaits`), and the levels being replaced are counted more
exactly than in `Replacing` (`Busy`: of the processes that drop everything, only splitRank 0
touches L4).  `Returning` says that while processes still are on their way out of a call what it made is
stored, which `Safe` needs when the last one comes out.  `Kept` follows `keep_last_ckpt`: all processes are at the
same level, the last checkpoint is exactly at that level when the
flush begins, all its files are in `gTmpDir` when splitRank 0 moves them, and the metadata follows.
The lemmas are by invariant and part of `Next`, as in `MultilevelCkptProofs`;
`UntouchedLocal` and `UntouchedRecover` say which levels a step leaves alone and carry most of
the weight.  TLC found both invariants to hold on instances of the runs' size before they were proved.

*The invariant for durability* (`RestartsDurably`).  `DurableInv` is `StorageInv` and `Endures`.  `Safe`, which is behind
`AckedStored`, stops saying anything when the first node is lost, and a restart is only
interesting after that.  `Endures` says instead that, as long as the level of the last completed
checkpoint survives the loss of the nodes in `Gone` (wiped, or caught with a file padded by
`FTI_Decode`) and is not being replaced (`Bearable`), some checkpoint at least as new is
at that level or a higher one with its metadata, except for what was on the nodes in `Gone`
(`Held`), and a recovery under way has neither gone beyond that level nor failed there
(`Proceeds`).  What a repair has already rebuilt is not credited, so a crash in the middle of one takes nothing from
the invariant.

*The argument for it.*  `HeldRecoverable` turns `Held` into the condition under which the code's own check
accepts the level (`Recoverable`).  The erasures of
a group are at most two for each node that is gone, and at L3 at most half the nodes are; that L3
survives what L2 does (`SurvivesMore`) rests on `HalfAtMost`: of nodes no two of which are
neighbours on the ring there are at most half.  A recovery may also succeed at a level *below*
the one that `Endures` names; `LevelOrder`, that a lower level never holds an older checkpoint, makes
that one at least as new.  This is why `keep_last_ckpt` is excluded: `FTI_Finalize` brings the last
checkpoint to L4 while files of other levels are there until `FTI_Clean(6)`, and
`LevelOrder` does not hold in between.  The lemmas are `Endures` and one part of `Next` each; `HeldRepaired`
and `HeldRecover` say that the steps of a recovery take nothing away from what is held.
TLC found `Endures` to hold on six instances, with faults at L2 and L3, two processes per node with
L4, and `keep_last_ckpt`, before it was proved.

### `HeadProtocolProofs`

Proved for every number of nodes and processes, every division of the levels between
heads and processes, every set of faults and any number of calls: all the invariants of the
runs `HeadsRing` and `HeadsMixed` (`TypeCorrect`, `NoneCollide`, `NoneStray`,
`LastLevelsKnown`, and with an assumption `AckedStays`).

*The invariant.*  A process that expects an answer (`Due`) is in one of three stages
with its head: its request is under way, the head is at work on it, the answer is under
way; a process that expects none has no business with its head (`Exchange`).  What a request asks for is
told by `Round`, the number of calls whose `MPI_Allreduce` the process has been through,
which is the same for all of them (`Lockstep`): so the requests a head collects are
about one checkpoint, and all heads that agree on it agree about the same.  `Unsent`
says that a head has taken no request of its node while one is missing; without it
a process could end up between two rounds.  `EndInv` is the end of the listening: a head that waits for the final messages
has seen one, hence every process has got its answers.  `Known` is what `lastCkptLvel` will be when a
process has taken notice of everything decided; it is always `acked.lvl`.  There is a
lemma per action and per collective; `AppFrame` and `HeadFrame` say what a step of one
process leaves of the others.

*What is stored stays.*  `AckedStays`: `Spec => []AckedIsStored`, for every number of nodes and processes and any
number of calls, assuming `NoRace`: no head's flush fails, and if any level is inline, writing
and metadata do not fail, nor the post-processing of a level other than L1.  `NoRace` is
needed: without it the code does lose files, in the two ways described under Findings
(`FTI_Clean(0)` has no barrier; `FTI_Flush` does not look at its result).  If all levels
are asynchronous, as in `HeadsRing`, only the failing flush is excluded.

*The invariant for storage.*  `StoreInv` has two parts.  `Ctl` is about who is where: the heads
post-process together and put the checkpoint in its place together, and so do the
processes at an inline level (`HeadPhase`, `AppPhase`); while a head is past its agreement
with the others no request is made or under way (`Calm`); and no inline checkpoint is
discarded (`FailInv`).  `Files` follows the files of one checkpoint: what a process has
written is in its temporary directory (`Written`) and still there when its request is
collected and post-processed (`Handed`), the heads of the nodes move it
(`NodePlace`), splitRank 0 moves the global directory and the metadata (`RootPlace`), and when all
have come to the barrier everything is stored (`AllPlaced`).  `Kept` is the
property with the checkpoint named: nobody but those who replace a level of at least its own touches it.
`OneLeader` is why the processes that move directories do not disturb each other.
TLC found `StoreInv` to hold on six instances before it was proved (two nodes, one or two processes, inline, asynchronous and mixed
levels, and what `NoRace` allows to fail).

### `FtiffRestartProofs`

Proved for every number of processes, set of variables, formats, levels, faults
(including those no run has: a failing `fclose` and failing metadata), number of
calls, crashes and lost nodes, with `0 \notin UninitRes`:

- `TypeCorrect`: `RestartSpec => []TypeOK`;
- `AnswersMatch`: `RestartSpec => []OneAnswer`;
- `FlagIsSet`: `RestartSpec => []FlagSet`;
- `CommittedHoldsAll`: `RestartSpec => []CommittedWhole`;
- `OneCheckpointRestored`: `RestartSpec => []RestoredTogether`;
- `ProcessesAgree`: `RestartSpec => []Agreed`, if all files are FTI-FF files or neither
  an `fclose` nor the metadata fails.  Otherwise it is false: of the metadata only one process
  learns that they could not be written, and a process whose `fclose` fails ends its call
  without the others (see Findings);
- `StoredIsThere`: `RestartSpec => DoneIsStored`, if level 4 is asynchronous where it is
  used.  An inline one shares `gTmpDir`, which process 0 may remove under a faster process
  (see Findings).

*The invariants of the first three.*  `TypeInv` is types and `CallOK`: an iCP is open exactly inside of
a call, and only a level that was asked for gets past `SyncPost`; this is where
`0 \notin UninitRes` is needed.  `AnswerInv` extends `OneAnswer` to all places: inside
of a call no message is under way, inline post-processing has reset
`wasLastOffline`, and so a process that ends such a call owes nothing.  The two
need each other, as only `AnswerInv` tells that the heads work while the
processes run (`CountWork`), and are proved together (`Step`).  `FlagInv` follows
process 0 through a call: the id from before the call is zero or the flag is set;
from `MetaICP` on a call that has not failed has `ok`, and a level is sent to a head
or renamed into place only with `ok`; so whoever stores the first checkpoint, process 0 sets the
flag.  There is a lemma for the steps of process 0, one for those of the others,
one for the collectives and one for crash and recovery.

*The invariant of the others.*  `StoreInv` has five parts.  `CtlInv` says where the processes can be
relative to each other: `Round`, the number of calls whose `MPI_Allreduce` a process has
been through, is the same for all, and they move directories together (`Lockstep`);
`CallInfo` ties a place in the code to the level and the id of the call, and says that whoever
is past the reduction with a valid checkpoint has added all variables.  `AgreeInv` compares what the processes
*will* have when their call ends (`Settled`); the ids and levels themselves differ while they run at
their own pace.  `TmpInv` finds the file of a process's call, under its name, where the
process or its head will look for it (`TmpInfo`), and the partner's copy beside it.
`DirInv` is about what a restart reads: in the directories of a level there is one checkpoint
only, unless a directory holds a leftover (`Neat`); while directories are being moved, `Kept` and
`Renamed` say level by level which are old, empty and new.  From this `RestoredTogether` follows,
which is the fifth part because it speaks of the recovery just made; at level 2 the
average of the ids needs no arithmetic, as every file that is found or rebuilt is of the one
checkpoint (`RebuiltUniform`).  `WholeInv` adds the content: a file of the call
that a process is in holds at least what the process has counted, and a head is asked to store
one that holds all (`TmpWhole`); so what is renamed, copied or flushed is complete.

TLC found both invariants to hold on four instances before they were proved: two
processes with all kinds of faults, with inline L4, and with three calls, and three
processes with a lost node.  That search and the proof led to two corrections: `CommittedWhole`
now says of a torn commit only what holds until the restart, since level 2 may be rebuilt from
the files of two checkpoints; and a file in a directory is always a checkpoint or a
copy (`Files`), while `restored` may also be none (`Loaded`).

### `FtiffNewestProofs`

`NewestIsRestored`: `RestartSpec => NewestRestored`, for every number of processes, set of variables,
faults, calls, crashes and lost nodes, with `0 \notin UninitRes`, if the application computes
nothing inside an incremental checkpoint and level 4 is asynchronous where it is used.  Both are needed.
What is computed between `FTI_InitICP` and `FTI_AddVarICP` makes the file fail its checksum, so
no level gives it back (run `EarlyHash`); and of an inline level 4 process 0 may
remove `gTmpDir` under a faster process.  TLC violates the property in either case.

*The invariant.*  `NewestInv` comes on top of the invariants of `FtiffRestartProofs`.
`Endures` says where a restart finds the last checkpoint: as long as its level bears the lost
nodes, some level that a recovery under way has not passed has it, or a newer one, in
sound files on all nodes that are left (`Enough`), and that level is not being replaced.  That is not
all, as FTI-FF compares no checkpoints: it takes the lowest level that all processes can
read, so no level below may hold an older one (`NoOlder`).  `Outdated` says the same of level 2
where it does not bear the loss but the code may still rebuild it.  `Laid` carries the
new checkpoint from the renames to the commit, `Tried` keeps a recovery stopped at level 4 from
finding level 2 again after all, and `Fresh` says that every file has an id and passes its checksum.

*The argument.*  There is a lemma for the renames, the end of post-processing inline and by the
heads, a crash, and each level of a restart.  Level 2 is the long one: where every process has its file or
its partner has the copy, the exchange gives everyone both (`Received`), and all that is found is
of one checkpoint, so the average of the ids (ftiff.c:2265), where a process that found
nothing counts for nothing, is that checkpoint's id.  This is a fact about sums.  The library's induction
rules cannot be used, but its well-foundedness of finite subsets can (`SumLemmas`): of the sets of
processes whose sum is not the id times the number of those that found something, a minimal one
(`MinimalSet`) would have a smaller one inside.  `SumIsSums` gets the recursive function that defines the sum from
the same argument.  TLC found `NewestInv` to hold on two instances, two processes with all levels and three
with a lost node, before it was proved.

### `FtiffFileProofs`

Proved for every number and size of the variables, every block size, with and without dCP, every mixture of
plain and differential checkpoints, of failed writes, and of changes of the protected data:

- `TypeIsOK`: `Spec => [](crashes = 0 => TypeOK)`;
- `LayoutIsSound`: `Spec => [](crashes = 0 => LayoutSound)`;
- `CleanBlocksAreOnFile`: `Spec => [](crashes = 0 => CleanIsOnFile)`.

`crashes = 0` is the part of a behaviour before the first crash; in the run `FtiffDcp` (`MaxCrash = 0`),
which checks these properties, that is all of it.  After a restart the data blocks are what
`ReadDb` finds in a file that a crash may have torn, by a walk from block to block that is
a recursion over the file: what it gives cannot be proved for every file.  That the layout and the clean
blocks are sound then too is checked by the run `FtiffCrash`.

*The invariant.*  `FileInv` says, before the first crash, `DbInv` and `CleanOK`.  `DbInv` makes
`LayoutSound` inductive: every container goes on where those before it of its variable end (`Linked`, with the
sum `Prefix` over the containers), a container is in use only if those before it are full
(`Filled`), metadata and containers tile the file (`Placed`), and their variables are known
(`Known`).  `CleanOK` is `CleanIsOnFile` with the list of data blocks and the file named
(`Clean`).

*The layout.*  `FitKeeps`: a container that a variable outgrows or no longer fills stays where it is, and its
block marks are as many as it then has blocks (`CollapseMarks`, `ExpandMarks`, `InitMarks`); a block that is
valid afterwards was so before, with the same hash (`KeepsMarks`).  As the extent of a container follows from
the size of its variable and `dptr` alone (`Suits`), what is in use is always a beginning
(`SuitsFills`).  `AddedLinked` and `AddedPlaced` are about the new data block: its
containers are for what the variables have too much, laid out one after the other from the end of the file
(`Upto`, `Stretches`).  A checkpoint changes hashes, flags and marks only (`Alike`), which `AlikeStays` shows to be
of no consequence for the layout; a failed one likewise (`FailedAlive`).

*What is on the file.*  `DcpClean`: a block that is valid after a dCP either was valid and unchanged, then its cells
were on the file and no write went to them, or it was one that `FTI_HashCmp` reported, then all
its cells are among the writes (`DataIsIn`) and the marks have been set to what was written
(`DcpHash`).  That no other write hits a cell of the block is the layout again
(`DcpPlace`, `BoxAtIs`, `DataCell`).  `spoilt` excepts a dCP that could not write its data, after
which the code marks blocks as clean that are not on the file (`unwritten`, `cursor`); a dCP that loses a
write of *metadata* needs no exception here.  `RegionIs` is needed where a write has failed: the position
where the next call goes on stays within the blocks of the container.
TLC found `FileInv` to hold on the instances of both runs.

*The means.*  A sum over a set of containers is a recursive function on sets, about which `SumLemmas`
shows what is used, that it grows with the set and is the sum over its parts.  `Ascending`, the
addresses in their order, is a recursive function on numbers: `StepExists` shows that there is such a
function, by taking the least number for which there would be none.

### `StagingProofs`

Proved for every number of processes, IDs, requests and failing copies: all the
invariants of the run `Staging` (`TypeCorrect`, `UpdatesKept`, `TablesMatch`,
`BuffersKept`, `EveryIdAccounted`, `AnswersAreTrue`), and `ServiceSafe`, that `Staging`
implements the safety part of `StageService` (`SafeSpec`).

*The invariant.*  `Inv` follows each request from `FTI_SendFile` to the answer by its
status byte.  For an open process, `IdStage` says of each ID which of these it is, and
what the byte then holds: free, being posted, in a message, with the head, over,
or being cleared.  As these exclude each other, the process and the head never have a
reason to change the same byte at the same time; that is `NoLostUpdate`, which
`IdStage` needs in turn, since a lost update would undo a stage (`Loaded`).
`SeenStage` adds that what `FTI_GetStageStatus` has read is the past of the byte or its
present.  `TableInv` and `Holding` tie the table, the array and the IDs to the
requests; `OwnInv` says that no request is of two processes, so that a step of one
leaves the invariant of the others alone, and that only a process that finalises
spoils buffers.  Once a process finalises nothing of this holds of its IDs: `Inv` is
silent about it, save for its messages (`MailInv`), which the head may still serve.
There is a lemma per action; `NextInv` puts them together.

*The refinement.*  Besides `Inv` it needs `Closed`, that a process in
`FTI_Finalize` holds nothing.  The start of `FTI_SendFile` is the service's `Ask`
(that fewer than `Limit` are under way then is the pigeonhole principle: the
requests held have different IDs, and the new ID is none of them), the final store
of the head is `Finish` or, if the process has closed, invisible, the answer is
`Tell`, and the start of `FTI_Finalize` is `Close`; all other steps leave the service's
variables alone.

*Only model-checked*: of `MultilevelCkpt` `Durable` with `keep_last_ckpt` (run `Pfs`) and where
failing calls may race (`NoRace`); and of `FtiffFile` what is read back from a file: `DoneRecoverable`
and `RestoredIsSaved`, and `LayoutSound` and `CleanIsOnFile` after a restart.  Reading is a walk whose length is in
the file itself (`Walk`), and the contents are a concatenation over it
(`FlattenSeq`); to say what they are for every file takes induction over that file.  Liveness under
fairness (`HeadsStop`, `CallReturns`), and with it the fairness part of the refinement
`ServiceKept`, is out of the prover's reach and stays with TLC.

## Not modelled

- The message-level exchange of L2 and L3, where a process that fails early leaves
  its neighbour in a blocking receive (`postckpt.c:220`).
- `FTI_RecoverVar`, `FTI_Realloc`'s own bookkeeping and composed data types (the list
  of protected variables and their sizes is in `FtiffFile`); `FTI_Snapshot`'s timing;
  the node list of a restart on other nodes.
- FTI-FF at L3, `FTIFF_RecoverVar`, differential checkpoints with CRC32 or by heads;
  incremental checkpoints over MPI-IO, SIONlib and HDF5, with several processes per
  node, or with a level FTI does not know.
- The arithmetic of the Reed-Solomon code (vendored, `deps/jerasure`), MD5, the
  ini parser; MPI-IO, SIONlib, HDF5 and GPU variants (the same protocol through
  other I/O calls); the Fortran binding; fault injection for tests.

## Plan

Done: `MultilevelCkpt` with seven theorems, `HeadProtocol`, `Staging` and
`StageService` with the refinement, `FtiffFile` with three theorems, `IncrementalCkpt` and `FtiffRestart`
with eight, and the theorems about `Staging` and `HeadProtocol`.  Next, in this order:

1. Proofs: `Durable` of `MultilevelCkpt` with `keep_last_ckpt`, which needs `LevelOrder` weakened
   inside `FTI_Finalize`; and of `FtiffFile` that a file of which no write was lost reads back as what was
   written (`Walk` on it has as many steps as there are data blocks), which would extend its
   theorems beyond a restart.
2. `Exchange`: `FTI_SendCkpt`, `FTI_RecvPtner`, `FTI_Ptner`, `FTI_RSenc` message by
   message for one group, to see who may be left waiting, and as the justification
   of `MultilevelCkpt!Exchange` (refinement).
3. `CheckpointStore`: what FTI promises (a store that keeps the last completed
   checkpoint up to the losses of its level), implemented by `MultilevelCkpt` and
   by `HeadProtocol`.
4. `SnapshotTiming` and `Topology`: the first with processes that decide alone when a
   checkpoint is due and must agree, the second as operators checked against what the
   node list asks for.

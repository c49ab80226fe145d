------------------------------ MODULE FtiffFile ------------------------------
(***************************************************************************)
(* The FTI file format and differential checkpoints (ftiff.c,              *)
(* diff-checkpoint.c): one process writes its protected variables into one *)
(* file and is restored from it, possibly after a crash.                   *)
(*                                                                         *)
(* A file starts with the file metadata (checksum, size), followed by data *)
(* blocks.  A data block (FTIFF_db) is its own metadata, the metadata of   *)
(* its containers (FTIFF_dbvar), and the containers.  A variable that has  *)
(* grown beyond its containers gets one more, in a new data block at the   *)
(* end of the file; a container never moves or changes its size, only how  *)
(* much of it is in use.                                                   *)
(*                                                                         *)
(* Two kinds of inline level 4 checkpoints are written this way.  A "plain"*)
(* one is a file of its own in a temporary directory that replaces the     *)
(* level 4 directory when it is complete.  A "dcp" one (FTI_L4_DCP)        *)
(* rewrites the one file of the dCP directory in place, and only the       *)
(* metadata and the blocks of data that have changed since the last time.  *)
(*                                                                         *)
(* Memory and file are sequences of cells: each metadata structure is one  *)
(* cell, and a variable is a sequence of bits.  MD5 has no collisions      *)
(* here: the hash of some data is the data.  The process is alone, so the  *)
(* collective calls disappear, and what FTI_PostCkpt and FTI_Init do       *)
(* besides (modelled in MultilevelCkpt) is reduced to the directories.     *)
(* Variables are never empty, and are protected in the order of their IDs. *)
(***************************************************************************)
EXTENDS Integers, FiniteSets, SequencesExt

CONSTANTS
  NVar,         \* protected variables, at most
  MaxSize,      \* largest size of a variable, in cells
  Block,        \* DCP_BLOCK_SIZE, in cells
  Dcp,          \* FTI_Conf->dcpEnabled
  Kinds,        \* kinds of checkpoint the application asks for
  MaxCkpt,      \* bound: checkpoint IDs
  MaxEdit,      \* bound: changes of the protected data
  MaxFault,     \* bound: failed writes
  MaxCrash,     \* bound: crashes
  SlotLeft,     \* what hashchk holds when it was not computed
  FlagLeft      \* what the update flags hold when malloc has set them

ASSUME SizesAssumption == NVar \in Nat \ {0} /\ MaxSize \in Nat \ {0} /\ Block \in Nat \ {0}
ASSUME KindsAssumption == Dcp \in BOOLEAN /\ Kinds \subseteq (IF Dcp THEN {"plain", "dcp"} ELSE {"plain"})
ASSUME BoundsAssumption == {MaxCkpt, MaxEdit, MaxFault, MaxCrash} \subseteq Nat
ASSUME LeftAssumption == SlotLeft \subseteq {"last", "other"} /\ FlagLeft \subseteq BOOLEAN

Var == 1 .. NVar
Id == 1 .. MaxCkpt
None == <<>>                    \* no contents

VARIABLES
  mem,        \* FTI_Data: the cells of each protected variable
  db,         \* FTI_Exec->firstdb: the data blocks and their containers
  dcpFile,    \* dCPFile-Rank0.fti, <<>> before it exists
  tmp,        \* gTmpDir: the files in it, by checkpoint ID
  l4,         \* FTI_Ckpt[4].dir, likewise
  lastEntry,  \* kind of the last entry of Checkpoint.fti
  cursor,     \* hashIdx and reset of FTI_ReceiveDataChunk, kept between calls
  up,         \* whether the process runs
  ckptID,     \* FTI_Exec->ckptID
  edits, faults, crashes,
  saved,      \* history: contents some checkpoint was asked to save
  done,       \* history: the contents of the last checkpoint reported as done
  trying,     \* history: the contents being saved when the process crashed
  spoilt      \* history: what has happened that loses the last checkpoint

files == <<dcpFile, tmp, l4, lastEntry>>
counters == <<edits, faults, crashes>>
history == <<saved, done, trying, spoilt>>
vars == <<mem, db, files, cursor, up, ckptID, counters, history>>

MinOf(a, b) == IF a < b THEN a ELSE b
MaxOf(a, b) == IF a > b THEN a ELSE b

\* The members of S up to n in their order.
Ascending(S, n) ==
  LET upto[a \in 0 .. n] ==
        IF a = 0 THEN <<>> ELSE IF a \in S THEN Append(upto[a - 1], a) ELSE upto[a - 1]
  IN upto[n]

-----------------------------------------------------------------------------
(* Blocks of a container, and their hashes *)

NumBlocks(n) == (n + Block - 1) \div Block         \* FTI_CalcNumHashes

BlockOf(s, b) == SubSeq(s, (b - 1) * Block + 1, MinOf(b * Block, Len(s)))

Invalid == [valid |-> FALSE, dirty |-> FALSE, hash |-> <<>>]

\* Without dCP there are no blocks.
InitBlocks(n) == IF Dcp THEN [b \in 1 .. NumBlocks(n) |-> Invalid] ELSE <<>>

\* After shrinking, the last block is invalid unless it is a whole block that was one before.
Collapse(blk, n) ==
  [b \in 1 .. NumBlocks(n) |->
     IF b = NumBlocks(n) /\ (NumBlocks(n) = Len(blk) \/ n % Block # 0) THEN Invalid ELSE blk[b]]

\* After growing, the new blocks and the former last one are invalid.
Expand(blk, n) ==
  [b \in 1 .. NumBlocks(n) |-> IF b >= Len(blk) THEN Invalid ELSE blk[b]]

-----------------------------------------------------------------------------
(* FTIFF_UpdateDatastructFTIFF.  The data blocks and the containers of all of them are two *)
(* sequences; at is where the metadata of each is in the file.                             *)

NoDb == [blocks |-> <<>>, boxes |-> <<>>]

\* Mutant: the end of the file as if the last data block were the only one.
EndOfLast(d) == IF d.blocks = <<>> THEN 1 ELSE Last(d.blocks).size

EndOf(d) == IF d.blocks = <<>> THEN 1 ELSE Last(d.blocks).at + Last(d.blocks).size

\* The cells the containers of variable i have.
Held(boxes, i) ==
  SumFunctionOnSet([k \in DOMAIN boxes |-> boxes[k].csize], {k \in DOMAIN boxes : boxes[k].id = i})

\* Mutant: a container that was not in use is taken into use with the blocks it had: none.
FitStale(c, n) ==
  LET chunk == IF n > c.dptr THEN MinOf(c.csize, n - c.dptr) ELSE 0
  IN [c EXCEPT !.chunk = chunk, !.has = chunk > 0,
               !.blk = CASE chunk = 0 -> <<>>
                         [] c.has /\ 0 < chunk /\ chunk < c.chunk /\ Dcp -> Collapse(c.blk, chunk)
                         [] c.has /\ chunk > c.chunk /\ Dcp -> Expand(c.blk, chunk)
                         [] OTHER -> c.blk]

\* A container of a variable that now has n cells.
Fit(c, n) ==
  LET chunk == IF n > c.dptr THEN MinOf(c.csize, n - c.dptr) ELSE 0
  IN [c EXCEPT !.chunk = chunk, !.has = chunk > 0,
               !.blk = CASE chunk = 0 -> <<>>
                         [] chunk > 0 /\ ~c.has -> InitBlocks(chunk)
                         [] c.has /\ 0 < chunk /\ chunk < c.chunk /\ Dcp -> Collapse(c.blk, chunk)
                         [] c.has /\ chunk > c.chunk /\ Dcp -> Expand(c.blk, chunk)
                         [] OTHER -> c.blk]

\* A data block at the end, with a container for what each of the variables ids has too much.
AddBlock(d, m, ids) ==
  LET size == [k \in DOMAIN ids |-> Len(m[ids[k]]) - Held(d.boxes, ids[k])]
      at == EndOf(d)
      box(k) ==
        [at |-> at + k, id |-> ids[k], dptr |-> Held(d.boxes, ids[k]),
         fptr |-> at + 1 + Len(ids) + SumFunction(SubSeq(size, 1, k - 1)),
         csize |-> size[k], chunk |-> size[k], has |-> TRUE, hash |-> <<>>, update |-> TRUE,
         blk |-> InitBlocks(size[k])]
  IN [blocks |-> Append(d.blocks, [at |-> at, numvars |-> Len(ids), update |-> TRUE,
                                   size |-> 1 + Len(ids) + SumFunction(size)]),
      boxes |-> d.boxes \o [k \in DOMAIN ids |-> box(k)]]

UpdateDatastruct(d, m) ==
  LET fitted == [d EXCEPT !.boxes = [k \in DOMAIN @ |-> Fit(@[k], Len(m[@[k].id]))]]
      grown == Ascending({i \in DOMAIN m : Len(m[i]) > Held(d.boxes, i)}, Len(m))
  IN IF grown = <<>> THEN fitted ELSE AddBlock(fitted, m, grown)

-----------------------------------------------------------------------------
(* FTIFF_WriteFTIFF: the writes to the file, in their order *)

Content(m, c) == SubSeq(m[c.id], c.dptr + 1, c.dptr + c.chunk)

Datum(v) == [tag |-> "data", v |-> v]
Hole == Datum(0)

FileCell(sum, size) == [tag |-> "file", sum |-> sum, size |-> size]
DbCell(b) == [tag |-> "db", numvars |-> b.numvars, size |-> b.size]
VarCell(c) ==
  [tag |-> "var", id |-> c.id, dptr |-> c.dptr, fptr |-> c.fptr, csize |-> c.csize,
   chunk |-> c.chunk, has |-> c.has, hash |-> c.hash]

\* The hash of the container at position j; when it is not in use, that of one before it or
\* something else is left in hashchk.
HashOf(boxes, m, j, slot) ==
  IF boxes[j].has THEN Content(m, boxes[j])
  ELSE IF slot = "last" THEN Content(m, boxes[Max({i \in 1 .. j - 1 : boxes[i].has})])
  ELSE <<2>>

\* The containers with the hashes of their contents.
Hashed(d, m, slot) ==
  [d EXCEPT !.boxes = [k \in DOMAIN @ |-> [@[k] EXCEPT !.hash = HashOf(d.boxes, m, k, slot)]]]

Cells(c) == c.fptr .. c.fptr + c.csize - 1
BoxAt(d, a) == CHOOSE k \in DOMAIN d.boxes : a = d.boxes[k].at \/ a \in Cells(d.boxes[k])

\* What is written at address a, where the file metadata holds the checksum of all data.
CellOf(d, m, a) ==
  IF a = 0
  THEN FileCell(FlattenSeq([k \in DOMAIN d.boxes |-> Content(m, d.boxes[k])]), EndOf(d))
  ELSE IF \E b \in DOMAIN d.blocks : d.blocks[b].at = a
  THEN DbCell(CHOOSE b \in ToSet(d.blocks) : b.at = a)
  ELSE LET c == d.boxes[BoxAt(d, a)]
       IN IF a = c.at THEN VarCell(c) ELSE Datum(m[c.id][c.dptr + a - c.fptr + 1])

\* The addresses in S in their order, which is the order of the writes.
Ordered(d, S) == Ascending(S, EndOf(d) - 1)

\* Mutant: the metadata of a container is written again only when the container is new.
MetaIsOld(c, hashed) == ~c.update

MetaIs(c, hashed) == ~c.update /\ c.hash = hashed.hash

\* The metadata that is rewritten; that of the file comes last.
MetaOps(d, hashed) ==
  Append(Ordered(d, {b.at : b \in {b \in ToSet(d.blocks) : b.update}}
                    \cup {d.boxes[k].at :
                            k \in {k \in DOMAIN d.boxes : ~MetaIs(d.boxes[k], hashed.boxes[k])}}),
         0)

\* FTI_HashCmp: 1 for a block that has to be written.
MustWrite(c, m, b) == ~c.blk[b].valid \/ c.blk[b].hash # BlockOf(Content(m, c), b)

\* FTI_ReceiveDataChunk: the last block of the region of dirty blocks that b belongs to.
RegionEnd(c, m, b) ==
  CHOOSE e \in b .. Len(c.blk) :
    /\ \A x \in b .. e : MustWrite(c, m, x)
    /\ e = Len(c.blk) \/ ~MustWrite(c, m, e + 1)

Start == [reset |-> FALSE, at |-> 1]
BlockNo(x) == (x - 1) \div Block + 1
BlockCells(c, b) == c.fptr + (b - 1) * Block .. c.fptr + MinOf(b * Block, c.chunk) - 1

\* The data of container j that is written, cell by cell.  The first container meets the
\* cursor as it was left.  Without dCP it is the whole container.
DataOpsOf(d, m, j) ==
  LET c == d.boxes[j]
      cur == IF j = 1 THEN cursor ELSE Start
  IN IF cur.reset THEN {}
     ELSE IF ~Dcp THEN c.fptr .. c.fptr + c.chunk - 1
     ELSE UNION {BlockCells(c, b) : b \in {b \in cur.at .. Len(c.blk) : MustWrite(c, m, b)}}

DataOps(d, m) == Ordered(d, UNION {DataOpsOf(d, m, j) : j \in DOMAIN d.boxes})

\* The file f after writes to the addresses in ops; a hole reads as zero.
Apply(f, d, m, ops) ==
  [a \in 1 .. Max({Len(f)} \cup {o + 1 : o \in ops}) |->
     IF a - 1 \in ops THEN CellOf(d, m, a - 1) ELSE IF a <= Len(f) THEN f[a] ELSE Hole]

\* FTI_HashCmp sets the dirty flag of a valid block it looks at, here the blocks of c in S.
Compared(c, m, S) ==
  [c EXCEPT !.blk = [b \in DOMAIN @ |->
     IF b \in S /\ @[b].valid THEN [@[b] EXCEPT !.dirty = MustWrite(c, m, b)] ELSE @[b]]]

\* Of the containers before position j all blocks, and of that container those up to block e.
ComparedUpTo(d, m, j, e) ==
  LET looked(n) == (IF n = 1 THEN cursor.at ELSE 1) ..
                   (IF n < j THEN Len(d.boxes[n].blk) ELSE IF n = j THEN e ELSE 0)
  IN [d EXCEPT !.boxes = [n \in DOMAIN @ |-> Compared(@[n], m, looked(n))]]

-----------------------------------------------------------------------------
(* FTI_Checkpoint after the write: the flags, and FTI_UpdateDcpChanges *)

\* Mutant: a block that has changed keeps the hash of its former contents.
RehashInvalid(c, m) ==
  [c EXCEPT !.blk = [b \in DOMAIN @ |->
     IF ~@[b].valid
     THEN [@[b] EXCEPT !.hash = BlockOf(Content(m, c), b), !.valid = TRUE] ELSE @[b]]]

Rehash(c, m) ==
  [c EXCEPT !.blk = [b \in DOMAIN @ |->
     IF @[b].dirty \/ ~@[b].valid
     THEN [@[b] EXCEPT !.hash = BlockOf(Content(m, c), b), !.valid = TRUE] ELSE @[b]]]

\* Only after a dCP, whether the write succeeded or not.
AfterDcp(d, m) ==
  [blocks |-> [d.blocks EXCEPT ![1].update = FALSE],
   boxes |-> [k \in DOMAIN d.boxes |-> [Rehash(d.boxes[k], m) EXCEPT !.update = FALSE]]]

-----------------------------------------------------------------------------
(* Reading a file: FTIFF_GetFileChecksum, FTIFF_ReadDbFTIFF, FTIFF_Recover *)

CellAt(f, a) == IF a < Len(f) THEN f[a + 1] ELSE Hole
Value(f, a) == IF CellAt(f, a).tag = "data" THEN CellAt(f, a).v ELSE 2

NoVar == [tag |-> "var", id |-> 0, dptr |-> 0, fptr |-> 0, csize |-> 0, chunk |-> 0,
          has |-> FALSE, hash |-> <<>>]
Garbage == [NoVar EXCEPT !.id = -1]

\* The metadata of a container; zeros are a container of variable 0 that is not in use.
VarAt(f, a) ==
  CASE CellAt(f, a).tag = "var" -> CellAt(f, a)
    [] CellAt(f, a) = Hole -> NoVar
    [] OTHER -> Garbage

\* The data blocks.  One of size 0, a hole, is never left again; anything else that is not
\* metadata is taken for it, with unpredictable results.
Walk(f) ==
  LET from[a \in Nat] ==
        LET b == CellAt(f, a)
        IN IF b.tag # "db" THEN <<[at |-> a, numvars |-> 1, size |-> 0, vars |-> <<Garbage>>]>>
           ELSE <<[at |-> a, numvars |-> b.numvars, size |-> b.size,
                   vars |-> [k \in 1 .. b.numvars |-> VarAt(f, a + k)]]>>
                \o (IF a + b.size < f[1].size THEN from[a + b.size] ELSE <<>>)
  IN from[1]

Chunk(f, v) == [k \in 1 .. v.chunk |-> Value(f, v.fptr + k - 1)]

\* What reading f gives: its data blocks, containers, and the data in those in use.
Read(f) ==
  LET blocks == Walk(f)
      all == FlattenSeq([b \in DOMAIN blocks |-> blocks[b].vars])
      used == SelectSeq(all, LAMBDA v : v.has)
  IN [blocks |-> blocks, all |-> all, used |-> used,
      chunk |-> [k \in DOMAIN used |-> Chunk(f, used[k])]]

\* The contents of the variables in a file.
ContentsOf(r) ==
  [i \in 1 .. Cardinality({r.all[k].id : k \in DOMAIN r.all}) |->
     FlattenSeq([k \in DOMAIN r.used |-> IF r.used[k].id = i THEN r.chunk[k] ELSE <<>>])]

Contents(f) == ContentsOf(Read(f))

\* Mutant: the checksum is not that of the data in the file.
ChecksumAny(f, r) == TRUE

ChecksumIs(f, r) == FlattenSeq(r.chunk) = f[1].sum

\* FTIFF_Recover gives up: a variable the application does not have, a container that
\* does not match its hash.
Refused(r) ==
  \/ \E k \in DOMAIN r.all : r.all[k].id = 0
  \/ \E k \in DOMAIN r.used : r.chunk[k] # r.used[k].hash

\* FTIFF_CheckL4RecoverInit on one file, and then FTIFF_Recover.
Verdict(f) ==
  IF CellAt(f, 0).tag # "file" THEN "none"
  ELSE LET r == Read(f)
       IN IF \E k \in DOMAIN r.all : r.all[k] = Garbage THEN "dead"
          ELSE IF ~ChecksumIs(f, r) THEN "corrupt"
          ELSE IF Refused(r) THEN "refused" ELSE "ok"

Outcome(as, f) == [as |-> as, file |-> f]

\* What one attempt (FTI_RecoverL4) on a file may come to.  On a wrong checksum a pointer
\* to the stack is freed: the C library may abort the process, or it may go on.
Attempt(f) ==
  LET v == Verdict(f)
  IN CASE v = "corrupt" -> {Outcome("dead", <<>>), Outcome("none", <<>>)}
       [] v = "ok" -> {Outcome("ok", f)}
       [] OTHER -> {Outcome(v, <<>>)}

\* The level 4 directory, where the first file of the rank is taken, whatever its ID.
PlainAttempts ==
  IF DOMAIN l4 = {} THEN {Outcome("none", <<>>)} ELSE UNION {Attempt(l4[n]) : n \in DOMAIN l4}

\* Mutant: the level 4 directory first, whatever was written last.
RecoveriesPlain ==
  IF DOMAIN l4 # {} THEN PlainAttempts
  ELSE IF lastEntry = "dcp" THEN Attempt(dcpFile) ELSE PlainAttempts

\* FTI_RecoverFiles at level 4: the dCP file first, if the last entry says so.
Recoveries ==
  IF lastEntry # "dcp" THEN PlainAttempts
  ELSE LET dcp == Attempt(dcpFile)
       IN {o \in dcp : o.as # "none"}
          \cup (IF \E o \in dcp : o.as = "none" THEN PlainAttempts ELSE {})

\* Mutant: the blocks count as clean after a restart, with the hashes of what was recovered.
ReadDbValid(f, flag) ==
  LET r == Read(f)
      all == FlattenSeq([b \in DOMAIN r.blocks |->
               [k \in DOMAIN r.blocks[b].vars |->
                  [at |-> r.blocks[b].at + k, c |-> r.blocks[b].vars[k]]]])
      blk(v) == [n \in DOMAIN InitBlocks(v.chunk) |->
                   [valid |-> TRUE, dirty |-> FALSE, hash |-> BlockOf(Chunk(f, v), n)]]
  IN [blocks |-> [b \in DOMAIN r.blocks |->
        [at |-> r.blocks[b].at, numvars |-> r.blocks[b].numvars, size |-> r.blocks[b].size,
         update |-> flag]],
      boxes |-> [k \in DOMAIN all |->
        LET v == all[k].c
        IN [at |-> all[k].at, id |-> v.id, dptr |-> v.dptr, fptr |-> v.fptr,
            csize |-> v.csize, chunk |-> v.chunk, has |-> v.has, hash |-> v.hash,
            update |-> flag, blk |-> blk(v)]]]

\* FTIFF_ReadDbFTIFF: all blocks of data are invalid, and the update flags not set at all.
ReadDb(f, flag) ==
  LET r == Read(f)
      at(b, k) == r.blocks[b].at + k
  IN [blocks |-> [b \in DOMAIN r.blocks |->
        [at |-> r.blocks[b].at, numvars |-> r.blocks[b].numvars, size |-> r.blocks[b].size,
         update |-> flag]],
      boxes |-> FlattenSeq([b \in DOMAIN r.blocks |->
        [k \in DOMAIN r.blocks[b].vars |->
           LET v == r.blocks[b].vars[k]
           IN [at |-> at(b, k), id |-> v.id, dptr |-> v.dptr, fptr |-> v.fptr,
               csize |-> v.csize, chunk |-> v.chunk, has |-> v.has, hash |-> v.hash,
               update |-> flag, blk |-> InitBlocks(v.chunk)]]])]

-----------------------------------------------------------------------------
(* The application *)

Fresh(n) == [c \in 1 .. n |-> 1]

Init ==
  /\ mem = [i \in 1 .. MaxOf(1, NVar - 1) |-> Fresh(MaxOf(1, MaxSize - 1))]
  /\ db = NoDb /\ dcpFile = <<>> /\ tmp = <<>> /\ l4 = <<>> /\ lastEntry = "none"
  /\ cursor = Start /\ up = TRUE /\ ckptID = 0
  /\ edits = 0 /\ faults = 0 /\ crashes = 0
  /\ saved = {} /\ done = None /\ trying = None /\ spoilt = {}

Edited(m) ==
  /\ up /\ edits < MaxEdit
  /\ mem' = m /\ edits' = edits + 1
  /\ UNCHANGED <<db, files, cursor, up, ckptID, faults, crashes, history>>

ChangeCell ==
  \E i \in DOMAIN mem : \E c \in DOMAIN mem[i] : Edited([mem EXCEPT ![i][c] = 1 - @])

\* FTI_Protect with a new size, after a realloc.
Resize ==
  \E i \in DOMAIN mem, n \in 1 .. MaxSize :
    /\ n # Len(mem[i])
    /\ Edited([mem EXCEPT ![i] = [c \in 1 .. n |-> IF c <= Len(@) THEN @[c] ELSE 1]])

\* FTI_Protect of one more variable.
Protect == Len(mem) < NVar /\ \E n \in 1 .. MaxSize : Edited(Append(mem, Fresh(n)))

-----------------------------------------------------------------------------
(* FTI_Checkpoint *)

WriteOf(new, hashed) ==
  [new |-> new, hashed |-> hashed, meta |-> MetaOps(new, hashed), data |-> DataOps(new, mem)]

\* The writes of this checkpoint (one element).
Writes(slot) ==
  {WriteOf(new, Hashed(new, mem, slot)) : new \in {UpdateDatastruct(db, mem)}}

\* The file f after the writes ops of w.
Written(f, w, ops) == Apply(f, w.hashed, mem, ops)

Base(kind, n) ==
  IF kind = "dcp" THEN dcpFile ELSE IF n \in DOMAIN tmp THEN tmp[n] ELSE <<>>

With(dir, n, f) == [x \in DOMAIN dir \cup {n} |-> IF x = n THEN f ELSE dir[x]]

Flags(kind, dbs) == IF kind = "dcp" THEN AfterDcp(dbs, mem) ELSE dbs

Requested(kind, n) ==
  /\ up /\ kind \in Kinds /\ n \in Id /\ n > ckptID
  /\ saved' = saved \cup {mem}

\* FTI_ReceiveDataChunk asserts that it does not start beyond the blocks of the container.
Starts(d) == cursor.reset \/ cursor.at <= Len(d.boxes[1].blk) + 1

\* The plain checkpoint leaves out what a dCP has written to the other file.
LeftOut(kind, w) ==
  IF kind = "plain" /\ \E k \in DOMAIN w.new.boxes : ~w.new.boxes[k].update
  THEN {"plain after dcp"} ELSE {}

Shape(d) == [k \in DOMAIN d.boxes |-> d.boxes[k].chunk]

\* A container in use to another extent than before, whose metadata is not rewritten because
\* of what hashchk happened to hold.
SlotFooled(w) ==
  IF \E k \in DOMAIN Shape(db) :
       /\ Shape(w.new)[k] # Shape(db)[k]
       /\ ~w.new.boxes[k].update
       /\ w.new.boxes[k].hash = w.hashed.boxes[k].hash
  THEN {"slot"} ELSE {}

\* Old and new metadata in one file may describe contents that never existed.
Mixed(w) == IF Shape(w.new) # Shape(db) THEN {"mixed"} ELSE {}

NoAddress == -1

\* The checkpoint is done; skip: a write of metadata that failed, which is not noticed.
Complete(kind, n, w, skip) ==
  /\ Requested(kind, n)
  /\ Starts(w.new)
  /\ db' = Flags(kind, ComparedUpTo(w.hashed, mem, Len(w.new.boxes) + 1, 0))
  /\ cursor' = Start /\ ckptID' = n
  /\ lastEntry' = IF Dcp THEN kind ELSE lastEntry
  /\ \E f \in {Written(Base(kind, n), w, (ToSet(w.meta) \ {skip}) \cup ToSet(w.data))} :
       IF kind = "dcp"
       THEN dcpFile' = f /\ UNCHANGED <<tmp, l4>>
       ELSE l4' = With(tmp, n, f) /\ tmp' = <<>> /\ UNCHANGED dcpFile
  /\ done' = mem
  /\ spoilt' = spoilt \cup LeftOut(kind, w) \cup SlotFooled(w)
                      \cup (IF skip = NoAddress THEN {} ELSE {"lost"} \cup Mixed(w))
                      \cup (IF cursor = Start THEN {} ELSE {"cursor"})
  /\ UNCHANGED <<mem, up, edits, crashes, trying>>

Checkpoint ==
  /\ \E kind \in Kinds, n \in Id, slot \in SlotLeft : \E w \in Writes(slot) :
       Complete(kind, n, w, NoAddress)
  /\ UNCHANGED faults

CheckpointLosesMeta ==
  /\ faults < MaxFault /\ faults' = faults + 1
  /\ \E kind \in Kinds, n \in Id, slot \in SlotLeft : \E w \in Writes(slot) :
       \E skip \in ToSet(w.meta) : Complete(kind, n, w, skip)

\* The end of a checkpoint that has failed: FTI_PostCkpt cleans up, except after a dCP.
Failed(kind, n) ==
  /\ faults < MaxFault /\ faults' = faults + 1
  /\ Requested(kind, n)
  /\ ckptID' = n
  /\ tmp' = IF kind = "dcp" THEN tmp ELSE <<>>
  /\ spoilt' = spoilt \cup (IF kind = "dcp" THEN {"unwritten"} ELSE {})
  /\ UNCHANGED <<mem, l4, lastEntry, up, edits, crashes, done, trying>>

OpenFails ==
  \E kind \in Kinds, n \in Id :
    /\ Failed(kind, n)
    /\ db' = Flags(kind, UpdateDatastruct(db, mem))
    /\ UNCHANGED <<dcpFile, cursor>>

\* The container and the last block of the region that address a is in.
RegionOf(d, a) ==
  LET j == BoxAt(d, a)
      c == d.boxes[j]
  IN [box |-> j, to |-> IF Dcp THEN RegionEnd(c, mem, BlockNo(a - c.fptr + 1)) ELSE 0]

\* Where the next checkpoint starts after the write of a region of d has failed.
LeftAt(d, r) ==
  IF ~Dcp \/ r.to = Len(d.boxes[r.box].blk)
  THEN [reset |-> TRUE, at |-> MaxSize + 2] ELSE [reset |-> FALSE, at |-> r.to + 1]

DataFails ==
  \E kind \in Kinds, n \in Id, slot \in SlotLeft :
    /\ Failed(kind, n)
    /\ \E w \in Writes(slot) :
         /\ Starts(w.new)
         /\ \E k \in DOMAIN w.data : \E r \in {RegionOf(w.new, w.data[k])} :
              /\ db' = Flags(kind, ComparedUpTo(w.hashed, mem, r.box, r.to + 1))
              /\ dcpFile' = IF kind = "plain" THEN dcpFile
                            ELSE Written(dcpFile, w, ToSet(w.meta \o SubSeq(w.data, 1, k - 1)))
              /\ cursor' = LeftAt(w.new, r)

-----------------------------------------------------------------------------
(* Crash and restart *)

Dies ==
  /\ up /\ crashes < MaxCrash /\ crashes' = crashes + 1
  /\ up' = FALSE /\ db' = NoDb /\ cursor' = Start
  /\ UNCHANGED <<mem, ckptID, edits, faults, done>>

Crash == Dies /\ UNCHANGED <<files, saved, trying, spoilt>>

\* In the middle of the write.  An emptied container that FTIFF_ReadDbFTIFF has read has an
\* uninitialized number of hashes, which may end the write in this way too.
CrashInWrite ==
  \E kind \in Kinds, n \in Id, slot \in SlotLeft :
    /\ Requested(kind, n) /\ Dies
    /\ trying' = mem
    /\ UNCHANGED <<l4, lastEntry>>
    /\ \E w \in Writes(slot), torn \in {kind = "dcp" /\ lastEntry = "dcp"} :
         /\ spoilt' = spoilt \cup (IF torn THEN {"torn"} \cup Mixed(w) ELSE {})
         /\ \E ops \in {w.meta \o (IF Starts(w.new) THEN w.data ELSE <<>>)} :
              \E cut \in 1 .. Len(ops) : \E f \in {Written(Base(kind, n), w, ToSet(SubSeq(ops, 1, cut)))} :
                IF kind = "dcp" THEN dcpFile' = f /\ UNCHANGED tmp
                ELSE tmp' = With(tmp, n, f) /\ UNCHANGED dcpFile

\* After the write of a plain checkpoint: before or after FTI_Clean has removed the former
\* one (FTI_PostCkpt), and before the rename.
CrashBeforeRename ==
  \E n \in Id, slot \in SlotLeft, cleaned \in BOOLEAN :
    /\ Requested("plain", n) /\ Dies
    /\ \E w \in Writes(slot) :
         /\ Starts(w.new)
         /\ tmp' = With(tmp, n, Written(Base("plain", n), w, ToSet(w.meta \o w.data)))
    /\ l4' = IF cleaned THEN <<>> ELSE l4
    /\ lastEntry' = IF Dcp THEN "plain" ELSE lastEntry
    /\ trying' = mem
    /\ spoilt' = spoilt \cup (IF cleaned \/ lastEntry = "dcp" THEN {"window"} ELSE {})
    /\ UNCHANGED dcpFile

\* FTI_Init and FTI_Recover.  Nothing follows a restart that does not end, or a refusal.
Restart ==
  \E o \in Recoveries, flag \in FlagLeft :
    /\ ~up /\ o.as \in {"ok", "none"}
    /\ up' = TRUE
    /\ mem' = IF o.as = "ok" THEN Contents(o.file)
              ELSE [i \in 1 .. MaxOf(1, NVar - 1) |-> Fresh(MaxOf(1, MaxSize - 1))]
    /\ db' = IF o.as = "ok" THEN ReadDb(o.file, flag) ELSE NoDb
    /\ ckptID' = IF o.as = "ok" THEN ckptID ELSE 0
    /\ saved' = saved \cup (IF o.as = "ok" THEN {mem'} ELSE {})
    /\ done' = None /\ trying' = None
    /\ spoilt' = IF flag \/ o.as = "none" THEN {} ELSE {"uninit"}
    /\ UNCHANGED <<files, cursor, counters>>

Next ==
  \/ ChangeCell \/ Resize \/ Protect
  \/ Checkpoint \/ CheckpointLosesMeta \/ OpenFails \/ DataFails
  \/ Crash \/ CrashInWrite \/ CrashBeforeRename \/ Restart

Spec == Init /\ [][Next]_vars

-----------------------------------------------------------------------------
(* Properties *)

Causes == {"plain after dcp", "slot", "lost", "cursor", "unwritten", "torn", "mixed",
           "window", "uninit"}
Bit == {0, 1}

\* Type invariant.
TypeOK ==
  /\ mem \in Seq(Seq(Bit)) /\ DOMAIN mem \subseteq Var
  /\ \A i \in DOMAIN mem : Len(mem[i]) \in 1 .. MaxSize
  /\ \A k \in DOMAIN db.boxes :
       /\ db.boxes[k].chunk \in 0 .. db.boxes[k].csize
       /\ db.boxes[k].has = (db.boxes[k].chunk > 0)
       /\ Len(db.boxes[k].blk) = IF Dcp THEN NumBlocks(db.boxes[k].chunk) ELSE 0
  /\ DOMAIN tmp \subseteq Id /\ DOMAIN l4 \subseteq Id
  /\ lastEntry \in Kinds \cup {"none"}
  /\ cursor.reset \in BOOLEAN /\ cursor.at \in 1 .. MaxSize + 2
  /\ up \in BOOLEAN /\ ckptID \in 0 .. MaxCkpt
  /\ edits \in 0 .. MaxEdit /\ faults \in 0 .. MaxFault /\ crashes \in 0 .. MaxCrash
  /\ spoilt \subseteq Causes

\* However often variables grow and shrink, the containers of a variable follow each other
\* without a gap, one is in use only if those before it are full, and the structures of the
\* file share no cell and leave none out.
LayoutSound ==
  LET all == db.boxes
      before(k) == {j \in 1 .. k - 1 : all[j].id = all[k].id}
      metas == UNION {db.blocks[b].at .. db.blocks[b].at + db.blocks[b].numvars :
                        b \in DOMAIN db.blocks}
  IN /\ \A k \in DOMAIN all :
          /\ all[k].dptr = Held(SubSeq(all, 1, k - 1), all[k].id)
          /\ all[k].has => \A j \in before(k) : all[j].chunk = all[j].csize
          /\ Cells(all[k]) \cap metas = {}
          /\ \A j \in 1 .. k - 1 : Cells(all[j]) \cap Cells(all[k]) = {}
     /\ (UNION {Cells(all[k]) : k \in DOMAIN all}) \cup metas = 1 .. EndOf(db) - 1

\* A block that the next dCP may leave out, because its data still has the hash it had, is
\* in the dCP file with that data.
CleanIsOnFile ==
  spoilt \cap {"unwritten", "cursor"} = {} =>
    \A k \in DOMAIN db.boxes : \A b \in DOMAIN db.boxes[k].blk :
      LET c == db.boxes[k]
      IN c.blk[b].valid =>
           \A x \in DOMAIN c.blk[b].hash :
             CellAt(dcpFile, c.fptr + (b - 1) * Block + x - 1) = Datum(c.blk[b].hash[x])

\* A checkpoint reported as done is what a restart recovers, whatever the application did to
\* its variables since, unless one of the named events has come in between, or an
\* interrupted run has left its file in the temporary directory.
DoneRecoverable ==
  done # None /\ spoilt = {} /\ Cardinality(DOMAIN l4) <= 1 =>
    \A o \in Recoveries : o.as = "ok" /\ Contents(o.file) \in {done, trying} \ {None}

\* Whatever fails or crashes, what is recovered is the contents of one checkpoint and never
\* a mixture, unless a dCP that changed how much of the containers is in use was
\* interrupted or lost a write of metadata.
RestoredIsSaved ==
  "mixed" \notin spoilt =>
    \A o \in Recoveries : o.as = "ok" => Contents(o.file) \in saved

\* The checkpoint last reported as done can always be recovered (violated).
DoneIsRecovered ==
  done # None => \A o \in Recoveries : o.as = "ok"
=============================================================================

--------------------------- MODULE FtiffFileProofs ---------------------------
(***************************************************************************)
(* Proofs about FtiffFile, for every number and size of the variables,     *)
(* every block size, with dCP and without, every sequence of checkpoints,  *)
(* failed ones included, and of changes of the protected data: until the   *)
(* process crashes, the layout of the file is sound, and what a dCP leaves *)
(* out is on the file.                                                     *)
(*                                                                         *)
(* What a restart reads from a file that was torn is a recursive function  *)
(* of that file, about which nothing can be proved for every file.         *)
(***************************************************************************)
EXTENDS FtiffFile, SumLemmas

-----------------------------------------------------------------------------
(* Sequences *)

\* What a sequence consists of, without a set for its elements.
Listed(s) == Len(s) \in Nat /\ s = [k \in 1 .. Len(s) |-> s[k]]

LEMMA ListedIsSeq ==
  ASSUME NEW s, Listed(s), NEW S, \A k \in 1 .. Len(s) : s[k] \in S
  PROVE  s \in Seq(S)
BY DEF Listed

LEMMA SeqIsListed ==
  ASSUME NEW S, NEW s \in Seq(S)
  PROVE  Listed(s) /\ DOMAIN s = 1 .. Len(s)
BY DEF Listed

LEMMA ListedDomain ==
  ASSUME NEW s, Listed(s)
  PROVE  DOMAIN s = 1 .. Len(s)
<1>1. s \in Seq({s[k] : k \in 1 .. Len(s)}) BY ListedIsSeq
<1> QED BY <1>1

LEMMA FunctionIsListed ==
  ASSUME NEW n \in Nat, NEW s, s = [k \in 1 .. n |-> s[k]]
  PROVE  Listed(s) /\ Len(s) = n
<1>1. s \in Seq({s[k] : k \in 1 .. n}) OBVIOUS
<1> QED BY <1>1 DEF Listed

LEMMA ConcatAt ==
  ASSUME NEW s, NEW t, Listed(s), Listed(t)
  PROVE  /\ Listed(s \o t) /\ Len(s \o t) = Len(s) + Len(t)
         /\ \A k \in 1 .. Len(s) : (s \o t)[k] = s[k]
         /\ \A k \in 1 .. Len(t) : (s \o t)[Len(s) + k] = t[k]
<1> PICK S : S = {s[k] : k \in 1 .. Len(s)} \cup {t[k] : k \in 1 .. Len(t)} OBVIOUS
<1>1. s \in Seq(S) /\ t \in Seq(S) BY ListedIsSeq
<1>2. s \o t \in Seq(S) BY <1>1
<1>3. Listed(s \o t) BY <1>2, SeqIsListed
<1> QED BY <1>1, <1>3 DEF Listed

LEMMA AppendAt ==
  ASSUME NEW s, NEW e, Listed(s)
  PROVE  /\ Listed(Append(s, e)) /\ Len(Append(s, e)) = Len(s) + 1
         /\ \A k \in 1 .. Len(s) : Append(s, e)[k] = s[k]
         /\ Append(s, e)[Len(s) + 1] = e
<1> PICK S : S = {s[k] : k \in 1 .. Len(s)} \cup {e} OBVIOUS
<1>1. s \in Seq(S) BY ListedIsSeq
<1>2. Append(s, e) \in Seq(S) /\ e \in S BY <1>1
<1>3. Listed(Append(s, e)) BY <1>2, SeqIsListed
<1> QED BY <1>1, <1>2, <1>3 DEF Listed

-----------------------------------------------------------------------------
(* The members of a set in their order *)

Step(f, S, n) ==
  f = [a \in 0 .. n |->
         IF a = 0 THEN <<>> ELSE IF a \in S THEN Append(f[a - 1], a) ELSE f[a - 1]]

LEMMA StepAt ==
  ASSUME NEW f, NEW S, NEW n, Step(f, S, n), NEW a \in 0 .. n
  PROVE  f[a] = IF a = 0 THEN <<>> ELSE IF a \in S THEN Append(f[a - 1], a) ELSE f[a - 1]
BY Zenon DEF Step

\* There is such a function.
LEMMA StepExists ==
  ASSUME NEW S, NEW n \in Nat
  PROVE  \E f : Step(f, S, n)
<1> DEFINE T == {m \in Nat : ~\E f : Step(f, S, m)}
<1> SUFFICES ASSUME T # {} PROVE FALSE OBVIOUS
<1>1. T \in SUBSET Nat OBVIOUS
<1> HIDE DEF T
<1>2. PICK m \in T : \A k \in T : m <= k BY <1>1, LeastNatural
<1>3. m \in Nat /\ ~\E f : Step(f, S, m) BY <1>2 DEF T
<1>4. m # 0
  <2> SUFFICES ASSUME m = 0 PROVE FALSE OBVIOUS
  <2> DEFINE f == [a \in 0 .. 0 |-> <<>>]
  <2>1. f = [a \in 0 .. 0 |->
         IF a = 0 THEN <<>> ELSE IF a \in S THEN Append(f[a - 1], a) ELSE f[a - 1]]
    OBVIOUS
  <2> HIDE DEF f
  <2>2. Step(f, S, 0) BY <2>1, Zenon DEF Step
  <2> QED BY <1>3, <2>2
<1>5. m - 1 \in Nat /\ m - 1 \notin T BY <1>2, <1>3, <1>4
<1>6. PICK g : Step(g, S, m - 1) BY <1>5 DEF T
<1> DEFINE f == [a \in 0 .. m |-> IF a < m THEN g[a]
                                  ELSE IF m \in S THEN Append(g[m - 1], m) ELSE g[m - 1]]
           h == [a \in 0 .. m |->
                   IF a = 0 THEN <<>> ELSE IF a \in S THEN Append(f[a - 1], a) ELSE f[a - 1]]
<1>7. \A a \in 0 .. m : f[a] = h[a]
  <2> SUFFICES ASSUME NEW a \in 0 .. m PROVE f[a] = h[a] OBVIOUS
  <2>1. CASE a = m
    <3>1. f[m - 1] = g[m - 1] BY <1>3, <1>4
    <3> QED BY <1>3, <1>4, <2>1, <3>1
  <2>2. CASE a < m
    <3>1. a \in 0 .. m - 1 BY <1>3, <2>2
    <3>2. g[a] = IF a = 0 THEN <<>> ELSE IF a \in S THEN Append(g[a - 1], a) ELSE g[a - 1]
      <4> HIDE DEF f, h
      <4> QED BY <1>6, <3>1, StepAt
    <3>3. a # 0 => f[a - 1] = g[a - 1] BY <1>3, <2>2
    <3> QED BY <1>3, <2>2, <3>2, <3>3
  <2> QED BY <1>3, <2>1, <2>2
<1>8. f = h
  <2>1. f = [a \in 0 .. m |-> f[a]] /\ h = [a \in 0 .. m |-> h[a]] OBVIOUS
  <2> HIDE DEF f, h
  <2> QED BY <1>7, <2>1
<1>9. Step(f, S, m)
  <2>1. f = [a \in 0 .. m |->
         IF a = 0 THEN <<>> ELSE IF a \in S THEN Append(f[a - 1], a) ELSE f[a - 1]]
    BY <1>8 DEF h
  <2> HIDE DEF f
  <2> QED BY <2>1, Zenon DEF Step
<1> QED BY <1>3, <1>9

\* Up to a the members of S up to a are listed, each of them once.
Lists(s, S, a) ==
  /\ Listed(s)
  /\ \A k \in 1 .. Len(s) : s[k] \in S \cap 1 .. a
  /\ \A x \in S \cap 1 .. a : \E k \in 1 .. Len(s) : s[k] = x
  /\ \A j, k \in 1 .. Len(s) : j # k => s[j] # s[k]

LEMMA StepLists ==
  ASSUME NEW S, NEW n \in Nat, NEW f, Step(f, S, n)
  PROVE  Lists(f[n], S, n)
<1> DEFINE T == {a \in 0 .. n : ~Lists(f[a], S, a)}
<1> SUFFICES ASSUME T # {} PROVE FALSE OBVIOUS
<1>1. T \in SUBSET Nat OBVIOUS
<1> HIDE DEF T
<1>2. PICK a \in T : \A k \in T : a <= k BY <1>1, LeastNatural
<1>3. a \in 0 .. n /\ ~Lists(f[a], S, a) BY <1>2 DEF T
<1>4. f[a] = IF a = 0 THEN <<>> ELSE IF a \in S THEN Append(f[a - 1], a) ELSE f[a - 1]
  BY <1>3, StepAt
<1>5. a # 0
  <2> SUFFICES ASSUME a = 0 PROVE FALSE OBVIOUS
  <2>1. Lists(<<>>, S, 0) BY DEF Lists, Listed
  <2> QED BY <1>3, <1>4, <2>1
<1> DEFINE b == a - 1
<1>6. b \in 0 .. n /\ b \notin T BY <1>2, <1>3, <1>5
<1> PICK s : s = f[b] OBVIOUS
<1>7. Lists(s, S, b) BY <1>6 DEF T
<1>8. 1 .. a = (1 .. b) \cup {a} /\ a \notin 1 .. b BY <1>3, <1>5
<1> HIDE DEF b
<1>9. CASE a \notin S
  <2>1. S \cap 1 .. a = S \cap 1 .. b BY <1>8, <1>9
  <2>2. Lists(s, S, a) BY <1>7, <2>1 DEF Lists
  <2> QED BY <1>3, <1>4, <1>5, <1>9, <2>2 DEF b
<1>10. CASE a \in S
  <2> PICK t : t = Append(s, a) OBVIOUS
  <2>1. Listed(s) BY <1>7 DEF Lists
  <2>2. /\ Listed(t) /\ Len(t) = Len(s) + 1
        /\ \A k \in 1 .. Len(s) : t[k] = s[k]
        /\ t[Len(s) + 1] = a
    BY <2>1, AppendAt
  <2>3. Len(s) \in Nat BY <2>1 DEF Listed
  <2>4. 1 .. Len(t) = (1 .. Len(s)) \cup {Len(s) + 1} /\ Len(s) + 1 \notin 1 .. Len(s) BY <2>2, <2>3
  <2>5. S \cap 1 .. a = (S \cap 1 .. b) \cup {a} /\ a \notin S \cap 1 .. b BY <1>8, <1>10
  <2>6. /\ \A k \in 1 .. Len(s) : s[k] \in S \cap 1 .. b
        /\ \A x \in S \cap 1 .. b : \E k \in 1 .. Len(s) : s[k] = x
        /\ \A j, k \in 1 .. Len(s) : j # k => s[j] # s[k]
    BY <1>7 DEF Lists
  <2>7. \A k \in 1 .. Len(t) : t[k] \in S \cap 1 .. a BY <2>2, <2>4, <2>5, <2>6
  <2>8. \A x \in S \cap 1 .. a : \E k \in 1 .. Len(t) : t[k] = x BY <2>2, <2>4, <2>5, <2>6
  <2>9. \A j, k \in 1 .. Len(t) : j # k => t[j] # t[k] BY <2>2, <2>4, <2>5, <2>6
  <2>10. Lists(t, S, a) BY <2>2, <2>7, <2>8, <2>9 DEF Lists
  <2> QED BY <1>3, <1>4, <1>5, <1>10, <2>10 DEF b
<1> QED BY <1>9, <1>10

LEMMA AscendingLists ==
  ASSUME NEW S, NEW n \in Nat
  PROVE  Lists(Ascending(S, n), S, n)
<1> DEFINE f == CHOOSE f : Step(f, S, n)
<1>1. Step(f, S, n) BY StepExists
<1>2. Ascending(S, n) = f[n] BY DEF Ascending, Step
<1> HIDE DEF f
<1> QED BY <1>1, <1>2, StepLists

\* A set of bounded naturals has a greatest element.
LEMMA MaxExists ==
  ASSUME NEW n \in Nat, NEW S \in SUBSET (0 .. n), S # {}
  PROVE  Max(S) \in S /\ \A x \in S : x <= Max(S)
<1> DEFINE T == {m \in Nat : \A x \in S : x <= m}
<1>1. n \in T /\ T \in SUBSET Nat OBVIOUS
<1> HIDE DEF T
<1>2. PICK m \in T : \A k \in T : m <= k BY <1>1, LeastNatural
<1>3. m \in Nat /\ \A x \in S : x <= m BY <1>2 DEF T
<1>4. m \in S
  <2> SUFFICES ASSUME m \notin S PROVE FALSE OBVIOUS
  <2>1. \A x \in S : x \in Nat /\ x < m BY <1>3
  <2>2. m > 0
    <3>1. PICK y \in S : TRUE OBVIOUS
    <3> QED BY <1>3, <2>1, <3>1
  <2>3. m - 1 \in Nat /\ \A x \in S : x <= m - 1 BY <1>3, <2>1, <2>2
  <2>4. m - 1 \in T BY <2>3 DEF T
  <2> QED BY <1>2, <1>3, <2>4
<1> QED BY <1>3, <1>4 DEF Max

-----------------------------------------------------------------------------
(* Blocks *)

LEMMA Quotient ==
  ASSUME NEW a \in Nat, NEW q \in Nat, NEW B \in Nat \ {0}, q * B <= a, a < (q + 1) * B
  PROVE  a \div B = q
<1> PICK d : d = a \div B OBVIOUS
<1> PICK r : r = a % B OBVIOUS
<1>1. d \in Nat /\ r \in Nat /\ a = d * B + r /\ r < B OBVIOUS
<1>2. ~(d < q)
  <2> SUFFICES ASSUME d < q PROVE FALSE OBVIOUS
  <2>1. q - d - 1 \in Nat BY <1>1
  <2>2. (q - d - 1) * B >= 0 BY <2>1
  <2>3. (q - d - 1) * B = q * B - d * B - B BY <1>1
  <2> QED BY <1>1, <2>2, <2>3
<1>3. ~(d > q)
  <2> SUFFICES ASSUME d > q PROVE FALSE OBVIOUS
  <2>1. d - q - 1 \in Nat BY <1>1
  <2>2. (d - q - 1) * B >= 0 BY <2>1
  <2>3. (d - q - 1) * B = d * B - q * B - B /\ (q + 1) * B = q * B + B BY <1>1
  <2> QED BY <1>1, <2>2, <2>3
<1> QED BY <1>1, <1>2, <1>3

\* FTI_CalcNumHashes: as many blocks as it takes, the last of them not empty.
LEMMA NumBlocksIs ==
  ASSUME NEW n \in Nat
  PROVE  /\ NumBlocks(n) \in Nat /\ NumBlocks(n) <= n
         /\ n <= NumBlocks(n) * Block /\ (n > 0 => (NumBlocks(n) - 1) * Block < n)
         /\ NumBlocks(n) = 0 <=> n = 0
<1>1. Block \in Nat \ {0} BY SizesAssumption
<1> PICK B : B = Block OBVIOUS
<1> PICK q : q = (n + B - 1) \div B OBVIOUS
<1> PICK r : r = (n + B - 1) % B OBVIOUS
<1>2. B \in Nat \ {0} /\ n + B - 1 \in Nat BY <1>1
<1>3. q \in Nat /\ r \in Nat /\ n + B - 1 = q * B + r /\ r < B BY <1>2
<1>4. NumBlocks(n) = q BY DEF NumBlocks
<1>5. n <= q * B /\ q * B - B < n BY <1>2, <1>3
<1>6. (q - 1) * B = q * B - B BY <1>2, <1>3
<1>7. q <= n
  <2> SUFFICES ASSUME q > n PROVE FALSE BY <1>3
  <2>1. q - n - 1 \in Nat /\ B - 1 \in Nat BY <1>2, <1>3
  <2>2. (q - n - 1) * B >= 0 /\ n * (B - 1) >= 0 BY <1>2, <2>1
  <2>3. (q - n - 1) * B = q * B - n * B - B /\ n * (B - 1) = n * B - n BY <1>2, <1>3
  <2> QED BY <1>2, <1>3, <1>5, <2>2, <2>3
<1>8. q = 0 => n = 0 BY <1>2, <1>5
<1> QED BY <1>3, <1>4, <1>5, <1>6, <1>7, <1>8

LEMMA NumBlocksGrows ==
  ASSUME NEW n \in Nat, NEW m \in Nat, n <= m
  PROVE  NumBlocks(n) <= NumBlocks(m)
<1>1. Block \in Nat \ {0} BY SizesAssumption
<1> PICK B : B = Block OBVIOUS
<1> PICK p : p = NumBlocks(n) OBVIOUS
<1> PICK q : q = NumBlocks(m) OBVIOUS
<1>2. p \in Nat /\ q \in Nat /\ m <= q * B /\ (n > 0 => (p - 1) * B < n) /\ (n = 0 => p = 0)
  BY NumBlocksIs
<1> SUFFICES ASSUME p > q PROVE FALSE BY <1>2
<1>3. p - 1 - q \in Nat BY <1>2
<1>4. (p - 1 - q) * B >= 0 BY <1>1, <1>3
<1>5. (p - 1 - q) * B = (p - 1) * B - q * B BY <1>1, <1>2
<1>6. (p - 1) * B \in Int /\ q * B \in Int BY <1>1, <1>2
<1> QED BY <1>2, <1>4, <1>5, <1>6

\* The cells of a block, by their number in the container.
LEMMA BlockNoIs ==
  ASSUME NEW b \in Nat \ {0}, NEW x \in Nat \ {0}, (b - 1) * Block < x, x <= b * Block
  PROVE  BlockNo(x) = b
<1>1. Block \in Nat \ {0} BY SizesAssumption
<1>2. x - 1 \in Nat /\ b - 1 \in Nat /\ ((b - 1) + 1) * Block = b * Block
  OBVIOUS
<1>3. (b - 1) * Block <= x - 1 /\ x - 1 < b * Block
  <2>1. (b - 1) * Block \in Int /\ b * Block \in Int BY <1>1
  <2> QED BY <1>1, <2>1
<1>4. (x - 1) \div Block = b - 1
  <2> PICK a : a = x - 1 OBVIOUS
  <2> PICK q : q = b - 1 OBVIOUS
  <2>1. a \in Nat /\ q \in Nat /\ q * Block <= a /\ a < (q + 1) * Block BY <1>2, <1>3
  <2>2. a \div Block = q BY <1>1, <2>1, Quotient
  <2> QED BY <2>2
<1> QED BY <1>4 DEF BlockNo

-----------------------------------------------------------------------------
(* Data blocks and containers *)

IsBlock(b) == b = [at |-> b.at, numvars |-> b.numvars, size |-> b.size, update |-> b.update]
IsBox(c) ==
  c = [at |-> c.at, id |-> c.id, dptr |-> c.dptr, fptr |-> c.fptr, csize |-> c.csize,
       chunk |-> c.chunk, has |-> c.has, hash |-> c.hash, update |-> c.update, blk |-> c.blk]
IsMark(h) == h = [valid |-> h.valid, dirty |-> h.dirty, hash |-> h.hash]

BlockOK(b) == IsBlock(b) /\ b.at \in Nat \ {0} /\ b.numvars \in Nat /\ b.size \in Nat \ {0}

Blocks(n) == IF Dcp THEN NumBlocks(n) ELSE 0
MarksOK(blk, n) ==
  Listed(blk) /\ Len(blk) = Blocks(n) /\ \A b \in 1 .. Len(blk) : IsMark(blk[b])

BoxOK(c) ==
  /\ IsBox(c)
  /\ c.at \in Nat \ {0} /\ c.id \in Nat \ {0} /\ c.dptr \in Nat /\ c.fptr \in Nat \ {0}
  /\ c.csize \in 1 .. MaxSize /\ c.chunk \in 0 .. c.csize /\ c.has = (c.chunk > 0)
  /\ MarksOK(c.blk, c.chunk)

DbOK(d) ==
  /\ d = [blocks |-> d.blocks, boxes |-> d.boxes]
  /\ Listed(d.blocks) /\ \A b \in 1 .. Len(d.blocks) : BlockOK(d.blocks[b])
  /\ Listed(d.boxes) /\ \A k \in 1 .. Len(d.boxes) : BoxOK(d.boxes[k])

\* The valid blocks of e were valid in c, with the same hash.
KeepsMarks(c, e) ==
  /\ e.fptr = c.fptr
  /\ \A b \in 1 .. Len(e.blk) : e.blk[b].valid =>
       b \in 1 .. Len(c.blk) /\ c.blk[b].valid /\ e.blk[b].hash = c.blk[b].hash

\* c and e are the same container, in use to different extents.
SamePlace(c, e) ==
  e.at = c.at /\ e.id = c.id /\ e.dptr = c.dptr /\ e.fptr = c.fptr /\ e.csize = c.csize

Extent(c, n) == IF n > c.dptr THEN MinOf(c.csize, n - c.dptr) ELSE 0

LEMMA BlocksType ==
  ASSUME NEW n \in Nat
  PROVE  Blocks(n) \in Nat /\ Blocks(n) <= n
BY NumBlocksIs DEF Blocks

LEMMA InvalidIsMark == IsMark(Invalid) /\ Invalid.valid = FALSE
BY DEF IsMark, Invalid

LEMMA InitMarks ==
  ASSUME NEW n \in Nat
  PROVE  MarksOK(InitBlocks(n), n) /\ \A b \in 1 .. Len(InitBlocks(n)) : ~InitBlocks(n)[b].valid
<1>1. NumBlocks(n) \in Nat BY NumBlocksIs
<1>2. CASE Dcp
  <2> PICK s : s = [b \in 1 .. NumBlocks(n) |-> Invalid] OBVIOUS
  <2>1. s = [b \in 1 .. NumBlocks(n) |-> s[b]] OBVIOUS
  <2>2. Listed(s) /\ Len(s) = NumBlocks(n) BY <1>1, <2>1, FunctionIsListed
  <2>3. \A b \in 1 .. Len(s) : s[b] = Invalid BY <2>2
  <2>4. s = InitBlocks(n) BY <1>2 DEF InitBlocks
  <2> QED BY <1>2, <2>2, <2>3, <2>4, InvalidIsMark DEF MarksOK, Blocks
<1>3. CASE ~Dcp
  <2>1. Listed(<<>>) /\ Len(<<>>) = 0 BY DEF Listed
  <2>2. InitBlocks(n) = <<>> BY <1>3 DEF InitBlocks
  <2> QED BY <1>3, <2>1, <2>2 DEF MarksOK, Blocks
<1> QED BY <1>2, <1>3

LEMMA NoMarks == MarksOK(<<>>, 0)
<1>1. NumBlocks(0) = 0 BY NumBlocksIs
<1> QED BY <1>1 DEF MarksOK, Blocks, Listed

LEMMA CollapseMarks ==
  ASSUME Dcp, NEW n \in Nat, NEW m \in Nat, n <= m, NEW blk, MarksOK(blk, m)
  PROVE  /\ MarksOK(Collapse(blk, n), n)
         /\ \A b \in 1 .. Len(Collapse(blk, n)) : Collapse(blk, n)[b].valid =>
              b \in 1 .. Len(blk) /\ Collapse(blk, n)[b] = blk[b]
<1>1. NumBlocks(n) \in Nat /\ NumBlocks(m) \in Nat /\ NumBlocks(n) <= NumBlocks(m)
  BY NumBlocksIs, NumBlocksGrows
<1>2. Len(blk) = NumBlocks(m) /\ \A b \in 1 .. Len(blk) : IsMark(blk[b]) BY DEF MarksOK, Blocks
<1> PICK s : s = Collapse(blk, n) OBVIOUS
<1>3. s = [b \in 1 .. NumBlocks(n) |->
     IF b = NumBlocks(n) /\ (NumBlocks(n) = Len(blk) \/ n % Block # 0) THEN Invalid ELSE blk[b]]
  BY DEF Collapse
<1>4. s = [b \in 1 .. NumBlocks(n) |-> s[b]] BY <1>3
<1>5. Listed(s) /\ Len(s) = NumBlocks(n) BY <1>1, <1>4, FunctionIsListed
<1>6. \A b \in 1 .. Len(s) : s[b] = Invalid \/ s[b] = blk[b] BY <1>3, <1>5
<1>7. \A b \in 1 .. Len(s) : b \in 1 .. Len(blk) BY <1>1, <1>2, <1>5
<1>8. \A b \in 1 .. Len(s) : IsMark(s[b]) BY <1>2, <1>6, <1>7, InvalidIsMark
<1>9. MarksOK(s, n) BY <1>5, <1>8 DEF MarksOK, Blocks
<1> QED BY <1>6, <1>7, <1>9, InvalidIsMark

LEMMA ExpandMarks ==
  ASSUME Dcp, NEW n \in Nat, NEW m \in Nat, NEW blk, MarksOK(blk, m)
  PROVE  /\ MarksOK(Expand(blk, n), n)
         /\ \A b \in 1 .. Len(Expand(blk, n)) : Expand(blk, n)[b].valid =>
              b \in 1 .. Len(blk) /\ Expand(blk, n)[b] = blk[b]
<1>1. NumBlocks(n) \in Nat /\ NumBlocks(m) \in Nat BY NumBlocksIs
<1>2. Len(blk) = NumBlocks(m) /\ \A b \in 1 .. Len(blk) : IsMark(blk[b]) BY DEF MarksOK, Blocks
<1> PICK s : s = Expand(blk, n) OBVIOUS
<1>3. s = [b \in 1 .. NumBlocks(n) |-> IF b >= Len(blk) THEN Invalid ELSE blk[b]] BY DEF Expand
<1>4. s = [b \in 1 .. NumBlocks(n) |-> s[b]] BY <1>3
<1>5. Listed(s) /\ Len(s) = NumBlocks(n) BY <1>1, <1>4, FunctionIsListed
<1>6. \A b \in 1 .. Len(s) : s[b] = Invalid \/ (b \in 1 .. Len(blk) /\ s[b] = blk[b])
  BY <1>1, <1>2, <1>3, <1>5
<1>7. \A b \in 1 .. Len(s) : IsMark(s[b]) BY <1>2, <1>6, InvalidIsMark
<1>8. MarksOK(s, n) BY <1>5, <1>7 DEF MarksOK, Blocks
<1> QED BY <1>6, <1>8, InvalidIsMark

\* A container keeps its place, whatever the size of its variable, and no block becomes valid.
LEMMA FitKeeps ==
  ASSUME NEW c, BoxOK(c), NEW n \in Nat
  PROVE  /\ BoxOK(Fit(c, n)) /\ SamePlace(c, Fit(c, n)) /\ KeepsMarks(c, Fit(c, n))
         /\ Fit(c, n).chunk = Extent(c, n)
<1> PICK x : x = Extent(c, n) OBVIOUS
<1> PICK blk : blk = CASE x = 0 -> <<>>
                       [] x > 0 /\ ~c.has -> InitBlocks(x)
                       [] c.has /\ 0 < x /\ x < c.chunk /\ Dcp -> Collapse(c.blk, x)
                       [] c.has /\ x > c.chunk /\ Dcp -> Expand(c.blk, x)
                       [] OTHER -> c.blk
  OBVIOUS
<1> PICK e : e = Fit(c, n) OBVIOUS
<1>1. c.csize \in 1 .. MaxSize /\ c.csize \in Nat /\ c.dptr \in Nat /\ c.chunk \in Nat
      /\ c.chunk \in 0 .. c.csize /\ c.has = (c.chunk > 0)
  BY SizesAssumption DEF BoxOK
<1>2. x \in 0 .. c.csize /\ x \in Nat BY <1>1 DEF Extent, MinOf
<1>3. e = [c EXCEPT !.chunk = x, !.has = x > 0, !.blk = blk]
  BY Zenon DEF Fit, Extent
<1>4. IsBox(c) BY DEF BoxOK
<1>5. /\ e = [at |-> c.at, id |-> c.id, dptr |-> c.dptr, fptr |-> c.fptr, csize |-> c.csize,
              chunk |-> x, has |-> (x > 0), hash |-> c.hash, update |-> c.update, blk |-> blk]
  BY <1>3, <1>4 DEF IsBox
<1>6. /\ e.at = c.at /\ e.id = c.id /\ e.dptr = c.dptr /\ e.fptr = c.fptr /\ e.csize = c.csize
      /\ e.chunk = x /\ e.has = (x > 0) /\ e.hash = c.hash /\ e.update = c.update /\ e.blk = blk
  BY <1>5
<1>7. IsBox(e) BY <1>5, <1>6 DEF IsBox
<1>8. MarksOK(c.blk, c.chunk) BY DEF BoxOK
<1>9. /\ MarksOK(blk, x)
      /\ \A b \in 1 .. Len(blk) : blk[b].valid => b \in 1 .. Len(c.blk) /\ blk[b] = c.blk[b]
  <2>1. CASE x = 0
    <3>1. blk = <<>> BY <1>1, <2>1
    <3> QED BY <2>1, <3>1, NoMarks
  <2>2. CASE x > 0 /\ ~c.has
    <3>1. blk = InitBlocks(x) BY <1>2, <2>2
    <3> QED BY <1>2, <3>1, InitMarks
  <2>3. CASE c.has /\ 0 < x /\ x < c.chunk /\ Dcp
    <3>1. blk = Collapse(c.blk, x) BY <1>1, <1>2, <2>3
    <3> PICK old : old = c.blk OBVIOUS
    <3> PICK m : m = c.chunk OBVIOUS
    <3>2. m \in Nat /\ x <= m /\ MarksOK(old, m) /\ Dcp BY <1>1, <1>2, <1>8, <2>3
    <3>3. /\ MarksOK(Collapse(old, x), x)
          /\ \A b \in 1 .. Len(Collapse(old, x)) : Collapse(old, x)[b].valid =>
               b \in 1 .. Len(old) /\ Collapse(old, x)[b] = old[b]
      BY <1>2, <3>2, CollapseMarks
    <3> QED BY <3>1, <3>3
  <2>4. CASE c.has /\ x > c.chunk /\ Dcp
    <3>1. blk = Expand(c.blk, x) BY <1>1, <1>2, <2>4
    <3> PICK old : old = c.blk OBVIOUS
    <3> PICK m : m = c.chunk OBVIOUS
    <3>2. m \in Nat /\ MarksOK(old, m) /\ Dcp BY <1>1, <1>8, <2>4
    <3>3. /\ MarksOK(Expand(old, x), x)
          /\ \A b \in 1 .. Len(Expand(old, x)) : Expand(old, x)[b].valid =>
               b \in 1 .. Len(old) /\ Expand(old, x)[b] = old[b]
      BY ONLY <1>2, <3>2, ExpandMarks
    <3> QED BY <3>1, <3>3
  <2>5. CASE x > 0 /\ c.has /\ (x = c.chunk \/ ~Dcp)
    <3>1. blk = c.blk BY <1>1, <1>2, <2>5
    <3>2. Blocks(x) = Blocks(c.chunk) BY <2>5 DEF Blocks
    <3> QED BY <1>8, <3>1, <3>2 DEF MarksOK
  <2> QED BY <1>1, <1>2, <2>1, <2>2, <2>3, <2>4, <2>5
<1>10. BoxOK(e) BY <1>2, <1>6, <1>7, <1>9 DEF BoxOK
<1>11. SamePlace(c, e) BY <1>6 DEF SamePlace
<1>12. KeepsMarks(c, e) BY <1>6, <1>9 DEF KeepsMarks
<1> QED BY <1>6, <1>10, <1>11, <1>12

-----------------------------------------------------------------------------
(* The cells of a variable's containers *)

SizeAt(boxes) == [k \in DOMAIN boxes |-> boxes[k].csize]
Of(boxes, n, i) == {k \in 1 .. n : boxes[k].id = i}

\* What the first n containers have of variable i.
Prefix(boxes, n, i) == SumFunctionOnSet(SizeAt(boxes), Of(boxes, n, i))

Sized(boxes) == Listed(boxes) /\ \A k \in 1 .. Len(boxes) : boxes[k].csize \in Nat

LEMMA OfIsFinite ==
  ASSUME NEW boxes, NEW n \in Nat, NEW i
  PROVE  IsFiniteSet(Of(boxes, n, i)) /\ Of(boxes, n, i) \in SUBSET (1 .. n)
<1>1. IsFiniteSet(1 .. n) BY FS_Interval
<1>2. Of(boxes, n, i) \in SUBSET (1 .. n) BY DEF Of
<1> QED BY <1>1, <1>2, FS_Subset

LEMMA SizeIs ==
  ASSUME NEW boxes, Sized(boxes), NEW k \in 1 .. Len(boxes)
  PROVE  SizeAt(boxes)[k] = boxes[k].csize /\ SizeAt(boxes)[k] \in Nat
BY ListedDomain DEF Sized, SizeAt

LEMMA HeldIsPrefix ==
  ASSUME NEW boxes, Listed(boxes), NEW i
  PROVE  Held(boxes, i) = Prefix(boxes, Len(boxes), i)
BY ListedDomain DEF Held, Prefix, SizeAt, Of

LEMMA PrefixType ==
  ASSUME NEW boxes, Sized(boxes), NEW n \in 0 .. Len(boxes), NEW i
  PROVE  Prefix(boxes, n, i) \in Nat
<1>1. Len(boxes) \in Nat BY DEF Sized, Listed
<1> PICK S : S = Of(boxes, n, i) OBVIOUS
<1> PICK f : f = SizeAt(boxes) OBVIOUS
<1>2. IsFiniteSet(S) /\ S \in SUBSET (1 .. n) BY <1>1, OfIsFinite
<1>3. \A x \in S : f[x] \in Nat BY <1>1, <1>2, SizeIs
<1>4. SumFunctionOnSet(f, S) \in Nat BY <1>2, <1>3, SumType
<1> QED BY <1>4 DEF Prefix

\* The sum depends on the containers that it counts only.
LEMMA PrefixSame ==
  ASSUME NEW a, NEW b, Sized(a), Sized(b), NEW n \in 0 .. Len(a), n <= Len(b), NEW m \in 0 .. Len(b), NEW i,
         Of(a, n, i) = Of(b, m, i),
         \A k \in Of(a, n, i) : b[k].csize = a[k].csize
  PROVE  Prefix(b, m, i) = Prefix(a, n, i)
<1>1. Len(a) \in Nat /\ Len(b) \in Nat BY DEF Sized, Listed
<1> PICK S : S = Of(a, n, i) OBVIOUS
<1> PICK f : f = SizeAt(a) OBVIOUS
<1> PICK g : g = SizeAt(b) OBVIOUS
<1>2. IsFiniteSet(S) /\ S \in SUBSET (1 .. n)
  <2>1. n \in Nat BY <1>1
  <2>2. IsFiniteSet(Of(a, n, i)) /\ Of(a, n, i) \in SUBSET (1 .. n) BY ONLY <2>1, OfIsFinite
  <2> QED BY <2>2
<1>3. \A x \in S : f[x] = g[x]
  <2> SUFFICES ASSUME NEW x \in S PROVE f[x] = g[x] OBVIOUS
  <2>1. x \in 1 .. Len(a) /\ x \in 1 .. Len(b) BY <1>1, <1>2
  <2>2. f[x] = a[x].csize /\ g[x] = b[x].csize BY <2>1, SizeIs
  <2> QED BY <2>2
<1>4. SumFunctionOnSet(f, S) = SumFunctionOnSet(g, S) BY <1>2, <1>3, SumSame
<1> QED BY <1>4 DEF Prefix

\* A container more of the variable ...
LEMMA PrefixAdds ==
  ASSUME NEW boxes, Sized(boxes), NEW n \in 1 .. Len(boxes)
  PROVE  Prefix(boxes, n, boxes[n].id) = Prefix(boxes, n - 1, boxes[n].id) + boxes[n].csize
<1>1. Len(boxes) \in Nat BY DEF Sized, Listed
<1> PICK i : i = boxes[n].id OBVIOUS
<1> PICK m : m = n - 1 OBVIOUS
<1> PICK S : S = Of(boxes, m, i) OBVIOUS
<1> PICK f : f = SizeAt(boxes) OBVIOUS
<1>2. m \in Nat /\ 1 .. n = (1 .. m) \cup {n} /\ n \notin 1 .. m BY <1>1
<1>3. Of(boxes, n, i) = S \cup {n} /\ n \notin S BY <1>2 DEF Of
<1>4. IsFiniteSet(S) /\ S \in SUBSET (1 .. m) BY <1>2, OfIsFinite
<1>5. f[n] = boxes[n].csize BY SizeIs
<1>6. \A y \in S \cup {n} : f[y] \in Nat
  <2> SUFFICES ASSUME NEW y \in S \cup {n} PROVE f[y] \in Nat OBVIOUS
  <2>1. y \in 1 .. Len(boxes) BY <1>1, <1>2, <1>4
  <2> QED BY <2>1, SizeIs
<1>7. SumFunctionOnSet(f, S \cup {n}) = f[n] + SumFunctionOnSet(f, S)
  BY <1>3, <1>4, <1>6, SumAdd
<1>8. SumFunctionOnSet(f, S) \in Nat BY <1>4, <1>6, SumType
<1>9. f[n] \in Nat BY <1>6
<1> QED BY <1>3, <1>5, <1>7, <1>8, <1>9 DEF Prefix

\* ... and some containers more of any.
LEMMA PrefixGrows ==
  ASSUME NEW boxes, Sized(boxes), NEW n \in 0 .. Len(boxes), NEW m \in 0 .. n, NEW i
  PROVE  Prefix(boxes, m, i) <= Prefix(boxes, n, i)
<1>1. Len(boxes) \in Nat BY DEF Sized, Listed
<1> PICK S : S = Of(boxes, n, i) OBVIOUS
<1> PICK U : U = Of(boxes, m, i) OBVIOUS
<1> PICK f : f = SizeAt(boxes) OBVIOUS
<1>2. IsFiniteSet(S) /\ S \in SUBSET (1 .. n) BY <1>1, OfIsFinite
<1>3. U \in SUBSET S BY <1>1 DEF Of
<1>4. \A x \in S : f[x] \in Nat BY <1>1, <1>2, SizeIs
<1>5. SumFunctionOnSet(f, U) <= SumFunctionOnSet(f, S) BY <1>2, <1>3, <1>4, SumPart
<1> QED BY <1>5 DEF Prefix

LEMMA PrefixCovers ==
  ASSUME NEW boxes, Sized(boxes), NEW n \in 0 .. Len(boxes), NEW j \in 1 .. n
  PROVE  Prefix(boxes, j - 1, boxes[j].id) + boxes[j].csize <= Prefix(boxes, n, boxes[j].id)
<1>1. Len(boxes) \in Nat BY DEF Sized, Listed
<1> PICK i : i = boxes[j].id OBVIOUS
<1>2. j \in 1 .. Len(boxes) /\ j \in 0 .. n BY <1>1
<1>3. Prefix(boxes, j, i) = Prefix(boxes, j - 1, i) + boxes[j].csize BY <1>2, PrefixAdds
<1>4. Prefix(boxes, j, i) <= Prefix(boxes, n, i) BY <1>2, PrefixGrows
<1> QED BY <1>3, <1>4

-----------------------------------------------------------------------------
(* The layout of the file *)

Metas(d) ==
  UNION {d.blocks[b].at .. d.blocks[b].at + d.blocks[b].numvars : b \in 1 .. Len(d.blocks)}

\* A container goes on where the earlier ones of its variable end ...
Linked(boxes) == \A k \in 1 .. Len(boxes) : boxes[k].dptr = Prefix(boxes, k - 1, boxes[k].id)

\* ... and is in use only if they are full.
Filled(boxes) ==
  \A j, k \in 1 .. Len(boxes) :
    j < k /\ boxes[j].id = boxes[k].id /\ boxes[k].has => boxes[j].chunk = boxes[j].csize

\* Metadata and containers share no cell, and are all there is.
Placed(d) ==
  /\ \A k \in 1 .. Len(d.boxes) : d.boxes[k].at \in Metas(d)
  /\ \A k \in 1 .. Len(d.boxes) : Cells(d.boxes[k]) \cap Metas(d) = {}
  /\ \A j, k \in 1 .. Len(d.boxes) : j # k => Cells(d.boxes[j]) \cap Cells(d.boxes[k]) = {}
  /\ \A x : x \in 1 .. EndOf(d) - 1
              <=> x \in Metas(d) \/ \E k \in 1 .. Len(d.boxes) : x \in Cells(d.boxes[k])

\* d and e have the same structures in the same cells.
SamePlaces(d, e) ==
  /\ Len(e.blocks) = Len(d.blocks) /\ Len(e.boxes) = Len(d.boxes)
  /\ \A b \in 1 .. Len(d.blocks) :
       /\ e.blocks[b].at = d.blocks[b].at /\ e.blocks[b].numvars = d.blocks[b].numvars
       /\ e.blocks[b].size = d.blocks[b].size
  /\ \A k \in 1 .. Len(d.boxes) : SamePlace(d.boxes[k], e.boxes[k])

LEMMA DbParts ==
  ASSUME NEW d, DbOK(d)
  PROVE  /\ Listed(d.boxes) /\ Listed(d.blocks) /\ Sized(d.boxes)
         /\ Len(d.boxes) \in Nat /\ Len(d.blocks) \in Nat
         /\ DOMAIN d.boxes = 1 .. Len(d.boxes) /\ DOMAIN d.blocks = 1 .. Len(d.blocks)
<1>1. Listed(d.boxes) /\ Listed(d.blocks) BY DEF DbOK
<1>2. Len(d.boxes) \in Nat /\ Len(d.blocks) \in Nat BY <1>1 DEF Listed
<1>3. \A k \in 1 .. Len(d.boxes) : d.boxes[k].csize \in Nat
  BY SizesAssumption DEF DbOK, BoxOK
<1> QED BY <1>1, <1>2, <1>3, ListedDomain DEF Sized

LEMMA EndIs ==
  ASSUME NEW d, DbOK(d)
  PROVE  /\ EndOf(d) \in Nat \ {0}
         /\ Len(d.blocks) = 0 => EndOf(d) = 1
         /\ Len(d.blocks) # 0 =>
              EndOf(d) = d.blocks[Len(d.blocks)].at + d.blocks[Len(d.blocks)].size
<1> PICK s : s = d.blocks OBVIOUS
<1>1. Listed(s) /\ Len(s) \in Nat BY DbParts
<1>2. \A b \in 1 .. Len(s) : s[b].at \in Nat \ {0} /\ s[b].size \in Nat \ {0} BY DEF DbOK, BlockOK
<1>3. s = <<>> <=> Len(s) = 0 BY <1>1 DEF Listed
<1>4. EndOf(d) = IF s = <<>> THEN 1 ELSE s[Len(s)].at + s[Len(s)].size BY DEF EndOf, Last
<1>5. Len(s) # 0 => Len(s) \in 1 .. Len(s) BY <1>1
<1> QED BY <1>1, <1>2, <1>3, <1>4, <1>5

LEMMA PlacesStay ==
  ASSUME NEW d, NEW e, DbOK(d), DbOK(e), SamePlaces(d, e)
  PROVE  /\ Linked(d.boxes) => Linked(e.boxes)
         /\ Placed(d) => Placed(e)
         /\ EndOf(e) = EndOf(d) /\ Metas(e) = Metas(d)
<1>1. Len(d.boxes) \in Nat /\ Len(e.boxes) = Len(d.boxes) /\ Sized(d.boxes) /\ Sized(e.boxes)
      /\ Len(d.blocks) \in Nat /\ Len(e.blocks) = Len(d.blocks)
  BY DbParts DEF SamePlaces
<1>2. \A k \in 1 .. Len(d.boxes) :
        /\ e.boxes[k].at = d.boxes[k].at /\ e.boxes[k].id = d.boxes[k].id
        /\ e.boxes[k].dptr = d.boxes[k].dptr /\ e.boxes[k].csize = d.boxes[k].csize
        /\ Cells(e.boxes[k]) = Cells(d.boxes[k])
  BY DEF SamePlaces, SamePlace, Cells
<1>3. ASSUME Linked(d.boxes) PROVE Linked(e.boxes)
  <2> SUFFICES ASSUME NEW k \in 1 .. Len(e.boxes)
               PROVE  e.boxes[k].dptr = Prefix(e.boxes, k - 1, e.boxes[k].id)
    BY DEF Linked
  <2> PICK n : n = k - 1 OBVIOUS
  <2> PICK i : i = d.boxes[k].id OBVIOUS
  <2> PICK a : a = d.boxes OBVIOUS
  <2> PICK b : b = e.boxes OBVIOUS
  <2>1. n \in 0 .. Len(a) /\ n <= Len(b) /\ n \in 0 .. Len(b) BY <1>1
  <2>2. \A j \in 1 .. n : b[j].id = a[j].id /\ b[j].csize = a[j].csize BY <1>1, <1>2
  <2>3. Of(a, n, i) = Of(b, n, i) /\ \A j \in Of(a, n, i) : b[j].csize = a[j].csize BY <2>2 DEF Of
  <2>4. Sized(a) /\ Sized(b) BY <1>1
  <2>5. Prefix(b, n, i) = Prefix(a, n, i) BY ONLY <2>1, <2>3, <2>4, PrefixSame
  <2> QED BY <1>1, <1>2, <1>3, <2>5 DEF Linked
<1>4. Metas(e) = Metas(d) BY <1>1 DEF Metas, SamePlaces
<1>5. EndOf(e) = EndOf(d)
  <2>1. Len(d.blocks) # 0 => Len(d.blocks) \in 1 .. Len(d.blocks) BY <1>1
  <2> QED BY <1>1, <2>1, EndIs DEF SamePlaces
<1>6. ASSUME Placed(d) PROVE Placed(e)
  <2>1. \A k \in 1 .. Len(e.boxes) : e.boxes[k].at \in Metas(e) BY <1>1, <1>2, <1>4, <1>6 DEF Placed
  <2>2. \A k \in 1 .. Len(e.boxes) : Cells(e.boxes[k]) \cap Metas(e) = {}
    BY <1>1, <1>2, <1>4, <1>6 DEF Placed
  <2>3. \A j, k \in 1 .. Len(e.boxes) : j # k => Cells(e.boxes[j]) \cap Cells(e.boxes[k]) = {}
    BY <1>1, <1>2, <1>6 DEF Placed
  <2>4. \A x : x \in 1 .. EndOf(e) - 1
              <=> x \in Metas(e) \/ \E k \in 1 .. Len(e.boxes) : x \in Cells(e.boxes[k])
    BY <1>1, <1>2, <1>4, <1>5, <1>6 DEF Placed
  <2> QED BY <2>1, <2>2, <2>3, <2>4 DEF Placed
<1> QED BY <1>3, <1>4, <1>5, <1>6

\* Stretches of the lengths that f adds up, one after the other.
LEMMA Stretches ==
  ASSUME NEW n \in Nat, NEW f \in [0 .. n -> Nat], f[0] = 0,
         \A j, k \in 0 .. n : j <= k => f[j] <= f[k], NEW z \in Nat
  PROVE  /\ \A j, k \in 1 .. n : j # k =>
              (z + f[j - 1] .. z + f[j] - 1) \cap (z + f[k - 1] .. z + f[k] - 1) = {}
         /\ \A x : x \in z .. z + f[n] - 1 <=> \E k \in 1 .. n : x \in z + f[k - 1] .. z + f[k] - 1
<1>1. ASSUME NEW j \in 1 .. n, NEW k \in 1 .. n, j < k, NEW x,
             x \in z + f[j - 1] .. z + f[j] - 1, x \in z + f[k - 1] .. z + f[k] - 1
      PROVE  FALSE
  <2>1. j \in 0 .. n /\ k - 1 \in 0 .. n /\ j <= k - 1 BY <1>1
  <2>2. f[j] <= f[k - 1] /\ f[j] \in Nat /\ f[k - 1] \in Nat BY <2>1
  <2> QED BY <1>1, <2>2
<1>2. \A j, k \in 1 .. n : j # k =>
        (z + f[j - 1] .. z + f[j] - 1) \cap (z + f[k - 1] .. z + f[k] - 1) = {}
  <2> SUFFICES ASSUME NEW j \in 1 .. n, NEW k \in 1 .. n, j # k, NEW x,
                      x \in z + f[j - 1] .. z + f[j] - 1, x \in z + f[k - 1] .. z + f[k] - 1
               PROVE  FALSE
    OBVIOUS
  <2>1. j < k \/ k < j OBVIOUS
  <2> QED BY <1>1, <2>1
<1>3. ASSUME NEW k \in 1 .. n, NEW x, x \in z + f[k - 1] .. z + f[k] - 1
      PROVE  x \in z .. z + f[n] - 1
  <2>1. k - 1 \in 0 .. n /\ k \in 0 .. n /\ n \in 0 .. n /\ 0 \in 0 .. n OBVIOUS
  <2>2. f[0] <= f[k - 1] /\ f[k] <= f[n] /\ f[k - 1] \in Nat /\ f[k] \in Nat /\ f[n] \in Nat BY <2>1
  <2> QED BY <1>3, <2>2
<1>4. ASSUME NEW x, x \in z .. z + f[n] - 1
      PROVE  \E k \in 1 .. n : x \in z + f[k - 1] .. z + f[k] - 1
  <2> DEFINE T == {k \in 0 .. n : x < z + f[k]}
  <2>1. n \in T /\ T \in SUBSET Nat
    <3>1. f[n] \in Nat OBVIOUS
    <3> QED BY <1>4, <3>1
  <2> HIDE DEF T
  <2>2. PICK k \in T : \A m \in T : k <= m BY <2>1, LeastNatural
  <2>3. k \in 0 .. n /\ x < z + f[k] BY <2>2 DEF T
  <2>4. k # 0 BY <1>4, <2>3
  <2>5. k - 1 \in 0 .. n /\ k - 1 \notin T BY <2>2, <2>3, <2>4
  <2>6. f[k - 1] \in Nat /\ f[k] \in Nat /\ x \in Int BY <1>4, <2>3, <2>5
  <2>7. ~(x < z + f[k - 1]) BY <2>5 DEF T
  <2>8. k \in 1 .. n BY <2>3, <2>4
  <2>9. x \in z + f[k - 1] .. z + f[k] - 1
    <3> PICK u : u = f[k - 1] OBVIOUS
    <3> PICK v : v = f[k] OBVIOUS
    <3>1. u \in Nat /\ v \in Nat /\ x \in Int /\ x < z + v /\ ~(x < z + u)
      BY ONLY <2>3, <2>6, <2>7, u = f[k - 1], v = f[k]
    <3>2. z \in Nat OBVIOUS
    <3>3. x \in z + u .. z + v - 1 BY ONLY <3>1, <3>2
    <3> QED BY ONLY <3>3, u = f[k - 1], v = f[k]
  <2> QED BY <2>8, <2>9
<1> QED BY <1>2, <1>3, <1>4

-----------------------------------------------------------------------------
(* A data block more *)

Upto(size, k) == SumFunctionOnSet(size, 1 .. k)

LEMMA UptoGrows ==
  ASSUME NEW size, Listed(size), \A k \in 1 .. Len(size) : size[k] \in Nat
  PROVE  /\ \A k \in 0 .. Len(size) : Upto(size, k) \in Nat
         /\ Upto(size, 0) = 0
         /\ \A k \in 1 .. Len(size) : Upto(size, k) = Upto(size, k - 1) + size[k]
         /\ \A j, k \in 0 .. Len(size) : j <= k => Upto(size, j) <= Upto(size, k)
<1>1. Len(size) \in Nat BY DEF Listed
<1>2. \A k \in 0 .. Len(size) :
        IsFiniteSet(1 .. k) /\ 1 .. k \in SUBSET (1 .. Len(size)) /\ \A x \in 1 .. k : size[x] \in Nat
  <2> SUFFICES ASSUME NEW k \in 0 .. Len(size)
               PROVE  IsFiniteSet(1 .. k) /\ 1 .. k \in SUBSET (1 .. Len(size))
    OBVIOUS
  <2>1. IsFiniteSet(1 .. k) BY <1>1, FS_Interval
  <2> QED BY <1>1, <2>1
<1>3. \A k \in 0 .. Len(size) : Upto(size, k) \in Nat
  <2> SUFFICES ASSUME NEW k \in 0 .. Len(size) PROVE Upto(size, k) \in Nat OBVIOUS
  <2> PICK S : S = 1 .. k OBVIOUS
  <2>1. IsFiniteSet(S) /\ \A x \in S : size[x] \in Nat BY <1>2
  <2>2. SumFunctionOnSet(size, S) \in Nat BY <2>1, SumType
  <2> QED BY <2>2 DEF Upto
<1>4. Upto(size, 0) = 0
  <2>1. 1 .. 0 = {} OBVIOUS
  <2> QED BY <2>1, SumOfNone DEF Upto
<1>5. ASSUME NEW k \in 1 .. Len(size) PROVE Upto(size, k) = Upto(size, k - 1) + size[k]
  <2> PICK S : S = 1 .. k - 1 OBVIOUS
  <2>1. k - 1 \in 0 .. Len(size) /\ k \in 0 .. Len(size) BY <1>1
  <2>2. IsFiniteSet(S) /\ \A x \in S : size[x] \in Nat BY <1>2, <2>1
  <2> PICK U : U = 1 .. k OBVIOUS
  <2>3. U = S \cup {k} /\ k \notin S BY <1>1
  <2>4. \A y \in S \cup {k} : size[y] \in Nat BY <2>2
  <2>5. SumFunctionOnSet(size, S \cup {k}) = size[k] + SumFunctionOnSet(size, S)
    BY <2>2, <2>3, <2>4, SumAdd
  <2>6. SumFunctionOnSet(size, S) \in Nat BY <2>2, SumType
  <2>7. size[k] \in Nat OBVIOUS
  <2>8. Upto(size, k) = SumFunctionOnSet(size, U) /\ Upto(size, k - 1) = SumFunctionOnSet(size, S)
    BY DEF Upto
  <2> QED BY ONLY <2>3, <2>5, <2>6, <2>7, <2>8
<1>6. ASSUME NEW j \in 0 .. Len(size), NEW k \in 0 .. Len(size), j <= k
      PROVE  Upto(size, j) <= Upto(size, k)
  <2> PICK S : S = 1 .. k OBVIOUS
  <2> PICK U : U = 1 .. j OBVIOUS
  <2>1. IsFiniteSet(S) /\ \A x \in S : size[x] \in Nat BY <1>2
  <2>2. U \in SUBSET S BY <1>1, <1>6
  <2>3. SumFunctionOnSet(size, U) <= SumFunctionOnSet(size, S) BY <2>1, <2>2, SumPart
  <2> QED BY <2>3 DEF Upto
<1> QED BY <1>3, <1>4, <1>5, <1>6

LEMMA UptoIs ==
  ASSUME NEW size, Listed(size)
  PROVE  /\ SumFunction(size) = Upto(size, Len(size))
         /\ \A k \in 0 .. Len(size) : SumFunction(SubSeq(size, 1, k)) = Upto(size, k)
<1>1. Len(size) \in Nat /\ DOMAIN size = 1 .. Len(size) BY ListedDomain DEF Listed
<1>2. SumFunction(size) = Upto(size, Len(size)) BY <1>1 DEF SumFunction, Upto
<1>3. ASSUME NEW k \in 0 .. Len(size) PROVE SumFunction(SubSeq(size, 1, k)) = Upto(size, k)
  <2> PICK s : s = SubSeq(size, 1, k) OBVIOUS
  <2> PICK E : E = {size[x] : x \in 1 .. Len(size)} OBVIOUS
  <2>1. size \in Seq(E) BY ListedIsSeq
  <2>2. Len(s) = k /\ \A x \in 1 .. k : s[x] = size[x] BY <1>1, <2>1
  <2>3. s \in Seq(E) BY <1>1, <2>1
  <2>4. DOMAIN s = 1 .. k BY <2>2, <2>3
  <2> PICK S : S = 1 .. k OBVIOUS
  <2>5. IsFiniteSet(S) BY <1>1, FS_Interval
  <2>6. \A x \in S : s[x] = size[x] BY <2>2
  <2>7. SumFunctionOnSet(s, S) = SumFunctionOnSet(size, S) BY <2>5, <2>6, SumSame
  <2> QED BY <2>4, <2>7 DEF SumFunction, Upto
<1> QED BY <1>2, <1>3

\* What is asked of the variables that get a new container.
Grown(d, m, ids) ==
  /\ Listed(ids) /\ Len(ids) > 0
  /\ \A j, k \in 1 .. Len(ids) : j # k => ids[j] # ids[k]
  /\ \A k \in 1 .. Len(ids) :
       /\ ids[k] \in Nat \ {0} /\ Len(m[ids[k]]) \in 1 .. MaxSize
       /\ Len(m[ids[k]]) > Held(d.boxes, ids[k])

TooMuch(d, m, ids) == [k \in 1 .. Len(ids) |-> Len(m[ids[k]]) - Held(d.boxes, ids[k])]

NewBox(d, m, ids, k) ==
  [at |-> EndOf(d) + k, id |-> ids[k], dptr |-> Held(d.boxes, ids[k]),
   fptr |-> EndOf(d) + 1 + Len(ids) + Upto(TooMuch(d, m, ids), k - 1),
   csize |-> TooMuch(d, m, ids)[k], chunk |-> TooMuch(d, m, ids)[k], has |-> TRUE,
   hash |-> <<>>, update |-> TRUE, blk |-> InitBlocks(TooMuch(d, m, ids)[k])]

NewBlock(d, m, ids) ==
  [at |-> EndOf(d), numvars |-> Len(ids), update |-> TRUE,
   size |-> 1 + Len(ids) + Upto(TooMuch(d, m, ids), Len(ids))]

LEMMA TooMuchIs ==
  ASSUME NEW d, DbOK(d), NEW m, NEW ids, Grown(d, m, ids)
  PROVE  /\ Listed(TooMuch(d, m, ids)) /\ Len(TooMuch(d, m, ids)) = Len(ids)
         /\ \A k \in 1 .. Len(ids) :
              /\ TooMuch(d, m, ids)[k] \in 1 .. MaxSize
              /\ TooMuch(d, m, ids)[k] = Len(m[ids[k]]) - Held(d.boxes, ids[k])
              /\ Held(d.boxes, ids[k]) \in Nat
<1> PICK size : size = TooMuch(d, m, ids) OBVIOUS
<1> PICK n : n = Len(ids) OBVIOUS
<1>1. n \in Nat BY DEF Grown, Listed
<1>2. size = [k \in 1 .. n |-> Len(m[ids[k]]) - Held(d.boxes, ids[k])] BY DEF TooMuch
<1>3. size = [k \in 1 .. n |-> size[k]] BY <1>2
<1>4. Listed(size) /\ Len(size) = n BY <1>1, <1>3, FunctionIsListed
<1>5. \A i : Held(d.boxes, i) \in Nat
  <2> SUFFICES ASSUME NEW i PROVE Held(d.boxes, i) \in Nat OBVIOUS
  <2> PICK a : a = d.boxes OBVIOUS
  <2>1. Listed(a) /\ Sized(a) /\ Len(a) \in 0 .. Len(a) BY DbParts
  <2>2. Held(a, i) = Prefix(a, Len(a), i) /\ Prefix(a, Len(a), i) \in Nat
    BY ONLY <2>1, HeldIsPrefix, PrefixType
  <2> QED BY <2>2
<1>6. \A k \in 1 .. n : size[k] \in 1 .. MaxSize /\ size[k] = Len(m[ids[k]]) - Held(d.boxes, ids[k])
  <2> SUFFICES ASSUME NEW k \in 1 .. n
               PROVE  size[k] \in 1 .. MaxSize /\ size[k] = Len(m[ids[k]]) - Held(d.boxes, ids[k])
    OBVIOUS
  <2> PICK x : x = Len(m[ids[k]]) OBVIOUS
  <2> PICK y : y = Held(d.boxes, ids[k]) OBVIOUS
  <2>1. x \in 1 .. MaxSize /\ y \in Nat /\ x > y BY <1>5 DEF Grown
  <2>2. size[k] = x - y BY <1>2
  <2> QED BY <2>1, <2>2, SizesAssumption
<1> QED BY <1>4, <1>5, <1>6

\* AddBlock, in these terms.
LEMMA AddBlockIs ==
  ASSUME NEW d, DbOK(d), NEW m, NEW ids, Grown(d, m, ids)
  PROVE  AddBlock(d, m, ids) =
           [blocks |-> Append(d.blocks, NewBlock(d, m, ids)),
            boxes |-> d.boxes \o [k \in 1 .. Len(ids) |-> NewBox(d, m, ids, k)]]
<1> PICK size : size = TooMuch(d, m, ids) OBVIOUS
<1>1. Listed(ids) /\ Len(ids) \in Nat /\ DOMAIN ids = 1 .. Len(ids)
  <2>1. Listed(ids) BY DEF Grown
  <2> QED BY <2>1, ListedDomain DEF Listed
<1>2. Listed(size) /\ Len(size) = Len(ids) BY TooMuchIs
<1>3. /\ SumFunction(size) = Upto(size, Len(ids))
      /\ \A k \in 0 .. Len(ids) : SumFunction(SubSeq(size, 1, k)) = Upto(size, k)
  BY <1>2, UptoIs
<1>4. [k \in DOMAIN ids |-> Len(m[ids[k]]) - Held(d.boxes, ids[k])] = size BY <1>1 DEF TooMuch
<1> DEFINE box(k) ==
        [at |-> EndOf(d) + k, id |-> ids[k], dptr |-> Held(d.boxes, ids[k]),
         fptr |-> EndOf(d) + 1 + Len(ids) + SumFunction(SubSeq(size, 1, k - 1)),
         csize |-> size[k], chunk |-> size[k], has |-> TRUE, hash |-> <<>>, update |-> TRUE,
         blk |-> InitBlocks(size[k])]
<1>5. AddBlock(d, m, ids) =
        [blocks |-> Append(d.blocks, [at |-> EndOf(d), numvars |-> Len(ids), update |-> TRUE,
                                      size |-> 1 + Len(ids) + SumFunction(size)]),
         boxes |-> d.boxes \o [k \in DOMAIN ids |-> box(k)]]
  BY <1>4, Zenon DEF AddBlock
<1>6. \A k \in 1 .. Len(ids) : box(k) = NewBox(d, m, ids, k)
  <2> SUFFICES ASSUME NEW k \in 1 .. Len(ids) PROVE box(k) = NewBox(d, m, ids, k) OBVIOUS
  <2>1. k - 1 \in 0 .. Len(ids) BY <1>1
  <2>2. SumFunction(SubSeq(size, 1, k - 1)) = Upto(size, k - 1) BY <1>3, <2>1
  <2> QED BY <2>2 DEF NewBox
<1>7. [k \in DOMAIN ids |-> box(k)] = [k \in 1 .. Len(ids) |-> NewBox(d, m, ids, k)]
  <2> HIDE DEF box
  <2> QED BY <1>1, <1>6
<1>8. [at |-> EndOf(d), numvars |-> Len(ids), update |-> TRUE,
       size |-> 1 + Len(ids) + SumFunction(size)] = NewBlock(d, m, ids)
  BY <1>3 DEF NewBlock
<1> HIDE DEF box
<1> QED BY <1>5, <1>7, <1>8

LEMMA NewBlockOK ==
  ASSUME NEW d, DbOK(d), NEW m, NEW ids, Grown(d, m, ids)
  PROVE  /\ BlockOK(NewBlock(d, m, ids))
         /\ \A k \in 1 .. Len(ids) : BoxOK(NewBox(d, m, ids, k))
<1> PICK size : size = TooMuch(d, m, ids) OBVIOUS
<1>1. /\ Listed(size) /\ Len(size) = Len(ids)
      /\ \A k \in 1 .. Len(ids) : size[k] \in 1 .. MaxSize /\ Held(d.boxes, ids[k]) \in Nat
  BY TooMuchIs
<1>2. Len(ids) \in Nat /\ EndOf(d) \in Nat \ {0} BY EndIs DEF Grown, Listed
<1>3. \A k \in 0 .. Len(ids) : Upto(size, k) \in Nat
  <2>1. \A k \in 1 .. Len(size) : size[k] \in Nat BY <1>1, SizesAssumption
  <2> QED BY <1>1, <2>1, UptoGrows
<1>4. BlockOK(NewBlock(d, m, ids))
  <2> PICK p : p = Upto(size, Len(ids)) OBVIOUS
  <2>1. p \in Nat BY <1>2, <1>3
  <2>2. NewBlock(d, m, ids) = [at |-> EndOf(d), numvars |-> Len(ids), update |-> TRUE,
                               size |-> 1 + Len(ids) + p]
    BY DEF NewBlock
  <2> QED BY <1>2, <2>1, <2>2 DEF BlockOK, IsBlock
<1>5. ASSUME NEW k \in 1 .. Len(ids) PROVE BoxOK(NewBox(d, m, ids, k))
  <2> PICK p : p = Upto(size, k - 1) OBVIOUS
  <2> PICK s : s = size[k] OBVIOUS
  <2> PICK h : h = Held(d.boxes, ids[k]) OBVIOUS
  <2> PICK i : i = ids[k] OBVIOUS
  <2> PICK e : e = EndOf(d) OBVIOUS
  <2> PICK n : n = Len(ids) OBVIOUS
  <2>1. p \in Nat BY <1>2, <1>3
  <2>2. s \in 1 .. MaxSize /\ s \in Nat /\ s > 0 /\ h \in Nat BY <1>1, SizesAssumption
  <2>3. i \in Nat \ {0} BY DEF Grown
  <2> PICK c : c = NewBox(d, m, ids, k) OBVIOUS
  <2>4. c = [at |-> e + k, id |-> i, dptr |-> h, fptr |-> e + 1 + n + p, csize |-> s, chunk |-> s,
             has |-> TRUE, hash |-> <<>>, update |-> TRUE, blk |-> InitBlocks(s)]
    BY DEF NewBox
  <2>5. /\ c.at = e + k /\ c.id = i /\ c.dptr = h /\ c.fptr = e + 1 + n + p /\ c.csize = s
        /\ c.chunk = s /\ c.has = TRUE /\ c.blk = InitBlocks(s)
    BY <2>4
  <2>6. IsBox(c) BY <2>4 DEF IsBox
  <2>7. MarksOK(c.blk, c.chunk) BY <2>2, <2>5, InitMarks
  <2>8. /\ c.at \in Nat \ {0} /\ c.id \in Nat \ {0} /\ c.dptr \in Nat
        /\ c.csize \in 1 .. MaxSize /\ c.chunk \in 0 .. c.csize
    BY <1>2, <2>2, <2>3, <2>5
  <2>9. c.fptr \in Nat \ {0} BY <1>2, <2>1, <2>5
  <2>10. c.has = (c.chunk > 0) BY <2>2, <2>5
  <2> QED BY <2>6, <2>7, <2>8, <2>9, <2>10 DEF BoxOK
<1> QED BY <1>4, <1>5

\* What AddBlock leaves and what it adds.
Added(d, m, ids, e) ==
  /\ Len(e.blocks) = Len(d.blocks) + 1
  /\ \A b \in 1 .. Len(d.blocks) : e.blocks[b] = d.blocks[b]
  /\ e.blocks[Len(d.blocks) + 1] = NewBlock(d, m, ids)
  /\ Len(e.boxes) = Len(d.boxes) + Len(ids)
  /\ \A k \in 1 .. Len(d.boxes) : e.boxes[k] = d.boxes[k]
  /\ \A k \in 1 .. Len(ids) : e.boxes[Len(d.boxes) + k] = NewBox(d, m, ids, k)

LEMMA AddBlockAdds ==
  ASSUME NEW d, DbOK(d), NEW m, NEW ids, Grown(d, m, ids), NEW e, e = AddBlock(d, m, ids)
  PROVE  DbOK(e) /\ Added(d, m, ids, e)
<1> PICK new : new = [k \in 1 .. Len(ids) |-> NewBox(d, m, ids, k)] OBVIOUS
<1> PICK db1 : db1 = NewBlock(d, m, ids) OBVIOUS
<1>1. e = [blocks |-> Append(d.blocks, db1), boxes |-> d.boxes \o new] BY AddBlockIs
<1>2. Listed(d.boxes) /\ Listed(d.blocks) /\ Len(d.boxes) \in Nat /\ Len(d.blocks) \in Nat
      /\ Len(ids) \in Nat
  BY DbParts DEF Grown, Listed
<1>3. Listed(new) /\ Len(new) = Len(ids) /\ \A k \in 1 .. Len(ids) : new[k] = NewBox(d, m, ids, k)
  <2>1. new = [k \in 1 .. Len(ids) |-> new[k]] OBVIOUS
  <2> QED BY <1>2, <2>1, FunctionIsListed
<1> PICK s : s = d.boxes \o new OBVIOUS
<1> PICK old : old = d.boxes OBVIOUS
<1>4. /\ Listed(s) /\ Len(s) = Len(old) + Len(ids)
      /\ \A k \in 1 .. Len(old) : s[k] = old[k]
      /\ \A k \in 1 .. Len(ids) : s[Len(old) + k] = new[k]
  BY <1>2, <1>3, ConcatAt
<1> PICK t : t = Append(d.blocks, db1) OBVIOUS
<1> PICK bs : bs = d.blocks OBVIOUS
<1>5. /\ Listed(t) /\ Len(t) = Len(bs) + 1
      /\ \A k \in 1 .. Len(bs) : t[k] = bs[k]
      /\ t[Len(bs) + 1] = db1
  BY <1>2, AppendAt
<1>6. e.boxes = s /\ e.blocks = t /\ e = [blocks |-> e.blocks, boxes |-> e.boxes] BY <1>1
<1>7. Added(d, m, ids, e) BY <1>3, <1>4, <1>5, <1>6 DEF Added
<1>8. BlockOK(db1) /\ \A k \in 1 .. Len(ids) : BoxOK(new[k]) BY <1>3, NewBlockOK
<1>9. \A b \in 1 .. Len(t) : BlockOK(t[b])
  <2> SUFFICES ASSUME NEW b \in 1 .. Len(t) PROVE BlockOK(t[b]) OBVIOUS
  <2>1. CASE b \in 1 .. Len(bs)
    <3>1. BlockOK(bs[b]) BY <2>1 DEF DbOK
    <3> QED BY <1>5, <2>1, <3>1
  <2>2. CASE b = Len(bs) + 1 BY <1>5, <1>8, <2>2
  <2> QED BY <1>2, <1>5, <2>1, <2>2
<1>10. \A k \in 1 .. Len(s) : BoxOK(s[k])
  <2> SUFFICES ASSUME NEW k \in 1 .. Len(s) PROVE BoxOK(s[k]) OBVIOUS
  <2>1. CASE k \in 1 .. Len(old)
    <3>1. BoxOK(old[k]) BY <2>1 DEF DbOK
    <3> QED BY <1>4, <2>1, <3>1
  <2>2. CASE k \notin 1 .. Len(old)
    <3> PICK j : j = k - Len(old) OBVIOUS
    <3>1. j \in 1 .. Len(ids) /\ k = Len(old) + j BY <1>2, <1>4, <2>2
    <3>2. s[k] = new[j] BY <1>4, <3>1
    <3> QED BY <1>8, <3>1, <3>2
  <2> QED BY <2>1, <2>2
<1>11. DbOK(e) BY <1>4, <1>5, <1>6, <1>9, <1>10 DEF DbOK
<1> QED BY <1>7, <1>11

LEMMA NewBoxIs ==
  ASSUME NEW d, NEW m, NEW ids, NEW k
  PROVE  /\ NewBox(d, m, ids, k).at = EndOf(d) + k /\ NewBox(d, m, ids, k).id = ids[k]
         /\ NewBox(d, m, ids, k).dptr = Held(d.boxes, ids[k])
         /\ NewBox(d, m, ids, k).fptr = EndOf(d) + 1 + Len(ids) + Upto(TooMuch(d, m, ids), k - 1)
         /\ NewBox(d, m, ids, k).csize = TooMuch(d, m, ids)[k]
         /\ NewBox(d, m, ids, k).chunk = TooMuch(d, m, ids)[k]
         /\ NewBox(d, m, ids, k).blk = InitBlocks(TooMuch(d, m, ids)[k])
BY DEF NewBox

LEMMA AddedLinked ==
  ASSUME NEW d, DbOK(d), NEW m, NEW ids, Grown(d, m, ids), NEW e, DbOK(e), Added(d, m, ids, e),
         Linked(d.boxes)
  PROVE  Linked(e.boxes)
<1> PICK a : a = d.boxes OBVIOUS
<1> PICK b : b = e.boxes OBVIOUS
<1> PICK n : n = Len(a) OBVIOUS
<1>1. /\ Sized(a) /\ Sized(b) /\ Listed(a) /\ n \in Nat /\ Len(ids) \in Nat
      /\ Len(b) = n + Len(ids) /\ n \in 0 .. Len(b)
  <2>1. Sized(a) /\ Listed(a) /\ n \in Nat BY DbParts
  <2>2. Sized(b) BY DbParts
  <2>3. Len(ids) \in Nat BY DEF Grown, Listed
  <2>4. Len(b) = n + Len(ids) BY DEF Added
  <2> QED BY <2>1, <2>2, <2>3, <2>4
<1>2. \A k \in 1 .. n : b[k] = a[k] BY DEF Added
<1>3. \A k \in 1 .. Len(ids) : b[n + k].id = ids[k] /\ b[n + k].dptr = Held(a, ids[k])
  <2> SUFFICES ASSUME NEW k \in 1 .. Len(ids)
               PROVE  b[n + k].id = ids[k] /\ b[n + k].dptr = Held(a, ids[k])
    OBVIOUS
  <2> PICK c : c = NewBox(d, m, ids, k) OBVIOUS
  <2>1. b[n + k] = c BY DEF Added
  <2>2. c.id = ids[k] /\ c.dptr = Held(a, ids[k]) BY NewBoxIs
  <2> QED BY <2>1, <2>2
<1>4. \A k \in 0 .. n : \A i : Of(a, k, i) = Of(b, k, i)
  <2> SUFFICES ASSUME NEW k \in 0 .. n, NEW i PROVE Of(a, k, i) = Of(b, k, i) OBVIOUS
  <2>1. \A x \in 1 .. k : x \in 1 .. n BY ONLY <1>1
  <2>2. \A x \in 1 .. k : b[x] = a[x] BY ONLY <1>2, <2>1
  <2> QED BY ONLY <2>2 DEF Of
<1> SUFFICES ASSUME NEW k \in 1 .. Len(b) PROVE b[k].dptr = Prefix(b, k - 1, b[k].id) BY DEF Linked
<1>5. CASE k \in 1 .. n
  <2> PICK j : j = k - 1 OBVIOUS
  <2> PICK i : i = a[k].id OBVIOUS
  <2>1. j \in 0 .. Len(a) /\ j <= Len(b) /\ j \in 0 .. Len(b) /\ j \in 0 .. n BY <1>1, <1>5
  <2>2. Of(a, j, i) = Of(b, j, i) BY ONLY <1>4, <2>1
  <2>3. \A x \in Of(a, j, i) : b[x].csize = a[x].csize
    <3>1. \A x \in 1 .. j : x \in 1 .. n BY ONLY <1>1, <2>1
    <3> QED BY ONLY <1>2, <3>1 DEF Of
  <2>4. Prefix(b, j, i) = Prefix(a, j, i) BY ONLY <1>1, <2>1, <2>2, <2>3, PrefixSame
  <2>5. a[k].dptr = Prefix(a, j, i) BY <1>5 DEF Linked
  <2> QED BY <1>2, <1>5, <2>4, <2>5
<1>6. CASE k \notin 1 .. n
  <2> PICK x : x = k - n OBVIOUS
  <2>1. x \in 1 .. Len(ids) /\ k = n + x BY <1>1, <1>6
  <2> PICK i : i = ids[x] OBVIOUS
  <2> PICK j : j = k - 1 OBVIOUS
  <2>2. b[k].id = i /\ b[k].dptr = Held(a, i) BY <1>3, <2>1
  <2>3. j \in 0 .. Len(b) /\ Len(a) \in 0 .. Len(a) /\ Len(a) <= Len(b) BY <1>1, <2>1
  <2>4. Of(a, n, i) = Of(b, j, i)
    <3>1. \A y \in 1 .. j : y \notin 1 .. n => b[y].id # i
      <4> SUFFICES ASSUME NEW y \in 1 .. j, y \notin 1 .. n PROVE b[y].id # i OBVIOUS
      <4> PICK z : z = y - n OBVIOUS
      <4>3. y \in 1 .. j /\ y \notin 1 .. n OBVIOUS
      <4>1. z \in 1 .. Len(ids) /\ z # x /\ y = n + z
        BY ONLY <1>1, <2>1, <4>3, j = k - 1, z = y - n
      <4>2. b[y].id = ids[z] BY <1>3, <4>1
      <4> QED BY <2>1, <4>1, <4>2 DEF Grown
    <3>2. 1 .. n \subseteq 1 .. j BY <1>1, <2>1
    <3> QED BY <1>2, <3>1, <3>2 DEF Of
  <2>5. \A y \in Of(a, n, i) : b[y].csize = a[y].csize BY <1>2 DEF Of
  <2>6. Of(a, Len(a), i) = Of(b, j, i) /\ \A y \in Of(a, Len(a), i) : b[y].csize = a[y].csize
    BY <2>4, <2>5
  <2>7. Prefix(b, j, i) = Prefix(a, Len(a), i) BY ONLY <1>1, <2>3, <2>6, PrefixSame
  <2>8. Held(a, i) = Prefix(a, Len(a), i) BY <1>1, HeldIsPrefix
  <2> QED BY <2>2, <2>7, <2>8
<1> QED BY <1>5, <1>6

LEMMA AddedPlaced ==
  ASSUME NEW d, DbOK(d), NEW m, NEW ids, Grown(d, m, ids), NEW e, DbOK(e), Added(d, m, ids, e),
         Placed(d)
  PROVE  Placed(e)
<1> PICK a : a = d.boxes OBVIOUS
<1> PICK b : b = e.boxes OBVIOUS
<1> PICK n : n = Len(a) OBVIOUS
<1> PICK l : l = Len(ids) OBVIOUS
<1> PICK at : at = EndOf(d) OBVIOUS
<1> PICK size : size = TooMuch(d, m, ids) OBVIOUS
<1> PICK f : f = [k \in 0 .. l |-> Upto(size, k)] OBVIOUS
<1> PICK z : z = at + 1 + l OBVIOUS
<1>1. n \in Nat /\ l \in Nat /\ l > 0 /\ Len(b) = n + l /\ at \in Nat \ {0} /\ z \in Nat
      /\ Len(d.blocks) \in Nat
  BY DbParts, EndIs DEF Added, Grown, Listed
<1>2. /\ Listed(size) /\ Len(size) = l /\ \A k \in 1 .. l : size[k] \in Nat
  BY TooMuchIs, SizesAssumption
<1>3. /\ \A k \in 0 .. l : Upto(size, k) \in Nat
      /\ Upto(size, 0) = 0
      /\ \A k \in 1 .. l : Upto(size, k) = Upto(size, k - 1) + size[k]
      /\ \A j, k \in 0 .. l : j <= k => Upto(size, j) <= Upto(size, k)
  BY <1>2, UptoGrows
<1>4. f \in [0 .. l -> Nat] /\ f[0] = 0 /\ \A j, k \in 0 .. l : j <= k => f[j] <= f[k] BY <1>1, <1>3
<1>5. /\ \A j, k \in 1 .. l : j # k =>
           (z + f[j - 1] .. z + f[j] - 1) \cap (z + f[k - 1] .. z + f[k] - 1) = {}
      /\ \A x : x \in z .. z + f[l] - 1 <=> \E k \in 1 .. l : x \in z + f[k - 1] .. z + f[k] - 1
  BY ONLY <1>1, <1>4, Stretches
<1>6. \A k \in 1 .. n : b[k] = a[k] BY DEF Added
<1>7. \A k \in 1 .. l : b[n + k].at = at + k /\ Cells(b[n + k]) = z + f[k - 1] .. z + f[k] - 1
  <2> SUFFICES ASSUME NEW k \in 1 .. l
               PROVE  b[n + k].at = at + k /\ Cells(b[n + k]) = z + f[k - 1] .. z + f[k] - 1
    OBVIOUS
  <2> PICK c : c = b[n + k] OBVIOUS
  <2> PICK p : p = Upto(size, k - 1) OBVIOUS
  <2> PICK q : q = Upto(size, k) OBVIOUS
  <2> PICK s : s = size[k] OBVIOUS
  <2>1. c.at = at + k /\ c.fptr = at + 1 + l + p /\ c.csize = s
    <3> PICK w : w = NewBox(d, m, ids, k) OBVIOUS
    <3>1. c = w BY DEF Added
    <3>2. w.at = at + k /\ w.fptr = at + 1 + l + p /\ w.csize = s BY NewBoxIs
    <3> QED BY <3>1, <3>2
  <2>2. k - 1 \in 0 .. l /\ k \in 0 .. l BY <1>1
  <2>3. p \in Nat /\ q \in Nat /\ s \in Nat /\ q = p + s BY <1>2, <1>3, <2>2
  <2>4. f[k - 1] = p /\ f[k] = q BY <2>2
  <2>5. c.fptr = z + p BY <1>1, <2>1, <2>3
  <2>6. c.fptr + c.csize - 1 = z + q - 1 BY ONLY <1>1, <2>1, <2>3, <2>5
  <2>7. Cells(c) = z + p .. z + q - 1 BY <2>5, <2>6 DEF Cells
  <2> QED BY <2>1, <2>4, <2>7
<1> PICK nb : nb = Len(d.blocks) OBVIOUS
<1>8. e.blocks[nb + 1].at = at /\ e.blocks[nb + 1].numvars = l /\ e.blocks[nb + 1].size = 1 + l + f[l]
  <2>1. l \in 0 .. l BY <1>1
  <2> QED BY <2>1 DEF Added, NewBlock
<1>9. Metas(e) = Metas(d) \cup (at .. at + l)
  <2>1. Len(e.blocks) = nb + 1 /\ \A x \in 1 .. nb : e.blocks[x] = d.blocks[x] BY DEF Added
  <2>8. nb \in Nat BY <1>1
  <2>2. 1 .. nb + 1 = (1 .. nb) \cup {nb + 1} BY ONLY <2>8
  <2> PICK F : F = [x \in 1 .. nb + 1 |-> e.blocks[x].at .. e.blocks[x].at + e.blocks[x].numvars] OBVIOUS
  <2>3. Metas(e) = UNION {F[x] : x \in 1 .. nb + 1} BY <2>1 DEF Metas
  <2>4. Metas(d) = UNION {F[x] : x \in 1 .. nb} BY <2>1, <2>2 DEF Metas
  <2>5. F[nb + 1] = at .. at + l BY <1>8, <2>2
  <2> PICK I : I = 1 .. nb OBVIOUS
  <2> PICK J : J = 1 .. nb + 1 OBVIOUS
  <2> PICK y : y = nb + 1 OBVIOUS
  <2>6. J = I \cup {y} BY <2>2
  <2>7. UNION {F[x] : x \in J} = (UNION {F[x] : x \in I}) \cup F[y] BY ONLY <2>6
  <2> QED BY <2>3, <2>4, <2>5, <2>7
<1> PICK end : end = z + f[l] OBVIOUS
<1>10. EndOf(e) = end /\ f[l] \in Nat
  <2>1. Len(e.blocks) = nb + 1 /\ Len(e.blocks) # 0 BY <1>1 DEF Added
  <2>2. EndOf(e) = e.blocks[nb + 1].at + e.blocks[nb + 1].size BY <2>1, EndIs
  <2>3. l \in 0 .. l BY <1>1
  <2> PICK v : v = f[l] OBVIOUS
  <2>4. v \in Nat BY <1>4, <2>3
  <2>5. EndOf(e) = at + (1 + l + v) BY <1>8, <2>2
  <2>6. at + (1 + l + v) = (at + 1 + l) + v BY ONLY <1>1, <2>4
  <2> QED BY <2>4, <2>5, <2>6
<1>11. /\ \A k \in 1 .. n : a[k].at \in Metas(d)
       /\ \A k \in 1 .. n : Cells(a[k]) \cap Metas(d) = {}
       /\ \A j, k \in 1 .. n : j # k => Cells(a[j]) \cap Cells(a[k]) = {}
       /\ \A x : x \in 1 .. at - 1 <=> x \in Metas(d) \/ \E k \in 1 .. n : x \in Cells(a[k])
  BY DEF Placed
<1>12. \A k \in 1 .. Len(b) : k \in 1 .. n \/ \E j \in 1 .. l : k = n + j
  <2> SUFFICES ASSUME NEW k \in 1 .. Len(b), k \notin 1 .. n PROVE \E j \in 1 .. l : k = n + j OBVIOUS
  <2>1. k - n \in 1 .. l /\ k = n + (k - n) BY <1>1
  <2> QED BY <2>1
<1>13. \A j \in 1 .. l : n + j \in 1 .. Len(b) BY <1>1
<1> PICK old : old = 1 .. at - 1 OBVIOUS
<1> PICK mid : mid = at .. at + l OBVIOUS
<1> PICK new : new = z .. z + f[l] - 1 OBVIOUS
<1>14. old \cap mid = {} /\ old \cap new = {} /\ mid \cap new = {}
       /\ 1 .. end - 1 = old \cup mid \cup new
  <2> PICK v : v = f[l] OBVIOUS
  <2>1. v \in Nat /\ end = z + v BY <1>10
  <2>5. old = 1 .. at - 1 /\ mid = at .. at + l /\ new = z .. z + v - 1 /\ z = at + 1 + l OBVIOUS
  <2>2. old \cap mid = {} BY ONLY <1>1, <2>5
  <2>3. old \cap new = {} /\ mid \cap new = {} BY ONLY <1>1, <2>1, <2>5
  <2>4. 1 .. end - 1 = old \cup mid \cup new BY ONLY <1>1, <2>1, <2>5
  <2> QED BY <2>2, <2>3, <2>4
<1>15. \A k \in 1 .. n : Cells(b[k]) \subseteq old /\ Metas(d) \subseteq old BY <1>6, <1>11
<1>16. \A j \in 1 .. l : Cells(b[n + j]) \subseteq new /\ b[n + j].at \in mid
  <2>1. \A j \in 1 .. l : Cells(b[n + j]) \subseteq new
    <3> SUFFICES ASSUME NEW j \in 1 .. l, NEW x \in Cells(b[n + j]) PROVE x \in new OBVIOUS
    <3>1. x \in z + f[j - 1] .. z + f[j] - 1 BY <1>7
    <3>2. x \in z .. z + f[l] - 1 BY <1>5, <3>1
    <3>3. new = z .. z + f[l] - 1 OBVIOUS
    <3> QED BY ONLY <3>2, <3>3
  <2>2. \A j \in 1 .. l : at + j \in mid BY ONLY <1>1, mid = at .. at + l
  <2>3. \A j \in 1 .. l : b[n + j].at = at + j BY <1>7
  <2> QED BY <2>1, <2>2, <2>3
<1>17. Metas(d) \subseteq old BY <1>11
<1>18. \A k \in 1 .. Len(b) : b[k].at \in Metas(e)
  <2> SUFFICES ASSUME NEW k \in 1 .. Len(b) PROVE b[k].at \in Metas(e) OBVIOUS
  <2>1. CASE k \in 1 .. n
    <3>1. b[k] = a[k] /\ a[k].at \in Metas(d) BY <1>6, <1>11, <2>1
    <3> QED BY <1>9, <3>1
  <2>2. ASSUME NEW j \in 1 .. l, k = n + j PROVE b[k].at \in Metas(e)
    <3>1. b[k].at \in mid BY <1>16, <2>2
    <3> QED BY <1>9, <3>1
  <2> QED BY <1>12, <2>1, <2>2
<1>19. \A k \in 1 .. Len(b) : Cells(b[k]) \cap Metas(e) = {}
  <2> SUFFICES ASSUME NEW k \in 1 .. Len(b), NEW x \in Cells(b[k]), x \in Metas(e) PROVE FALSE OBVIOUS
  <2>3. x \in Metas(d) \/ x \in mid BY ONLY <1>9, x \in Metas(e), mid = at .. at + l
  <2>1. CASE k \in 1 .. n
    <3>1. x \in Cells(a[k]) /\ x \in old BY <1>6, <1>15, <2>1
    <3> QED BY ONLY <1>11, <1>14, <2>1, <2>3, <3>1
  <2>2. ASSUME NEW j \in 1 .. l, k = n + j PROVE FALSE
    <3>1. x \in new BY <1>16, <2>2
    <3> QED BY ONLY <1>14, <1>17, <2>3, <3>1
  <2> QED BY <1>12, <2>1, <2>2
<1>20. \A j, k \in 1 .. Len(b) : j # k => Cells(b[j]) \cap Cells(b[k]) = {}
  <2> SUFFICES ASSUME NEW j \in 1 .. Len(b), NEW k \in 1 .. Len(b), j # k,
                      NEW x \in Cells(b[j]), x \in Cells(b[k])
               PROVE  FALSE
    OBVIOUS
  <2>1. CASE j \in 1 .. n /\ k \in 1 .. n BY <1>6, <1>11, <2>1
  <2>2. ASSUME j \in 1 .. n, NEW y \in 1 .. l, k = n + y PROVE FALSE BY <1>14, <1>15, <1>16, <2>2
  <2>3. ASSUME k \in 1 .. n, NEW y \in 1 .. l, j = n + y PROVE FALSE BY <1>14, <1>15, <1>16, <2>3
  <2>4. ASSUME NEW y \in 1 .. l, j = n + y, NEW w \in 1 .. l, k = n + w PROVE FALSE
    <3>1. y # w BY <2>4
    <3>2. x \in z + f[y - 1] .. z + f[y] - 1 /\ x \in z + f[w - 1] .. z + f[w] - 1 BY <1>7, <2>4
    <3>3. (z + f[y - 1] .. z + f[y] - 1) \cap (z + f[w - 1] .. z + f[w] - 1) = {} BY <1>5, <3>1
    <3> QED BY <3>2, <3>3
  <2> QED BY <1>12, <2>1, <2>2, <2>3, <2>4
<1>21. \A x : x \in 1 .. end - 1 <=> x \in Metas(e) \/ \E k \in 1 .. Len(b) : x \in Cells(b[k])
  <2> SUFFICES ASSUME NEW x
               PROVE  x \in 1 .. end - 1 <=> x \in Metas(e) \/ \E k \in 1 .. Len(b) : x \in Cells(b[k])
    OBVIOUS
  <2>1. x \in old <=> x \in Metas(d) \/ \E k \in 1 .. n : x \in Cells(b[k]) BY <1>6, <1>11
  <2>2. x \in new <=> \E j \in 1 .. l : x \in Cells(b[n + j])
    <3>3. new = z .. z + f[l] - 1 OBVIOUS
    <3>1. x \in new <=> \E j \in 1 .. l : x \in z + f[j - 1] .. z + f[j] - 1 BY ONLY <1>5, <3>3
    <3>2. \A j \in 1 .. l : Cells(b[n + j]) = z + f[j - 1] .. z + f[j] - 1 BY <1>7
    <3> QED BY ONLY <3>1, <3>2
  <2>3. (\E k \in 1 .. Len(b) : x \in Cells(b[k]))
          <=> (\E k \in 1 .. n : x \in Cells(b[k])) \/ (\E j \in 1 .. l : x \in Cells(b[n + j]))
    <3>1. \A k \in 1 .. n : k \in 1 .. Len(b) BY <1>1
    <3> QED BY <1>12, <1>13, <3>1
  <2> QED BY <1>9, <1>14, <2>1, <2>2, <2>3
<1> QED BY <1>10, <1>18, <1>19, <1>20, <1>21 DEF Placed

-----------------------------------------------------------------------------
(* FTIFF_UpdateDatastructFTIFF *)

MemOK(m) ==
  /\ Listed(m) /\ Len(m) \in 1 .. NVar
  /\ \A i \in 1 .. Len(m) : m[i] \in Seq(Bit) /\ Len(m[i]) \in 1 .. MaxSize

Known(boxes, m) == \A k \in 1 .. Len(boxes) : boxes[k].id \in 1 .. Len(m)

\* The containers are in use as far as the variables need them.
Suits(boxes, m) ==
  \A k \in 1 .. Len(boxes) : /\ boxes[k].id \in 1 .. Len(m)
                             /\ boxes[k].chunk = Extent(boxes[k], Len(m[boxes[k].id]))

\* The blocks that are valid in e were in d.
Keeps(d, e) ==
  /\ Len(d.boxes) <= Len(e.boxes)
  /\ \A k \in 1 .. Len(d.boxes) : KeepsMarks(d.boxes[k], e.boxes[k])
  /\ \A k \in 1 .. Len(e.boxes) : k > Len(d.boxes) =>
       \A b \in 1 .. Len(e.boxes[k].blk) : ~e.boxes[k].blk[b].valid

Fitted(d, m) == [d EXCEPT !.boxes = [k \in DOMAIN @ |-> Fit(@[k], Len(m[@[k].id]))]]

\* A container in use is behind full ones.
LEMMA SuitsFills ==
  ASSUME NEW d, DbOK(d), Linked(d.boxes), NEW m, MemOK(m), Suits(d.boxes, m)
  PROVE  Filled(d.boxes)
<1> PICK a : a = d.boxes OBVIOUS
<1>1. Sized(a) /\ Len(a) \in Nat BY DbParts
<1> SUFFICES ASSUME NEW j \in 1 .. Len(a), NEW k \in 1 .. Len(a), j < k, a[j].id = a[k].id, a[k].has
             PROVE  a[j].chunk = a[j].csize
  BY DEF Filled
<1> PICK i : i = a[k].id OBVIOUS
<1> PICK x : x = a[j].dptr OBVIOUS
<1> PICK y : y = a[k].dptr OBVIOUS
<1> PICK s : s = a[j].csize OBVIOUS
<1> PICK n : n = Len(m[i]) OBVIOUS
<1> PICK p : p = k - 1 OBVIOUS
<1>2. i \in 1 .. Len(m) /\ n \in Nat BY SizesAssumption DEF Suits, MemOK
<1>3. BoxOK(a[j]) /\ BoxOK(a[k]) BY DEF DbOK
<1>4. x \in Nat /\ y \in Nat /\ s \in Nat /\ a[k].chunk > 0 /\ a[k].csize \in Nat
  <2>1. x \in Nat /\ s \in 1 .. MaxSize BY <1>3 DEF BoxOK
  <2>2. y \in Nat /\ a[k].csize \in 1 .. MaxSize BY <1>3 DEF BoxOK
  <2>3. a[k].has = (a[k].chunk > 0) BY <1>3 DEF BoxOK
  <2>4. a[k].chunk > 0 BY <2>3
  <2> QED BY ONLY <2>1, <2>2, <2>4, SizesAssumption
<1>5. x = Prefix(a, j - 1, i) /\ y = Prefix(a, p, i) BY DEF Linked
<1>6. p \in 0 .. Len(a) /\ j \in 1 .. p BY <1>1
<1>7. Prefix(a, j - 1, a[j].id) + a[j].csize <= Prefix(a, p, a[j].id) BY ONLY <1>1, <1>6, PrefixCovers
<1>8. x + s <= y BY <1>5, <1>7
<1>9. a[k].chunk = IF n > y THEN MinOf(a[k].csize, n - y) ELSE 0 BY DEF Suits, Extent
<1>10. n > y BY <1>2, <1>4, <1>9
<1>11. a[j].chunk = IF n > x THEN MinOf(s, n - x) ELSE 0 BY DEF Suits, Extent
<1>12. n > x /\ s <= n - x BY ONLY <1>2, <1>4, <1>8, <1>10
<1>13. MinOf(s, n - x) = s BY ONLY <1>2, <1>4, <1>12 DEF MinOf
<1>14. a[j].chunk = s BY ONLY <1>11, <1>12, <1>13
<1> QED BY ONLY <1>14, s = a[j].csize

LEMMA FittedIs ==
  ASSUME NEW d, DbOK(d), NEW m, MemOK(m), Known(d.boxes, m), NEW g, g = Fitted(d, m)
  PROVE  DbOK(g) /\ SamePlaces(d, g) /\ Suits(g.boxes, m) /\ Keeps(d, g) /\ g.blocks = d.blocks
<1> PICK a : a = d.boxes OBVIOUS
<1>1. Listed(a) /\ Len(a) \in Nat /\ DOMAIN a = 1 .. Len(a) /\ Len(d.blocks) \in Nat BY DbParts
<1> PICK s : s = [k \in DOMAIN a |-> Fit(a[k], Len(m[a[k].id]))] OBVIOUS
<1>2. d = [blocks |-> d.blocks, boxes |-> d.boxes] BY DEF DbOK
<1>3. g = [d EXCEPT !.boxes = s] BY DEF Fitted
<1>4. g.boxes = s /\ g.blocks = d.blocks /\ g = [blocks |-> g.blocks, boxes |-> g.boxes]
  BY <1>2, <1>3
<1>5. s = [k \in 1 .. Len(a) |-> s[k]] BY <1>1
<1>6. Listed(s) /\ Len(s) = Len(a) BY <1>1, <1>5, FunctionIsListed
<1>7. \A k \in 1 .. Len(a) : Len(m[a[k].id]) \in Nat BY SizesAssumption DEF MemOK, Known
<1>8. ASSUME NEW k \in 1 .. Len(a)
      PROVE  /\ BoxOK(s[k]) /\ SamePlace(a[k], s[k]) /\ KeepsMarks(a[k], s[k])
             /\ s[k].id \in 1 .. Len(m) /\ s[k].chunk = Extent(s[k], Len(m[s[k].id]))
  <2> PICK c : c = a[k] OBVIOUS
  <2> PICK n : n = Len(m[c.id]) OBVIOUS
  <2>1. BoxOK(c) /\ n \in Nat /\ c.id \in 1 .. Len(m) BY <1>7 DEF DbOK, Known
  <2> PICK e : e = s[k] OBVIOUS
  <2>2. e = Fit(c, n) BY <1>1
  <2>3. BoxOK(e) /\ SamePlace(c, e) /\ KeepsMarks(c, e) /\ e.chunk = Extent(c, n)
    BY ONLY <2>1, <2>2, FitKeeps
  <2>4. e.id = c.id /\ Extent(e, n) = Extent(c, n)
    <3>1. e.id = c.id /\ e.dptr = c.dptr /\ e.csize = c.csize BY <2>3 DEF SamePlace
    <3> QED BY ONLY <3>1 DEF Extent
  <2> QED BY <2>1, <2>3, <2>4
<1>9. DbOK(g)
  <2>1. Listed(d.blocks) /\ \A b \in 1 .. Len(d.blocks) : BlockOK(d.blocks[b]) BY DEF DbOK
  <2>2. \A k \in 1 .. Len(s) : BoxOK(s[k]) BY <1>6, <1>8
  <2> QED BY <1>4, <1>6, <2>1, <2>2 DEF DbOK
<1>10. SamePlaces(d, g) BY <1>4, <1>6, <1>8 DEF SamePlaces
<1>11. Suits(g.boxes, m) BY <1>4, <1>6, <1>8 DEF Suits
<1>12. Keeps(d, g)
  <2>1. \A k \in 1 .. Len(g.boxes) : ~(k > Len(d.boxes)) BY <1>1, <1>4, <1>6
  <2>2. Len(d.boxes) <= Len(g.boxes) BY <1>1, <1>4, <1>6
  <2>3. \A k \in 1 .. Len(d.boxes) : KeepsMarks(d.boxes[k], g.boxes[k]) BY <1>4, <1>8
  <2> QED BY ONLY <2>1, <2>2, <2>3 DEF Keeps
<1> QED BY <1>4, <1>9, <1>10, <1>11, <1>12

LEMMA UpdateKeeps ==
  ASSUME NEW d, DbOK(d), Linked(d.boxes), Placed(d), NEW m, MemOK(m), Known(d.boxes, m),
         NEW e, e = UpdateDatastruct(d, m)
  PROVE  DbOK(e) /\ Linked(e.boxes) /\ Placed(e) /\ Suits(e.boxes, m) /\ Keeps(d, e)
<1> PICK g : g = Fitted(d, m) OBVIOUS
<1>1. DbOK(g) /\ SamePlaces(d, g) /\ Suits(g.boxes, m) /\ Keeps(d, g) BY FittedIs
<1>2. Linked(g.boxes) /\ Placed(g) BY <1>1, PlacesStay
<1> PICK S : S = {i \in DOMAIN m : Len(m[i]) > Held(d.boxes, i)} OBVIOUS
<1> PICK ids : ids = Ascending(S, Len(m)) OBVIOUS
<1>3. e = IF ids = <<>> THEN g ELSE AddBlock(g, m, ids) BY Zenon DEF UpdateDatastruct, Fitted
<1>4. Len(m) \in Nat /\ DOMAIN m = 1 .. Len(m) BY ListedDomain DEF MemOK, Listed
<1>5. Lists(ids, S, Len(m)) BY <1>4, AscendingLists
<1>6. CASE ids = <<>> BY <1>1, <1>2, <1>3, <1>6
<1>7. CASE ids # <<>>
  <2> PICK n : n = Len(g.boxes) OBVIOUS
  <2> PICK l : l = Len(ids) OBVIOUS
  <2>1. Listed(ids) /\ l \in Nat /\ l > 0
    <3>1. Listed(ids) BY <1>5 DEF Lists
    <3> QED BY <1>7, <3>1 DEF Listed
  <2>2. \A i : Held(g.boxes, i) = Held(d.boxes, i)
    <3> SUFFICES ASSUME NEW i PROVE Held(g.boxes, i) = Held(d.boxes, i) OBVIOUS
    <3> PICK a : a = d.boxes OBVIOUS
    <3> PICK b : b = g.boxes OBVIOUS
    <3>1. Listed(a) /\ Listed(b) /\ Sized(a) /\ Sized(b) /\ Len(a) \in Nat
      <4>1. Listed(a) /\ Sized(a) /\ Len(a) \in Nat BY DbParts
      <4>2. Listed(b) /\ Sized(b) BY <1>1, DbParts
      <4> QED BY <4>1, <4>2
    <3>2. Len(b) = Len(a) /\ \A k \in 1 .. Len(a) : b[k].id = a[k].id /\ b[k].csize = a[k].csize
      BY <1>1 DEF SamePlaces, SamePlace
    <3>3. Of(a, Len(a), i) = Of(b, Len(b), i) /\ \A k \in Of(a, Len(a), i) : b[k].csize = a[k].csize
      BY <3>2 DEF Of
    <3>4. Len(a) \in 0 .. Len(a) /\ Len(a) <= Len(b) /\ Len(b) \in 0 .. Len(b) BY <3>1, <3>2
    <3>5. Prefix(b, Len(b), i) = Prefix(a, Len(a), i) BY ONLY <3>1, <3>3, <3>4, PrefixSame
    <3>6. Held(a, i) = Prefix(a, Len(a), i) /\ Held(b, i) = Prefix(b, Len(b), i)
      BY ONLY <3>1, HeldIsPrefix
    <3> QED BY <3>5, <3>6
  <2>3. Grown(g, m, ids)
    <3>1. \A j, k \in 1 .. l : j # k => ids[j] # ids[k] BY <1>5 DEF Lists
    <3>2. \A k \in 1 .. l : ids[k] \in S BY <1>5 DEF Lists
    <3>3. \A k \in 1 .. l : ids[k] \in 1 .. Len(m) /\ Len(m[ids[k]]) > Held(d.boxes, ids[k])
      BY <1>4, <3>2
    <3>4. \A k \in 1 .. l : ids[k] \in Nat \ {0} /\ Len(m[ids[k]]) \in 1 .. MaxSize
      BY <1>4, <3>3 DEF MemOK
    <3> QED BY <2>1, <2>2, <3>1, <3>3, <3>4 DEF Grown
  <2>4. e = AddBlock(g, m, ids) BY <1>3, <1>7
  <2>5. DbOK(e) /\ Added(g, m, ids, e) BY <1>1, <2>3, <2>4, AddBlockAdds
  <2>6. Linked(e.boxes) BY <1>1, <1>2, <2>3, <2>5, AddedLinked
  <2>7. Placed(e) BY <1>1, <1>2, <2>3, <2>5, AddedPlaced
  <2>8. n \in Nat /\ Len(e.boxes) = n + l /\ \A k \in 1 .. n : e.boxes[k] = g.boxes[k]
    <3>1. n \in Nat BY <1>1, DbParts
    <3> QED BY <2>5, <3>1 DEF Added
  <2>9. ASSUME NEW k \in 1 .. l
        PROVE  /\ e.boxes[n + k].id \in 1 .. Len(m)
               /\ e.boxes[n + k].chunk = Extent(e.boxes[n + k], Len(m[e.boxes[n + k].id]))
               /\ \A b \in 1 .. Len(e.boxes[n + k].blk) : ~e.boxes[n + k].blk[b].valid
    <3> PICK c : c = NewBox(g, m, ids, k) OBVIOUS
    <3> PICK h : h = Held(g.boxes, ids[k]) OBVIOUS
    <3> PICK x : x = Len(m[ids[k]]) OBVIOUS
    <3>1. e.boxes[n + k] = c BY <2>5 DEF Added
    <3>2. /\ TooMuch(g, m, ids)[k] \in 1 .. MaxSize
          /\ TooMuch(g, m, ids)[k] = x - h /\ h \in Nat
      BY <1>1, <2>3, TooMuchIs
    <3>3. x \in Nat /\ x > h BY <2>3, SizesAssumption DEF Grown
    <3>4. c.id = ids[k] /\ c.dptr = h /\ c.csize = x - h /\ c.chunk = x - h /\ c.blk = InitBlocks(x - h)
      BY <3>2, NewBoxIs
    <3>5. c.chunk = Extent(c, x) BY <3>2, <3>3, <3>4 DEF Extent, MinOf
    <3>6. x - h \in Nat BY <3>2, <3>3
    <3>7. \A b \in 1 .. Len(c.blk) : ~c.blk[b].valid BY ONLY <3>4, <3>6, InitMarks
    <3>8. ids[k] \in 1 .. Len(m) BY <1>4, <1>5 DEF Lists
    <3> QED BY <3>1, <3>4, <3>5, <3>7, <3>8
  <2>10. \A k \in 1 .. Len(e.boxes) : k \in 1 .. n \/ \E j \in 1 .. l : k = n + j
    <3> SUFFICES ASSUME NEW k \in 1 .. Len(e.boxes), k \notin 1 .. n
                 PROVE  \E j \in 1 .. l : k = n + j
      OBVIOUS
    <3>1. k - n \in 1 .. l /\ k = n + (k - n) BY <2>1, <2>8
    <3> QED BY <3>1
  <2>11. Suits(e.boxes, m)
    <3> SUFFICES ASSUME NEW k \in 1 .. Len(e.boxes)
                 PROVE  /\ e.boxes[k].id \in 1 .. Len(m)
                        /\ e.boxes[k].chunk = Extent(e.boxes[k], Len(m[e.boxes[k].id]))
      BY DEF Suits
    <3>1. CASE k \in 1 .. n BY <1>1, <2>8, <3>1 DEF Suits
    <3>2. ASSUME NEW j \in 1 .. l, k = n + j
          PROVE  /\ e.boxes[k].id \in 1 .. Len(m)
                 /\ e.boxes[k].chunk = Extent(e.boxes[k], Len(m[e.boxes[k].id]))
      BY <2>9, <3>2
    <3> QED BY <2>10, <3>1, <3>2
  <2>12. Keeps(d, e)
    <3>1. Len(d.boxes) = n BY <1>1 DEF SamePlaces
    <3>2. \A k \in 1 .. n : KeepsMarks(d.boxes[k], e.boxes[k]) BY <1>1, <2>8, <3>1 DEF Keeps
    <3>3. ASSUME NEW k \in 1 .. Len(e.boxes), k > n
          PROVE  \A b \in 1 .. Len(e.boxes[k].blk) : ~e.boxes[k].blk[b].valid
      <4>2. k \notin 1 .. n BY <2>8, <3>3
      <4>1. PICK j \in 1 .. l : k = n + j BY <2>10, <4>2
      <4> QED BY <2>9, <4>1
    <3>4. Len(d.boxes) <= Len(e.boxes) BY ONLY <2>1, <2>8, <3>1
    <3>5. \A k \in 1 .. Len(d.boxes) : KeepsMarks(d.boxes[k], e.boxes[k]) BY <3>1, <3>2
    <3>6. \A k \in 1 .. Len(e.boxes) : k > Len(d.boxes) =>
            \A b \in 1 .. Len(e.boxes[k].blk) : ~e.boxes[k].blk[b].valid
      BY <3>1, <3>3
    <3> QED BY ONLY <3>4, <3>5, <3>6 DEF Keeps
  <2> QED BY <2>5, <2>6, <2>7, <2>11, <2>12
<1> QED BY <1>6, <1>7

-----------------------------------------------------------------------------
(* Hashes and flags *)

\* The same containers, in use to the same extent.
Alike(d, e) ==
  SamePlaces(d, e) /\ \A k \in 1 .. Len(d.boxes) : e.boxes[k].chunk = d.boxes[k].chunk

LEMMA AlikeStays ==
  ASSUME NEW d, DbOK(d), NEW e, DbOK(e), Alike(d, e), NEW m
  PROVE  /\ Linked(d.boxes) => Linked(e.boxes)
         /\ Placed(d) => Placed(e)
         /\ Suits(d.boxes, m) => Suits(e.boxes, m)
         /\ EndOf(e) = EndOf(d) /\ Metas(e) = Metas(d)
<1>1. SamePlaces(d, e) BY DEF Alike
<1>2. /\ Linked(d.boxes) => Linked(e.boxes)
      /\ Placed(d) => Placed(e)
      /\ EndOf(e) = EndOf(d) /\ Metas(e) = Metas(d)
  BY <1>1, PlacesStay
<1>3. ASSUME Suits(d.boxes, m), NEW k \in 1 .. Len(e.boxes)
      PROVE  /\ e.boxes[k].id \in 1 .. Len(m)
             /\ e.boxes[k].chunk = Extent(e.boxes[k], Len(m[e.boxes[k].id]))
  <2> PICK c : c = d.boxes[k] OBVIOUS
  <2> PICK x : x = e.boxes[k] OBVIOUS
  <2>1. k \in 1 .. Len(d.boxes) BY <1>1 DEF SamePlaces
  <2>2. x.id = c.id /\ x.dptr = c.dptr /\ x.csize = c.csize /\ x.chunk = c.chunk
    BY <2>1 DEF Alike, SamePlaces, SamePlace
  <2>3. c.id \in 1 .. Len(m) /\ c.chunk = Extent(c, Len(m[c.id])) BY <1>3, <2>1 DEF Suits
  <2>4. \A n : Extent(x, n) = Extent(c, n) BY ONLY <2>2 DEF Extent
  <2> QED BY <2>2, <2>3, <2>4
<1>4. Suits(d.boxes, m) => Suits(e.boxes, m) BY <1>3 DEF Suits
<1> QED BY <1>2, <1>4

LEMMA AlikeChains ==
  ASSUME NEW d, NEW e, NEW f, Alike(d, e), Alike(e, f)
  PROVE  Alike(d, f)
<1>1. /\ Len(e.blocks) = Len(d.blocks) /\ Len(e.boxes) = Len(d.boxes)
      /\ Len(f.blocks) = Len(e.blocks) /\ Len(f.boxes) = Len(e.boxes)
  BY DEF Alike, SamePlaces
<1>2. \A b \in 1 .. Len(d.blocks) :
       /\ f.blocks[b].at = d.blocks[b].at /\ f.blocks[b].numvars = d.blocks[b].numvars
       /\ f.blocks[b].size = d.blocks[b].size
  BY <1>1 DEF Alike, SamePlaces
<1>3. \A k \in 1 .. Len(d.boxes) :
        SamePlace(d.boxes[k], f.boxes[k]) /\ f.boxes[k].chunk = d.boxes[k].chunk
  BY <1>1 DEF Alike, SamePlaces, SamePlace
<1> QED BY <1>1, <1>2, <1>3 DEF Alike, SamePlaces

\* A container with other marks, hash and flag is still sound.
LEMMA BoxStays ==
  ASSUME NEW c, BoxOK(c), NEW e, IsBox(e), SamePlace(c, e), e.chunk = c.chunk, e.has = c.has,
         Listed(e.blk), Len(e.blk) = Len(c.blk), \A b \in 1 .. Len(c.blk) : IsMark(e.blk[b])
  PROVE  BoxOK(e)
BY DEF BoxOK, SamePlace, MarksOK

\* e has other containers than d, one for each, in the same place and to the same extent.
Replaces(d, e) ==
  /\ e = [blocks |-> e.blocks, boxes |-> e.boxes]
  /\ Listed(e.blocks) /\ Len(e.blocks) = Len(d.blocks)
  /\ Listed(e.boxes) /\ Len(e.boxes) = Len(d.boxes)
  /\ \A b \in 1 .. Len(d.blocks) :
       /\ BlockOK(e.blocks[b])
       /\ e.blocks[b].at = d.blocks[b].at /\ e.blocks[b].numvars = d.blocks[b].numvars
       /\ e.blocks[b].size = d.blocks[b].size
  /\ \A k \in 1 .. Len(d.boxes) :
       /\ BoxOK(e.boxes[k]) /\ SamePlace(d.boxes[k], e.boxes[k])
       /\ e.boxes[k].chunk = d.boxes[k].chunk

LEMMA BoxesReplaced ==
  ASSUME NEW d, NEW e, Replaces(d, e)
  PROVE  DbOK(e) /\ Alike(d, e) /\ Len(e.boxes) = Len(d.boxes)
<1>1. DbOK(e) BY DEF Replaces, DbOK
<1>2. Alike(d, e) BY DEF Replaces, Alike, SamePlaces
<1> QED BY <1>1, <1>2 DEF Replaces

LEMMA HashedIs ==
  ASSUME NEW d, DbOK(d), NEW m, NEW slot, NEW e, e = Hashed(d, m, slot)
  PROVE  /\ DbOK(e) /\ Alike(d, e) /\ e.blocks = d.blocks /\ Len(e.boxes) = Len(d.boxes)
         /\ \A k \in 1 .. Len(d.boxes) :
              /\ SamePlace(d.boxes[k], e.boxes[k]) /\ e.boxes[k].chunk = d.boxes[k].chunk
              /\ e.boxes[k].blk = d.boxes[k].blk /\ e.boxes[k].update = d.boxes[k].update
<1> PICK a : a = d.boxes OBVIOUS
<1>1. Len(a) \in Nat /\ DOMAIN a = 1 .. Len(a) /\ Listed(d.blocks) BY DbParts
<1> PICK s : s = [k \in DOMAIN a |-> [a[k] EXCEPT !.hash = HashOf(a, m, k, slot)]] OBVIOUS
<1>2. d = [blocks |-> d.blocks, boxes |-> d.boxes] BY DEF DbOK
<1>3. e = [d EXCEPT !.boxes = s] BY DEF Hashed
<1>4. e.boxes = s /\ e.blocks = d.blocks /\ e = [blocks |-> e.blocks, boxes |-> e.boxes]
  BY <1>2, <1>3
<1>5. s = [k \in 1 .. Len(a) |-> s[k]] BY <1>1
<1>6. ASSUME NEW k \in 1 .. Len(a)
      PROVE  /\ BoxOK(s[k]) /\ SamePlace(a[k], s[k]) /\ s[k].chunk = a[k].chunk
             /\ s[k].blk = a[k].blk /\ s[k].update = a[k].update
  <2> PICK c : c = a[k] OBVIOUS
  <2> PICK h : h = HashOf(a, m, k, slot) OBVIOUS
  <2> PICK x : x = s[k] OBVIOUS
  <2>1. BoxOK(c) BY DEF DbOK
  <2>2. x = [c EXCEPT !.hash = h] BY <1>1
  <2>3. IsBox(c) BY <2>1 DEF BoxOK
  <2>4. x = [at |-> c.at, id |-> c.id, dptr |-> c.dptr, fptr |-> c.fptr, csize |-> c.csize,
             chunk |-> c.chunk, has |-> c.has, hash |-> h, update |-> c.update, blk |-> c.blk]
    BY <2>2, <2>3 DEF IsBox
  <2>5. /\ x.at = c.at /\ x.id = c.id /\ x.dptr = c.dptr /\ x.fptr = c.fptr /\ x.csize = c.csize
        /\ x.chunk = c.chunk /\ x.has = c.has /\ x.hash = h /\ x.update = c.update /\ x.blk = c.blk
    BY <2>4
  <2>6. IsBox(x) BY <2>4, <2>5 DEF IsBox
  <2>7. SamePlace(c, x) BY <2>5 DEF SamePlace
  <2>8. Listed(c.blk) /\ \A b \in 1 .. Len(c.blk) : IsMark(c.blk[b]) BY <2>1 DEF BoxOK, MarksOK
  <2>9. /\ Listed(x.blk) /\ Len(x.blk) = Len(c.blk) /\ \A b \in 1 .. Len(c.blk) : IsMark(x.blk[b])
        /\ x.chunk = c.chunk /\ x.has = c.has
    BY ONLY <2>5, <2>8
  <2>10. BoxOK(x) BY ONLY <2>1, <2>6, <2>7, <2>9, BoxStays
  <2> QED BY <2>5, <2>7, <2>10
<1>7. Listed(e.blocks) /\ Len(e.blocks) = Len(d.blocks)
      /\ \A b \in 1 .. Len(d.blocks) :
           /\ BlockOK(e.blocks[b])
           /\ e.blocks[b].at = d.blocks[b].at /\ e.blocks[b].numvars = d.blocks[b].numvars
           /\ e.blocks[b].size = d.blocks[b].size
  BY <1>1, <1>4 DEF DbOK
<1>8. /\ Listed(e.boxes) /\ Len(e.boxes) = Len(d.boxes)
  BY <1>1, <1>4, <1>5, FunctionIsListed
<1>9. \A k \in 1 .. Len(d.boxes) :
        /\ BoxOK(e.boxes[k]) /\ SamePlace(d.boxes[k], e.boxes[k])
        /\ e.boxes[k].chunk = d.boxes[k].chunk
  BY <1>4, <1>6
<1>10. e = [blocks |-> e.blocks, boxes |-> e.boxes] BY <1>4
<1>11. Replaces(d, e) BY ONLY <1>7, <1>8, <1>9, <1>10 DEF Replaces
<1>12. DbOK(e) /\ Alike(d, e) /\ Len(e.boxes) = Len(d.boxes) BY ONLY <1>11, BoxesReplaced
<1> QED BY ONLY <1>4, <1>6, <1>12, a = d.boxes

\* The blocks of container n that FTI_HashCmp has looked at.
Looked(d, j, e, n) ==
  (IF n = 1 THEN cursor.at ELSE 1) .. (IF n < j THEN Len(d.boxes[n].blk) ELSE IF n = j THEN e ELSE 0)

\* x is c after FTI_HashCmp on the blocks S.
IsCompared(c, x, m, S) ==
  /\ SamePlace(c, x) /\ x.chunk = c.chunk /\ Len(x.blk) = Len(c.blk)
  /\ \A b \in 1 .. Len(c.blk) :
       /\ x.blk[b].valid = c.blk[b].valid /\ x.blk[b].hash = c.blk[b].hash
       /\ b \in S /\ c.blk[b].valid => x.blk[b].dirty = MustWrite(c, m, b)

LEMMA ComparedBox ==
  ASSUME NEW c, BoxOK(c), NEW m, NEW S, NEW x, x = Compared(c, m, S)
  PROVE  BoxOK(x) /\ IsCompared(c, x, m, S)
<1> PICK t : t = c.blk OBVIOUS
<1>1. IsBox(c) /\ Listed(t) /\ \A b \in 1 .. Len(t) : IsMark(t[b]) BY DEF BoxOK, MarksOK
<1>2. Len(t) \in Nat /\ DOMAIN t = 1 .. Len(t) BY <1>1, ListedDomain DEF Listed
<1> PICK s : s = [b \in DOMAIN t |->
                    IF b \in S /\ t[b].valid THEN [t[b] EXCEPT !.dirty = MustWrite(c, m, b)] ELSE t[b]]
  OBVIOUS
<1>3. x = [c EXCEPT !.blk = s] BY DEF Compared
<1>4. x = [at |-> c.at, id |-> c.id, dptr |-> c.dptr, fptr |-> c.fptr, csize |-> c.csize,
           chunk |-> c.chunk, has |-> c.has, hash |-> c.hash, update |-> c.update, blk |-> s]
  BY <1>1, <1>3 DEF IsBox
<1>5. /\ x.at = c.at /\ x.id = c.id /\ x.dptr = c.dptr /\ x.fptr = c.fptr /\ x.csize = c.csize
      /\ x.chunk = c.chunk /\ x.has = c.has /\ x.hash = c.hash /\ x.update = c.update /\ x.blk = s
  BY <1>4
<1>6. IsBox(x) /\ SamePlace(c, x) BY <1>4, <1>5 DEF IsBox, SamePlace
<1>7. s = [b \in 1 .. Len(t) |-> s[b]] BY <1>2
<1>8. Listed(s) /\ Len(s) = Len(t) BY <1>2, <1>7, FunctionIsListed
<1>9. ASSUME NEW b \in 1 .. Len(t)
      PROVE  /\ IsMark(s[b]) /\ s[b].valid = t[b].valid /\ s[b].hash = t[b].hash
             /\ b \in S /\ t[b].valid => s[b].dirty = MustWrite(c, m, b)
  <2> PICK h : h = t[b] OBVIOUS
  <2> PICK w : w = MustWrite(c, m, b) OBVIOUS
  <2> PICK y : y = s[b] OBVIOUS
  <2>1. IsMark(h) BY <1>1
  <2>2. y = IF b \in S /\ h.valid THEN [h EXCEPT !.dirty = w] ELSE h BY <1>2
  <2>3. [h EXCEPT !.dirty = w] = [valid |-> h.valid, dirty |-> w, hash |-> h.hash]
    BY <2>1 DEF IsMark
  <2>4. CASE b \in S /\ h.valid
    <3>1. y = [valid |-> h.valid, dirty |-> w, hash |-> h.hash] BY <2>2, <2>3, <2>4
    <3>2. y.valid = h.valid /\ y.dirty = w /\ y.hash = h.hash BY <3>1
    <3>3. IsMark(y) BY <3>1, <3>2 DEF IsMark
    <3> QED BY <3>2, <3>3
  <2>5. CASE ~(b \in S /\ h.valid) BY <2>1, <2>2, <2>5
  <2> QED BY <2>4, <2>5
<1>10. BoxOK(x) BY <1>5, <1>6, <1>8, <1>9, BoxStays
<1>11. /\ SamePlace(c, x) /\ x.chunk = c.chunk /\ Len(x.blk) = Len(c.blk)
       /\ \A b \in 1 .. Len(c.blk) :
            /\ x.blk[b].valid = c.blk[b].valid /\ x.blk[b].hash = c.blk[b].hash
            /\ b \in S /\ c.blk[b].valid => x.blk[b].dirty = MustWrite(c, m, b)
  BY <1>5, <1>6, <1>8, <1>9
<1> QED BY <1>10, <1>11 DEF IsCompared

LEMMA ComparedIs ==
  ASSUME NEW d, DbOK(d), NEW m, NEW j, NEW l, NEW e, e = ComparedUpTo(d, m, j, l)
  PROVE  /\ DbOK(e) /\ Alike(d, e) /\ Len(e.boxes) = Len(d.boxes)
         /\ \A k \in 1 .. Len(d.boxes) : IsCompared(d.boxes[k], e.boxes[k], m, Looked(d, j, l, k))
<1> PICK a : a = d.boxes OBVIOUS
<1>1. Len(a) \in Nat /\ DOMAIN a = 1 .. Len(a) /\ Listed(d.blocks) BY DbParts
<1> PICK s : s = [k \in DOMAIN a |-> Compared(a[k], m, Looked(d, j, l, k))] OBVIOUS
<1>2. d = [blocks |-> d.blocks, boxes |-> d.boxes] BY DEF DbOK
<1>3. e = [d EXCEPT !.boxes = s] BY DEF ComparedUpTo, Looked
<1>4. e.boxes = s /\ e.blocks = d.blocks /\ e = [blocks |-> e.blocks, boxes |-> e.boxes]
  BY <1>2, <1>3
<1>5. s = [k \in 1 .. Len(a) |-> s[k]] BY <1>1
<1>6. ASSUME NEW k \in 1 .. Len(a)
      PROVE  BoxOK(s[k]) /\ IsCompared(a[k], s[k], m, Looked(d, j, l, k))
  <2> PICK c : c = a[k] OBVIOUS
  <2> PICK S : S = Looked(d, j, l, k) OBVIOUS
  <2> PICK x : x = s[k] OBVIOUS
  <2>1. BoxOK(c) BY DEF DbOK
  <2>2. x = Compared(c, m, S) BY <1>1
  <2>3. BoxOK(x) /\ IsCompared(c, x, m, S) BY ONLY <2>1, <2>2, ComparedBox
  <2> QED BY <2>3
<1>7. Listed(e.blocks) /\ Len(e.blocks) = Len(d.blocks)
      /\ \A b \in 1 .. Len(d.blocks) :
           /\ BlockOK(e.blocks[b])
           /\ e.blocks[b].at = d.blocks[b].at /\ e.blocks[b].numvars = d.blocks[b].numvars
           /\ e.blocks[b].size = d.blocks[b].size
  BY <1>1, <1>4 DEF DbOK
<1>8. /\ Listed(e.boxes) /\ Len(e.boxes) = Len(d.boxes)
  BY <1>1, <1>4, <1>5, FunctionIsListed
<1>9. \A k \in 1 .. Len(d.boxes) : IsCompared(d.boxes[k], e.boxes[k], m, Looked(d, j, l, k))
  BY <1>4, <1>6
<1>10. \A k \in 1 .. Len(d.boxes) : BoxOK(e.boxes[k]) BY <1>4, <1>6
<1>11. \A k \in 1 .. Len(d.boxes) :
         SamePlace(d.boxes[k], e.boxes[k]) /\ e.boxes[k].chunk = d.boxes[k].chunk
  BY ONLY <1>9 DEF IsCompared
<1>12. e = [blocks |-> e.blocks, boxes |-> e.boxes] BY <1>4
<1>13. Replaces(d, e) BY ONLY <1>7, <1>8, <1>10, <1>11, <1>12 DEF Replaces
<1>14. DbOK(e) /\ Alike(d, e) /\ Len(e.boxes) = Len(d.boxes) BY ONLY <1>13, BoxesReplaced
<1> QED BY ONLY <1>9, <1>14

\* FTI_UpdateDcpChanges on one block, on one container, and on all of them.
Renewed(h, w) == IF h.dirty \/ ~h.valid THEN [h EXCEPT !.hash = w, !.valid = TRUE] ELSE h

LEMMA RenewedIs ==
  ASSUME NEW h, IsMark(h), NEW w, NEW y, y = Renewed(h, w)
  PROVE  IsMark(y) /\ y.hash = IF h.dirty \/ ~h.valid THEN w ELSE h.hash
<1>1. CASE h.dirty \/ ~h.valid
  <2> PICK u : u = [h EXCEPT !.hash = w] OBVIOUS
  <2>1. u = [valid |-> h.valid, dirty |-> h.dirty, hash |-> w] BY DEF IsMark
  <2>2. y = [u EXCEPT !.valid = TRUE]
    <3>1. y = [h EXCEPT !.hash = w, !.valid = TRUE] BY ONLY <1>1, y = Renewed(h, w) DEF Renewed
    <3> QED BY Zenon, <3>1
  <2>3. y = [valid |-> TRUE, dirty |-> h.dirty, hash |-> w] BY ONLY <2>1, <2>2
  <2>4. y.valid = TRUE /\ y.dirty = h.dirty /\ y.hash = w BY <2>3
  <2> QED BY <1>1, <2>3, <2>4 DEF IsMark
<1>2. CASE ~(h.dirty \/ ~h.valid) BY <1>2 DEF Renewed
<1> QED BY <1>1, <1>2

Wiped(c) == [c EXCEPT !.update = FALSE]

\* x is c after that.
IsRehashed(c, x, m) ==
  /\ SamePlace(c, x) /\ x.chunk = c.chunk /\ Len(x.blk) = Len(c.blk)
  /\ \A b \in 1 .. Len(c.blk) :
       x.blk[b].hash = IF c.blk[b].dirty \/ ~c.blk[b].valid
                       THEN BlockOf(Content(m, c), b) ELSE c.blk[b].hash

LEMMA RehashedBox ==
  ASSUME NEW c, BoxOK(c), NEW m, NEW x, x = Wiped(Rehash(c, m))
  PROVE  BoxOK(x) /\ IsRehashed(c, x, m)
<1> PICK t : t = c.blk OBVIOUS
<1>1. IsBox(c) /\ Listed(t) /\ \A b \in 1 .. Len(t) : IsMark(t[b]) BY DEF BoxOK, MarksOK
<1>2. Len(t) \in Nat /\ DOMAIN t = 1 .. Len(t) BY <1>1, ListedDomain DEF Listed
<1> PICK s : s = [b \in DOMAIN t |-> Renewed(t[b], BlockOf(Content(m, c), b))] OBVIOUS
<1> PICK r : r = [c EXCEPT !.blk = s] OBVIOUS
<1>3. x = [r EXCEPT !.update = FALSE]
  <2>1. Rehash(c, m) = [c EXCEPT !.blk = s] BY DEF Rehash, Renewed
  <2> QED BY <2>1 DEF Wiped
<1>32. r = [at |-> c.at, id |-> c.id, dptr |-> c.dptr, fptr |-> c.fptr, csize |-> c.csize,
            chunk |-> c.chunk, has |-> c.has, hash |-> c.hash, update |-> c.update, blk |-> s]
  BY <1>1 DEF IsBox
<1>4. x = [at |-> c.at, id |-> c.id, dptr |-> c.dptr, fptr |-> c.fptr, csize |-> c.csize,
           chunk |-> c.chunk, has |-> c.has, hash |-> c.hash, update |-> FALSE, blk |-> s]
  BY ONLY <1>3, <1>32
<1>5. /\ x.at = c.at /\ x.id = c.id /\ x.dptr = c.dptr /\ x.fptr = c.fptr /\ x.csize = c.csize
      /\ x.chunk = c.chunk /\ x.has = c.has /\ x.hash = c.hash /\ x.update = FALSE /\ x.blk = s
  BY <1>4
<1>6. IsBox(x) /\ SamePlace(c, x) BY <1>4, <1>5 DEF IsBox, SamePlace
<1>7. s = [b \in 1 .. Len(t) |-> s[b]] BY <1>2
<1>8. Listed(s) /\ Len(s) = Len(t) BY <1>2, <1>7, FunctionIsListed
<1>9. ASSUME NEW b \in 1 .. Len(t)
      PROVE  /\ IsMark(s[b])
             /\ s[b].hash = IF t[b].dirty \/ ~t[b].valid THEN BlockOf(Content(m, c), b) ELSE t[b].hash
  <2> PICK h : h = t[b] OBVIOUS
  <2> PICK w : w = BlockOf(Content(m, c), b) OBVIOUS
  <2> PICK y : y = s[b] OBVIOUS
  <2>1. IsMark(h) BY <1>1
  <2>2. y = Renewed(h, w) BY <1>2
  <2>3. IsMark(y) /\ y.hash = IF h.dirty \/ ~h.valid THEN w ELSE h.hash
    BY ONLY <2>1, <2>2, RenewedIs
  <2> QED BY <2>3
<1>10. BoxOK(x) BY <1>5, <1>6, <1>8, <1>9, BoxStays
<1>11. /\ SamePlace(c, x) /\ x.chunk = c.chunk /\ Len(x.blk) = Len(c.blk)
       /\ \A b \in 1 .. Len(c.blk) :
            x.blk[b].hash = IF c.blk[b].dirty \/ ~c.blk[b].valid
                            THEN BlockOf(Content(m, c), b) ELSE c.blk[b].hash
  BY <1>5, <1>6, <1>8, <1>9
<1> QED BY <1>10, <1>11 DEF IsRehashed

LEMMA AfterDcpIs ==
  ASSUME NEW d, DbOK(d), NEW m, NEW e, e = AfterDcp(d, m)
  PROVE  /\ DbOK(e) /\ Alike(d, e) /\ Len(e.boxes) = Len(d.boxes)
         /\ \A k \in 1 .. Len(d.boxes) : IsRehashed(d.boxes[k], e.boxes[k], m)
<1> PICK a : a = d.boxes OBVIOUS
<1> PICK z : z = d.blocks OBVIOUS
<1>1. Len(a) \in Nat /\ DOMAIN a = 1 .. Len(a) /\ Listed(z) /\ Len(z) \in Nat /\ DOMAIN z = 1 .. Len(z)
  BY DbParts
<1> PICK s : s = [k \in DOMAIN a |-> Wiped(Rehash(a[k], m))] OBVIOUS
<1> PICK t : t = [z EXCEPT ![1].update = FALSE] OBVIOUS
<1>2. e = [blocks |-> t, boxes |-> s] BY DEF AfterDcp, Wiped
<1>3. e.boxes = s /\ e.blocks = t /\ e = [blocks |-> e.blocks, boxes |-> e.boxes] BY <1>2
<1>4. s = [k \in 1 .. Len(a) |-> s[k]] BY <1>1
<1>5. t = [b \in 1 .. Len(z) |-> t[b]] BY <1>1
<1>6. ASSUME NEW k \in 1 .. Len(a)
      PROVE  BoxOK(s[k]) /\ IsRehashed(a[k], s[k], m)
  <2> PICK c : c = a[k] OBVIOUS
  <2> PICK x : x = s[k] OBVIOUS
  <2>1. BoxOK(c) BY DEF DbOK
  <2>2. x = Wiped(Rehash(c, m)) BY <1>1
  <2>3. BoxOK(x) /\ IsRehashed(c, x, m) BY ONLY <2>1, <2>2, RehashedBox
  <2> QED BY <2>3
<1>7. ASSUME NEW b \in 1 .. Len(z)
      PROVE  /\ BlockOK(t[b]) /\ t[b].at = z[b].at /\ t[b].numvars = z[b].numvars
             /\ t[b].size = z[b].size
  <2> PICK h : h = z[b] OBVIOUS
  <2> PICK y : y = t[b] OBVIOUS
  <2> PICK x : x = [h EXCEPT !.update = FALSE] OBVIOUS
  <2>1. BlockOK(h) BY DEF DbOK
  <2>2. y = IF b = 1 THEN x ELSE h BY <1>1
  <2>3. x = [at |-> h.at, numvars |-> h.numvars, size |-> h.size, update |-> FALSE]
    BY <2>1 DEF BlockOK, IsBlock
  <2>4. x.at = h.at /\ x.numvars = h.numvars /\ x.size = h.size /\ x.update = FALSE BY ONLY <2>3
  <2>5. BlockOK(x) BY ONLY <2>1, <2>3, <2>4 DEF BlockOK, IsBlock
  <2> QED BY <2>1, <2>2, <2>4, <2>5
<1>8. Listed(s) /\ Len(s) = Len(a) /\ Listed(t) /\ Len(t) = Len(z)
  BY <1>1, <1>4, <1>5, FunctionIsListed
<1>9. /\ Listed(e.blocks) /\ Len(e.blocks) = Len(d.blocks)
      /\ Listed(e.boxes) /\ Len(e.boxes) = Len(d.boxes)
      /\ \A b \in 1 .. Len(d.blocks) :
           /\ BlockOK(e.blocks[b])
           /\ e.blocks[b].at = d.blocks[b].at /\ e.blocks[b].numvars = d.blocks[b].numvars
           /\ e.blocks[b].size = d.blocks[b].size
  <2>1. /\ Listed(t) /\ Len(t) = Len(z) /\ Listed(s) /\ Len(s) = Len(a)
        /\ \A b \in 1 .. Len(z) :
             /\ BlockOK(t[b]) /\ t[b].at = z[b].at /\ t[b].numvars = z[b].numvars
             /\ t[b].size = z[b].size
    BY <1>7, <1>8
  <2> QED BY ONLY <1>3, <2>1, a = d.boxes, z = d.blocks
<1>10. \A k \in 1 .. Len(d.boxes) : IsRehashed(d.boxes[k], e.boxes[k], m) BY <1>3, <1>6
<1>14. \A k \in 1 .. Len(d.boxes) : BoxOK(e.boxes[k]) BY <1>3, <1>6
<1>15. \A k \in 1 .. Len(d.boxes) :
         SamePlace(d.boxes[k], e.boxes[k]) /\ e.boxes[k].chunk = d.boxes[k].chunk
  BY ONLY <1>10 DEF IsRehashed
<1>11. e = [blocks |-> e.blocks, boxes |-> e.boxes] BY <1>3
<1>12. Replaces(d, e) BY ONLY <1>9, <1>11, <1>14, <1>15 DEF Replaces
<1>13. DbOK(e) /\ Alike(d, e) /\ Len(e.boxes) = Len(d.boxes) BY ONLY <1>12, BoxesReplaced
<1> QED BY ONLY <1>10, <1>13

-----------------------------------------------------------------------------
(* What is written *)

LEMMA ApplyAt ==
  ASSUME NEW f, Listed(f), NEW n \in Nat, NEW ops \in SUBSET (0 .. n), NEW d, NEW m,
         NEW g, g = Apply(f, d, m, ops)
  PROVE  /\ Listed(g)
         /\ \A a \in Nat : CellAt(g, a) = IF a \in ops THEN CellOf(d, m, a) ELSE CellAt(f, a)
<1> PICK M : M = {Len(f)} \cup {o + 1 : o \in ops} OBVIOUS
<1> PICK l : l = Len(f) OBVIOUS
<1> PICK x : x = Max(M) OBVIOUS
<1> PICK N : N = l + n + 1 OBVIOUS
<1>1. l \in Nat BY DEF Listed
<1>2. N \in Nat /\ l \in M /\ \A y \in M : y \in 0 .. N BY <1>1
<1>3. M \in SUBSET (0 .. N) /\ M # {} BY <1>2
<1>4. x \in M /\ \A y \in M : y <= x BY ONLY <1>2, <1>3, x = Max(M), MaxExists
<1>5. x \in Nat /\ l <= x /\ \A o \in ops : o + 1 <= x BY <1>2, <1>4
<1>6. g = [a \in 1 .. x |-> IF a - 1 \in ops THEN CellOf(d, m, a - 1)
                            ELSE IF a <= l THEN f[a] ELSE Hole]
  BY Zenon DEF Apply
<1>7. g = [a \in 1 .. x |-> g[a]] BY <1>6
<1>8. Listed(g) /\ Len(g) = x BY ONLY <1>5, <1>7, FunctionIsListed
<1>9. ASSUME NEW a \in Nat
      PROVE  CellAt(g, a) = IF a \in ops THEN CellOf(d, m, a) ELSE CellAt(f, a)
  <2> PICK c : c = CellOf(d, m, a) OBVIOUS
  <2> PICK z : z = a + 1 OBVIOUS
  <2>1. z - 1 = a /\ z \in Nat \ {0} BY <1>9
  <2>2. CASE a \in ops
    <3>1. z \in 1 .. x /\ a < x BY <1>5, <2>1, <2>2
    <3>2. g[z] = c BY <1>6, <2>1, <2>2, <3>1
    <3> QED BY <1>8, <2>2, <3>1, <3>2 DEF CellAt
  <2>3. CASE a \notin ops /\ a < x
    <3>1. z \in 1 .. x BY <1>5, <2>1, <2>3
    <3>2. g[z] = IF z <= l THEN f[z] ELSE Hole BY <1>6, <2>1, <2>3, <3>1
    <3>3. z <= l <=> a < l BY <1>1, <2>1
    <3> QED BY <1>8, <2>3, <3>2, <3>3 DEF CellAt
  <2>4. CASE a \notin ops /\ ~(a < x)
    <3>1. ~(a < l) BY <1>1, <1>5, <2>4
    <3> QED BY <1>8, <2>4, <3>1 DEF CellAt
  <2> QED BY <2>2, <2>3, <2>4
<1> QED BY <1>8, <1>9

LEMMA OrderedIs ==
  ASSUME NEW d, DbOK(d), NEW S
  PROVE  /\ Listed(Ordered(d, S)) /\ DOMAIN Ordered(d, S) = 1 .. Len(Ordered(d, S))
         /\ \A k \in 1 .. Len(Ordered(d, S)) : Ordered(d, S)[k] \in S \cap (1 .. EndOf(d) - 1)
         /\ ToSet(Ordered(d, S)) = S \cap (1 .. EndOf(d) - 1)
<1> PICK n : n = EndOf(d) - 1 OBVIOUS
<1> PICK s : s = Ordered(d, S) OBVIOUS
<1>1. n \in Nat BY EndIs
<1>2. s = Ascending(S, n) BY DEF Ordered
<1>3. Lists(s, S, n) BY ONLY <1>1, <1>2, AscendingLists
<1>4. Listed(s) /\ DOMAIN s = 1 .. Len(s) BY <1>3, ListedDomain DEF Lists
<1>5. \A k \in 1 .. Len(s) : s[k] \in S \cap (1 .. n) BY <1>3 DEF Lists
<1>6. \A x \in S \cap (1 .. n) : \E k \in 1 .. Len(s) : s[k] = x BY <1>3 DEF Lists
<1>7. ToSet(s) = {s[k] : k \in 1 .. Len(s)} BY <1>4 DEF ToSet
<1>8. ToSet(s) = S \cap (1 .. n) BY <1>5, <1>6, <1>7
<1> QED BY <1>4, <1>5, <1>8

\* The cells of a container are its own.
LEMMA BoxAtIs ==
  ASSUME NEW d, DbOK(d), Placed(d), NEW k \in 1 .. Len(d.boxes), NEW a \in Cells(d.boxes[k])
  PROVE  /\ BoxAt(d, a) = k /\ a \in 1 .. EndOf(d) - 1 /\ a # d.boxes[k].at
         /\ \A b \in 1 .. Len(d.blocks) : d.blocks[b].at # a
<1>1. DOMAIN d.boxes = 1 .. Len(d.boxes) BY DbParts
<1>2. a \notin Metas(d) BY DEF Placed
<1>3. a \in 1 .. EndOf(d) - 1 BY DEF Placed
<1>4. \A j \in 1 .. Len(d.boxes) : a # d.boxes[j].at BY <1>2 DEF Placed
<1>5. \A j \in 1 .. Len(d.boxes) : a \in Cells(d.boxes[j]) => j = k BY DEF Placed
<1>6. \A j \in DOMAIN d.boxes : (a = d.boxes[j].at \/ a \in Cells(d.boxes[j])) <=> j = k
  BY <1>1, <1>4, <1>5
<1>7. BoxAt(d, a) = k BY <1>1, <1>6 DEF BoxAt
<1>8. ASSUME NEW b \in 1 .. Len(d.blocks) PROVE d.blocks[b].at # a
  <2> PICK z : z = d.blocks[b] OBVIOUS
  <2>1. BlockOK(z) BY DEF DbOK
  <2>2. z.at \in z.at .. z.at + z.numvars BY <2>1 DEF BlockOK
  <2>3. z.at \in Metas(d) BY <2>2 DEF Metas
  <2> QED BY <1>2, <2>3
<1> QED BY <1>3, <1>4, <1>7, <1>8

LEMMA DataCell ==
  ASSUME NEW d, DbOK(d), Placed(d), NEW k \in 1 .. Len(d.boxes), NEW a \in Cells(d.boxes[k]), NEW m,
         NEW c, c = d.boxes[k]
  PROVE  CellOf(d, m, a) = Datum(m[c.id][c.dptr + a - c.fptr + 1])
<1>1. BoxAt(d, a) = k /\ a \in 1 .. EndOf(d) - 1 /\ a # c.at
      /\ \A b \in 1 .. Len(d.blocks) : d.blocks[b].at # a
  BY BoxAtIs
<1>2. EndOf(d) \in Nat BY EndIs
<1>3. a # 0 BY <1>1, <1>2
<1>4. DOMAIN d.blocks = 1 .. Len(d.blocks) BY DbParts
<1>5. ~\E b \in DOMAIN d.blocks : d.blocks[b].at = a BY <1>1, <1>4
<1>6. d.boxes[BoxAt(d, a)] = c BY <1>1
<1>7. CellOf(d, m, a) = IF a = d.boxes[BoxAt(d, a)].at THEN VarCell(d.boxes[BoxAt(d, a)])
                        ELSE Datum(m[d.boxes[BoxAt(d, a)].id]
                                    [d.boxes[BoxAt(d, a)].dptr + a - d.boxes[BoxAt(d, a)].fptr + 1])
  BY ONLY <1>3, <1>5 DEF CellOf
<1> QED BY ONLY <1>1, <1>6, <1>7

LEMMA SubSeqAt ==
  ASSUME NEW S, NEW v \in Seq(S), NEW l \in Nat, NEW n \in Nat, l + n <= Len(v),
         NEW s, s = SubSeq(v, l + 1, l + n)
  PROVE  /\ s \in Seq(S) /\ Len(s) = n /\ DOMAIN s = 1 .. n
         /\ \A j \in 1 .. n : s[j] = v[l + j]
<1>1. Len(v) \in Nat /\ DOMAIN v = 1 .. Len(v) OBVIOUS
<1>2. l + 1 \in Nat /\ l + n \in Nat /\ (l + n) - (l + 1) + 1 = n OBVIOUS
<1>3. s \in Seq(S)
  <2>1. \A j \in l + 1 .. l + n : v[j] \in S BY <1>1
  <2> QED BY <1>1, <1>2, <2>1
<1>4. Len(s) = n BY <1>1, <1>2
<1>5. ASSUME NEW j \in 1 .. n PROVE s[j] = v[l + j]
  <2>1. (l + 1) + j - 1 = l + j /\ l + j \in 1 .. Len(v) BY <1>1
  <2>2. s[j] = v[(l + 1) + j - 1] BY <1>1, <1>2, <1>4
  <2> QED BY <2>1, <2>2
<1> QED BY <1>3, <1>4, <1>5

\* What a block of a container consists of.
LEMMA BlockOfIs ==
  ASSUME NEW c, BoxOK(c), NEW m, MemOK(m), c.id \in 1 .. Len(m),
         c.chunk = Extent(c, Len(m[c.id])),
         NEW b \in 1 .. Len(c.blk), NEW h, h = BlockOf(Content(m, c), b), NEW x \in DOMAIN h,
         NEW a, a = c.fptr + (b - 1) * Block + x - 1
  PROVE  /\ a \in Cells(c) /\ a \in BlockCells(c, b)
         /\ h[x] = m[c.id][c.dptr + a - c.fptr + 1]
<1> PICK v : v = m[c.id] OBVIOUS
<1> PICK n : n = c.chunk OBVIOUS
<1> PICK p : p = c.dptr OBVIOUS
<1> PICK q : q = c.fptr OBVIOUS
<1>1. v \in Seq(Bit) BY DEF MemOK
<1>2. n \in Nat /\ c.csize \in Nat /\ n <= c.csize /\ p \in Nat /\ q \in Nat
  <2>1. c.csize \in 1 .. MaxSize /\ n \in 0 .. c.csize /\ p \in Nat /\ q \in Nat BY DEF BoxOK
  <2> QED BY <2>1, SizesAssumption
<1>3. Len(v) \in Nat BY <1>1
<1>4. n > 0 => p + n <= Len(v)
  <2>1. n = IF Len(v) > p THEN MinOf(c.csize, Len(v) - p) ELSE 0 BY DEF Extent
  <2> QED BY <1>2, <1>3, <2>1 DEF MinOf
<1> PICK y : y = Content(m, c) OBVIOUS
<1>5. y = SubSeq(v, p + 1, p + n) BY DEF Content
<1>6. Len(c.blk) = Blocks(n) BY DEF BoxOK, MarksOK
<1>7. Dcp /\ Len(c.blk) = NumBlocks(n)
  <2>1. Len(c.blk) # 0 BY <1>6, BlocksType, <1>2
  <2> QED BY <1>6, <2>1 DEF Blocks
<1>8. NumBlocks(n) \in Nat /\ (n > 0 => (NumBlocks(n) - 1) * Block < n)
      /\ (NumBlocks(n) = 0 <=> n = 0) /\ Block \in Nat \ {0}
  BY <1>2, NumBlocksIs, SizesAssumption
<1>9. n > 0 BY <1>2, <1>7, <1>8
<1>10. Len(y) = n /\ y \in Seq(Bit) /\ \A j \in 1 .. n : y[j] = v[p + j]
  <2>1. p + n <= Len(v) BY <1>4, <1>9
  <2>2. Len(y) = n /\ y \in Seq(Bit) BY ONLY <1>1, <1>2, <1>5, <2>1, SubSeqAt
  <2>3. \A j \in 1 .. n : y[j] = v[p + j] BY ONLY <1>1, <1>2, <1>5, <2>1, SubSeqAt
  <2> QED BY <2>2, <2>3
<1> PICK z : z = (b - 1) * Block OBVIOUS
<1> PICK w : w = MinOf(b * Block, n) OBVIOUS
<1>11. z \in Nat /\ b * Block = z + Block /\ b * Block \in Nat BY <1>7, <1>8
<1>12. z < n
  <2> PICK k : k = NumBlocks(n) OBVIOUS
  <2>1. k \in Nat /\ b \in 1 .. k /\ (k - 1) * Block < n BY <1>7, <1>8, <1>9
  <2>2. k - b \in Nat BY <2>1
  <2>3. (k - b) * Block >= 0 BY <1>8, <2>2
  <2>4. (k - b) * Block = (k - 1) * Block - (b - 1) * Block BY <1>8, <2>1
  <2>5. (k - 1) * Block \in Int BY <1>8, <2>1
  <2> QED BY <1>2, <1>11, <2>1, <2>3, <2>4, <2>5
<1>13. w \in Nat /\ w <= n /\ w <= z + Block /\ z < w BY <1>2, <1>8, <1>11, <1>12 DEF MinOf
<1>14. h = SubSeq(y, z + 1, w)
  <2>1. h = SubSeq(y, (b - 1) * Block + 1, MinOf(b * Block, Len(y))) BY DEF BlockOf
  <2>2. Len(y) = n /\ z = (b - 1) * Block /\ w = MinOf(b * Block, n) BY <1>10
  <2> QED BY ONLY <2>1, <2>2
<1>15. DOMAIN h = 1 .. w - z /\ \A j \in 1 .. w - z : h[j] = y[z + j]
  <2> PICK t : t = w - z OBVIOUS
  <2>4. z \in Nat /\ Len(y) = n BY <1>10, <1>11
  <2>1. t \in Nat /\ z + t = w /\ z + t <= Len(y) BY ONLY <1>2, <1>13, <2>4, t = w - z
  <2>2. h = SubSeq(y, z + 1, z + t) BY <1>14, <2>1
  <2>3. DOMAIN h = 1 .. t /\ \A j \in 1 .. t : h[j] = y[z + j]
    BY ONLY <1>10, <2>1, <2>2, <2>4, SubSeqAt
  <2> QED BY ONLY <2>3, t = w - z
<1>16. x \in 1 .. w - z
  <2>1. x \in DOMAIN h OBVIOUS
  <2> QED BY ONLY <1>15, <2>1
<1>17. z + x \in 1 .. n /\ z \in Nat
  <2>1. z \in Nat BY <1>11
  <2> QED BY ONLY <1>2, <1>13, <1>16, <2>1
<1>18. h[x] = v[p + (z + x)]
  <2>1. h[x] = y[z + x] BY ONLY <1>15, <1>16
  <2>2. y[z + x] = v[p + (z + x)] BY ONLY <1>10, <1>17
  <2> QED BY ONLY <2>1, <2>2
<1>19. a = q + z + x - 1 OBVIOUS
<1> PICK g : g = c.csize OBVIOUS
<1>25. x \in Nat \ {0} /\ x <= w - z /\ w \in Nat
  <2>1. w \in Nat BY <1>13
  <2> QED BY ONLY <1>16, <1>17, <2>1
<1>26. g \in Nat /\ n <= g BY <1>2
<1>20. p + a - q + 1 = p + (z + x)
  <2> PICK u : u = z + x OBVIOUS
  <2>1. a = q + u - 1 /\ u \in Nat BY ONLY <1>2, <1>17, <1>19, <1>25, u = z + x
  <2>2. p + a - q + 1 = p + u BY ONLY <1>2, <2>1
  <2> QED BY ONLY <2>2, u = z + x
<1>21. a \in q .. q + c.csize - 1
  <2>1. a \in q .. q + g - 1 BY ONLY <1>2, <1>17, <1>19, <1>25, <1>26
  <2> QED BY ONLY <2>1, g = c.csize
<1>22. a \in q + z .. q + w - 1 BY ONLY <1>2, <1>17, <1>19, <1>25
<1>23. BlockCells(c, b) = q + z .. q + w - 1 BY DEF BlockCells
<1>24. Cells(c) = q .. q + c.csize - 1 BY DEF Cells
<1> QED BY <1>18, <1>20, <1>21, <1>22, <1>23, <1>24

-----------------------------------------------------------------------------
(* Clean blocks *)

OnFile(f, c, b) ==
  \A x \in DOMAIN c.blk[b].hash :
    CellAt(f, c.fptr + (b - 1) * Block + x - 1) = Datum(c.blk[b].hash[x])

Clean(d, f) ==
  \A k \in 1 .. Len(d.boxes) : \A b \in 1 .. Len(d.boxes[k].blk) :
    d.boxes[k].blk[b].valid => OnFile(f, d.boxes[k], b)

LEMMA KeepsClean ==
  ASSUME NEW d, NEW e, NEW f, Keeps(d, e), Clean(d, f), Len(d.boxes) \in Nat
  PROVE  Clean(e, f)
<1> SUFFICES ASSUME NEW k \in 1 .. Len(e.boxes), NEW b \in 1 .. Len(e.boxes[k].blk),
                    e.boxes[k].blk[b].valid
             PROVE  OnFile(f, e.boxes[k], b)
  BY DEF Clean
<1> PICK c : c = d.boxes[k] OBVIOUS
<1> PICK x : x = e.boxes[k] OBVIOUS
<1>1. ~(k > Len(d.boxes)) BY DEF Keeps
<1>2. k \in 1 .. Len(d.boxes) BY <1>1
<1>3. KeepsMarks(c, x) BY <1>2 DEF Keeps
<1>4. x.fptr = c.fptr /\ b \in 1 .. Len(c.blk) /\ c.blk[b].valid /\ x.blk[b].hash = c.blk[b].hash
  BY <1>3 DEF KeepsMarks
<1>5. OnFile(f, c, b) BY <1>2, <1>4 DEF Clean
<1>6. OnFile(f, x, b) BY ONLY <1>4, <1>5 DEF OnFile
<1> QED BY <1>6

\* FTI_HashCmp does not invalidate or validate anything.
LEMMA ComparedClean ==
  ASSUME NEW d, DbOK(d), NEW m, NEW slot, NEW j, NEW l, NEW f, Clean(d, f),
         NEW h, h = Hashed(d, m, slot), NEW e, e = ComparedUpTo(h, m, j, l)
  PROVE  DbOK(e) /\ Alike(d, e) /\ Clean(e, f)
<1>1. /\ DbOK(h) /\ Alike(d, h) /\ Len(h.boxes) = Len(d.boxes)
      /\ \A k \in 1 .. Len(d.boxes) : SamePlace(d.boxes[k], h.boxes[k]) /\ h.boxes[k].blk = d.boxes[k].blk
  BY HashedIs
<1>2. /\ DbOK(e) /\ Alike(h, e) /\ Len(e.boxes) = Len(h.boxes)
      /\ \A k \in 1 .. Len(h.boxes) : IsCompared(h.boxes[k], e.boxes[k], m, Looked(h, j, l, k))
  BY ONLY <1>1, e = ComparedUpTo(h, m, j, l), ComparedIs
<1>3. Alike(d, e) BY ONLY <1>1, <1>2, AlikeChains
<1>4. ASSUME NEW k \in 1 .. Len(e.boxes), NEW b \in 1 .. Len(e.boxes[k].blk),
             e.boxes[k].blk[b].valid
      PROVE  OnFile(f, e.boxes[k], b)
  <2> PICK c : c = d.boxes[k] OBVIOUS
  <2> PICK y : y = h.boxes[k] OBVIOUS
  <2> PICK x : x = e.boxes[k] OBVIOUS
  <2>1. k \in 1 .. Len(d.boxes) /\ k \in 1 .. Len(h.boxes) BY <1>1, <1>2
  <2>2. SamePlace(c, y) /\ y.blk = c.blk BY <1>1, <2>1
  <2>3. /\ SamePlace(y, x) /\ Len(x.blk) = Len(y.blk)
        /\ \A i \in 1 .. Len(y.blk) : x.blk[i].valid = y.blk[i].valid /\ x.blk[i].hash = y.blk[i].hash
    <3>1. IsCompared(y, x, m, Looked(h, j, l, k)) BY <1>2, <2>1
    <3> QED BY ONLY <3>1 DEF IsCompared
  <2>4. b \in 1 .. Len(x.blk) /\ x.blk[b].valid BY <1>4
  <2>5. x.fptr = c.fptr /\ b \in 1 .. Len(c.blk) /\ c.blk[b].valid /\ x.blk[b].hash = c.blk[b].hash
    BY ONLY <2>2, <2>3, <2>4 DEF SamePlace
  <2>6. OnFile(f, c, b) BY <2>1, <2>5 DEF Clean
  <2>7. OnFile(f, x, b) BY ONLY <2>5, <2>6 DEF OnFile
  <2> QED BY <2>7
<1> QED BY <1>2, <1>3, <1>4 DEF Clean

\* A dCP writes every block that is invalid or has changed.
LEMMA DataIsIn ==
  ASSUME NEW d, DbOK(d), Placed(d), NEW m, cursor = Start, Dcp,
         NEW k \in 1 .. Len(d.boxes), NEW c, c = d.boxes[k], NEW b \in 1 .. Len(c.blk),
         MustWrite(c, m, b), NEW a \in BlockCells(c, b), a \in Cells(c)
  PROVE  a \in ToSet(DataOps(d, m))
<1>1. DOMAIN d.boxes = 1 .. Len(d.boxes) BY DbParts
<1>2. (IF k = 1 THEN cursor ELSE Start) = Start BY Zenon
<1>3. Start.reset = FALSE /\ Start.at = 1 BY DEF Start
<1>4. a \in DataOpsOf(d, m, k)
  <2>1. b \in {y \in 1 .. Len(c.blk) : MustWrite(c, m, y)} OBVIOUS
  <2>2. a \in UNION {BlockCells(c, y) : y \in {y \in 1 .. Len(c.blk) : MustWrite(c, m, y)}}
    BY <2>1
  <2>3. DataOpsOf(d, m, k)
          = IF Start.reset THEN {}
            ELSE IF ~Dcp THEN c.fptr .. c.fptr + c.chunk - 1
            ELSE UNION {BlockCells(c, y) : y \in {y \in Start.at .. Len(c.blk) : MustWrite(c, m, y)}}
    BY <1>2, Zenon DEF DataOpsOf
  <2> QED BY <1>3, <2>2, <2>3
<1> PICK S : S = UNION {DataOpsOf(d, m, j) : j \in DOMAIN d.boxes} OBVIOUS
<1>5. a \in S BY <1>1, <1>4
<1>6. a \in 1 .. EndOf(d) - 1 BY BoxAtIs
<1>7. ToSet(Ordered(d, S)) = S \cap (1 .. EndOf(d) - 1) BY OrderedIs
<1>8. DataOps(d, m) = Ordered(d, S) BY DEF DataOps
<1> QED BY <1>5, <1>6, <1>7, <1>8

\* What a dCP that is completed makes of d.
DcpSteps(d, m, slot, h, e, g) ==
  /\ h = Hashed(d, m, slot)
  /\ e = ComparedUpTo(h, m, Len(d.boxes) + 1, 0)
  /\ g = AfterDcp(e, m)

HashIs(z, c, m, b) == z.blk[b].hash = BlockOf(Content(m, c), b)

\* After a dCP the hash of every block is that of its contents.
LEMMA DcpHash ==
  ASSUME NEW d, DbOK(d), NEW m, NEW slot, cursor = Start, NEW h, NEW e, NEW g,
         DcpSteps(d, m, slot, h, e, g),
         NEW k \in 1 .. Len(d.boxes), NEW b \in 1 .. Len(d.boxes[k].blk)
  PROVE  HashIs(g.boxes[k], d.boxes[k], m, b)
<1> PICK c : c = d.boxes[k] OBVIOUS
<1> PICK y : y = h.boxes[k] OBVIOUS
<1> PICK x : x = e.boxes[k] OBVIOUS
<1> PICK z : z = g.boxes[k] OBVIOUS
<1> PICK n : n = Len(d.boxes) OBVIOUS
<1> PICK H : H = BlockOf(Content(m, c), b) OBVIOUS
<1>1. n \in Nat BY DbParts
<1> PICK j : j = n + 1 OBVIOUS
<1>11. k \in 1 .. n /\ x = e.boxes[k] /\ y = h.boxes[k] /\ z = g.boxes[k] OBVIOUS
<1>12. e = ComparedUpTo(h, m, j, 0) BY DEF DcpSteps
<1>13. g = AfterDcp(e, m) BY DEF DcpSteps
<1>14. h = Hashed(d, m, slot) BY DEF DcpSteps
<1>2. DbOK(h) /\ Len(h.boxes) = n /\ SamePlace(c, y) /\ y.chunk = c.chunk /\ y.blk = c.blk
  BY <1>14, HashedIs
<1>3. /\ DbOK(e) /\ Len(e.boxes) = n /\ SamePlace(y, x) /\ x.chunk = y.chunk
      /\ Len(x.blk) = Len(y.blk)
      /\ \A i \in 1 .. Len(y.blk) :
           /\ x.blk[i].valid = y.blk[i].valid /\ x.blk[i].hash = y.blk[i].hash
           /\ i \in Looked(h, j, 0, k) /\ y.blk[i].valid => x.blk[i].dirty = MustWrite(y, m, i)
  <2>1. /\ DbOK(e) /\ Len(e.boxes) = Len(h.boxes)
        /\ \A i \in 1 .. Len(h.boxes) : IsCompared(h.boxes[i], e.boxes[i], m, Looked(h, j, 0, i))
    BY ONLY <1>2, <1>12, ComparedIs
  <2>2. DbOK(e) /\ Len(e.boxes) = n /\ IsCompared(y, x, m, Looked(h, j, 0, k))
    BY ONLY <1>2, <1>11, <2>1
  <2> QED BY ONLY <2>2 DEF IsCompared
<1>4. \A i \in 1 .. Len(x.blk) :
        z.blk[i].hash = IF x.blk[i].dirty \/ ~x.blk[i].valid THEN BlockOf(Content(m, x), i)
                        ELSE x.blk[i].hash
  <2>1. \A i \in 1 .. Len(e.boxes) : IsRehashed(e.boxes[i], g.boxes[i], m)
    BY ONLY <1>3, <1>13, AfterDcpIs
  <2>2. IsRehashed(x, z, m) BY ONLY <1>3, <1>11, <2>1
  <2> QED BY ONLY <2>2 DEF IsRehashed
<1>5. b \in 1 .. Len(x.blk) /\ b \in 1 .. Len(y.blk) BY <1>2, <1>3
<1>6. Content(m, x) = Content(m, c) /\ Content(m, y) = Content(m, c)
  <2>1. x.id = c.id /\ x.dptr = c.dptr /\ x.chunk = c.chunk /\ y.id = c.id /\ y.dptr = c.dptr
        /\ y.chunk = c.chunk
    BY <1>2, <1>3 DEF SamePlace
  <2> QED BY ONLY <2>1 DEF Content
<1>7. BlockOf(Content(m, x), b) = H /\ BlockOf(Content(m, y), b) = H BY <1>6
<1>8. b \in Looked(h, j, 0, k)
  <2>1. (IF k = 1 THEN cursor.at ELSE 1) = 1 BY DEF Start
  <2>2. k < j BY <1>1
  <2>3. Looked(h, j, 0, k) = 1 .. Len(y.blk) BY <2>1, <2>2 DEF Looked
  <2> QED BY <1>5, <2>3
<1> SUFFICES z.blk[b].hash = H BY DEF HashIs
<1>9. CASE x.blk[b].dirty \/ ~x.blk[b].valid
  <2>1. z.blk[b].hash = BlockOf(Content(m, x), b) BY ONLY <1>4, <1>5, <1>9
  <2> QED BY <1>7, <2>1
<1>10. CASE ~(x.blk[b].dirty \/ ~x.blk[b].valid)
  <2>1. z.blk[b].hash = x.blk[b].hash BY ONLY <1>4, <1>5, <1>10
  <2>2. y.blk[b].valid /\ x.blk[b].hash = y.blk[b].hash BY ONLY <1>3, <1>5, <1>10
  <2>3. x.blk[b].dirty = MustWrite(y, m, b) BY ONLY <1>3, <1>5, <1>8, <2>2
  <2>4. ~MustWrite(y, m, b) BY ONLY <1>10, <2>3
  <2>5. y.blk[b].hash = BlockOf(Content(m, y), b) BY ONLY <2>4 DEF MustWrite
  <2> QED BY <1>7, <2>1, <2>2, <2>5
<1> QED BY <1>9, <1>10

\* The places of the containers stay the same up to the end of a dCP.
LEMMA DcpPlace ==
  ASSUME NEW d, DbOK(d), NEW m, NEW slot, NEW h, NEW e, NEW g, DcpSteps(d, m, slot, h, e, g)
  PROVE  /\ DbOK(h) /\ Alike(d, h)
         /\ DbOK(g) /\ Alike(d, g)
         /\ \A k \in 1 .. Len(d.boxes) : Len(g.boxes[k].blk) = Len(d.boxes[k].blk)
<1>1. /\ DbOK(h) /\ Alike(d, h) /\ Len(h.boxes) = Len(d.boxes)
      /\ \A k \in 1 .. Len(d.boxes) : SamePlace(d.boxes[k], h.boxes[k]) /\ h.boxes[k].blk = d.boxes[k].blk
  BY HashedIs DEF DcpSteps
<1> PICK j : j = Len(d.boxes) + 1 OBVIOUS
<1> PICK l : l = 0 OBVIOUS
<1>7. e = ComparedUpTo(h, m, j, l) /\ g = AfterDcp(e, m) BY DEF DcpSteps
<1>2. /\ DbOK(e) /\ Alike(h, e) /\ Len(e.boxes) = Len(h.boxes)
      /\ \A k \in 1 .. Len(h.boxes) : IsCompared(h.boxes[k], e.boxes[k], m, Looked(h, j, l, k))
  BY ONLY <1>1, <1>7, ComparedIs
<1>3. /\ DbOK(g) /\ Alike(e, g) /\ Len(g.boxes) = Len(e.boxes)
      /\ \A k \in 1 .. Len(e.boxes) : IsRehashed(e.boxes[k], g.boxes[k], m)
  BY ONLY <1>2, <1>7, AfterDcpIs
<1>4. Alike(d, e) BY ONLY <1>1, <1>2, AlikeChains
<1>5. Alike(d, g) BY ONLY <1>3, <1>4, AlikeChains
<1>6. ASSUME NEW k \in 1 .. Len(d.boxes)
      PROVE  Len(g.boxes[k].blk) = Len(d.boxes[k].blk)
  <2> PICK c : c = d.boxes[k] OBVIOUS
  <2> PICK y : y = h.boxes[k] OBVIOUS
  <2> PICK x : x = e.boxes[k] OBVIOUS
  <2> PICK z : z = g.boxes[k] OBVIOUS
  <2>1. SamePlace(c, y) /\ y.blk = c.blk BY <1>1
  <2>2. IsCompared(y, x, m, Looked(h, j, l, k)) BY <1>1, <1>2
  <2>3. IsRehashed(x, z, m) BY <1>1, <1>2, <1>3
  <2>4. Len(z.blk) = Len(c.blk) BY ONLY <2>1, <2>2, <2>3 DEF IsCompared, IsRehashed
  <2> QED BY <2>4
<1> QED BY ONLY <1>1, <1>2, <1>3, <1>5, <1>6

\* After a dCP every block is on file with the data whose hash it has.
LEMMA DcpClean ==
  ASSUME NEW o, NEW f, Listed(f), Clean(o, f), NEW m, MemOK(m),
         NEW d, DbOK(d), Placed(d), Suits(d.boxes, m), Keeps(o, d), Len(o.boxes) \in Nat,
         NEW slot, NEW h, NEW e, NEW g, DcpSteps(d, m, slot, h, e, g),
         NEW n \in Nat, NEW ops \in SUBSET (0 .. n), \A a \in ToSet(DataOps(d, m)) : a \in ops,
         NEW w, w = Apply(f, h, m, ops), cursor = Start, Dcp
  PROVE  Clean(g, w)
<1>1. /\ DbOK(h) /\ Alike(d, h) /\ DbOK(g) /\ Alike(d, g)
      /\ \A k \in 1 .. Len(d.boxes) : Len(g.boxes[k].blk) = Len(d.boxes[k].blk)
  BY DcpPlace
<1>2. /\ Len(g.boxes) = Len(d.boxes)
      /\ \A k \in 1 .. Len(d.boxes) :
           /\ SamePlace(d.boxes[k], h.boxes[k]) /\ SamePlace(d.boxes[k], g.boxes[k])
  BY ONLY <1>1 DEF Alike, SamePlaces
<1>3. Placed(h) /\ Len(h.boxes) = Len(d.boxes)
  <2>1. Placed(h) BY <1>1, AlikeStays
  <2> QED BY <1>1, <2>1 DEF Alike, SamePlaces
<1>4. Clean(d, f) BY KeepsClean
<1>5. \A a \in Nat : CellAt(w, a) = IF a \in ops THEN CellOf(h, m, a) ELSE CellAt(f, a)
  BY ONLY Listed(f), n \in Nat, ops \in SUBSET (0 .. n), w = Apply(f, h, m, ops), ApplyAt
<1> SUFFICES ASSUME NEW k \in 1 .. Len(g.boxes), NEW b \in 1 .. Len(g.boxes[k].blk)
             PROVE  OnFile(w, g.boxes[k], b)
  BY DEF Clean
<1> PICK c : c = d.boxes[k] OBVIOUS
<1> PICK y : y = h.boxes[k] OBVIOUS
<1> PICK z : z = g.boxes[k] OBVIOUS
<1> PICK H : H = BlockOf(Content(m, c), b) OBVIOUS
<1>6. k \in 1 .. Len(d.boxes) /\ k \in 1 .. Len(h.boxes) /\ b \in 1 .. Len(c.blk) BY <1>1, <1>2, <1>3
<1>7. z.blk[b].hash = H
  <2>1. b \in 1 .. Len(d.boxes[k].blk) BY <1>6
  <2>2. HashIs(g.boxes[k], d.boxes[k], m, b)
    BY ONLY DbOK(d), cursor = Start, DcpSteps(d, m, slot, h, e, g), <1>6, <2>1, DcpHash
  <2> QED BY <2>2 DEF HashIs
<1>8. SamePlace(c, y) /\ SamePlace(c, z) BY <1>2, <1>6
<1>9. BoxOK(c) /\ c.id \in 1 .. Len(m) /\ c.chunk = Extent(c, Len(m[c.id]))
  BY <1>6 DEF DbOK, Suits
<1>10. ASSUME NEW x \in DOMAIN H
       PROVE  CellAt(w, c.fptr + (b - 1) * Block + x - 1) = Datum(H[x])
  <2> PICK a : a = c.fptr + (b - 1) * Block + x - 1 OBVIOUS
  <2>1. /\ a \in Cells(c) /\ a \in BlockCells(c, b)
        /\ H[x] = m[c.id][c.dptr + a - c.fptr + 1]
    BY ONLY <1>6, <1>9, MemOK(m), H = BlockOf(Content(m, c), b), x \in DOMAIN H,
       a = c.fptr + (b - 1) * Block + x - 1, BlockOfIs
  <2>2. a \in Nat
    <3>1. a \in 1 .. EndOf(d) - 1 BY <1>6, <2>1, BoxAtIs
    <3> QED BY <3>1
  <2>3. CASE a \in ops
    <3>1. CellAt(w, a) = CellOf(h, m, a) BY <1>5, <2>2, <2>3
    <3>2. Cells(y) = Cells(c) BY ONLY <1>8 DEF SamePlace, Cells
    <3>3. a \in Cells(h.boxes[k]) /\ y = h.boxes[k] BY <2>1, <3>2
    <3>4. CellOf(h, m, a) = Datum(m[y.id][y.dptr + a - y.fptr + 1])
      BY ONLY <1>1, <1>3, <1>6, <3>3, DataCell
    <3>5. y.id = c.id /\ y.dptr = c.dptr /\ y.fptr = c.fptr BY <1>8 DEF SamePlace
    <3> QED BY <2>1, <3>1, <3>4, <3>5
  <2>4. CASE a \notin ops
    <3>1. CellAt(w, a) = CellAt(f, a) BY <1>5, <2>2, <2>4
    <3>2. ~MustWrite(c, m, b)
      <4> SUFFICES ASSUME MustWrite(c, m, b) PROVE FALSE OBVIOUS
      <4>1. a \in ToSet(DataOps(d, m)) BY <1>6, <2>1, DataIsIn
      <4> QED BY <2>4, <4>1
    <3>3. c.blk[b].valid /\ c.blk[b].hash = H BY ONLY <3>2, H = BlockOf(Content(m, c), b) DEF MustWrite
    <3>4. OnFile(f, c, b) BY <1>4, <1>6, <3>3 DEF Clean
    <3>5. CellAt(f, a) = Datum(H[x]) BY <3>3, <3>4 DEF OnFile
    <3> QED BY <3>1, <3>5
  <2> QED BY <2>3, <2>4
<1>11. z.fptr = c.fptr BY <1>8 DEF SamePlace
<1>12. OnFile(w, z, b) BY ONLY <1>7, <1>10, <1>11 DEF OnFile
<1> QED BY <1>12

-----------------------------------------------------------------------------
(* The writes of a checkpoint *)

LEMMA SeqMembers ==
  ASSUME NEW S, NEW s \in Seq(S)
  PROVE  ToSet(s) \in SUBSET S
BY DEF ToSet

LEMMA OpsAre ==
  ASSUME NEW d, DbOK(d), NEW h, NEW m, NEW n, n = EndOf(d) - 1
  PROVE  n \in Nat /\ MetaOps(d, h) \in Seq(0 .. n) /\ DataOps(d, m) \in Seq(0 .. n)
<1>1. n \in Nat BY EndIs
<1>2. ASSUME NEW S PROVE Ordered(d, S) \in Seq(0 .. n)
  <2> PICK s : s = Ordered(d, S) OBVIOUS
  <2>1. Listed(s) /\ \A k \in 1 .. Len(s) : s[k] \in S \cap (1 .. n) BY OrderedIs
  <2>2. \A k \in 1 .. Len(s) : s[k] \in 0 .. n BY <1>1, <2>1
  <2>3. s \in Seq(0 .. n) BY ONLY <2>1, <2>2, ListedIsSeq
  <2> QED BY <2>3
<1>3. 0 \in 0 .. n BY <1>1
<1> PICK S : S = {b.at : b \in {b \in ToSet(d.blocks) : b.update}}
                 \cup {d.boxes[k].at : k \in {k \in DOMAIN d.boxes : ~MetaIs(d.boxes[k], h.boxes[k])}}
  OBVIOUS
<1> PICK s : s = Ordered(d, S) OBVIOUS
<1>4. MetaOps(d, h) = Append(s, 0) BY Zenon DEF MetaOps
<1>5. s \in Seq(0 .. n) BY <1>2
<1>6. Append(s, 0) \in Seq(0 .. n) BY <1>3, <1>5
<1> QED BY <1>1, <1>2, <1>4, <1>6 DEF DataOps

LEMMA AlikeSelf ==
  ASSUME NEW d
  PROVE  Alike(d, d)
BY DEF Alike, SamePlaces, SamePlace

LEMMA FlagsAlike ==
  ASSUME NEW d, DbOK(d), NEW kind, NEW e, e = Flags(kind, d)
  PROVE  DbOK(e) /\ Alike(d, e)
<1>1. CASE kind = "dcp"
  <2>1. e = AfterDcp(d, mem) BY <1>1 DEF Flags
  <2> QED BY ONLY DbOK(d), <2>1, AfterDcpIs
<1>2. CASE kind # "dcp"
  <2>1. e = d BY <1>2 DEF Flags
  <2> QED BY <2>1, AlikeSelf
<1> QED BY <1>1, <1>2

\* The last block of a region is a block of the container.
LEMMA RegionEndIs ==
  ASSUME NEW c, Len(c.blk) \in Nat, NEW m, NEW b \in 1 .. Len(c.blk), MustWrite(c, m, b)
  PROVE  RegionEnd(c, m, b) \in b .. Len(c.blk)
<1> PICK n : n = Len(c.blk) OBVIOUS
<1> DEFINE T == {e \in b .. n : e = n \/ ~MustWrite(c, m, e + 1)}
<1>1. n \in T /\ T \in SUBSET Nat OBVIOUS
<1> HIDE DEF T
<1>2. PICK e \in T : \A k \in T : e <= k BY <1>1, LeastNatural
<1>3. e \in b .. n /\ (e = n \/ ~MustWrite(c, m, e + 1)) BY <1>2 DEF T
<1>4. ASSUME NEW x \in b .. e PROVE MustWrite(c, m, x)
  <2>1. CASE x = b BY <2>1
  <2>2. CASE x # b
    <3> PICK y : y = x - 1 OBVIOUS
    <3>1. y \in b .. n /\ y < e /\ y + 1 = x BY <1>3, <2>2
    <3>2. y \notin T BY <1>2, <1>3, <3>1
    <3>3. MustWrite(c, m, y + 1) BY <3>1, <3>2 DEF T
    <3> QED BY <3>1, <3>3
  <2> QED BY <2>1, <2>2
<1>5. \E x \in b .. n : /\ \A y \in b .. x : MustWrite(c, m, y)
                        /\ x = n \/ ~MustWrite(c, m, x + 1)
  BY <1>3, <1>4
<1> QED BY <1>5 DEF RegionEnd

\* The region of an address that a dCP writes data to.
LEMMA RegionIs ==
  ASSUME NEW d, DbOK(d), Placed(d), cursor.at \in Nat \ {0}, Dcp,
         NEW a \in ToSet(DataOps(d, mem)), NEW r, r = RegionOf(d, a)
  PROVE  /\ r.box \in 1 .. Len(d.boxes) /\ Len(d.boxes[r.box].blk) \in 0 .. MaxSize
         /\ r.to \in 1 .. Len(d.boxes[r.box].blk)
<1> PICK S : S = UNION {DataOpsOf(d, mem, j) : j \in DOMAIN d.boxes} OBVIOUS
<1>1. DataOps(d, mem) = Ordered(d, S) BY DEF DataOps
<1>2. a \in S BY <1>1, OrderedIs
<1>3. DOMAIN d.boxes = 1 .. Len(d.boxes) BY DbParts
<1>4. PICK j \in 1 .. Len(d.boxes) : a \in DataOpsOf(d, mem, j) BY <1>2, <1>3
<1> PICK c : c = d.boxes[j] OBVIOUS
<1> PICK cur : cur = IF j = 1 THEN cursor ELSE Start OBVIOUS
<1>5. cur.at \in Nat \ {0} BY DEF Start
<1>6. DataOpsOf(d, mem, j)
        = IF cur.reset THEN {}
          ELSE IF ~Dcp THEN c.fptr .. c.fptr + c.chunk - 1
          ELSE UNION {BlockCells(c, b) : b \in {b \in cur.at .. Len(c.blk) : MustWrite(c, mem, b)}}
  BY Zenon DEF DataOpsOf
<1>7. PICK b \in cur.at .. Len(c.blk) : MustWrite(c, mem, b) /\ a \in BlockCells(c, b)
  BY <1>4, <1>6
<1>8. BoxOK(c) BY DEF DbOK
<1> PICK n : n = c.chunk OBVIOUS
<1> PICK q : q = c.fptr OBVIOUS
<1> PICK z : z = (b - 1) * Block OBVIOUS
<1>9. n \in Nat /\ n <= c.csize /\ c.csize \in Nat /\ n <= MaxSize /\ q \in Nat /\ Block \in Nat \ {0}
  <2>1. c.csize \in 1 .. MaxSize /\ n \in 0 .. c.csize /\ q \in Nat BY <1>8 DEF BoxOK
  <2> QED BY <2>1, SizesAssumption
<1>10. Len(c.blk) \in Nat /\ Len(c.blk) <= MaxSize
  <2>1. Len(c.blk) = Blocks(n) BY <1>8 DEF BoxOK, MarksOK
  <2>2. Blocks(n) \in Nat /\ Blocks(n) <= n BY <1>9, BlocksType
  <2> QED BY <1>9, <2>1, <2>2, SizesAssumption
<1>11. b \in 1 .. Len(c.blk) BY <1>5, <1>7, <1>10
<1>12. z \in Nat /\ b * Block = z + Block BY <1>9, <1>10, <1>11
<1> PICK t : t = MinOf(b * Block, n) OBVIOUS
<1>13. t \in Int /\ t <= z + Block /\ t <= n BY <1>9, <1>12 DEF MinOf
<1>14. a \in q + z .. q + t - 1 BY <1>7 DEF BlockCells
<1>15. z \in Nat BY <1>12
<1>16. a \in q .. q + c.csize - 1 BY ONLY <1>9, <1>13, <1>14, <1>15
<1>17. a \in Cells(c) BY <1>16 DEF Cells
<1>18. BoxAt(d, a) = j BY <1>17, BoxAtIs
<1> PICK x : x = a - q + 1 OBVIOUS
<1>19. x \in Nat \ {0} /\ z < x /\ x <= z + Block
  BY ONLY <1>9, <1>13, <1>14, <1>15, x = a - q + 1
<1>20. BlockNo(x) = b
  <2>1. b \in Nat \ {0} BY <1>10, <1>11
  <2>2. (b - 1) * Block < x /\ x <= b * Block BY <1>12, <1>19
  <2> QED BY ONLY <1>19, <2>1, <2>2, BlockNoIs
<1>21. RegionEnd(c, mem, b) \in b .. Len(c.blk) BY ONLY <1>7, <1>10, <1>11, RegionEndIs
<1>22. r = [box |-> j, to |-> RegionEnd(c, mem, b)]
  <2>1. r = [box |-> BoxAt(d, a),
             to |-> RegionEnd(d.boxes[BoxAt(d, a)], mem, BlockNo(a - d.boxes[BoxAt(d, a)].fptr + 1))]
    BY DEF RegionOf
  <2> QED BY ONLY <1>18, <1>20, <2>1, c = d.boxes[j], q = c.fptr, x = a - q + 1
<1>23. r.box = j /\ r.to = RegionEnd(c, mem, b) BY ONLY <1>22
<1> QED BY <1>10, <1>11, <1>21, <1>23

-----------------------------------------------------------------------------
(* The inductive invariant, as long as the process has not crashed *)

DbInv(d, m) ==
  DbOK(d) /\ Linked(d.boxes) /\ Filled(d.boxes) /\ Placed(d) /\ Known(d.boxes, m)

DirsOK ==
  /\ Listed(dcpFile) /\ DOMAIN tmp \subseteq Id /\ DOMAIN l4 \subseteq Id
  /\ lastEntry \in Kinds \cup {"none"}

CursorOK == cursor.reset \in BOOLEAN /\ cursor.at \in 1 .. MaxSize + 2

CountsOK ==
  /\ ckptID \in 0 .. MaxCkpt /\ edits \in 0 .. MaxEdit /\ faults \in 0 .. MaxFault
  /\ spoilt \subseteq Causes

CleanOK == spoilt \cap {"unwritten", "cursor"} = {} => Clean(db, dcpFile)

Alive == up = TRUE /\ MemOK(mem) /\ DbInv(db, mem) /\ DirsOK /\ CursorOK /\ CountsOK /\ CleanOK

FileInv == crashes \in 0 .. MaxCrash /\ (crashes = 0 => Alive)

Bounds == MaxCkpt \in Nat /\ MaxEdit \in Nat /\ MaxFault \in Nat /\ MaxCrash \in Nat

LEMMA BoundsHold == Bounds
BY BoundsAssumption DEF Bounds

LEMMA FreshIs ==
  ASSUME NEW n \in 1 .. MaxSize
  PROVE  Fresh(n) \in Seq(Bit) /\ Len(Fresh(n)) = n
<1>1. n \in Nat BY SizesAssumption
<1> PICK s : s = [c \in 1 .. n |-> 1] OBVIOUS
<1>2. s = [c \in 1 .. n |-> s[c]] OBVIOUS
<1>3. Listed(s) /\ Len(s) = n BY <1>1, <1>2, FunctionIsListed
<1>4. \A c \in 1 .. Len(s) : s[c] \in Bit BY <1>3 DEF Bit
<1>5. s \in Seq(Bit) BY ONLY <1>3, <1>4, ListedIsSeq
<1> QED BY <1>3, <1>5 DEF Fresh

LEMMA EmptyIs ==
  ASSUME NEW s, s = <<>>
  PROVE  Listed(s) /\ DOMAIN s = {}
<1>1. Listed(s) /\ Len(s) = 0 BY DEF Listed
<1>2. DOMAIN s = 1 .. 0 BY <1>1, ListedDomain
<1> QED BY <1>1, <1>2

LEMMA InitAlive ==
  ASSUME Init
  PROVE  FileInv
<1>1. NVar \in Nat \ {0} /\ MaxSize \in Nat \ {0} BY SizesAssumption
<1> PICK n : n = MaxOf(1, NVar - 1) OBVIOUS
<1> PICK l : l = MaxOf(1, MaxSize - 1) OBVIOUS
<1>2. n \in 1 .. NVar /\ l \in 1 .. MaxSize BY <1>1 DEF MaxOf
<1>3. MemOK(mem)
  <2>1. mem = [i \in 1 .. n |-> Fresh(l)] BY DEF Init
  <2>2. mem = [i \in 1 .. n |-> mem[i]] /\ n \in Nat BY <1>1, <1>2, <2>1
  <2>3. Listed(mem) /\ Len(mem) = n BY <2>2, FunctionIsListed
  <2>4. Fresh(l) \in Seq(Bit) /\ Len(Fresh(l)) = l BY <1>2, FreshIs
  <2>5. \A i \in 1 .. Len(mem) : mem[i] = Fresh(l) BY <2>1, <2>3
  <2> QED BY <1>2, <2>3, <2>4, <2>5 DEF MemOK
<1>4. db = [blocks |-> <<>>, boxes |-> <<>>] BY DEF Init, NoDb
<1>5. db.blocks = <<>> /\ db.boxes = <<>> BY <1>4
<1>6. Len(db.blocks) = 0 /\ Len(db.boxes) = 0 /\ Listed(db.blocks) /\ Listed(db.boxes)
  BY <1>5 DEF Listed
<1>7. DbOK(db) BY <1>4, <1>5, <1>6 DEF DbOK
<1>8. EndOf(db) = 1 BY <1>6, <1>7, EndIs
<1>9. Metas(db) = {} BY <1>6 DEF Metas
<1>10. Linked(db.boxes) /\ Filled(db.boxes) /\ Known(db.boxes, mem)
  BY <1>6 DEF Linked, Filled, Known
<1>11. Placed(db) BY <1>6, <1>8, <1>9 DEF Placed
<1>12. Clean(db, dcpFile) BY <1>6 DEF Clean
<1>13. DirsOK
  <2>1. dcpFile = <<>> /\ tmp = <<>> /\ l4 = <<>> /\ lastEntry = "none" BY DEF Init
  <2>2. Listed(dcpFile) BY <2>1, EmptyIs
  <2>3. DOMAIN tmp = {} BY <2>1, EmptyIs
  <2>4. DOMAIN l4 = {} BY <2>1, EmptyIs
  <2>5. DOMAIN tmp \subseteq Id /\ DOMAIN l4 \subseteq Id BY ONLY <2>3, <2>4
  <2>6. lastEntry \in Kinds \cup {"none"} BY <2>1
  <2> QED BY ONLY <2>2, <2>5, <2>6 DEF DirsOK
<1>14. CursorOK
  <2>1. cursor = [reset |-> FALSE, at |-> 1] BY DEF Init, Start
  <2>2. cursor.reset = FALSE /\ cursor.at = 1 BY <2>1
  <2>3. cursor.reset \in BOOLEAN BY ONLY <2>2
  <2>4. cursor.at \in 1 .. MaxSize + 2 BY ONLY <1>1, <2>2
  <2> QED BY ONLY <2>3, <2>4 DEF CursorOK
<1>15. CountsOK BY BoundsHold DEF CountsOK, Init, Bounds
<1>16. up = TRUE /\ crashes \in 0 .. MaxCrash BY BoundsHold DEF Init, Bounds
<1> QED BY <1>3, <1>7, <1>10, <1>11, <1>12, <1>13, <1>14, <1>15, <1>16
        DEF FileInv, Alive, DbInv, CleanOK

\* FTI_Protect and the changes of the protected data leave everything else alone.
LEMMA EditedAlive ==
  ASSUME Alive, NEW m, Edited(m), MemOK(m), Len(m) >= Len(mem)
  PROVE  Alive'
<1>1. mem' = m /\ edits' = edits + 1 /\ edits < MaxEdit BY DEF Edited
<1>2. UNCHANGED <<db, files, cursor, up, ckptID, faults, crashes, history>> BY DEF Edited
<1>3. UNCHANGED <<db, dcpFile, tmp, l4, lastEntry, cursor, up, ckptID, faults, spoilt>>
  BY <1>2 DEF files, history
<1>4. DbInv(db, m)
  <2>1. Len(mem) \in Nat /\ Len(m) \in Nat BY DEF Alive, MemOK, Listed
  <2>2. \A k \in 1 .. Len(db.boxes) : db.boxes[k].id \in 1 .. Len(mem) BY DEF Alive, DbInv, Known
  <2>3. Known(db.boxes, m) BY <2>1, <2>2 DEF Known
  <2> QED BY <2>3 DEF Alive, DbInv
<1>5. DbInv(db', mem') BY <1>1, <1>3, <1>4
<1>6. DirsOK' BY <1>3 DEF Alive, DirsOK
<1>7. CursorOK' BY <1>3 DEF Alive, CursorOK
<1>8. CountsOK' BY <1>1, <1>3, BoundsHold DEF Alive, CountsOK, Bounds
<1>9. CleanOK'
  <2>1. CleanOK BY DEF Alive
  <2> QED BY <1>3, <2>1 DEF CleanOK, Clean, OnFile
<1> QED BY <1>1, <1>3, <1>5, <1>6, <1>7, <1>8, <1>9 DEF Alive

LEMMA MemReplaced ==
  ASSUME MemOK(mem), NEW i \in 1 .. Len(mem), NEW v, v \in Seq(Bit), Len(v) \in 1 .. MaxSize,
         NEW m, m = [mem EXCEPT ![i] = v]
  PROVE  MemOK(m) /\ Len(m) = Len(mem)
<1>1. Listed(mem) /\ Len(mem) \in Nat /\ DOMAIN mem = 1 .. Len(mem) BY ListedDomain DEF MemOK, Listed
<1>2. m = [k \in 1 .. Len(mem) |-> m[k]] BY <1>1
<1>3. Listed(m) /\ Len(m) = Len(mem) BY <1>1, <1>2, FunctionIsListed
<1>4. ASSUME NEW k \in 1 .. Len(m) PROVE m[k] \in Seq(Bit) /\ Len(m[k]) \in 1 .. MaxSize
  <2>1. k \in 1 .. Len(mem) BY <1>3
  <2>2. m[k] = IF k = i THEN v ELSE mem[k] BY <1>1, <2>1
  <2>3. mem[k] \in Seq(Bit) /\ Len(mem[k]) \in 1 .. MaxSize BY <2>1 DEF MemOK
  <2> QED BY <2>2, <2>3
<1>5. Len(m) \in 1 .. NVar BY <1>3 DEF MemOK
<1> QED BY <1>3, <1>4, <1>5 DEF MemOK

LEMMA ChangeCellAlive ==
  ASSUME Alive, ChangeCell
  PROVE  Alive'
<1>1. MemOK(mem) BY DEF Alive
<1>2. Listed(mem) /\ Len(mem) \in Nat /\ DOMAIN mem = 1 .. Len(mem)
  BY <1>1, ListedDomain DEF MemOK, Listed
<1>11. PICK i \in 1 .. Len(mem) : \E c \in DOMAIN mem[i] : Edited([mem EXCEPT ![i][c] = 1 - @])
  BY <1>2 DEF ChangeCell
<1>3. PICK c \in DOMAIN mem[i] : Edited([mem EXCEPT ![i][c] = 1 - @]) BY <1>11
<1> PICK u : u = mem[i] OBVIOUS
<1> PICK v : v = [u EXCEPT ![c] = 1 - @] OBVIOUS
<1> PICK m : m = [mem EXCEPT ![i] = v] OBVIOUS
<1>4. u \in Seq(Bit) /\ Len(u) \in 1 .. MaxSize BY <1>1 DEF MemOK
<1>5. c \in 1 .. Len(u) /\ u[c] \in {0, 1} BY <1>4 DEF Bit
<1>6. 1 - u[c] \in Bit BY <1>5 DEF Bit
<1>7. v \in Seq(Bit) /\ Len(v) = Len(u) BY <1>4, <1>5, <1>6
<1>8. m = [mem EXCEPT ![i][c] = 1 - @] BY <1>2
<1>9. MemOK(m) /\ Len(m) = Len(mem) BY <1>1, <1>4, <1>7, MemReplaced
<1>10. Edited(m) BY <1>3, <1>8
<1>12. Len(m) >= Len(mem) BY ONLY <1>2, <1>9
<1> QED BY ONLY Alive, <1>9, <1>10, <1>12, EditedAlive

LEMMA ResizeAlive ==
  ASSUME Alive, Resize
  PROVE  Alive'
<1>1. MemOK(mem) BY DEF Alive
<1>2. Listed(mem) /\ Len(mem) \in Nat /\ DOMAIN mem = 1 .. Len(mem)
  BY <1>1, ListedDomain DEF MemOK, Listed
<1>3. PICK i \in 1 .. Len(mem), n \in 1 .. MaxSize :
        Edited([mem EXCEPT ![i] = [c \in 1 .. n |-> IF c <= Len(@) THEN @[c] ELSE 1]])
  BY <1>2 DEF Resize
<1> PICK u : u = mem[i] OBVIOUS
<1> PICK v : v = [c \in 1 .. n |-> IF c <= Len(u) THEN u[c] ELSE 1] OBVIOUS
<1> PICK m : m = [mem EXCEPT ![i] = v] OBVIOUS
<1>4. u \in Seq(Bit) /\ Len(u) \in 1 .. MaxSize BY <1>1 DEF MemOK
<1>5. n \in Nat /\ v = [c \in 1 .. n |-> v[c]] BY SizesAssumption
<1>6. Listed(v) /\ Len(v) = n BY <1>5, FunctionIsListed
<1>7. \A c \in 1 .. Len(v) : v[c] \in Bit
  <2> SUFFICES ASSUME NEW c \in 1 .. Len(v) PROVE v[c] \in Bit OBVIOUS
  <2>1. v[c] = IF c <= Len(u) THEN u[c] ELSE 1 BY <1>6
  <2>2. c <= Len(u) => u[c] \in Bit BY <1>4, <1>6, <1>5
  <2> QED BY <2>1, <2>2 DEF Bit
<1>8. v \in Seq(Bit) /\ Len(v) \in 1 .. MaxSize BY <1>6, <1>7, ListedIsSeq
<1>9. m = [mem EXCEPT ![i] = [c \in 1 .. n |-> IF c <= Len(@) THEN @[c] ELSE 1]] BY <1>2
<1>10. MemOK(m) /\ Len(m) = Len(mem) BY <1>1, <1>8, MemReplaced
<1>11. Edited(m) BY <1>3, <1>9
<1>12. Len(m) >= Len(mem) BY ONLY <1>2, <1>10
<1> QED BY ONLY Alive, <1>10, <1>11, <1>12, EditedAlive

LEMMA ProtectAlive ==
  ASSUME Alive, Protect
  PROVE  Alive'
<1>1. MemOK(mem) BY DEF Alive
<1>2. Listed(mem) /\ Len(mem) \in Nat BY <1>1 DEF MemOK, Listed
<1>3. PICK n \in 1 .. MaxSize : Edited(Append(mem, Fresh(n))) BY DEF Protect
<1> PICK m : m = Append(mem, Fresh(n)) OBVIOUS
<1>4. Fresh(n) \in Seq(Bit) /\ Len(Fresh(n)) = n BY FreshIs
<1>5. /\ Listed(m) /\ Len(m) = Len(mem) + 1
      /\ \A k \in 1 .. Len(mem) : m[k] = mem[k]
      /\ m[Len(mem) + 1] = Fresh(n)
  BY <1>2, AppendAt
<1>6. Len(m) \in 1 .. NVar
  <2>1. Len(mem) < NVar /\ NVar \in Nat BY SizesAssumption DEF Protect
  <2> QED BY ONLY <1>2, <1>5, <2>1
<1>7. \A k \in 1 .. Len(m) : m[k] \in Seq(Bit) /\ Len(m[k]) \in 1 .. MaxSize
  <2> SUFFICES ASSUME NEW k \in 1 .. Len(m) PROVE m[k] \in Seq(Bit) /\ Len(m[k]) \in 1 .. MaxSize
    OBVIOUS
  <2>1. CASE k = Len(mem) + 1
    <3>1. m[k] = Fresh(n) BY <1>5, <2>1
    <3> QED BY <1>4, <3>1
  <2>2. CASE k # Len(mem) + 1
    <3>1. k \in 1 .. Len(mem) BY <1>2, <1>5, <2>2
    <3>2. m[k] = mem[k] BY <1>5, <3>1
    <3>3. mem[k] \in Seq(Bit) /\ Len(mem[k]) \in 1 .. MaxSize BY <1>1, <3>1 DEF MemOK
    <3> QED BY <3>2, <3>3
  <2> QED BY <2>1, <2>2
<1>8. MemOK(m) BY <1>5, <1>6, <1>7 DEF MemOK
<1>9. Len(m) >= Len(mem) BY <1>2, <1>5
<1>10. Edited(m) BY <1>3
<1> QED BY <1>8, <1>9, <1>10, EditedAlive

\* What a checkpoint, failed or not, leaves of the data blocks.
LEMMA SavedDb ==
  ASSUME MemOK(mem), DbInv(db, mem), NEW d, d = UpdateDatastruct(db, mem),
         NEW e, DbOK(e), Alike(d, e)
  PROVE  /\ DbInv(e, mem)
         /\ DbOK(d) /\ Placed(d) /\ Suits(d.boxes, mem) /\ Keeps(db, d) /\ Len(db.boxes) \in Nat
<1>1. DbOK(db) /\ Linked(db.boxes) /\ Placed(db) /\ Known(db.boxes, mem) BY DEF DbInv
<1>2. DbOK(d) /\ Linked(d.boxes) /\ Placed(d) /\ Suits(d.boxes, mem) /\ Keeps(db, d)
  BY ONLY MemOK(mem), <1>1, d = UpdateDatastruct(db, mem), UpdateKeeps
<1>3. Linked(e.boxes) /\ Placed(e) /\ Suits(e.boxes, mem) BY <1>2, AlikeStays
<1>4. Filled(e.boxes) BY <1>3, SuitsFills
<1>5. Known(e.boxes, mem) BY <1>3 DEF Suits, Known
<1>6. Len(db.boxes) \in Nat BY <1>1, DbParts
<1> QED BY <1>2, <1>3, <1>4, <1>5, <1>6 DEF DbInv

LEMMA WritesAre ==
  ASSUME NEW slot, NEW w \in Writes(slot)
  PROVE  /\ w.new = UpdateDatastruct(db, mem)
         /\ w.hashed = Hashed(w.new, mem, slot)
         /\ w.meta = MetaOps(w.new, w.hashed) /\ w.data = DataOps(w.new, mem)
<1> PICK d : d = UpdateDatastruct(db, mem) OBVIOUS
<1> PICK h : h = Hashed(d, mem, slot) OBVIOUS
<1>1. w = [new |-> d, hashed |-> h, meta |-> MetaOps(d, h), data |-> DataOps(d, mem)]
  BY DEF Writes, WriteOf
<1>2. w.new = d /\ w.hashed = h /\ w.meta = MetaOps(d, h) /\ w.data = DataOps(d, mem) BY ONLY <1>1
<1> QED BY <1>2

LEMMA CompleteAlive ==
  ASSUME Alive, NEW slot, NEW kind \in Kinds, NEW n \in Id, NEW w \in Writes(slot), NEW skip,
         Complete(kind, n, w, skip), faults' \in 0 .. MaxFault
  PROVE  Alive'
<1> PICK d : d = w.new OBVIOUS
<1> PICK h : h = w.hashed OBVIOUS
<1> PICK l : l = Len(d.boxes) + 1 OBVIOUS
<1> PICK x : x = ComparedUpTo(h, mem, l, 0) OBVIOUS
<1> PICK e : e = Flags(kind, x) OBVIOUS
<1>1. d = UpdateDatastruct(db, mem) /\ h = Hashed(d, mem, slot)
      /\ w.meta = MetaOps(d, h) /\ w.data = DataOps(d, mem)
  BY WritesAre
<1>2. db' = e /\ cursor' = Start /\ ckptID' = n
      /\ lastEntry' = (IF Dcp THEN kind ELSE lastEntry)
  BY DEF Complete
<1>3. UNCHANGED <<mem, up, edits, crashes, trying>> BY DEF Complete
<1>4. PICK f : /\ f = Written(Base(kind, n), w, (ToSet(w.meta) \ {skip}) \cup ToSet(w.data))
               /\ IF kind = "dcp"
                  THEN dcpFile' = f /\ UNCHANGED <<tmp, l4>>
                  ELSE l4' = With(tmp, n, f) /\ tmp' = <<>> /\ UNCHANGED dcpFile
  BY DEF Complete
<1>5. spoilt' = spoilt \cup LeftOut(kind, w) \cup SlotFooled(w)
                      \cup (IF skip = NoAddress THEN {} ELSE {"lost"} \cup Mixed(w))
                      \cup (IF cursor = Start THEN {} ELSE {"cursor"})
  BY DEF Complete
<1>6. MemOK(mem) /\ DbInv(db, mem) BY DEF Alive
<1>7. DbOK(d) /\ Placed(d) /\ Suits(d.boxes, mem) /\ Keeps(db, d) /\ Len(db.boxes) \in Nat
  <2>1. DbOK(db) /\ Linked(db.boxes) /\ Placed(db) /\ Known(db.boxes, mem) BY <1>6 DEF DbInv
  <2>2. DbOK(d) BY ONLY <1>1, <1>6, <2>1, UpdateKeeps
  <2> QED BY ONLY <1>1, <1>6, <2>2, AlikeSelf, SavedDb
<1>8. DbOK(h) /\ Alike(d, h) BY ONLY <1>1, <1>7, HashedIs
<1>9. DbOK(x) /\ Alike(h, x) BY ONLY <1>8, x = ComparedUpTo(h, mem, l, 0), ComparedIs
<1>10. DbOK(e) /\ Alike(x, e) BY ONLY <1>9, e = Flags(kind, x), FlagsAlike
<1>11. Alike(d, e)
  <2>1. Alike(d, x) BY ONLY <1>8, <1>9, AlikeChains
  <2> QED BY ONLY <1>10, <2>1, AlikeChains
<1>12. DbInv(e, mem) BY ONLY <1>1, <1>6, <1>10, <1>11, SavedDb
<1> PICK N : N = EndOf(d) - 1 OBVIOUS
<1> PICK ops : ops = (ToSet(w.meta) \ {skip}) \cup ToSet(w.data) OBVIOUS
<1>13. N \in Nat /\ ops \in SUBSET (0 .. N) /\ \A a \in ToSet(DataOps(d, mem)) : a \in ops
  <2>1. N \in Nat /\ MetaOps(d, h) \in Seq(0 .. N) /\ DataOps(d, mem) \in Seq(0 .. N)
    BY <1>7, OpsAre
  <2>2. ToSet(w.meta) \in SUBSET (0 .. N) /\ ToSet(w.data) \in SUBSET (0 .. N)
    BY ONLY <1>1, <2>1, SeqMembers
  <2> QED BY ONLY <1>1, <2>1, <2>2, ops = (ToSet(w.meta) \ {skip}) \cup ToSet(w.data)
<1>14. Listed(dcpFile) BY DEF Alive, DirsOK
<1>15. kind = "dcp" => f = Apply(dcpFile, h, mem, ops) BY <1>4 DEF Written, Base
<1>16. DirsOK'
  <2>1. Listed(dcpFile')
    <3>1. CASE kind = "dcp"
      <4>1. f = Apply(dcpFile, h, mem, ops) /\ dcpFile' = f BY <1>4, <1>15, <3>1
      <4>2. Listed(f) BY ONLY <1>13, <1>14, <4>1, ApplyAt
      <4> QED BY <4>1, <4>2
    <3>2. CASE kind # "dcp" BY <1>4, <1>14, <3>2
    <3> QED BY <3>1, <3>2
  <2>2. DOMAIN tmp' \subseteq Id
    <3>1. DOMAIN tmp \subseteq Id BY DEF Alive, DirsOK
    <3>2. CASE kind = "dcp" BY <1>4, <3>1, <3>2
    <3>3. CASE kind # "dcp"
      <4>1. tmp' = <<>> BY <1>4, <3>3
      <4>2. DOMAIN tmp' = {} BY ONLY <4>1, EmptyIs
      <4> QED BY <4>2
    <3> QED BY <3>2, <3>3
  <2>3. DOMAIN l4' \subseteq Id
    <3>1. DOMAIN tmp \subseteq Id /\ DOMAIN l4 \subseteq Id BY DEF Alive, DirsOK
    <3>2. DOMAIN With(tmp, n, f) = DOMAIN tmp \cup {n} BY DEF With
    <3> QED BY <1>4, <3>1, <3>2
  <2>4. lastEntry' \in Kinds \cup {"none"} BY <1>2 DEF Alive, DirsOK
  <2> QED BY <2>1, <2>2, <2>3, <2>4 DEF DirsOK
<1>17. CursorOK'
  <2>1. Start.reset = FALSE /\ Start.at = 1 BY DEF Start
  <2>2. 1 \in 1 .. MaxSize + 2 BY SizesAssumption
  <2> QED BY ONLY <1>2, <2>1, <2>2 DEF CursorOK
<1>18. CountsOK'
  <2>1. spoilt \subseteq Causes /\ edits' \in 0 .. MaxEdit BY <1>3 DEF Alive, CountsOK
  <2>2. ckptID' \in 0 .. MaxCkpt BY <1>2, BoundsHold DEF Bounds, Id
  <2>3. spoilt' \subseteq Causes BY <1>5, <2>1 DEF LeftOut, SlotFooled, Mixed, Causes
  <2> QED BY <2>1, <2>2, <2>3 DEF CountsOK
<1>19. CleanOK'
  <2> SUFFICES ASSUME spoilt' \cap {"unwritten", "cursor"} = {} PROVE Clean(e, dcpFile')
    BY <1>2 DEF CleanOK
  <2>1. spoilt \cap {"unwritten", "cursor"} = {} /\ cursor = Start BY <1>5
  <2>2. Clean(db, dcpFile) BY <2>1 DEF Alive, CleanOK
  <2>3. CASE kind = "dcp"
    <3>1. Dcp BY <2>3, KindsAssumption
    <3>2. f = Apply(dcpFile, h, mem, ops) /\ dcpFile' = f BY <1>4, <1>15, <2>3
    <3>3. DcpSteps(d, mem, slot, h, x, e) BY <1>1, <2>3 DEF DcpSteps, Flags
    <3>4. Clean(e, f)
      BY ONLY <1>6, <1>7, <1>13, <1>14, <2>1, <2>2, <3>1, <3>2, <3>3, DcpClean
    <3> QED BY <3>2, <3>4
  <2>4. CASE kind # "dcp"
    <3>1. dcpFile' = dcpFile /\ e = x BY <1>4, <2>4 DEF Flags
    <3>2. Clean(d, dcpFile) BY ONLY <1>7, <2>2, KeepsClean
    <3>3. Clean(x, dcpFile)
      BY ONLY <1>1, <1>7, <3>2, x = ComparedUpTo(h, mem, l, 0), ComparedClean
    <3> QED BY <3>1, <3>3
  <2> QED BY <2>3, <2>4
<1>20. DbInv(db', mem') /\ MemOK(mem') /\ up' = TRUE BY <1>2, <1>3, <1>6, <1>12 DEF Alive
<1> QED BY <1>16, <1>17, <1>18, <1>19, <1>20 DEF Alive

\* A checkpoint that has failed: of the blocks of data, and of the file, nothing is said after a
\* dCP, and the file is untouched after a plain one.
LEMMA FailedAlive ==
  ASSUME Alive, NEW kind \in Kinds, NEW n \in Id, Failed(kind, n), CursorOK', Listed(dcpFile'),
         NEW d, d = UpdateDatastruct(db, mem), NEW e, DbOK(e), Alike(d, e), db' = e,
         kind # "dcp" => dcpFile' = dcpFile /\ (Clean(d, dcpFile) => Clean(e, dcpFile))
  PROVE  Alive'
<1>1. /\ faults < MaxFault /\ faults' = faults + 1 /\ ckptID' = n
      /\ tmp' = (IF kind = "dcp" THEN tmp ELSE <<>>)
      /\ spoilt' = spoilt \cup (IF kind = "dcp" THEN {"unwritten"} ELSE {})
      /\ UNCHANGED <<mem, l4, lastEntry, up, edits, crashes, done, trying>>
  BY DEF Failed
<1>2. MemOK(mem) /\ DbInv(db, mem) BY DEF Alive
<1>3. DbInv(e, mem) /\ Keeps(db, d) /\ Len(db.boxes) \in Nat
  BY ONLY <1>2, d = UpdateDatastruct(db, mem), DbOK(e), Alike(d, e), SavedDb
<1>4. DirsOK'
  <2>1. DOMAIN tmp' \subseteq Id
    <3>1. DOMAIN tmp \subseteq Id BY DEF Alive, DirsOK
    <3>2. CASE kind = "dcp" BY <1>1, <3>1, <3>2
    <3>3. CASE kind # "dcp"
      <4>1. tmp' = <<>> BY <1>1, <3>3
      <4>2. DOMAIN tmp' = {} BY ONLY <4>1, EmptyIs
      <4> QED BY <4>2
    <3> QED BY <3>2, <3>3
  <2>2. DOMAIN l4' \subseteq Id /\ lastEntry' \in Kinds \cup {"none"} BY <1>1 DEF Alive, DirsOK
  <2> QED BY <2>1, <2>2 DEF DirsOK
<1>5. CountsOK'
  <2>1. spoilt \subseteq Causes /\ edits' \in 0 .. MaxEdit /\ faults \in 0 .. MaxFault
    BY <1>1 DEF Alive, CountsOK
  <2>2. ckptID' \in 0 .. MaxCkpt BY <1>1, BoundsHold DEF Bounds, Id
  <2>3. spoilt' \subseteq Causes BY <1>1, <2>1 DEF Causes
  <2>4. faults' \in 0 .. MaxFault BY <1>1, <2>1, BoundsHold DEF Bounds
  <2> QED BY <2>1, <2>2, <2>3, <2>4 DEF CountsOK
<1>6. CleanOK'
  <2> SUFFICES ASSUME spoilt' \cap {"unwritten", "cursor"} = {} PROVE Clean(e, dcpFile')
    BY DEF CleanOK
  <2>1. kind # "dcp" /\ spoilt \cap {"unwritten", "cursor"} = {} BY <1>1
  <2>2. Clean(db, dcpFile) BY <2>1 DEF Alive, CleanOK
  <2>3. Clean(d, dcpFile) BY ONLY <1>3, <2>2, KeepsClean
  <2> QED BY <2>1, <2>3
<1>7. DbInv(db', mem') /\ MemOK(mem') /\ up' = TRUE BY <1>1, <1>2, <1>3 DEF Alive
<1> QED BY <1>4, <1>5, <1>6, <1>7 DEF Alive

LEMMA OpenFailsAlive ==
  ASSUME Alive, OpenFails
  PROVE  Alive'
<1>1. PICK kind \in Kinds, n \in Id :
        /\ Failed(kind, n)
        /\ db' = Flags(kind, UpdateDatastruct(db, mem))
        /\ UNCHANGED <<dcpFile, cursor>>
  BY DEF OpenFails
<1> PICK d : d = UpdateDatastruct(db, mem) OBVIOUS
<1> PICK e : e = Flags(kind, d) OBVIOUS
<1>2. MemOK(mem) /\ DbInv(db, mem) BY DEF Alive
<1>3. DbOK(d)
  <2>1. DbOK(db) /\ Linked(db.boxes) /\ Placed(db) /\ Known(db.boxes, mem) BY <1>2 DEF DbInv
  <2> QED BY ONLY <1>2, <2>1, d = UpdateDatastruct(db, mem), UpdateKeeps
<1>4. DbOK(e) /\ Alike(d, e) BY ONLY <1>3, e = Flags(kind, d), FlagsAlike
<1>5. CursorOK' /\ Listed(dcpFile') BY <1>1 DEF Alive, CursorOK, DirsOK
<1>6. kind # "dcp" => dcpFile' = dcpFile /\ (Clean(d, dcpFile) => Clean(e, dcpFile))
  BY <1>1 DEF Flags
<1>7. db' = e BY <1>1
<1> QED BY ONLY Alive, <1>1, <1>4, <1>5, <1>6, <1>7, d = UpdateDatastruct(db, mem), FailedAlive

LEMMA DataFailsAlive ==
  ASSUME Alive, DataFails
  PROVE  Alive'
<1>1. PICK kind \in Kinds, n \in Id, slot \in SlotLeft :
        /\ Failed(kind, n)
        /\ \E w \in Writes(slot) :
             /\ Starts(w.new)
             /\ \E k \in DOMAIN w.data : \E r \in {RegionOf(w.new, w.data[k])} :
                  /\ db' = Flags(kind, ComparedUpTo(w.hashed, mem, r.box, r.to + 1))
                  /\ dcpFile' = IF kind = "plain" THEN dcpFile
                                ELSE Written(dcpFile, w, ToSet(w.meta \o SubSeq(w.data, 1, k - 1)))
                  /\ cursor' = LeftAt(w.new, r)
  BY DEF DataFails
<1>2. PICK w \in Writes(slot) :
        \E k \in DOMAIN w.data : \E r \in {RegionOf(w.new, w.data[k])} :
           /\ db' = Flags(kind, ComparedUpTo(w.hashed, mem, r.box, r.to + 1))
           /\ dcpFile' = IF kind = "plain" THEN dcpFile
                         ELSE Written(dcpFile, w, ToSet(w.meta \o SubSeq(w.data, 1, k - 1)))
           /\ cursor' = LeftAt(w.new, r)
  BY <1>1
<1>3. PICK k \in DOMAIN w.data :
        \E r \in {RegionOf(w.new, w.data[k])} :
           /\ db' = Flags(kind, ComparedUpTo(w.hashed, mem, r.box, r.to + 1))
           /\ dcpFile' = IF kind = "plain" THEN dcpFile
                         ELSE Written(dcpFile, w, ToSet(w.meta \o SubSeq(w.data, 1, k - 1)))
           /\ cursor' = LeftAt(w.new, r)
  BY <1>2
<1> PICK r : r = RegionOf(w.new, w.data[k]) OBVIOUS
<1>4. /\ db' = Flags(kind, ComparedUpTo(w.hashed, mem, r.box, r.to + 1))
      /\ dcpFile' = IF kind = "plain" THEN dcpFile
                    ELSE Written(dcpFile, w, ToSet(w.meta \o SubSeq(w.data, 1, k - 1)))
      /\ cursor' = LeftAt(w.new, r)
  BY <1>3
<1> PICK d : d = w.new OBVIOUS
<1> PICK h : h = w.hashed OBVIOUS
<1> PICK j : j = r.box OBVIOUS
<1> PICK l : l = r.to + 1 OBVIOUS
<1> PICK x : x = ComparedUpTo(h, mem, j, l) OBVIOUS
<1> PICK e : e = Flags(kind, x) OBVIOUS
<1>5. d = UpdateDatastruct(db, mem) /\ h = Hashed(d, mem, slot)
      /\ w.meta = MetaOps(d, h) /\ w.data = DataOps(d, mem)
  BY WritesAre
<1>6. MemOK(mem) /\ DbInv(db, mem) BY DEF Alive
<1>7. DbOK(d) /\ Placed(d)
  <2>1. DbOK(db) /\ Linked(db.boxes) /\ Placed(db) /\ Known(db.boxes, mem) BY <1>6 DEF DbInv
  <2> QED BY ONLY <1>5, <1>6, <2>1, UpdateKeeps
<1>8. DbOK(h) /\ Alike(d, h) BY ONLY <1>5, <1>7, HashedIs
<1>9. DbOK(x) /\ Alike(h, x) BY ONLY <1>8, x = ComparedUpTo(h, mem, j, l), ComparedIs
<1>10. DbOK(e) /\ Alike(x, e) BY ONLY <1>9, e = Flags(kind, x), FlagsAlike
<1>11. Alike(d, e)
  <2>1. Alike(d, x) BY ONLY <1>8, <1>9, AlikeChains
  <2> QED BY ONLY <1>10, <2>1, AlikeChains
<1>12. db' = e BY <1>4
<1> PICK N : N = EndOf(d) - 1 OBVIOUS
<1> PICK s : s = SubSeq(w.data, 1, k - 1) OBVIOUS
<1> PICK ops : ops = ToSet(w.meta \o s) OBVIOUS
<1>13. N \in Nat /\ w.meta \in Seq(0 .. N) /\ w.data \in Seq(0 .. N) BY <1>5, <1>7, OpsAre
<1>14. ops \in SUBSET (0 .. N)
  <2> PICK p : p = k - 1 OBVIOUS
  <2>1. k \in 1 .. Len(w.data) /\ Len(w.data) \in Nat BY <1>13
  <2>2. p \in Nat /\ 0 + p <= Len(w.data) /\ s = SubSeq(w.data, 0 + 1, 0 + p) BY <2>1
  <2>3. s \in Seq(0 .. N)
    <3> PICK u : u = w.data OBVIOUS
    <3> PICK M : M = 0 .. N OBVIOUS
    <3> PICK z : z = 0 OBVIOUS
    <3>1. u \in Seq(M) /\ p \in Nat /\ p <= Len(u) /\ s = SubSeq(u, 1, p) BY <1>13, <2>2
    <3>2. z \in Nat /\ z + p <= Len(u) /\ s = SubSeq(u, z + 1, z + p) BY ONLY <3>1, z = 0
    <3>3. s \in Seq(M) BY ONLY <3>1, <3>2, SubSeqAt
    <3> QED BY <3>3
  <2>4. w.meta \o s \in Seq(0 .. N) BY ONLY <1>13, <2>3
  <2> QED BY ONLY <2>4, ops = ToSet(w.meta \o s), SeqMembers
<1>15. Listed(dcpFile) BY DEF Alive, DirsOK
<1>16. Listed(dcpFile')
  <2>1. CASE kind = "plain" BY <1>4, <1>15, <2>1
  <2>2. CASE kind # "plain"
    <3> PICK f : f = Apply(dcpFile, h, mem, ops) OBVIOUS
    <3>1. dcpFile' = f BY <1>4, <2>2 DEF Written
    <3>2. Listed(f) BY ONLY <1>13, <1>14, <1>15, f = Apply(dcpFile, h, mem, ops), ApplyAt
    <3> QED BY <3>1, <3>2
  <2> QED BY <2>1, <2>2
<1>17. kind # "dcp" => dcpFile' = dcpFile /\ (Clean(d, dcpFile) => Clean(e, dcpFile))
  <2> SUFFICES ASSUME kind # "dcp"
               PROVE  dcpFile' = dcpFile /\ (Clean(d, dcpFile) => Clean(e, dcpFile))
    OBVIOUS
  <2>1. kind = "plain" BY KindsAssumption
  <2>2. dcpFile' = dcpFile BY <1>4, <2>1
  <2>3. e = x BY DEF Flags
  <2>4. ASSUME Clean(d, dcpFile) PROVE Clean(x, dcpFile)
    BY ONLY <1>5, <1>7, <2>4, x = ComparedUpTo(h, mem, j, l), ComparedClean
  <2> QED BY <2>2, <2>3, <2>4
<1>18. CursorOK'
  <2>1. MaxSize \in Nat BY SizesAssumption
  <2>2. CASE ~Dcp
    <3>1. cursor' = [reset |-> TRUE, at |-> MaxSize + 2] BY <1>4, <2>2 DEF LeftAt
    <3>2. cursor'.reset = TRUE /\ cursor'.at = MaxSize + 2 BY ONLY <3>1
    <3>3. cursor'.at \in 1 .. MaxSize + 2 BY ONLY <2>1, <3>2
    <3> QED BY ONLY <3>2, <3>3 DEF CursorOK
  <2>3. CASE Dcp
    <3> PICK a : a = w.data[k] OBVIOUS
    <3>1. a \in ToSet(DataOps(d, mem)) BY <1>5 DEF ToSet
    <3>2. cursor.at \in Nat \ {0} BY <2>1 DEF Alive, CursorOK
    <3>3. r = RegionOf(d, a) OBVIOUS
    <3>4. /\ r.box \in 1 .. Len(d.boxes) /\ Len(d.boxes[r.box].blk) \in 0 .. MaxSize
          /\ r.to \in 1 .. Len(d.boxes[r.box].blk)
      BY ONLY <1>7, <2>3, <3>1, <3>2, <3>3, RegionIs
    <3>5. cursor' = [reset |-> TRUE, at |-> MaxSize + 2] \/ cursor' = [reset |-> FALSE, at |-> r.to + 1]
      BY <1>4 DEF LeftAt
    <3>6. CASE cursor' = [reset |-> TRUE, at |-> MaxSize + 2]
      <4>2. cursor'.reset = TRUE /\ cursor'.at = MaxSize + 2 BY ONLY <3>6
      <4>3. cursor'.at \in 1 .. MaxSize + 2 BY ONLY <2>1, <4>2
      <4> QED BY ONLY <4>2, <4>3 DEF CursorOK
    <3>7. CASE cursor' = [reset |-> FALSE, at |-> r.to + 1]
      <4>2. cursor'.reset = FALSE /\ cursor'.at = r.to + 1 BY ONLY <3>7
      <4>3. cursor'.at \in 1 .. MaxSize + 2 BY ONLY <2>1, <3>4, <4>2
      <4> QED BY ONLY <4>2, <4>3 DEF CursorOK
    <3> QED BY ONLY <3>5, <3>6, <3>7
  <2> QED BY <2>2, <2>3
<1>19. Failed(kind, n) BY <1>1
<1> QED BY ONLY Alive, <1>5, <1>10, <1>11, <1>12, <1>16, <1>17, <1>18, <1>19, FailedAlive

-----------------------------------------------------------------------------
(* The invariant is inductive *)

LEMMA CheckpointAlive ==
  ASSUME Alive, Checkpoint
  PROVE  Alive'
<1>1. PICK kind \in Kinds, n \in Id, slot \in SlotLeft : \E w \in Writes(slot) :
        Complete(kind, n, w, NoAddress)
  BY DEF Checkpoint
<1>2. PICK w \in Writes(slot) : Complete(kind, n, w, NoAddress) BY <1>1
<1>3. faults' \in 0 .. MaxFault BY DEF Checkpoint, Alive, CountsOK
<1> PICK skip : skip = NoAddress OBVIOUS
<1>4. Complete(kind, n, w, skip) BY <1>2
<1> QED BY ONLY Alive, <1>3, <1>4, CompleteAlive

LEMMA CheckpointLosesMetaAlive ==
  ASSUME Alive, CheckpointLosesMeta
  PROVE  Alive'
<1>1. PICK kind \in Kinds, n \in Id, slot \in SlotLeft : \E w \in Writes(slot) :
        \E skip \in ToSet(w.meta) : Complete(kind, n, w, skip)
  BY DEF CheckpointLosesMeta
<1>2. PICK w \in Writes(slot) : \E skip \in ToSet(w.meta) : Complete(kind, n, w, skip) BY <1>1
<1>3. PICK skip : Complete(kind, n, w, skip) BY <1>2
<1>4. faults' \in 0 .. MaxFault
  BY BoundsHold DEF CheckpointLosesMeta, Alive, CountsOK, Bounds
<1> QED BY ONLY Alive, <1>3, <1>4, CompleteAlive

LEMMA UnchangedAlive ==
  ASSUME Alive, UNCHANGED vars
  PROVE  Alive'
<1>1. /\ UNCHANGED <<mem, db, files, cursor, up, ckptID, counters, history>>
      /\ UNCHANGED <<dcpFile, tmp, l4, lastEntry, edits, faults, spoilt>>
  BY DEF vars, files, counters, history
<1>2. DirsOK' BY <1>1 DEF Alive, DirsOK
<1>3. CursorOK' BY <1>1 DEF Alive, CursorOK
<1>4. CountsOK' BY <1>1 DEF Alive, CountsOK
<1>5. CleanOK'
  <2>1. CleanOK BY DEF Alive
  <2> QED BY <1>1, <2>1 DEF CleanOK, Clean, OnFile
<1>6. MemOK(mem') /\ DbInv(db', mem') /\ up' = TRUE BY <1>1 DEF Alive
<1> QED BY <1>2, <1>3, <1>4, <1>5, <1>6 DEF Alive

\* A crash counts.
LEMMA DiesCounts ==
  ASSUME Dies, crashes \in 0 .. MaxCrash
  PROVE  crashes' \in 0 .. MaxCrash /\ crashes' # 0
<1>1. MaxCrash \in Nat BY BoundsHold DEF Bounds
<1>2. crashes < MaxCrash /\ crashes' = crashes + 1 BY DEF Dies
<1> QED BY <1>1, <1>2

LEMMA FileInvInductive ==
  ASSUME FileInv, [Next]_vars
  PROVE  FileInv'
<1>1. crashes \in 0 .. MaxCrash /\ (crashes = 0 => Alive) BY DEF FileInv
<1>2. ASSUME crashes' = crashes, Alive => Alive' PROVE FileInv' BY <1>1, <1>2 DEF FileInv
<1>3. ASSUME Dies PROVE FileInv'
  <2>1. crashes' \in 0 .. MaxCrash /\ crashes' # 0 BY ONLY <1>1, <1>3, DiesCounts
  <2> QED BY <2>1 DEF FileInv
<1>4. CASE ChangeCell
  <2>1. crashes' = crashes BY <1>4 DEF ChangeCell, Edited
  <2> QED BY <1>2, <1>4, <2>1, ChangeCellAlive
<1>5. CASE Resize
  <2>1. crashes' = crashes BY <1>5 DEF Resize, Edited
  <2> QED BY <1>2, <1>5, <2>1, ResizeAlive
<1>6. CASE Protect
  <2>1. crashes' = crashes BY <1>6 DEF Protect, Edited
  <2> QED BY <1>2, <1>6, <2>1, ProtectAlive
<1>7. CASE Checkpoint
  <2>1. crashes' = crashes BY <1>7 DEF Checkpoint, Complete
  <2> QED BY <1>2, <1>7, <2>1, CheckpointAlive
<1>8. CASE CheckpointLosesMeta
  <2>1. crashes' = crashes BY <1>8 DEF CheckpointLosesMeta, Complete
  <2> QED BY <1>2, <1>8, <2>1, CheckpointLosesMetaAlive
<1>9. CASE OpenFails
  <2>1. crashes' = crashes BY <1>9 DEF OpenFails, Failed
  <2> QED BY <1>2, <1>9, <2>1, OpenFailsAlive
<1>10. CASE DataFails
  <2>1. crashes' = crashes BY <1>10 DEF DataFails, Failed
  <2> QED BY <1>2, <1>10, <2>1, DataFailsAlive
<1>11. CASE Crash BY <1>3, <1>11 DEF Crash
<1>12. CASE CrashInWrite BY <1>3, <1>12 DEF CrashInWrite
<1>13. CASE CrashBeforeRename BY <1>3, <1>13 DEF CrashBeforeRename
<1>14. CASE Restart
  <2>1. crashes' = crashes /\ up # TRUE BY <1>14 DEF Restart, counters
  <2>2. ~Alive BY <2>1 DEF Alive
  <2> QED BY <1>2, <2>1, <2>2
<1>15. CASE UNCHANGED vars
  <2>1. crashes' = crashes BY <1>15 DEF vars, counters
  <2> QED BY <1>2, <1>15, <2>1, UnchangedAlive
<1> QED BY <1>4, <1>5, <1>6, <1>7, <1>8, <1>9, <1>10, <1>11, <1>12, <1>13, <1>14, <1>15 DEF Next

-----------------------------------------------------------------------------
(* What the invariant says *)

LEMMA AliveTypes ==
  ASSUME Alive, crashes \in 0 .. MaxCrash
  PROVE  TypeOK
<1>1. mem \in Seq(Seq(Bit)) /\ DOMAIN mem \subseteq Var
      /\ \A i \in DOMAIN mem : Len(mem[i]) \in 1 .. MaxSize
  <2>1. MemOK(mem) BY DEF Alive
  <2>2. Listed(mem) /\ Len(mem) \in 1 .. NVar BY <2>1 DEF MemOK
  <2>3. DOMAIN mem = 1 .. Len(mem) BY <2>2, ListedDomain
  <2>4. \A i \in 1 .. Len(mem) : mem[i] \in Seq(Bit) /\ Len(mem[i]) \in 1 .. MaxSize
    BY <2>1 DEF MemOK
  <2>5. mem \in Seq(Seq(Bit)) BY <2>2, <2>4, ListedIsSeq
  <2>6. 1 .. Len(mem) \subseteq 1 .. NVar BY ONLY <2>2, SizesAssumption
  <2> QED BY <2>3, <2>4, <2>5, <2>6 DEF Var
<1>2. \A k \in DOMAIN db.boxes :
        /\ db.boxes[k].chunk \in 0 .. db.boxes[k].csize
        /\ db.boxes[k].has = (db.boxes[k].chunk > 0)
        /\ Len(db.boxes[k].blk) = IF Dcp THEN NumBlocks(db.boxes[k].chunk) ELSE 0
  <2>1. DbOK(db) BY DEF Alive, DbInv
  <2>2. DOMAIN db.boxes = 1 .. Len(db.boxes) BY <2>1, DbParts
  <2> SUFFICES ASSUME NEW k \in 1 .. Len(db.boxes), NEW c, c = db.boxes[k]
               PROVE  /\ c.chunk \in 0 .. c.csize /\ c.has = (c.chunk > 0)
                      /\ Len(c.blk) = IF Dcp THEN NumBlocks(c.chunk) ELSE 0
    BY <2>2
  <2>3. BoxOK(c) BY <2>1 DEF DbOK
  <2> QED BY <2>3 DEF BoxOK, MarksOK, Blocks
<1>3. DOMAIN tmp \subseteq Id /\ DOMAIN l4 \subseteq Id /\ lastEntry \in Kinds \cup {"none"}
  BY DEF Alive, DirsOK
<1>4. cursor.reset \in BOOLEAN /\ cursor.at \in 1 .. MaxSize + 2 BY DEF Alive, CursorOK
<1>5. /\ up \in BOOLEAN /\ ckptID \in 0 .. MaxCkpt /\ edits \in 0 .. MaxEdit
      /\ faults \in 0 .. MaxFault /\ spoilt \subseteq Causes
  BY DEF Alive, CountsOK
<1> QED BY <1>1, <1>2, <1>3, <1>4, <1>5 DEF TypeOK

\* The earlier containers, as a sequence of their own, have what the prefix has.
LEMMA HeldBefore ==
  ASSUME NEW boxes, Sized(boxes), NEW k \in 1 .. Len(boxes), NEW i
  PROVE  Held(SubSeq(boxes, 1, k - 1), i) = Prefix(boxes, k - 1, i)
<1>1. Listed(boxes) /\ Len(boxes) \in Nat BY DEF Sized, Listed
<1> PICK S : S = {boxes[x] : x \in 1 .. Len(boxes)} OBVIOUS
<1> PICK n : n = k - 1 OBVIOUS
<1> PICK z : z = 0 OBVIOUS
<1> PICK s : s = SubSeq(boxes, 1, n) OBVIOUS
<1>2. n \in 0 .. Len(boxes) /\ n \in Nat BY <1>1
<1>3. boxes \in Seq(S) BY <1>1, ListedIsSeq
<1>4. z \in Nat /\ z + n <= Len(boxes) /\ s = SubSeq(boxes, z + 1, z + n) BY <1>1, <1>2
<1>5. s \in Seq(S) /\ Len(s) = n /\ \A j \in 1 .. n : s[j] = boxes[z + j]
  BY ONLY <1>2, <1>3, <1>4, SubSeqAt
<1>6. \A j \in 1 .. n : s[j] = boxes[j] BY <1>5
<1>7. Listed(s) BY <1>5, SeqIsListed
<1>8. Sized(s)
  <2>1. \A j \in 1 .. n : boxes[j].csize \in Nat BY <1>1, <1>2 DEF Sized
  <2> QED BY <1>5, <1>6, <1>7, <2>1 DEF Sized
<1>9. Held(s, i) = Prefix(s, n, i)
  <2>1. Held(s, i) = Prefix(s, Len(s), i) BY ONLY <1>7, HeldIsPrefix
  <2> QED BY <1>5, <2>1
<1>10. Of(boxes, n, i) = Of(s, n, i) BY <1>6 DEF Of
<1>11. \A j \in Of(boxes, n, i) : s[j].csize = boxes[j].csize BY <1>6 DEF Of
<1>12. n <= Len(s) /\ n \in 0 .. Len(s) BY ONLY <1>2, <1>5
<1>13. Prefix(s, n, i) = Prefix(boxes, n, i)
  BY ONLY <1>2, <1>8, <1>10, <1>11, <1>12, Sized(boxes), PrefixSame
<1> QED BY <1>9, <1>13

LEMMA AliveLayout ==
  ASSUME Alive
  PROVE  LayoutSound
<1> PICK all : all = db.boxes OBVIOUS
<1> PICK metas : metas = Metas(db) OBVIOUS
<1>1. DbOK(db) /\ Linked(all) /\ Filled(all) /\ Placed(db) BY DEF Alive, DbInv
<1>2. /\ Sized(all) /\ Len(all) \in Nat /\ DOMAIN all = 1 .. Len(all)
      /\ DOMAIN db.blocks = 1 .. Len(db.blocks)
  BY <1>1, DbParts
<1>3. metas = UNION {db.blocks[b].at .. db.blocks[b].at + db.blocks[b].numvars : b \in DOMAIN db.blocks}
  BY <1>2 DEF Metas
<1>4. ASSUME NEW k \in 1 .. Len(all)
      PROVE  /\ all[k].dptr = Held(SubSeq(all, 1, k - 1), all[k].id)
             /\ all[k].has => \A j \in {j \in 1 .. k - 1 : all[j].id = all[k].id} :
                                all[j].chunk = all[j].csize
             /\ Cells(all[k]) \cap metas = {}
             /\ \A j \in 1 .. k - 1 : Cells(all[j]) \cap Cells(all[k]) = {}
  <2> PICK i : i = all[k].id OBVIOUS
  <2>1. all[k].dptr = Prefix(all, k - 1, i) BY <1>1 DEF Linked
  <2>2. Held(SubSeq(all, 1, k - 1), i) = Prefix(all, k - 1, i) BY ONLY <1>2, HeldBefore
  <2>3. \A j \in 1 .. k - 1 : j \in 1 .. Len(all) /\ j < k /\ j # k BY <1>2
  <2>4. all[k].has => \A j \in {j \in 1 .. k - 1 : all[j].id = all[k].id} : all[j].chunk = all[j].csize
    BY <1>1, <2>3 DEF Filled
  <2>5. Cells(all[k]) \cap metas = {} BY <1>1 DEF Placed
  <2>6. \A j \in 1 .. k - 1 : Cells(all[j]) \cap Cells(all[k]) = {} BY <1>1, <2>3 DEF Placed
  <2> QED BY <2>1, <2>2, <2>4, <2>5, <2>6
<1>5. (UNION {Cells(all[k]) : k \in 1 .. Len(all)}) \cup metas = 1 .. EndOf(db) - 1
  <2>1. \A x : x \in 1 .. EndOf(db) - 1 <=> x \in metas \/ \E k \in 1 .. Len(all) : x \in Cells(all[k])
    BY <1>1 DEF Placed
  <2> QED BY <2>1
<1> PICK S : S = DOMAIN all OBVIOUS
<1>6. S = 1 .. Len(all) BY <1>2
<1>7. (UNION {Cells(all[k]) : k \in S}) \cup metas = 1 .. EndOf(db) - 1 BY <1>5, <1>6
<1>8. \A k \in S : /\ all[k].dptr = Held(SubSeq(all, 1, k - 1), all[k].id)
                   /\ all[k].has => \A j \in {j \in 1 .. k - 1 : all[j].id = all[k].id} :
                                      all[j].chunk = all[j].csize
                   /\ Cells(all[k]) \cap metas = {}
                   /\ \A j \in 1 .. k - 1 : Cells(all[j]) \cap Cells(all[k]) = {}
  BY <1>4, <1>6
<1> QED BY ONLY <1>3, <1>7, <1>8, all = db.boxes, S = DOMAIN all DEF LayoutSound

LEMMA AliveClean ==
  ASSUME Alive
  PROVE  CleanIsOnFile
<1>1. DbOK(db) BY DEF Alive, DbInv
<1>2. DOMAIN db.boxes = 1 .. Len(db.boxes) BY <1>1, DbParts
<1>3. \A k \in 1 .. Len(db.boxes) : DOMAIN db.boxes[k].blk = 1 .. Len(db.boxes[k].blk)
  BY <1>1, ListedDomain DEF DbOK, BoxOK, MarksOK
<1> SUFFICES ASSUME spoilt \cap {"unwritten", "cursor"} = {},
                    NEW k \in 1 .. Len(db.boxes), NEW b \in 1 .. Len(db.boxes[k].blk),
                    db.boxes[k].blk[b].valid
             PROVE  \A x \in DOMAIN db.boxes[k].blk[b].hash :
                      CellAt(dcpFile, db.boxes[k].fptr + (b - 1) * Block + x - 1)
                        = Datum(db.boxes[k].blk[b].hash[x])
  BY <1>2, <1>3 DEF CleanIsOnFile
<1>4. Clean(db, dcpFile) BY DEF Alive, CleanOK
<1>5. OnFile(dcpFile, db.boxes[k], b) BY <1>4 DEF Clean
<1> QED BY <1>5 DEF OnFile

LEMMA FileInvHolds == Spec => []FileInv
<1>1. Init => FileInv BY InitAlive
<1>2. FileInv /\ [Next]_vars => FileInv' BY FileInvInductive
<1> QED BY <1>1, <1>2, PTL DEF Spec

\* Until the process has crashed, every operation leaves the state well-typed: in particular a
\* container has exactly the block marks its part in use calls for, however often it was
\* collapsed, expanded, emptied and taken into use again (FTI_CollapseBlockHashArray,
\* FTI_ExpandBlockHashArray).  After a crash the containers are what the file says.
THEOREM TypeIsOK == Spec => [](crashes = 0 => TypeOK)
<1>1. FileInv => (crashes = 0 => TypeOK) BY AliveTypes DEF FileInv
<1> QED BY <1>1, FileInvHolds, PTL

\* Until the process has crashed, whatever variables are protected, grow and shrink and
\* whichever checkpoints fail, FTIFF_UpdateDatastructFTIFF keeps the file layout sound:
\* containers of a variable follow each other without a gap, and structures neither share a
\* cell nor leave one out.
THEOREM LayoutIsSound == Spec => [](crashes = 0 => LayoutSound)
<1>1. FileInv => (crashes = 0 => LayoutSound) BY AliveLayout DEF FileInv
<1> QED BY <1>1, FileInvHolds, PTL

\* Until the process has crashed, and unless a dCP failed to write its data, a block that
\* FTI_HashCmp may leave out of the next dCP is in the dCP file with the data it stands for.
THEOREM CleanBlocksAreOnFile == Spec => [](crashes = 0 => CleanIsOnFile)
<1>1. FileInv => (crashes = 0 => CleanIsOnFile) BY AliveClean DEF FileInv
<1> QED BY <1>1, FileInvHolds, PTL

==============================================================================

----------------------------- MODULE BpFileProofs -----------------------------
(* The proofs about BP files: PosixWrite, which writes them, and BpStream, *)
(* where another program reads one at the same time.  Two layers:          *)
(* LayoutInv says where the parts of a file lie and that an index is in    *)
(* order, for every session; ContentInv says what is in the cells, of      *)
(* which every buffered session's are as it wrote them.  ContentInv needs  *)
(* that a buffer fits one call of write: adios_posix_do_write starts every *)
(* round of its loop at the beginning of the buffer.  StaleInv, for the    *)
(* reader, is about the cells of the indices that lie in the file.         *)
(* StreamFileInv and StepsInv, for a reader that comes when the writer has *)
(* finished, tie the index to the log of the sessions and the steps of the *)
(* reader to the index.                                                    *)
EXTENDS BpStream, FiniteSums, TLAPS

(* The cells a session writes while it builds a process group, and those   *)
(* that its close adds behind it: the index and the minifooter.            *)
Kinds == {"pg", "vars", "var", "data", "attrs", "attr", "garbage"}
PlainCell == Kinds \X Nat \X Nat

(* An index: the process groups and the variables written.                 *)
Pg == [sid : Nat, off : Nat, time : Nat]
Entry == [sid : Nat, var : Nat, off : Nat, size : Nat]
Index == [pgs : Seq(Pg), vars : Seq(Entry)]

Cell == PlainCell \cup ({"index"} \X Index \X Nat) \cup ({"footer"} \X Nat \X Nat)

-----------------------------------------------------------------------------
(* The type of the state.                                                  *)

Session ==
  [st : {"closed", "opened", "sized", "flushing"}, mode : {"w", "a", "u", "r"},
   sid : Nat, base : Nat, pgStart : Nat, endOfPgs : Nat, old : Index,
   size : Nat, shared : BOOLEAN, buffer : Seq(PlainCell), pos : Nat,
   varsStart : Nat, varsHeaderSize : Int, written : Seq(Entry), nvars : Nat,
   flushed : Nat]

LogEntry == [sid : Nat, shared : BOOLEAN, nvars : Nat]

(* What adios_posix_fd_struct, the group and the file hold, by type.       *)
TypeInv ==
  /\ group \in [Groups -> [time : Nat, attrs : Nat]]
  /\ fd \in [Groups -> Session]
  /\ file \in [Groups -> Seq(Cell)]
  /\ sessions \in Nat
  /\ log \in [Groups -> Seq(LogEntry)]

-----------------------------------------------------------------------------
(* The layout of a file.                                                   *)

(* The PGs of an index have consecutive times and lie one behind the other *)
(* before the index.                                                       *)
GoodIndex(ix, end) ==
  /\ ix \in Index
  /\ \A i, j \in 1 .. Len(ix.pgs) : i < j =>
       /\ ix.pgs[j].time = ix.pgs[i].time + (j - i)
       /\ ix.pgs[i].off < ix.pgs[j].off
  /\ \A i \in 1 .. Len(ix.pgs) : ix.pgs[i].off < end

(* A file that ends in a minifooter has the whole index in front of it.    *)
GoodFile(f) == Valid(f) =>
  /\ IndexOffset(f) \in Nat
  /\ GoodIndex(IndexOf(f), IndexOffset(f))
  /\ IndexOf(f).pgs # <<>>
  /\ Len(f) = IndexOffset(f) + Len(IndexOf(f).pgs) + 2
  /\ \A k \in 1 .. 1 + Len(IndexOf(f).pgs) :
       f[IndexOffset(f) + k] = <<"index", IndexOf(f), k>>

(* No session is writing the file.                                         *)
Quiet(s) == s.st \in {"closed", "opened"} \/ s.mode = "r"

(* What a session that writes has found in the file and where it writes.   *)
Layout(s, f, time) ==
  /\ s.st = "closed" => s = NoSession
  /\ s.st = "flushing" => s.mode # "r"
  /\ s.st = "opened" =>
       /\ s.base = s.endOfPgs /\ s.buffer = <<>> /\ s.written = <<>>
       /\ s.nvars = 0 /\ s.flushed = 0 /\ ~s.shared
  /\ s.st # "closed" /\ s.mode # "r" =>
       /\ GoodIndex(s.old, s.endOfPgs)
       /\ s.old.pgs # <<>> => time = Last(s.old.pgs).time + 1
       /\ s.pgStart = s.endOfPgs /\ s.endOfPgs <= s.base
       /\ s.endOfPgs <= Len(f)
       /\ Valid(f) => Len(f) = s.endOfPgs + Len(s.old.pgs) + 2
       /\ s.st # "opened" => IF s.shared THEN s.base = s.endOfPgs /\ Len(s.buffer) >= 2
                             ELSE s.base >= s.endOfPgs + 2 /\ s.buffer = <<>>
       /\ s.st = "sized" =>
            /\ s.flushed = 0
            /\ s.shared => s.varsStart = 1
            /\ ~s.shared => s.varsStart = s.endOfPgs + 1 /\ s.pos >= s.base
       /\ s.st = "flushing" =>
            IF s.shared THEN /\ s.pos = s.endOfPgs + s.flushed
                             /\ s.flushed <= Len(s.buffer)
            ELSE s.flushed = 0

(* Every file and the session on it; first half of the inductive           *)
(* invariant.                                                              *)
LayoutInv ==
  \A g \in Groups : /\ Layout(fd[g], file[g], group[g].time)
                    /\ Quiet(fd[g]) => GoodFile(file[g])

-----------------------------------------------------------------------------
(* The contents of a file.                                                 *)

(* Every session of the log was buffered; the session sid was.             *)
AllShared(lg) == \A k \in 1 .. Len(lg) : lg[k].shared
Buffered(lg, sid) == \A k \in 1 .. Len(lg) : lg[k].sid = sid => lg[k].shared

(* The variable of an entry is in the cells, off cells behind the first.   *)
VarAt(cells, off, e) ==
  /\ off + 1 + e.size <= Len(cells)
  /\ cells[off + 1] = VarHeader(e.sid, e.var)
  /\ \A k \in 1 .. e.size : cells[off + 1 + k] = Payload(e.sid, e.var)

(* The entries of the index: the variables lie before it, and those of     *)
(* buffered sessions are as they were written.                             *)
Entries(vs, end, f, lg) ==
  \A i \in 1 .. Len(vs) :
    /\ vs[i].off + 1 + vs[i].size <= end
    /\ Buffered(lg, vs[i].sid) => VarAt(f, vs[i].off, vs[i])

(* The headers of the variables among the cells from i1 to i2 are those of *)
(* the variables 1 .. n of the session.                                    *)
HeadersAre(cells, i1, i2, sid, n) ==
  /\ \A i \in i1 .. i2 : cells[i][1] = "var" =>
       cells[i][2] = sid /\ cells[i][3] \in 1 .. n
  /\ \A v \in 1 .. n : \E i \in i1 .. i2 : cells[i] = VarHeader(sid, v)

(* A file at rest.                                                         *)
Rest(f, lg) ==
  /\ f # <<>> /\ AllShared(lg) => Valid(f)
  /\ Valid(f) =>
       /\ Entries(IndexOf(f).vars, IndexOffset(f), f, lg)
       /\ lg # <<>>
       /\ Last(lg).shared =>
            HeadersAre(f, Last(IndexOf(f).pgs).off + 1, IndexOffset(f),
                       Last(lg).sid, Last(lg).nvars)

(* The sessions have numbers of their own.                                 *)
Numbered(s, f, lg, n) ==
  /\ \A k \in 1 .. Len(lg) : lg[k].sid <= n
  /\ s.st # "closed" => /\ s.sid <= n
                        /\ \A k \in 1 .. Len(lg) : lg[k].sid < s.sid
                        /\ \A i \in 1 .. Len(s.old.vars) : s.old.vars[i].sid < s.sid
                        /\ \A i \in 1 .. Len(s.written) : s.written[i].sid = s.sid
  /\ Quiet(s) /\ Valid(f) =>
       \A i \in 1 .. Len(IndexOf(f).vars) :
         IF s.st = "closed" THEN IndexOf(f).vars[i].sid <= n
         ELSE IndexOf(f).vars[i].sid < s.sid

(* A session that writes: what it keeps of the old file, what it has       *)
(* collected in its buffer, and what of that it has copied to the file.    *)
Writes(s, f, lg) ==
  /\ Entries(s.old.vars, s.endOfPgs, f, lg)
  /\ AllShared(lg) /\ (s.st = "opened" \/ s.shared) =>
       \/ Len(f) <= s.endOfPgs + Len(s.old.pgs) + 2
       \/ Len(f) <= s.endOfPgs + s.flushed
  /\ \A i \in 1 .. Len(s.written) :
       /\ s.written[i].off + 1 + s.written[i].size <= s.base + Len(s.buffer)
       /\ s.shared => /\ s.written[i].off >= s.base + 2
                      /\ VarAt(s.buffer, s.written[i].off - s.base, s.written[i])
  /\ s.shared => HeadersAre(s.buffer, 1, Len(s.buffer), s.sid, s.nvars)
  /\ s.st = "sized" /\ s.shared => s.buffer[2] = Garbage
  /\ s.st = "flushing" /\ s.shared =>
       /\ s.flushed \in {0, Len(s.buffer)}
       /\ s.flushed = Len(s.buffer) =>
            /\ s.endOfPgs + Len(s.buffer) <= Len(f)
            /\ \A i \in 1 .. Len(s.buffer) : f[s.endOfPgs + i] = s.buffer[i]

(* Every file and what is in it; second half of the inductive invariant.   *)
ContentInv ==
  \A g \in Groups :
    /\ Numbered(fd[g], file[g], log[g], sessions)
    /\ Quiet(fd[g]) => Rest(file[g], log[g])
    /\ fd[g].st # "closed" /\ fd[g].mode # "r" => Writes(fd[g], file[g], log[g])

-----------------------------------------------------------------------------
(* Writing to a file.                                                      *)

(* FiniteSetsExt's Max of two numbers.                                     *)
LEMMA MaxOfTwo ==
  ASSUME NEW m \in Nat, NEW n \in Nat
  PROVE  Max({m, n}) = IF m >= n THEN m ELSE n
<1> DEFINE top == IF m >= n THEN m ELSE n
<1>1. top \in {m, n} /\ \A y \in {m, n} : top >= y
  OBVIOUS
<1>2. \A x \in {m, n} : (\A y \in {m, n} : x >= y) => x = top
  OBVIOUS
<1> QED
  BY <1>1, <1>2 DEF Max

(* A write puts the cells at their place, leaves the others, and fills a   *)
(* hole it makes with garbage.                                             *)
LEMMA WriteAtResult ==
  ASSUME NEW f \in Seq(Cell), NEW pos \in Nat, NEW cells \in Seq(Cell)
  PROVE  LET w == WriteAt(f, pos, cells) IN
         /\ w \in Seq(Cell)
         /\ Len(w) = IF Len(f) >= pos + Len(cells) THEN Len(f) ELSE pos + Len(cells)
         /\ \A i \in 1 .. Len(cells) : w[pos + i] = cells[i]
         /\ \A i \in 1 .. Len(w) :
              i <= pos \/ i > pos + Len(cells) =>
                w[i] = IF i <= Len(f) THEN f[i] ELSE Garbage
<1> DEFINE w == WriteAt(f, pos, cells)
           n == IF Len(f) >= pos + Len(cells) THEN Len(f) ELSE pos + Len(cells)
<1>1. n \in Nat /\ Max({Len(f), pos + Len(cells)}) = n
  BY MaxOfTwo
<1>2. w = [i \in 1 .. n |->
             CASE i \in pos + 1 .. pos + Len(cells) -> cells[i - pos]
               [] i \notin pos + 1 .. pos + Len(cells) /\ i <= Len(f) -> f[i]
               [] OTHER -> Garbage]
  BY <1>1 DEF WriteAt
<1>3. \A i \in 1 .. n : i \in pos + 1 .. pos + Len(cells) => w[i] = cells[i - pos]
  BY <1>1, <1>2
<1>4. \A i \in 1 .. n : i \notin pos + 1 .. pos + Len(cells) =>
                          w[i] = IF i <= Len(f) THEN f[i] ELSE Garbage
  BY <1>1, <1>2
<1>5. Garbage \in Cell
  BY DEF Garbage, Cell, PlainCell, Kinds
<1>6. \A i \in 1 .. n : w[i] \in Cell
  <2> TAKE i \in 1 .. n
  <2>1. CASE i \in pos + 1 .. pos + Len(cells)
    <3>1. i - pos \in 1 .. Len(cells)
      BY <1>1, <2>1
    <3> QED
      BY <1>3, <2>1, <3>1
  <2>2. CASE i \notin pos + 1 .. pos + Len(cells)
    BY <1>4, <1>5, <2>2
  <2> QED
    BY <2>1, <2>2
<1>7. w \in Seq(Cell) /\ Len(w) = n
  <2>1. DOMAIN w = 1 .. n /\ w \in [1 .. n -> Cell]
    BY <1>2, <1>6
  <2> HIDE DEF w
  <2> QED
    BY <1>1, <2>1
<1>8. \A i \in 1 .. Len(cells) : pos + i \in 1 .. n /\ (pos + i) - pos = i
  BY <1>1
<1>9. \A i \in 1 .. Len(cells) : w[pos + i] = cells[i]
  BY <1>3, <1>8
<1> HIDE DEF w
<1>10. \A i \in 1 .. n : i <= pos \/ i > pos + Len(cells) =>
                           i \notin pos + 1 .. pos + Len(cells)
  BY <1>1
<1> QED
  BY <1>4, <1>7, <1>9, <1>10 DEF w

(* What a session writes before its close is never a minifooter.           *)
LEMMA PlainIsNoFooter ==
  ASSUME NEW c \in PlainCell
  PROVE  c[1] # "footer"
<1>1. c[1] \in Kinds
  BY DEF PlainCell
<1> QED
  BY <1>1 DEF Kinds

(* Writing plain cells does not make a file valid, and one that still is   *)
(* has kept its length.                                                    *)
LEMMA PlainWrite ==
  ASSUME NEW f \in Seq(Cell), NEW pos \in Nat, NEW cells \in Seq(PlainCell),
         Valid(WriteAt(f, pos, cells))
  PROVE  Valid(f) /\ Len(WriteAt(f, pos, cells)) = Len(f)
<1> DEFINE w == WriteAt(f, pos, cells)
<1>1. cells \in Seq(Cell)
  BY DEF Cell
<1>2. /\ w \in Seq(Cell)
      /\ Len(w) = IF Len(f) >= pos + Len(cells) THEN Len(f) ELSE pos + Len(cells)
      /\ \A i \in 1 .. Len(cells) : w[pos + i] = cells[i]
      /\ \A i \in 1 .. Len(w) :
           i <= pos \/ i > pos + Len(cells) =>
             w[i] = IF i <= Len(f) THEN f[i] ELSE Garbage
  BY <1>1, WriteAtResult
<1> HIDE DEF w
<1>3. w # <<>> /\ w[Len(w)][1] = "footer"
  BY DEF Valid, Last, w
<1>4. Len(w) \in 1 .. Len(w)
  BY <1>2, <1>3
<1>5. \A i \in 1 .. Len(cells) : cells[i][1] # "footer"
  <2> TAKE i \in 1 .. Len(cells)
  <2>1. cells[i] \in PlainCell
    OBVIOUS
  <2> QED
    BY <2>1, PlainIsNoFooter
<1>6. ~(Len(w) > pos /\ Len(w) <= pos + Len(cells))
  <2> SUFFICES ASSUME Len(w) > pos, Len(w) <= pos + Len(cells) PROVE FALSE
    OBVIOUS
  <2>1. Len(w) \in Nat /\ Len(cells) \in Nat
    BY <1>2
  <2>2. Len(w) - pos \in 1 .. Len(cells) /\ pos + (Len(w) - pos) = Len(w)
    BY <2>1
  <2>3. w[Len(w)] = cells[Len(w) - pos]
    BY <1>2, <2>2
  <2> QED
    BY <1>3, <1>5, <2>2, <2>3
<1>7. Garbage[1] # "footer"
  BY DEF Garbage
<1>8. Len(w) <= Len(f) /\ w[Len(w)] = f[Len(w)]
  <2>1. Len(w) \in Nat /\ Len(cells) \in Nat
    BY <1>2
  <2>2. Len(w) <= pos \/ Len(w) > pos + Len(cells)
    BY <1>6, <2>1
  <2>3. w[Len(w)] = IF Len(w) <= Len(f) THEN f[Len(w)] ELSE Garbage
    BY <1>2, <1>4, <2>2
  <2> QED
    BY <1>3, <1>7, <2>3
<1>9. Len(w) = Len(f)
  BY <1>2, <1>8
<1> QED
  BY <1>3, <1>4, <1>8, <1>9 DEF Valid, Last, w

(* A step that changes one group's session and file keeps the layout of    *)
(* all when it keeps that of the one.                                      *)
LEMMA OneGroup ==
  ASSUME TypeInv, LayoutInv, NEW g \in Groups,
         NEW s \in Session, NEW f \in Seq(Cell),
         fd' = [fd EXCEPT ![g] = s], file' = [file EXCEPT ![g] = f],
         group' \in [Groups -> [time : Nat, attrs : Nat]],
         \A h \in Groups : h # g => group'[h].time = group[h].time,
         Layout(s, f, group'[g].time), Quiet(s) => GoodFile(f)
  PROVE  /\ fd' \in [Groups -> Session] /\ file' \in [Groups -> Seq(Cell)]
         /\ LayoutInv'
<1>1. fd' \in [Groups -> Session] /\ file' \in [Groups -> Seq(Cell)]
  BY DEF TypeInv
<1>2. fd'[g] = s /\ file'[g] = f
  BY DEF TypeInv
<1>3. \A h \in Groups : h # g => fd'[h] = fd[h] /\ file'[h] = file[h]
  BY DEF TypeInv
<1>4. ASSUME NEW h \in Groups
      PROVE  /\ Layout(fd'[h], file'[h], group'[h].time)
             /\ Quiet(fd'[h]) => GoodFile(file'[h])
  BY <1>2, <1>3 DEF LayoutInv
<1> QED
  BY <1>1, <1>4 DEF LayoutInv

(* The index of a file that has none is in order.                          *)
LEMMA EmptyIndexGood ==
  ASSUME NEW end \in Nat
  PROVE  /\ EmptyIndex \in Index /\ EmptyIndex.pgs = <<>> /\ EmptyIndex.vars = <<>>
         /\ GoodIndex(EmptyIndex, end)
<1>1. EmptyIndex \in Index /\ EmptyIndex.pgs = <<>> /\ EmptyIndex.vars = <<>>
  BY DEF EmptyIndex, Index
<1> QED
  BY <1>1 DEF GoodIndex

(* The file that adios_posix_open truncates is in order.                   *)
LEMMA EmptyFile ==
  <<>> \in Seq(Cell) /\ ~Valid(<<>>) /\ GoodFile(<<>>) /\ Len(<<>>) = 0
BY DEF Valid, GoodFile

(* Since times increase along the index, the largest is the last one's, so *)
(* NextTime is one more than that.                                         *)
LEMMA NextTimeAfterLast ==
  ASSUME NEW ix, NEW end \in Nat, GoodIndex(ix, end), ix.pgs # <<>>
  PROVE  NextTime(ix) = Last(ix.pgs).time + 1 /\ NextTime(ix) \in Nat
<1> DEFINE n == Len(ix.pgs)
           times == {ix.pgs[i].time : i \in DOMAIN ix.pgs}
<1>1. ix.pgs \in Seq(Pg) /\ n \in Nat /\ n > 0 /\ DOMAIN ix.pgs = 1 .. n
  BY DEF GoodIndex, Index
<1>2. \A i \in 1 .. n : ix.pgs[i].time \in Nat
  <2>1. \A i \in 1 .. n : ix.pgs[i] \in Pg
    BY <1>1
  <2> QED
    BY <2>1 DEF Pg
<1>3. ASSUME NEW i \in 1 .. n PROVE ix.pgs[n].time >= ix.pgs[i].time
  <2>1. CASE i = n
    BY <1>1, <1>2, <2>1
  <2>2. CASE i # n
    <3>1. i < n /\ n \in 1 .. n
      BY <1>1, <2>2
    <3>2. ix.pgs[n].time = ix.pgs[i].time + (n - i)
      BY <3>1 DEF GoodIndex
    <3> QED
      BY <1>2, <3>1, <3>2
  <2> QED
    BY <2>1, <2>2
<1>4. ix.pgs[n].time \in times /\ \A y \in times : ix.pgs[n].time >= y
  BY <1>1, <1>3
<1>5. \A x \in times : (\A y \in times : x >= y) => x = ix.pgs[n].time
  <2> SUFFICES ASSUME NEW x \in times, \A y \in times : x >= y
               PROVE  x = ix.pgs[n].time
    OBVIOUS
  <2>1. x >= ix.pgs[n].time /\ ix.pgs[n].time >= x
    BY <1>4
  <2>2. x \in Nat /\ ix.pgs[n].time \in Nat
    BY <1>1, <1>2
  <2> QED
    BY <2>1, <2>2
<1>6. Max(times) = ix.pgs[n].time
  BY <1>4, <1>5 DEF Max
<1>7. n \in 1 .. n
  BY <1>1
<1> QED
  BY <1>2, <1>6, <1>7 DEF NextTime, Last

(* adios_posix_open leaves a time index.                                   *)
LEMMA OpenTimeType ==
  ASSUME NEW t \in Nat, NEW mode
  PROVE  OpenTime(t, mode) \in Nat
<1>1. CASE mode \in {"w", "a"}
  BY <1>1 DEF OpenTime
<1>2. CASE mode = "u" /\ t > 1
  BY <1>2 DEF OpenTime
<1>3. CASE mode \notin {"w", "a"} /\ ~(mode = "u" /\ t > 1)
  <2>1. OpenTime(t, mode) = Max({t, 1})
    BY <1>3 DEF OpenTime
  <2> QED
    BY <2>1, MaxOfTwo
<1> QED
  BY <1>1, <1>2, <1>3

(* adios_open and adios_posix_open keep the layout.                        *)
LEMMA OpenLayout ==
  ASSUME TypeInv, LayoutInv, NEW g \in Groups, NEW mode \in Modes, Open(g, mode)
  PROVE  TypeInv' /\ LayoutInv'
<1> DEFINE f == file[g]
           appends == mode \in {"a", "u"} /\ Valid(f)
           old == IF appends THEN OldIndex(f) ELSE EmptyIndex
           end == IF appends THEN IndexOffset(f) ELSE 0
           s == [NoSession EXCEPT !.st = "opened", !.mode = mode,
                   !.sid = sessions + 1, !.base = end, !.pgStart = end,
                   !.endOfPgs = end, !.old = old]
           fn == IF mode = "w" THEN <<>> ELSE f
           t == IF appends THEN NextTime(old) ELSE OpenTime(group[g].time, mode)
<1>1. /\ fd' = [fd EXCEPT ![g] = s]
      /\ group' = [group EXCEPT ![g].time = t]
      /\ file' = [file EXCEPT ![g] = fn]
      /\ log' = IF mode = "w" THEN [log EXCEPT ![g] = <<>>] ELSE log
      /\ sessions' = sessions + 1
      /\ fd[g].st = "closed"
  BY DEF Open, TypeInv
<1>2. f \in Seq(Cell) /\ GoodFile(f) /\ sessions \in Nat /\ group[g].time \in Nat
  BY <1>1 DEF TypeInv, LayoutInv, Quiet
<1>3. /\ end \in Nat /\ old \in Index /\ GoodIndex(old, end)
      /\ end <= Len(fn) /\ t \in Nat
      /\ mode # "r" /\ Valid(fn) => Len(fn) = end + Len(old.pgs) + 2
      /\ old.pgs # <<>> => t = Last(old.pgs).time + 1
  <2>1. CASE appends
    <3>1. /\ fn = f /\ old = IndexOf(f) /\ end = IndexOffset(f) /\ t = NextTime(old)
      BY <2>1 DEF OldIndex
    <3>2. /\ end \in Nat /\ GoodIndex(old, end) /\ old.pgs # <<>>
          /\ Len(fn) = end + Len(old.pgs) + 2
      BY <1>2, <2>1, <3>1 DEF GoodFile
    <3>3. old \in Index /\ Len(old.pgs) \in Nat
      BY <3>2 DEF GoodIndex, Index
    <3> HIDE DEF end, fn, old, t
    <3> QED
      BY <3>1, <3>2, <3>3, NextTimeAfterLast
  <2>2. CASE ~appends
    <3>1. end = 0 /\ old = EmptyIndex /\ t = OpenTime(group[g].time, mode)
      BY <2>2
    <3>2. fn \in Seq(Cell) /\ (mode # "r" => ~Valid(fn))
      BY <1>2, <2>2, EmptyFile, PosixWriteAssumption
    <3> HIDE DEF end, fn, old, t
    <3>3. 0 <= Len(fn)
      BY <3>2
    <3> QED
      BY <1>2, <3>1, <3>2, <3>3, OpenTimeType, EmptyIndexGood
  <2> QED
    BY <2>1, <2>2
<1>4. fn \in Seq(Cell) /\ GoodFile(fn)
  BY <1>2, EmptyFile
<1> HIDE DEF old, end, fn, t
<1>5. /\ s.st = "opened" /\ s.mode = mode /\ s.base = end /\ s.pgStart = end
      /\ s.endOfPgs = end /\ s.old = old /\ s.buffer = <<>> /\ s.written = <<>>
      /\ s.nvars = 0 /\ s.flushed = 0 /\ s.shared = FALSE
  BY DEF NoSession
<1>6. s \in Session
  <2>1. NoSession \in Session
    BY EmptyIndexGood DEF NoSession, Session
  <2>2. mode \in {"w", "a", "u", "r"}
    BY PosixWriteAssumption
  <2>3. sessions + 1 \in Nat
    BY <1>2
  <2> QED
    BY <1>3, <2>1, <2>2, <2>3 DEF Session
<1> HIDE DEF s
<1>7. /\ group' \in [Groups -> [time : Nat, attrs : Nat]] /\ group'[g].time = t
      /\ \A h \in Groups : h # g => group'[h].time = group[h].time
  BY <1>1, <1>3 DEF TypeInv
<1>8. Layout(s, fn, t)
  BY <1>3, <1>5 DEF Layout
<1>9. fd' \in [Groups -> Session] /\ file' \in [Groups -> Seq(Cell)] /\ LayoutInv'
  BY <1>1, <1>4, <1>6, <1>7, <1>8, OneGroup
<1>10. sessions' \in Nat /\ log' \in [Groups -> Seq(LogEntry)]
  BY <1>1 DEF TypeInv
<1> QED
  BY <1>7, <1>9, <1>10 DEF TypeInv

(* What the layout needs of a write of plain cells.                        *)
LEMMA PlainWriteLayout ==
  ASSUME NEW f \in Seq(Cell), NEW pos \in Nat, NEW cells \in Seq(PlainCell)
  PROVE  /\ WriteAt(f, pos, cells) \in Seq(Cell)
         /\ Len(WriteAt(f, pos, cells)) >= Len(f)
         /\ Len(WriteAt(f, pos, cells)) >= pos + Len(cells)
         /\ Valid(WriteAt(f, pos, cells)) =>
              Valid(f) /\ Len(WriteAt(f, pos, cells)) = Len(f)
         /\ \A i \in 1 .. Len(f) : i <= pos => WriteAt(f, pos, cells)[i] = f[i]
<1> DEFINE w == WriteAt(f, pos, cells)
<1>1. cells \in Seq(Cell)
  BY DEF Cell
<1>2. /\ w \in Seq(Cell)
      /\ Len(w) = IF Len(f) >= pos + Len(cells) THEN Len(f) ELSE pos + Len(cells)
      /\ \A i \in 1 .. Len(w) :
           i <= pos \/ i > pos + Len(cells) =>
             w[i] = IF i <= Len(f) THEN f[i] ELSE Garbage
  BY <1>1, WriteAtResult
<1>3. Valid(w) => Valid(f) /\ Len(w) = Len(f)
  BY PlainWrite
<1> HIDE DEF w
<1>4. Len(w) >= Len(f) /\ Len(w) >= pos + Len(cells)
  BY <1>2
<1>5. ASSUME NEW i \in 1 .. Len(f), i <= pos PROVE w[i] = f[i]
  <2>1. i \in 1 .. Len(w) /\ i <= Len(f)
    BY <1>2, <1>4
  <2> QED
    BY <1>2, <1>5, <2>1
<1> QED
  BY <1>2, <1>3, <1>4, <1>5 DEF w

(* The overhead adios_group_size adds is a number.                         *)
LEMMA OverheadType ==
  ASSUME TypeInv, NEW g \in Groups
  PROVE  Overhead(g) \in Nat /\ Attrs(g) \in Nat
BY PosixWriteAssumption DEF TypeInv, Overhead, Attrs

(* The session of adios_group_size when the pool has no room, by type.     *)
LEMMA DirectSession ==
  ASSUME NEW s \in Session, NEW n \in Nat, NEW p \in Nat, NEW v \in Nat,
         NEW b \in Nat, NEW h \in Int
  PROVE  [s EXCEPT !.st = "sized", !.size = n, !.pos = p, !.varsStart = v,
            !.varsHeaderSize = h, !.base = b] \in Session
BY DEF Session

(* adios_group_size keeps the layout, with a buffer and without.           *)
LEMMA GroupSizeLayout ==
  ASSUME TypeInv, LayoutInv, NEW g \in Groups, NEW dataSize \in DataSizes,
         GroupSize(g, dataSize)
  PROVE  TypeInv' /\ LayoutInv'
<1> DEFINE s == fd[g]
           f == file[g]
           n == dataSize + Overhead(g)
           t == group[g].time
<1>1. /\ s \in Session /\ f \in Seq(Cell) /\ s.st = "opened" /\ n \in Nat
      /\ Layout(s, f, t) /\ GoodFile(f)
  <2>1. s \in Session /\ f \in Seq(Cell) /\ s.st = "opened"
    BY DEF TypeInv, GroupSize
  <2>2. n \in Nat
    <3>1. dataSize \in Nat
      BY ONLY dataSize \in DataSizes, PosixWriteAssumption
    <3>2. Overhead(g) \in Nat
      BY OverheadType
    <3> QED
      BY ONLY <3>1, <3>2
  <2>3. Layout(s, f, t) /\ GoodFile(f)
    BY <2>1 DEF LayoutInv, Quiet
  <2> QED
    BY <2>1, <2>2, <2>3
<1>2. /\ group' \in [Groups -> [time : Nat, attrs : Nat]]
      /\ \A h \in Groups : group'[h].time = group[h].time
      /\ UNCHANGED <<sessions, log>>
  BY OverheadType DEF TypeInv, GroupSize
<1>3. /\ s.base = s.endOfPgs /\ s.buffer = <<>> /\ s.flushed = 0 /\ ~s.shared
      /\ s.base \in Nat /\ s.endOfPgs \in Nat /\ s.sid \in Nat
  BY <1>1 DEF Layout, Session
<1>4. CASE GroupSizeBuffered(g, n)
  <2> DEFINE sn == [s EXCEPT !.st = "sized", !.size = n, !.shared = TRUE,
                      !.buffer = <<PgHeader(s.sid), Garbage>>, !.varsStart = 1]
  <2>1. fd' = [fd EXCEPT ![g] = sn] /\ file' = [file EXCEPT ![g] = f]
    BY <1>4 DEF GroupSizeBuffered, TypeInv
  <2>2. <<PgHeader(s.sid), Garbage>> \in Seq(PlainCell)
    BY <1>3 DEF PgHeader, Garbage, PlainCell, Kinds
  <2>3. sn \in Session
    BY <1>1, <2>2 DEF Session
  <2>4. /\ sn.st = "sized" /\ sn.shared = TRUE /\ Len(sn.buffer) = 2 /\ sn.varsStart = 1
        /\ sn.mode = s.mode /\ sn.base = s.base /\ sn.pgStart = s.pgStart
        /\ sn.endOfPgs = s.endOfPgs /\ sn.old = s.old /\ sn.flushed = s.flushed
    BY <1>1 DEF Session
  <2> HIDE DEF sn
  <2>5. Layout(sn, f, t)
    BY <1>1, <1>3, <2>4 DEF Layout
  <2>6. Quiet(sn) => GoodFile(f)
    BY <1>1
  <2>7. fd' \in [Groups -> Session] /\ file' \in [Groups -> Seq(Cell)] /\ LayoutInv'
    BY <1>1, <1>2, <2>1, <2>3, <2>5, <2>6, OneGroup
  <2> QED
    BY <1>2, <2>7 DEF TypeInv
<1>5. CASE GroupSizeDirect(g, n) /\ s.mode = "r"
  <2> DEFINE sn == [s EXCEPT !.st = "sized", !.size = n]
  <2>1. fd' = [fd EXCEPT ![g] = sn] /\ file' = [file EXCEPT ![g] = f]
    BY <1>5 DEF GroupSizeDirect, TypeInv
  <2>2. sn \in Session /\ sn.st = "sized" /\ sn.mode = "r"
    BY <1>1, <1>5 DEF Session
  <2> HIDE DEF sn
  <2>3. Layout(sn, f, t)
    BY <2>2 DEF Layout
  <2>4. fd' \in [Groups -> Session] /\ file' \in [Groups -> Seq(Cell)] /\ LayoutInv'
    BY <1>1, <1>2, <2>1, <2>2, <2>3, OneGroup
  <2> QED
    BY <1>2, <2>4 DEF TypeInv
<1>6. CASE GroupSizeDirect(g, n) /\ s.mode # "r"
  <2> DEFINE sn == [s EXCEPT !.st = "sized", !.size = n, !.pos = s.base + 2,
                      !.varsStart = s.base + 1, !.varsHeaderSize = 1,
                      !.base = s.base + 2]
             fn == WriteAt(f, s.base, <<PgHeader(s.sid)>>)
  <2>1. fd' = [fd EXCEPT ![g] = sn] /\ file' = [file EXCEPT ![g] = fn]
    BY <1>6 DEF GroupSizeDirect, TypeInv
  <2>2. <<PgHeader(s.sid)>> \in Seq(PlainCell)
    BY <1>3 DEF PgHeader, PlainCell, Kinds
  <2>3. /\ fn \in Seq(Cell) /\ Len(fn) >= Len(f)
        /\ Valid(fn) => Valid(f) /\ Len(fn) = Len(f)
    BY <1>1, <1>3, <2>2, PlainWriteLayout
  <2>4. sn \in Session
    <3>1. s.base + 1 \in Nat /\ s.base + 2 \in Nat /\ 1 \in Int
      BY <1>3
    <3> QED
      BY <1>1, <3>1, DirectSession
  <2>5. /\ sn.st = "sized" /\ sn.shared = s.shared /\ sn.buffer = s.buffer
        /\ sn.varsStart = s.base + 1 /\ sn.pos = s.base + 2
        /\ sn.mode = s.mode /\ sn.base = s.base + 2 /\ sn.pgStart = s.pgStart
        /\ sn.endOfPgs = s.endOfPgs /\ sn.old = s.old /\ sn.flushed = s.flushed
    BY <1>1 DEF Session
  <2> HIDE DEF sn, fn
  <2>6. Len(f) \in Nat /\ Len(fn) \in Nat
    BY <1>1, <2>3
  <2>7. Layout(sn, fn, t)
    BY <1>1, <1>3, <1>6, <2>3, <2>5, <2>6 DEF Layout
  <2>8. ~Quiet(sn)
    BY <1>6, <2>5 DEF Quiet
  <2>9. fd' \in [Groups -> Session] /\ file' \in [Groups -> Seq(Cell)] /\ LayoutInv'
    BY <1>2, <2>1, <2>3, <2>4, <2>7, <2>8, OneGroup
  <2> QED
    BY <1>2, <2>9 DEF TypeInv
<1> QED
  BY <1>4, <1>5, <1>6 DEF GroupSize

(* Concatenation of what a session writes.                                 *)
LEMMA ConcatPlain ==
  ASSUME NEW a \in Seq(PlainCell), NEW b \in Seq(PlainCell)
  PROVE  /\ a \o b \in Seq(PlainCell) /\ Len(a \o b) = Len(a) + Len(b)
         /\ \A i \in 1 .. Len(a) : (a \o b)[i] = a[i]
         /\ \A i \in 1 .. Len(b) : (a \o b)[Len(a) + i] = b[i]
OBVIOUS

(* A run of equal cells.                                                   *)
LEMMA RepeatResult ==
  ASSUME NEW c \in PlainCell, NEW n \in Nat
  PROVE  /\ Repeat(c, n) \in Seq(PlainCell) /\ Len(Repeat(c, n)) = n
         /\ \A i \in 1 .. n : Repeat(c, n)[i] = c
<1>1. Repeat(c, n) \in [1 .. n -> PlainCell]
  BY DEF Repeat
<1> QED
  BY <1>1 DEF Repeat

(* The header and the payload of a variable are plain cells.               *)
LEMMA VarCells ==
  ASSUME NEW sid \in Nat, NEW v \in Nat
  PROVE  VarHeader(sid, v) \in PlainCell /\ Payload(sid, v) \in PlainCell
BY DEF VarHeader, Payload, PlainCell, Kinds

(* The buffer after adios_write of variable v.                             *)
Grown(b, sid, v, n) == b \o <<VarHeader(sid, v)>> \o Repeat(Payload(sid, v), n)

(* What adios_write appends to the buffer.                                 *)
LEMMA BufferGrows ==
  ASSUME NEW b \in Seq(PlainCell), NEW sid \in Nat, NEW v \in Nat, NEW n \in Nat
  PROVE  LET c == Grown(b, sid, v, n) IN
         /\ c \in Seq(PlainCell) /\ Len(c) = (Len(b) + 1) + n
         /\ \A i \in 1 .. Len(b) : c[i] = b[i]
         /\ c[Len(b) + 1] = VarHeader(sid, v)
         /\ \A i \in 1 .. Len(c) : i > Len(b) + 1 => c[i] = Payload(sid, v)
<1> DEFINE H == <<VarHeader(sid, v)>>
           R == Repeat(Payload(sid, v), n)
           bh == b \o H
           c == bh \o R
<1>1. VarHeader(sid, v) \in PlainCell /\ Payload(sid, v) \in PlainCell
  BY VarCells
<1>2. H \in Seq(PlainCell) /\ Len(H) = 1 /\ H[1] = VarHeader(sid, v)
  BY <1>1
<1>3. /\ R \in Seq(PlainCell) /\ Len(R) = n
      /\ \A i \in 1 .. n : R[i] = Payload(sid, v)
  BY <1>1, RepeatResult
<1> HIDE DEF H, R
<1>4. /\ bh \in Seq(PlainCell) /\ Len(bh) = Len(b) + Len(H)
      /\ \A i \in 1 .. Len(b) : bh[i] = b[i]
      /\ \A i \in 1 .. Len(H) : bh[Len(b) + i] = H[i]
  BY <1>2, ConcatPlain
<1> HIDE DEF bh
<1>5. /\ c \in Seq(PlainCell) /\ Len(c) = Len(bh) + Len(R)
      /\ \A i \in 1 .. Len(bh) : c[i] = bh[i]
      /\ \A i \in 1 .. Len(R) : c[Len(bh) + i] = R[i]
  BY <1>3, <1>4, ConcatPlain
<1> HIDE DEF c
<1>6. Len(b) \in Nat /\ Len(bh) = Len(b) + 1
  BY <1>2, <1>4
<1>7. Len(b) + 1 \in 1 .. Len(bh) /\ 1 .. Len(b) \subseteq 1 .. Len(bh)
  BY <1>6
<1>8. bh[Len(b) + 1] = VarHeader(sid, v)
  BY <1>2, <1>4
<1>9. c[Len(b) + 1] = VarHeader(sid, v) /\ \A i \in 1 .. Len(b) : c[i] = b[i]
  BY <1>4, <1>5, <1>7, <1>8
<1>10. Len(c) = (Len(b) + 1) + n
  BY <1>3, <1>5, <1>6
<1>11. ASSUME NEW i \in 1 .. Len(c), i > Len(b) + 1 PROVE c[i] = Payload(sid, v)
  <2> DEFINE k == i - (Len(b) + 1)
  <2>1. k \in 1 .. n /\ i = Len(bh) + k
    BY <1>6, <1>10, <1>11
  <2> HIDE DEF k
  <2>2. c[i] = R[k]
    BY <1>3, <1>5, <2>1
  <2> QED
    BY <1>3, <2>1, <2>2
<1> QED
  BY <1>5, <1>9, <1>10, <1>11 DEF c, bh, H, R, Grown

(* The length of the buffer after adios_write ...                          *)
LEMMA BufferGrowsLen ==
  ASSUME NEW b \in Seq(PlainCell), NEW sid \in Nat, NEW v \in Nat, NEW n \in Nat
  PROVE  /\ Grown(b, sid, v, n) \in Seq(PlainCell)
         /\ Len(Grown(b, sid, v, n)) = (Len(b) + 1) + n
<1> DEFINE c == Grown(b, sid, v, n)
<1>1. c \in Seq(PlainCell) /\ Len(c) = (Len(b) + 1) + n
  BY BufferGrows
<1> QED
  BY <1>1

(* ... the header of the variable in it ...                                *)
LEMMA BufferGrowsHeader ==
  ASSUME NEW b \in Seq(PlainCell), NEW sid \in Nat, NEW v \in Nat, NEW n \in Nat
  PROVE  Grown(b, sid, v, n)[Len(b) + 1] = VarHeader(sid, v)
<1> DEFINE c == Grown(b, sid, v, n)
<1>1. c[Len(b) + 1] = VarHeader(sid, v)
  BY BufferGrows
<1> QED
  BY <1>1

(* ... its payload ...                                                     *)
LEMMA BufferGrowsPayload ==
  ASSUME NEW b \in Seq(PlainCell), NEW sid \in Nat, NEW v \in Nat, NEW n \in Nat
  PROVE  \A i \in 1 .. Len(Grown(b, sid, v, n)) :
           i > Len(b) + 1 => Grown(b, sid, v, n)[i] = Payload(sid, v)
<1> DEFINE c == Grown(b, sid, v, n)
<1>1. \A i \in 1 .. Len(c) : i > Len(b) + 1 => c[i] = Payload(sid, v)
  BY BufferGrows
<1> QED
  BY <1>1

(* ... and what was there before.                                          *)
LEMMA BufferGrowsPrefix ==
  ASSUME NEW b \in Seq(PlainCell), NEW sid \in Nat, NEW v \in Nat, NEW n \in Nat
  PROVE  \A i \in 1 .. Len(b) : Grown(b, sid, v, n)[i] = b[i]
<1> DEFINE c == Grown(b, sid, v, n)
<1>1. \A i \in 1 .. Len(b) : c[i] = b[i]
  BY BufferGrows
<1> QED
  BY <1>1

(* The list of variables written.                                          *)
LEMMA CopyVarWrittenType ==
  ASSUME NEW s \in Session, NEW v \in Nat, NEW off \in Nat, NEW n \in Nat
  PROVE  CopyVarWritten(s, v, off, n) \in Seq(Entry)
<1>1. [sid |-> s.sid, var |-> v, off |-> off, size |-> n] \in Entry
  BY DEF Session, Entry
<1>2. s.written \in Seq(Entry)
  BY DEF Session
<1> QED
  BY <1>1, <1>2 DEF CopyVarWritten

(* The session after adios_write, and what it has of a buffered one.       *)
AfterWrite(s, n) ==
  [s EXCEPT !.nvars = s.nvars + 1,
            !.written = CopyVarWritten(s, s.nvars + 1, s.base + Len(s.buffer), n),
            !.buffer = Grown(s.buffer, s.sid, s.nvars + 1, n)]

(* The session after adios_write, field by field.                          *)
LEMMA AfterWriteResult ==
  ASSUME NEW s \in Session, NEW n \in Nat
  PROVE  LET r == AfterWrite(s, n) IN
         /\ r \in Session
         /\ r.st = s.st /\ r.shared = s.shared /\ r.varsStart = s.varsStart
         /\ r.mode = s.mode /\ r.base = s.base /\ r.pgStart = s.pgStart
         /\ r.endOfPgs = s.endOfPgs /\ r.old = s.old /\ r.flushed = s.flushed
         /\ r.sid = s.sid /\ r.nvars = s.nvars + 1
         /\ r.written = CopyVarWritten(s, s.nvars + 1, s.base + Len(s.buffer), n)
         /\ r.buffer = Grown(s.buffer, s.sid, s.nvars + 1, n)
         /\ Len(r.buffer) = (Len(s.buffer) + 1) + n
<1> DEFINE v == s.nvars + 1
           b == Grown(s.buffer, s.sid, v, n)
           off == s.base + Len(s.buffer)
           w == CopyVarWritten(s, v, off, n)
<1>1. /\ s.nvars \in Nat /\ s.sid \in Nat /\ s.base \in Nat
      /\ s.buffer \in Seq(PlainCell)
  BY DEF Session
<1>2. v \in Nat /\ off \in Nat
  BY <1>1
<1> HIDE DEF v, off
<1>3. b \in Seq(PlainCell) /\ Len(b) = (Len(s.buffer) + 1) + n
  <2>1. PICK a \in Seq(PlainCell), i \in Nat, k \in Nat :
          a = s.buffer /\ i = s.sid /\ k = v
    BY <1>1, <1>2
  <2>2. Grown(a, i, k, n) \in Seq(PlainCell) /\ Len(Grown(a, i, k, n)) = (Len(a) + 1) + n
    BY BufferGrowsLen
  <2> QED
    BY <2>1, <2>2
<1>4. w \in Seq(Entry)
  BY <1>2, CopyVarWrittenType
<1> DEFINE r == [s EXCEPT !.nvars = v, !.written = w, !.buffer = b]
<1> HIDE DEF w, b
<1>5. r \in Session
  BY <1>2, <1>3, <1>4 DEF Session
<1>6. /\ r.st = s.st /\ r.shared = s.shared /\ r.varsStart = s.varsStart
      /\ r.mode = s.mode /\ r.base = s.base /\ r.pgStart = s.pgStart
      /\ r.endOfPgs = s.endOfPgs /\ r.old = s.old /\ r.flushed = s.flushed
      /\ r.sid = s.sid /\ r.nvars = v /\ r.written = w /\ r.buffer = b
  BY DEF Session
<1>7. AfterWrite(s, n) = r
  BY DEF AfterWrite, v, w, b, off
<1> HIDE DEF r
<1> QED
  BY <1>3, <1>5, <1>6, <1>7 DEF v, w, b, off

(* adios_write keeps the layout.                                           *)
LEMMA WriteLayout ==
  ASSUME TypeInv, LayoutInv, NEW g \in Groups, NEW n \in Payloads, Write(g, n)
  PROVE  TypeInv' /\ LayoutInv'
<1> DEFINE s == fd[g]
           f == file[g]
           v == s.nvars + 1
           t == group[g].time
<1>1. /\ s \in Session /\ f \in Seq(Cell) /\ s.st = "sized" /\ s.mode # "r"
      /\ Layout(s, f, t)
  BY DEF TypeInv, LayoutInv, Write
<1>2. /\ group' \in [Groups -> [time : Nat, attrs : Nat]]
      /\ \A h \in Groups : group'[h].time = group[h].time
      /\ UNCHANGED <<sessions, log>>
  BY DEF TypeInv, Write
<1>3. /\ s.base \in Nat /\ s.endOfPgs \in Nat /\ s.sid \in Nat /\ v \in Nat
      /\ s.buffer \in Seq(PlainCell) /\ s.pos \in Nat /\ n \in Nat
  <2>1. s.nvars \in Nat /\ n \in Nat
    BY <1>1, PosixWriteAssumption DEF Session
  <2>2. v \in Nat
    BY <2>1
  <2>3. /\ s.base \in Nat /\ s.endOfPgs \in Nat /\ s.sid \in Nat
        /\ s.buffer \in Seq(PlainCell) /\ s.pos \in Nat
    BY <1>1 DEF Session
  <2> QED
    BY <2>1, <2>2, <2>3
<1> DEFINE H == <<VarHeader(s.sid, v)>>
           R == Repeat(Payload(s.sid, v), n)
<1>4. H \in Seq(PlainCell) /\ Len(H) = 1 /\ R \in Seq(PlainCell) /\ Len(R) = n
  <2>1. VarHeader(s.sid, v) \in PlainCell /\ Payload(s.sid, v) \in PlainCell
    BY <1>3, VarCells
  <2> QED
    BY <1>3, <2>1, RepeatResult
<1> HIDE DEF v, H, R
<1>5. CASE WriteBuffered(g, n)
  <2> DEFINE sn == AfterWrite(s, n)
  <2>1. /\ fd' = [fd EXCEPT ![g] = sn] /\ file' = [file EXCEPT ![g] = f]
        /\ s.shared
    BY <1>5 DEF WriteBuffered, TypeInv, AfterWrite, Grown
  <2>2. /\ sn \in Session /\ sn.st = s.st /\ sn.shared = s.shared
        /\ sn.varsStart = s.varsStart /\ sn.mode = s.mode /\ sn.base = s.base
        /\ sn.pgStart = s.pgStart /\ sn.endOfPgs = s.endOfPgs /\ sn.old = s.old
        /\ sn.flushed = s.flushed /\ Len(sn.buffer) = (Len(s.buffer) + 1) + n
    BY <1>1, <1>3, AfterWriteResult
  <2> HIDE DEF sn
  <2>3. Len(s.buffer) \in Nat
    BY <1>3
  <2>4. Layout(sn, f, t)
    BY <1>1, <1>3, <2>1, <2>2, <2>3 DEF Layout
  <2>5. ~Quiet(sn)
    BY <1>1, <2>2 DEF Quiet
  <2>6. fd' \in [Groups -> Session] /\ file' \in [Groups -> Seq(Cell)] /\ LayoutInv'
    BY <1>1, <1>2, <2>1, <2>2, <2>4, <2>5, OneGroup
  <2> QED
    BY <1>2, <2>6 DEF TypeInv
<1>6. CASE WriteDirect(g, n)
  <2> DEFINE w == CopyVarWritten(s, v, s.base, n)
             cells == H \o (R \o R)
             fn == WriteAt(f, s.pos, cells)
             sn == [s EXCEPT !.nvars = v, !.written = w,
                      !.pos = s.pos + Len(cells), !.base = s.base + 1 + n]
  <2>1. /\ fd' = [fd EXCEPT ![g] = sn] /\ file' = [file EXCEPT ![g] = fn]
        /\ ~s.shared
    BY <1>6 DEF WriteDirect, DirectPayload, TypeInv, v, H, R
  <2>2. cells \in Seq(PlainCell) /\ Len(cells) = 1 + (n + n)
    <3>1. R \o R \in Seq(PlainCell) /\ Len(R \o R) = n + n
      BY <1>4, ConcatPlain
    <3>2. H \in Seq(PlainCell) /\ Len(H) = 1
      BY <1>4
    <3> DEFINE RR == R \o R
    <3> HIDE DEF RR
    <3>3. H \o RR \in Seq(PlainCell) /\ Len(H \o RR) = Len(H) + Len(RR)
      BY <3>1, <3>2, ConcatPlain DEF RR
    <3> QED
      BY <3>1, <3>2, <3>3 DEF RR
  <2>3. w \in Seq(Entry)
    BY <1>1, <1>3, CopyVarWrittenType
  <2> HIDE DEF cells, w
  <2>4. /\ fn \in Seq(Cell) /\ Len(fn) >= Len(f)
        /\ Valid(fn) => Valid(f) /\ Len(fn) = Len(f)
    BY <1>1, <1>3, <2>2, PlainWriteLayout
  <2>5. s.pos + Len(cells) \in Nat /\ s.base + 1 + n \in Nat
    <3>1. \A i, j, m \in Nat : i + (1 + (m + m)) \in Nat /\ j + 1 + m \in Nat
      OBVIOUS
    <3> QED
      BY ONLY <1>3, <2>2, <3>1
  <2>6. sn \in Session
    BY <1>1, <1>3, <2>3, <2>5 DEF Session
  <2>7. /\ sn.st = s.st /\ sn.shared = s.shared /\ sn.buffer = s.buffer
        /\ sn.varsStart = s.varsStart /\ sn.pos = s.pos + Len(cells)
        /\ sn.mode = s.mode /\ sn.base = s.base + 1 + n /\ sn.pgStart = s.pgStart
        /\ sn.endOfPgs = s.endOfPgs /\ sn.old = s.old /\ sn.flushed = s.flushed
    BY <1>1 DEF Session
  <2> HIDE DEF sn, fn
  <2>8. Len(f) \in Nat /\ Len(fn) \in Nat
    BY <1>1, <2>4
  <2>9. /\ sn.base \in Nat /\ sn.pos >= sn.base
        /\ s.endOfPgs <= sn.base /\ sn.base >= s.endOfPgs + 2
    <3>1. s.pos >= s.base /\ s.base >= s.endOfPgs + 2
      BY <1>1, <2>1 DEF Layout
    <3>2. sn.base = s.base + 1 + n /\ sn.pos = s.pos + (1 + (n + n))
      BY <2>2, <2>7
    <3>3. s.base \in Nat /\ s.endOfPgs \in Nat /\ s.pos \in Nat /\ n \in Nat
      BY <1>3
    <3>4. \A b, e, p, k \in Nat : p >= b /\ b >= e + 2 =>
            /\ b + 1 + k \in Nat /\ p + (1 + (k + k)) >= b + 1 + k
            /\ e <= b + 1 + k /\ b + 1 + k >= e + 2
      OBVIOUS
    <3> QED
      BY <3>1, <3>2, <3>3, <3>4
  <2>10. /\ sn.st = s.st /\ sn.shared = s.shared /\ sn.buffer = s.buffer
         /\ sn.varsStart = s.varsStart /\ sn.mode = s.mode
         /\ sn.pgStart = s.pgStart /\ sn.endOfPgs = s.endOfPgs
         /\ sn.old = s.old /\ sn.flushed = s.flushed
    BY <2>7
  <2>11. Layout(sn, fn, t)
    BY <1>1, <1>3, <2>1, <2>4, <2>8, <2>9, <2>10 DEF Layout
  <2>12. ~Quiet(sn)
    BY <1>1, <2>7 DEF Quiet
  <2>13. fd' \in [Groups -> Session] /\ file' \in [Groups -> Seq(Cell)] /\ LayoutInv'
    BY <1>2, <2>1, <2>4, <2>6, <2>11, <2>12, OneGroup
  <2> QED
    BY <1>2, <2>13 DEF TypeInv
<1> QED
  BY <1>5, <1>6 DEF Write

-----------------------------------------------------------------------------
(* adios_close.                                                            *)

(* The closed session, by type and layout.                                 *)
LEMMA NoSessionLayout ==
  ASSUME NEW f, NEW t
  PROVE  NoSession \in Session /\ Layout(NoSession, f, t) /\ NoSession.st = "closed"
<1>1. NoSession \in Session
  BY EmptyIndexGood DEF NoSession, Session
<1>2. NoSession.st = "closed"
  BY DEF NoSession
<1> QED
  BY <1>1, <1>2 DEF Layout

(* The close of a session that reads keeps the layout.                     *)
LEMMA CloseReadLayout ==
  ASSUME TypeInv, LayoutInv, NEW g \in Groups, CloseRead(g)
  PROVE  TypeInv' /\ LayoutInv'
<1> DEFINE f == file[g]
<1>1. f \in Seq(Cell) /\ fd[g].mode = "r"
  BY DEF TypeInv, CloseRead
<1>2. GoodFile(f)
  BY <1>1 DEF LayoutInv, Quiet
<1>3. fd' = [fd EXCEPT ![g] = NoSession] /\ file' = [file EXCEPT ![g] = f]
  BY DEF TypeInv, CloseRead, EndSession
<1>4. UNCHANGED <<group, sessions, log>>
  BY DEF CloseRead
<1>5. fd' \in [Groups -> Session] /\ file' \in [Groups -> Seq(Cell)] /\ LayoutInv'
  BY <1>1, <1>2, <1>3, <1>4, NoSessionLayout, OneGroup DEF TypeInv
<1> QED
  BY <1>4, <1>5 DEF TypeInv

(* The cells of the attributes.                                            *)
AttributeCells(sid, a) == [k \in 1 .. a |-> Attribute(sid, k)]

(* The attributes that adios_close appends are plain cells.                *)
LEMMA AttributeCellsType ==
  ASSUME NEW sid \in Nat, NEW a \in Nat
  PROVE  /\ AttributeCells(sid, a) \in Seq(PlainCell)
         /\ Len(AttributeCells(sid, a)) = a
         /\ \A k \in 1 .. a : AttributeCells(sid, a)[k][1] = "attr"
<1>1. \A k \in 1 .. a : Attribute(sid, k) \in PlainCell
  BY DEF Attribute, PlainCell, Kinds
<1>2. AttributeCells(sid, a) \in [1 .. a -> PlainCell]
  BY <1>1 DEF AttributeCells
<1>3. \A k \in 1 .. a : AttributeCells(sid, a)[k][1] = "attr"
  BY DEF AttributeCells, Attribute
<1> QED
  BY <1>2, <1>3

(* The buffer that close hands to the method.                              *)
Closed(b, sid, a) ==
  [b EXCEPT ![2] = VarsHeader(sid)] \o <<AttrsHeader(sid)>> \o AttributeCells(sid, a)

(* The buffer after adios_close has patched the header and appended the    *)
(* attributes: the variables are where they were.                          *)
LEMMA ClosedResult ==
  ASSUME NEW b \in Seq(PlainCell), Len(b) >= 2, NEW sid \in Nat, NEW a \in Nat
  PROVE  /\ Closed(b, sid, a) \in Seq(PlainCell)
         /\ Len(Closed(b, sid, a)) >= Len(b)
         /\ \A i \in 1 .. Len(b) : i # 2 => Closed(b, sid, a)[i] = b[i]
         /\ \A i \in 1 .. Len(Closed(b, sid, a)) :
              i = 2 \/ i > Len(b) => Closed(b, sid, a)[i][1] # "var"
<1> DEFINE b1 == [b EXCEPT ![2] = VarsHeader(sid)]
           h == <<AttrsHeader(sid)>>
           b2 == b1 \o h
           at == AttributeCells(sid, a)
           c == b2 \o at
<1>1. VarsHeader(sid) \in PlainCell /\ AttrsHeader(sid) \in PlainCell
  BY DEF VarsHeader, AttrsHeader, PlainCell, Kinds
<1>2. /\ b1 \in Seq(PlainCell) /\ Len(b1) = Len(b)
      /\ \A i \in 1 .. Len(b) : i # 2 => b1[i] = b[i]
  BY <1>1
<1>3. b1[2][1] = "vars"
  <2>1. 2 \in 1 .. Len(b)
    OBVIOUS
  <2>2. b1[2] = VarsHeader(sid)
    BY <2>1
  <2> QED
    BY <2>2 DEF VarsHeader
<1>4. h \in Seq(PlainCell) /\ Len(h) = 1 /\ h[1][1] = "attrs"
  BY <1>1 DEF AttrsHeader
<1>5. at \in Seq(PlainCell) /\ \A k \in 1 .. Len(at) : at[k][1] = "attr"
  BY AttributeCellsType
<1> HIDE DEF b1, h, at
<1>6. /\ b2 \in Seq(PlainCell) /\ Len(b2) = Len(b1) + Len(h)
      /\ \A i \in 1 .. Len(b1) : b2[i] = b1[i]
      /\ \A i \in 1 .. Len(h) : b2[Len(b1) + i] = h[i]
  BY <1>2, <1>4, ConcatPlain
<1> HIDE DEF b2
<1>7. /\ c \in Seq(PlainCell) /\ Len(c) = Len(b2) + Len(at)
      /\ \A i \in 1 .. Len(b2) : c[i] = b2[i]
      /\ \A i \in 1 .. Len(at) : c[Len(b2) + i] = at[i]
  BY <1>5, <1>6, ConcatPlain
<1> HIDE DEF c
<1>8. Len(b) \in Nat /\ Len(at) \in Nat /\ Len(b2) = Len(b) + 1
  BY <1>2, <1>4, <1>5, <1>6
<1>9. Len(c) >= Len(b) /\ Len(c) = Len(b) + 1 + Len(at)
  BY <1>7, <1>8
<1>10. \A i \in 1 .. Len(b) : c[i] = b1[i]
  <2> TAKE i \in 1 .. Len(b)
  <2>1. i \in 1 .. Len(b2)
    BY <1>8
  <2> QED
    BY <1>2, <1>6, <1>7, <2>1
<1>11. ASSUME NEW i \in 1 .. Len(c), i = 2 \/ i > Len(b) PROVE c[i][1] # "var"
  <2>1. CASE i = 2
    <3>1. i \in 1 .. Len(b)
      BY <2>1
    <3> QED
      BY <1>3, <1>10, <2>1, <3>1
  <2>2. CASE i = Len(b) + 1
    <3>1. i \in 1 .. Len(b2) /\ 1 \in 1 .. Len(h) /\ i = Len(b1) + 1
      BY <1>2, <1>4, <1>8, <2>2
    <3>2. c[i] = b2[i] /\ b2[i] = h[1]
      BY <1>6, <1>7, <3>1
    <3> QED
      BY <1>4, <3>2
  <2>3. CASE i > Len(b) + 1
    <3> DEFINE k == i - (Len(b) + 1)
    <3>1. k \in 1 .. Len(at) /\ i = Len(b2) + k
      BY <1>8, <1>9, <2>3
    <3> HIDE DEF k
    <3>2. c[i] = at[k]
      BY <1>7, <3>1
    <3> QED
      BY <1>5, <3>1, <3>2
  <2> QED
    BY <1>8, <1>11, <2>1, <2>2, <2>3
<1>12. Closed(b, sid, a) = c
  BY DEF Closed, c, b2, b1, h, at
<1> QED
  BY <1>2, <1>7, <1>9, <1>10, <1>11, <1>12

(* adios_close of a buffered session keeps the layout.                     *)
LEMMA CloseBufferedLayout ==
  ASSUME TypeInv, LayoutInv, NEW g \in Groups, fd[g].st = "sized", CloseBuffered(g)
  PROVE  TypeInv' /\ LayoutInv'
<1> DEFINE s == fd[g]
           f == file[g]
           t == group[g].time
           a == group[g].attrs
           b == Closed(s.buffer, s.sid, a)
           sn == [s EXCEPT !.st = "flushing", !.pos = s.endOfPgs, !.buffer = b]
<1>1. /\ s \in Session /\ f \in Seq(Cell) /\ s.mode # "r" /\ s.shared
      /\ Layout(s, f, t) /\ a \in Nat
  BY DEF TypeInv, LayoutInv, CloseBuffered
<1>2. /\ s.buffer \in Seq(PlainCell) /\ Len(s.buffer) >= 2 /\ s.sid \in Nat
      /\ s.varsStart = 1 /\ s.flushed = 0 /\ s.endOfPgs \in Nat
  BY <1>1 DEF Layout, Session
<1>3. fd' = [fd EXCEPT ![g] = sn] /\ file' = [file EXCEPT ![g] = f]
  <2>1. s.varsStart + 1 = 2
    BY <1>2
  <2> QED
    BY <2>1 DEF TypeInv, CloseBuffered, Closed, AttrCells, AttributeCells
<1>4. b \in Seq(PlainCell) /\ Len(b) >= Len(s.buffer)
  BY <1>1, <1>2, ClosedResult
<1> HIDE DEF b
<1>5. sn \in Session
  BY <1>1, <1>2, <1>4 DEF Session
<1>6. /\ sn.st = "flushing" /\ sn.shared = s.shared /\ sn.mode = s.mode
      /\ sn.base = s.base /\ sn.pgStart = s.pgStart /\ sn.endOfPgs = s.endOfPgs
      /\ sn.old = s.old /\ sn.flushed = s.flushed /\ sn.buffer = b
      /\ sn.pos = s.endOfPgs
  BY <1>1 DEF Session
<1> HIDE DEF sn
<1>7. Len(b) >= 2 /\ Len(b) \in Nat /\ sn.flushed <= Len(b)
      /\ sn.pos = sn.endOfPgs + sn.flushed
  BY <1>2, <1>4, <1>6
<1>8. Layout(sn, f, t)
  BY <1>1, <1>6, <1>7 DEF Layout
<1>9. ~Quiet(sn)
  BY <1>1, <1>6 DEF Quiet
<1>10. UNCHANGED <<group, sessions, log>>
  BY DEF CloseBuffered
<1>11. fd' \in [Groups -> Session] /\ file' \in [Groups -> Seq(Cell)] /\ LayoutInv'
  BY <1>1, <1>3, <1>5, <1>8, <1>9, <1>10, OneGroup DEF TypeInv
<1> QED
  BY <1>10, <1>11 DEF TypeInv

(* The three writes of a close that is not buffered.                       *)
ClosedFile(s, f, a) ==
  LET headerSize == s.pos + 1 - s.base
      f1 == WriteAt(f, s.varsStart, <<VarsHeader(s.sid)>>)
      f2 == WriteAt(f1, s.pos + 1, a)
  IN  WriteAt(f2, s.pos, <<AttrsHeader(s.sid)>> \o Repeat(Garbage, headerSize - 1))

(* The writes of a close without a buffer go behind the process groups of  *)
(* earlier sessions and make no file valid.                                *)
LEMMA CloseDirectWrites ==
  ASSUME NEW s \in Session, NEW f \in Seq(Cell), NEW a \in Seq(PlainCell),
         s.pos >= s.base
  PROVE  LET f3 == ClosedFile(s, f, a)
         IN  /\ f3 \in Seq(Cell) /\ Len(f3) >= Len(f)
             /\ Valid(f3) => Valid(f) /\ Len(f3) = Len(f)
             /\ \A i \in 1 .. Len(f) :
                  i <= s.varsStart /\ i <= s.pos => f3[i] = f[i]
<1> DEFINE sid == s.sid
           pos == s.pos
           vs == s.varsStart
           hs == s.pos + 1 - s.base
           h == hs - 1
<1>0. sid \in Nat /\ pos \in Nat /\ vs \in Nat /\ h \in Nat
  BY DEF Session
<1> HIDE DEF sid, pos, vs, h, hs
<1> DEFINE f1 == WriteAt(f, vs, <<VarsHeader(sid)>>)
           f2 == WriteAt(f1, pos + 1, a)
           c3 == <<AttrsHeader(sid)>> \o Repeat(Garbage, h)
           f3 == WriteAt(f2, pos, c3)
<1>1. /\ VarsHeader(sid) \in PlainCell /\ AttrsHeader(sid) \in PlainCell
      /\ Garbage \in PlainCell
  BY <1>0 DEF VarsHeader, AttrsHeader, Garbage, PlainCell, Kinds
<1>2. <<VarsHeader(sid)>> \in Seq(PlainCell) /\ <<AttrsHeader(sid)>> \in Seq(PlainCell)
  BY <1>1
<1>3. c3 \in Seq(PlainCell)
  BY <1>0, <1>1, <1>2, RepeatResult, ConcatPlain
<1>4. pos + 1 \in Nat
  BY <1>0
<1> HIDE DEF c3
<1>5. /\ f1 \in Seq(Cell) /\ Len(f1) >= Len(f)
      /\ Valid(f1) => Valid(f) /\ Len(f1) = Len(f)
      /\ \A i \in 1 .. Len(f) : i <= vs => f1[i] = f[i]
  BY <1>0, <1>2, PlainWriteLayout
<1> HIDE DEF f1
<1>6. /\ f2 \in Seq(Cell) /\ Len(f2) >= Len(f1)
      /\ Valid(f2) => Valid(f1) /\ Len(f2) = Len(f1)
      /\ \A i \in 1 .. Len(f1) : i <= pos + 1 => f2[i] = f1[i]
  BY <1>4, <1>5, PlainWriteLayout
<1> HIDE DEF f2
<1>7. /\ f3 \in Seq(Cell) /\ Len(f3) >= Len(f2)
      /\ Valid(f3) => Valid(f2) /\ Len(f3) = Len(f2)
      /\ \A i \in 1 .. Len(f2) : i <= pos => f3[i] = f2[i]
  BY <1>0, <1>3, <1>6, PlainWriteLayout
<1> HIDE DEF f3
<1>8. Len(f) \in Nat /\ Len(f1) \in Nat /\ Len(f2) \in Nat /\ Len(f3) \in Nat
  BY <1>5, <1>6, <1>7
<1>9. Len(f3) >= Len(f)
  BY <1>5, <1>6, <1>7, <1>8
<1>10. ASSUME NEW i \in 1 .. Len(f), i <= vs, i <= pos PROVE f3[i] = f[i]
  <2>1. i \in 1 .. Len(f1) /\ i \in 1 .. Len(f2) /\ i <= pos + 1
    BY <1>0, <1>5, <1>6, <1>8, <1>10
  <2> QED
    BY <1>5, <1>6, <1>7, <1>10, <2>1
<1> QED
  BY <1>5, <1>6, <1>7, <1>9, <1>10 DEF f1, f2, f3, c3, ClosedFile,
                                         sid, pos, vs, h, hs

(* adios_close of a session without a buffer keeps the layout.             *)
LEMMA CloseDirectLayout ==
  ASSUME TypeInv, LayoutInv, NEW g \in Groups, fd[g].st = "sized", CloseDirect(g)
  PROVE  /\ TypeInv' /\ LayoutInv'
         /\ \A i \in 1 .. fd[g].endOfPgs : file'[g][i] = file[g][i]
<1> DEFINE s == fd[g]
           f == file[g]
           t == group[g].time
           a == group[g].attrs
           h == s.pos + 1 - s.base
           fn == ClosedFile(s, f, AttributeCells(s.sid, a))
           sn == [s EXCEPT !.st = "flushing", !.varsStart = s.pos,
                    !.varsHeaderSize = h, !.pos = s.pos + h,
                    !.base = s.base + 1 + a]
<1>1. /\ s \in Session /\ f \in Seq(Cell) /\ s.mode # "r" /\ ~s.shared
      /\ Layout(s, f, t) /\ a \in Nat
  BY DEF TypeInv, LayoutInv, CloseDirect
<1>2. /\ s.sid \in Nat /\ s.pos \in Nat /\ s.base \in Nat /\ s.endOfPgs \in Nat
      /\ s.varsStart \in Nat
  BY <1>1 DEF Session
<1>3. /\ s.varsStart = s.endOfPgs + 1 /\ s.pos >= s.base /\ s.flushed = 0
      /\ s.base >= s.endOfPgs + 2 /\ s.endOfPgs <= Len(f)
  BY <1>1 DEF Layout
<1>4. fd' = [fd EXCEPT ![g] = sn] /\ file' = [file EXCEPT ![g] = fn]
  <2>1. fd' = [fd EXCEPT ![g] = sn]
    BY DEF TypeInv, CloseDirect
  <2>2. file' = [file EXCEPT ![g] = fn]
    BY DEF TypeInv, CloseDirect, AttrCells, AttributeCells, ClosedFile
  <2> QED
    BY <2>1, <2>2
<1>5. h \in Nat /\ h - 1 \in Nat
  <2>1. \A i, j \in Nat : i >= j => i + 1 - j \in Nat /\ (i + 1 - j) - 1 \in Nat
    OBVIOUS
  <2> QED
    BY ONLY <1>2, <1>3, <2>1
<1> HIDE DEF h
<1>6. /\ fn \in Seq(Cell) /\ Len(fn) >= Len(f)
      /\ Valid(fn) => Valid(f) /\ Len(fn) = Len(f)
      /\ \A i \in 1 .. Len(f) : i <= s.varsStart /\ i <= s.pos => fn[i] = f[i]
  <2>1. AttributeCells(s.sid, a) \in Seq(PlainCell)
    BY <1>1, <1>2, AttributeCellsType
  <2> QED
    BY <1>1, <1>3, <2>1, CloseDirectWrites
<1> HIDE DEF fn
<1>7. s.pos + h \in Nat /\ s.base + 1 + a \in Nat /\ h \in Int
  <2>1. \A x, y \in Nat : x + y \in Nat /\ x + 1 + y \in Nat
    OBVIOUS
  <2>2. s.pos \in Nat /\ s.base \in Nat /\ a \in Nat
    BY <1>1, <1>2
  <2> HIDE DEF s, a
  <2> QED
    BY <1>5, <2>1, <2>2
<1>8. sn \in Session
  BY <1>1, <1>2, <1>7 DEF Session
<1>9. /\ sn.st = "flushing" /\ sn.shared = s.shared /\ sn.mode = s.mode
      /\ sn.base = s.base + 1 + a /\ sn.pgStart = s.pgStart
      /\ sn.endOfPgs = s.endOfPgs
      /\ sn.old = s.old /\ sn.flushed = s.flushed /\ sn.buffer = s.buffer
  BY <1>1 DEF Session
<1> HIDE DEF sn
<1>10. /\ sn.base >= s.endOfPgs + 2 /\ s.endOfPgs <= sn.base
       /\ Len(fn) \in Nat /\ Len(f) \in Nat
  <2>1. \A b, e, k \in Nat : b >= e + 2 => b + 1 + k >= e + 2 /\ e <= b + 1 + k
    OBVIOUS
  <2>2. sn.base >= s.endOfPgs + 2 /\ s.endOfPgs <= sn.base
    BY <1>1, <1>2, <1>3, <1>9, <2>1
  <2> QED
    BY <1>1, <1>6, <2>2
<1>11. /\ sn.st = "flushing" /\ sn.shared = s.shared /\ sn.mode = s.mode
       /\ sn.pgStart = s.pgStart /\ sn.endOfPgs = s.endOfPgs
       /\ sn.old = s.old /\ sn.flushed = s.flushed /\ sn.buffer = s.buffer
  BY <1>9
<1>12. Layout(sn, fn, t)
  BY <1>1, <1>2, <1>3, <1>6, <1>10, <1>11 DEF Layout
<1>13. ~Quiet(sn)
  BY <1>1, <1>9 DEF Quiet
<1>14. UNCHANGED <<group, sessions, log>>
  BY DEF CloseDirect
<1>15. fd' \in [Groups -> Session] /\ file' \in [Groups -> Seq(Cell)] /\ LayoutInv'
  BY <1>4, <1>6, <1>8, <1>12, <1>13, <1>14, OneGroup DEF TypeInv
<1>16. ASSUME NEW i \in 1 .. s.endOfPgs PROVE fn[i] = f[i]
  <2>1. i \in 1 .. Len(f) /\ i <= s.varsStart /\ i <= s.pos
    <3>1. \A e, b, q, l \in Nat : b >= e + 2 /\ q >= b /\ e <= l =>
            \A j \in 1 .. e : j \in 1 .. l /\ j <= e + 1 /\ j <= q
      OBVIOUS
    <3>2. Len(f) \in Nat
      BY <1>1
    <3> QED
      BY ONLY <1>2, <1>3, <1>16, <3>1, <3>2, SMTT(30)
  <2> QED
    BY <1>6, <2>1
<1>17. file'[g] = fn
  BY <1>4 DEF TypeInv
<1> QED
  BY <1>14, <1>15, <1>16, <1>17 DEF TypeInv

(* One round of the loop of adios_posix_do_write: at most MaxWrite cells,  *)
(* from the start of the buffer.                                           *)
LEMMA ChunkResult ==
  ASSUME NEW s \in Session, s.flushed < Len(s.buffer)
  PROVE  /\ Chunk(s) \in Seq(PlainCell)
         /\ Len(Chunk(s)) = IF MaxWrite <= Len(s.buffer) - s.flushed THEN MaxWrite
                            ELSE Len(s.buffer) - s.flushed
         /\ Len(Chunk(s)) \in 1 .. Len(s.buffer)
         /\ \A i \in 1 .. Len(Chunk(s)) : Chunk(s)[i] = s.buffer[i]
<1> DEFINE b == s.buffer
           left == Len(b) - s.flushed
           m == IF MaxWrite <= left THEN MaxWrite ELSE left
<1>1. b \in Seq(PlainCell) /\ s.flushed \in Nat /\ Len(b) \in Nat
  BY DEF Session
<1>2. MaxWrite \in Nat /\ MaxWrite > 0
  BY PosixWriteAssumption
<1>3. left \in Nat /\ left > 0 /\ left <= Len(b)
  BY <1>1
<1> HIDE DEF left
<1>4. m \in 1 .. Len(b)
  BY <1>1, <1>2, <1>3
<1>5. Min({MaxWrite, left}) = m
  <2>1. m \in {MaxWrite, left} /\ \A y \in {MaxWrite, left} : m <= y
    BY <1>2, <1>3
  <2>2. \A x \in {MaxWrite, left} : (\A y \in {MaxWrite, left} : x <= y) => x = m
    BY <1>2, <1>3
  <2> QED
    BY <2>1, <2>2 DEF Min
<1>6. Chunk(s) = SubSeq(b, 1, m)
  BY <1>5 DEF Chunk, left
<1> HIDE DEF b
<1>7. /\ SubSeq(b, 1, m) \in Seq(PlainCell) /\ Len(SubSeq(b, 1, m)) = m
      /\ \A i \in 1 .. m : SubSeq(b, 1, m)[i] = b[i]
  BY <1>1, <1>4
<1> QED
  BY <1>4, <1>6, <1>7 DEF left, b

(* A round of that loop keeps the layout.                                  *)
LEMMA FlushLayout ==
  ASSUME TypeInv, LayoutInv, NEW g \in Groups, FlushBuffer(g)
  PROVE  /\ TypeInv' /\ LayoutInv'
         /\ \A i \in 1 .. fd[g].endOfPgs : file'[g][i] = file[g][i]
<1> DEFINE s == fd[g]
           f == file[g]
           t == group[g].time
           c == Chunk(s)
           fn == WriteAt(f, s.pos, c)
           sn == [s EXCEPT !.pos = s.pos + Len(c), !.flushed = s.flushed + Len(c)]
<1>1. /\ s \in Session /\ f \in Seq(Cell) /\ s.st = "flushing"
      /\ s.flushed < Len(s.buffer) /\ Layout(s, f, t)
  BY DEF TypeInv, LayoutInv, FlushBuffer
<1>2. /\ s.pos \in Nat /\ s.endOfPgs \in Nat /\ s.flushed \in Nat
      /\ s.buffer \in Seq(PlainCell) /\ Len(s.buffer) \in Nat
  BY <1>1 DEF Session
<1>3. s.mode # "r" /\ s.shared /\ s.pos = s.endOfPgs + s.flushed /\ s.endOfPgs <= Len(f)
  <2>1. s.buffer # <<>>
    BY <1>1, <1>2
  <2> QED
    BY <1>1, <2>1 DEF Layout
<1>4. fd' = [fd EXCEPT ![g] = sn] /\ file' = [file EXCEPT ![g] = fn]
  BY DEF TypeInv, FlushBuffer
<1>5. /\ c \in Seq(PlainCell) /\ Len(c) \in Nat
      /\ s.flushed + Len(c) <= Len(s.buffer)
  <2>1. /\ c \in Seq(PlainCell)
        /\ Len(c) = IF MaxWrite <= Len(s.buffer) - s.flushed THEN MaxWrite
                    ELSE Len(s.buffer) - s.flushed
    BY <1>1, ChunkResult
  <2>2. MaxWrite \in Nat
    BY PosixWriteAssumption
  <2> HIDE DEF c
  <2> QED
    BY <1>1, <1>2, <2>1, <2>2
<1> HIDE DEF c
<1>6. /\ fn \in Seq(Cell) /\ Len(fn) >= Len(f)
      /\ Valid(fn) => Valid(f) /\ Len(fn) = Len(f)
      /\ \A i \in 1 .. Len(f) : i <= s.pos => fn[i] = f[i]
  BY <1>1, <1>2, <1>5, PlainWriteLayout
<1> HIDE DEF fn
<1>7. s.pos + Len(c) \in Nat /\ s.flushed + Len(c) \in Nat
  BY <1>2, <1>5
<1>8. sn \in Session
  BY <1>1, <1>7 DEF Session
<1>9. /\ sn.st = s.st /\ sn.shared = s.shared /\ sn.mode = s.mode
      /\ sn.base = s.base /\ sn.pgStart = s.pgStart /\ sn.endOfPgs = s.endOfPgs
      /\ sn.old = s.old /\ sn.buffer = s.buffer
      /\ sn.flushed = s.flushed + Len(c) /\ sn.pos = s.pos + Len(c)
  BY <1>1 DEF Session
<1> HIDE DEF sn
<1>10. /\ sn.pos = s.endOfPgs + sn.flushed /\ sn.flushed <= Len(s.buffer)
       /\ Len(fn) \in Nat /\ Len(f) \in Nat
  <2>1. Len(fn) \in Nat /\ Len(f) \in Nat
    BY <1>1, <1>6
  <2>2. sn.flushed <= Len(s.buffer)
    BY <1>5, <1>9
  <2>3. \A e, i, k \in Nat : (e + i) + k = e + (i + k)
    OBVIOUS
  <2>4. sn.pos = s.endOfPgs + sn.flushed
    BY ONLY <1>2, <1>3, <1>5, <1>9, <2>3
  <2> QED
    BY <2>1, <2>2, <2>4
<1>11. /\ sn.st = s.st /\ sn.shared = s.shared /\ sn.mode = s.mode
       /\ sn.base = s.base /\ sn.pgStart = s.pgStart /\ sn.endOfPgs = s.endOfPgs
       /\ sn.old = s.old /\ sn.buffer = s.buffer
  BY <1>9
<1>12. Layout(sn, fn, t)
  BY <1>1, <1>2, <1>3, <1>6, <1>10, <1>11 DEF Layout
<1>13. ~Quiet(sn)
  BY <1>1, <1>3, <1>9 DEF Quiet
<1>14. UNCHANGED <<group, sessions, log>>
  BY DEF FlushBuffer
<1>15. fd' \in [Groups -> Session] /\ file' \in [Groups -> Seq(Cell)] /\ LayoutInv'
  BY <1>4, <1>6, <1>8, <1>12, <1>13, <1>14, OneGroup DEF TypeInv
<1>16. ASSUME NEW i \in 1 .. s.endOfPgs PROVE fn[i] = f[i]
  <2>1. i \in 1 .. Len(f) /\ i <= s.pos
    BY <1>1, <1>2, <1>3
  <2> QED
    BY <1>6, <2>1
<1>17. file'[g] = fn
  BY <1>4 DEF TypeInv
<1> QED
  BY <1>14, <1>15, <1>16, <1>17 DEF TypeInv

-----------------------------------------------------------------------------
(* The index.                                                              *)

(* The cells of an index of n PGs and its minifooter.                      *)
LEMMA IndexCellsResult ==
  ASSUME NEW ix \in Index, NEW start \in Nat
  PROVE  /\ IndexCells(ix, start) \in Seq(Cell)
         /\ Len(IndexCells(ix, start)) = Len(ix.pgs) + 2
         /\ \A k \in 1 .. 1 + Len(ix.pgs) :
              IndexCells(ix, start)[k] = <<"index", ix, k>>
         /\ IndexCells(ix, start)[Len(ix.pgs) + 2] = <<"footer", start, 0>>
<1> DEFINE n == Len(ix.pgs)
           e == IndexEntries(ix)
           c == <<"footer", start, 0>>
<1>1. n \in Nat
  BY DEF Index
<1>2. \A k \in 1 .. 1 + n : <<"index", ix, k>> \in Cell
  BY <1>1 DEF Cell
<1>3. c \in Cell
  BY DEF Cell
<1>4. e \in [1 .. 1 + n -> Cell] /\ \A k \in 1 .. 1 + n : e[k] = <<"index", ix, k>>
  BY <1>2 DEF IndexEntries
<1> HIDE DEF n, e, c
<1>5. e \in Seq(Cell) /\ Len(e) = 1 + n
  BY <1>1, <1>4
<1>6. Append(e, c) \in Seq(Cell) /\ Len(Append(e, c)) = n + 2
  BY <1>1, <1>3, <1>5
<1>7. \A k \in 1 .. 1 + n : Append(e, c)[k] = e[k]
  BY <1>1, <1>3, <1>5
<1>8. Append(e, c)[n + 2] = c
  BY <1>1, <1>3, <1>5
<1>9. IndexCells(ix, start) = Append(e, c)
  BY DEF IndexCells, e, c
<1> QED
  BY <1>4, <1>6, <1>7, <1>8, <1>9 DEF n, c

(* Writing an index over a file that is not longer makes it valid; in one  *)
(* that is longer the minifooter of the new index is not the last cell.    *)
LEMMA IndexWritten ==
  ASSUME NEW f \in Seq(Cell), NEW start \in Nat, NEW ix, GoodIndex(ix, start),
         ix.pgs # <<>>, Valid(f) => Len(f) <= start + (Len(ix.pgs) + 2)
  PROVE  LET w == WriteAt(f, start, IndexCells(ix, start)) IN
         /\ w \in Seq(Cell)
         /\ GoodFile(w)
         /\ Valid(w) => IndexOffset(w) = start /\ IndexOf(w) = ix
         /\ Len(f) <= start + (Len(ix.pgs) + 2) => Valid(w)
         /\ \A i \in 1 .. Len(f) : i <= start => w[i] = f[i]
<1> DEFINE n == Len(ix.pgs)
           cells == IndexCells(ix, start)
           w == WriteAt(f, start, cells)
<1>1. ix \in Index /\ n \in Nat
  BY DEF GoodIndex, Index
<1>2. /\ cells \in Seq(Cell) /\ Len(cells) = n + 2
      /\ \A k \in 1 .. 1 + n : cells[k] = <<"index", ix, k>>
      /\ cells[n + 2] = <<"footer", start, 0>>
  BY <1>1, IndexCellsResult
<1> HIDE DEF cells, n
<1>3. /\ w \in Seq(Cell)
      /\ Len(w) = IF Len(f) >= start + (n + 2) THEN Len(f) ELSE start + (n + 2)
      /\ \A i \in 1 .. n + 2 : w[start + i] = cells[i]
      /\ \A i \in 1 .. Len(w) :
           i <= start \/ i > start + (n + 2) =>
             w[i] = IF i <= Len(f) THEN f[i] ELSE Garbage
  <2>1. /\ w \in Seq(Cell)
        /\ Len(w) = IF Len(f) >= start + Len(cells) THEN Len(f) ELSE start + Len(cells)
        /\ \A i \in 1 .. Len(cells) : w[start + i] = cells[i]
        /\ \A i \in 1 .. Len(w) :
             i <= start \/ i > start + Len(cells) =>
               w[i] = IF i <= Len(f) THEN f[i] ELSE Garbage
    BY <1>2, WriteAtResult
  <2> HIDE DEF w
  <2> QED
    BY <1>2, <2>1
<1> HIDE DEF w
<1>4. Len(f) \in Nat /\ Len(w) \in Nat
  BY <1>3
<1>5. \A i \in 1 .. Len(f) : i <= start => w[i] = f[i]
  <2> TAKE i \in 1 .. Len(f)
  <2>1. i \in 1 .. Len(w) /\ i <= Len(f)
    BY <1>1, <1>3, <1>4
  <2> QED
    BY <1>3, <2>1
<1>6. CASE Len(f) <= start + (n + 2)
  <2>1. Len(w) = start + (n + 2)
    <3>1. \A l, m \in Nat : l <= m => (IF l >= m THEN l ELSE m) = m
      OBVIOUS
    <3>2. start + (n + 2) \in Nat
      BY <1>1
    <3> QED
      BY ONLY <1>3, <1>4, <1>6, <3>1, <3>2
  <2>2. n + 2 \in 1 .. n + 2 /\ 1 \in 1 .. n + 2 /\ 1 \in 1 .. 1 + n
    BY <1>1
  <2>3. w[Len(w)] = <<"footer", start, 0>> /\ w # <<>>
    <3>1. w[start + (n + 2)] = cells[n + 2]
      BY <1>3, <2>2
    <3>2. Len(w) # 0
      BY <1>1, <2>1
    <3> QED
      BY <1>2, <2>1, <3>1, <3>2
  <2>4. Valid(w) /\ IndexOffset(w) = start
    BY <2>3 DEF Valid, IndexOffset, Last
  <2>5. \A k \in 1 .. 1 + n : w[start + k] = <<"index", ix, k>>
    <3> TAKE k \in 1 .. 1 + n
    <3>1. k \in 1 .. n + 2
      BY <1>1
    <3> QED
      BY <1>2, <1>3, <3>1
  <2>6. IndexOf(w) = ix
    <3>1. w[start + 1] = <<"index", ix, 1>>
      BY <2>2, <2>5
    <3> QED
      BY <2>4, <3>1 DEF IndexOf
  <2>7. Len(w) = start + n + 2
    BY <1>1, <2>1
  <2>8. GoodFile(w)
    BY <2>4, <2>5, <2>6, <2>7 DEF GoodFile, n
  <2> QED
    BY <1>3, <1>5, <2>4, <2>6, <2>8 DEF n, w, cells
<1>7. CASE ~(Len(f) <= start + (n + 2))
  <2>1. ~Valid(f)
    BY <1>7 DEF n
  <2>2. /\ Len(w) = Len(f) /\ Len(w) \in 1 .. Len(w) /\ Len(w) > start + (n + 2)
        /\ Len(w) <= Len(f)
    BY <1>1, <1>3, <1>4, <1>7
  <2>3. w[Len(w)] = f[Len(f)] /\ f # <<>>
    BY <1>3, <1>4, <2>2
  <2>4. ~Valid(w)
    BY <2>1, <2>2, <2>3 DEF Valid, Last
  <2> QED
    BY <1>3, <1>5, <1>7, <2>4 DEF n, w, cells, GoodFile
<1> QED
  BY <1>6, <1>7

(* The index that a session adds its PG to is a good one.                  *)
LEMMA AppendedIndexGood ==
  ASSUME NEW old, NEW end \in Nat, GoodIndex(old, end),
         NEW pg \in Pg, pg.off = end, NEW start \in Nat, end < start,
         old.pgs # <<>> => pg.time = Last(old.pgs).time + 1,
         NEW vs \in Seq(Entry)
  PROVE  LET ix == [pgs |-> Append(old.pgs, pg), vars |-> vs] IN
         /\ GoodIndex(ix, start) /\ ix.pgs # <<>>
         /\ Len(ix.pgs) = Len(old.pgs) + 1
<1> DEFINE q == old.pgs
           n == Len(q)
           p == Append(q, pg)
           ix == [pgs |-> p, vars |-> vs]
<1>1. q \in Seq(Pg) /\ n \in Nat
  BY DEF GoodIndex, Index
<1>2. /\ \A i, j \in 1 .. n : i < j => /\ q[j].time = q[i].time + (j - i)
                                       /\ q[i].off < q[j].off
      /\ \A i \in 1 .. n : q[i].off < end
  BY DEF GoodIndex
<1>3. pg.time \in Nat /\ pg.off = end /\ \A i \in 1 .. n : q[i].time \in Nat /\ q[i].off \in Nat
  <2>1. \A i \in 1 .. n : q[i] \in Pg
    BY <1>1
  <2> QED
    BY <2>1 DEF Pg
<1>4. n > 0 => pg.time = q[n].time + 1
  BY <1>1 DEF Last
<1> HIDE DEF q
<1>5. /\ p \in Seq(Pg) /\ Len(p) = n + 1 /\ p[n + 1] = pg
      /\ \A i \in 1 .. n : p[i] = q[i]
  BY <1>1
<1> HIDE DEF p
<1>6. ASSUME NEW i \in 1 .. n + 1, NEW j \in 1 .. n + 1, i < j
      PROVE  p[j].time = p[i].time + (j - i) /\ p[i].off < p[j].off
  <2>1. i \in 1 .. n /\ p[i] = q[i]
    BY <1>1, <1>5, <1>6
  <2>2. CASE j \in 1 .. n
    BY <1>2, <1>5, <1>6, <2>1, <2>2
  <2>3. CASE j = n + 1
    <3>1. p[j] = pg
      BY <1>5, <2>3
    <3>2. q[i].off < end
      BY <1>2, <2>1
    <3>3. pg.time = q[n].time + 1 /\ n \in 1 .. n
      BY <1>1, <1>4, <2>1
    <3>4. q[n].time = q[i].time + (n - i)
      <4>1. CASE i = n
        BY <1>1, <1>3, <4>1, <3>3
      <4>2. CASE i < n
        BY <1>2, <2>1, <3>3, <4>2
      <4> QED
        BY <1>1, <2>1, <4>1, <4>2
    <3>5. q[i].time \in Nat /\ q[n].time \in Nat
      BY <1>3, <2>1, <3>3
    <3>6. pg.time = q[i].time + (j - i)
      BY <1>1, <2>1, <2>3, <3>3, <3>4, <3>5
    <3> QED
      BY <1>3, <2>1, <3>1, <3>2, <3>6
  <2> QED
    BY <1>1, <2>2, <2>3
<1>7. ASSUME NEW i \in 1 .. n + 1 PROVE p[i].off < start
  <2>1. CASE i \in 1 .. n
    <3>1. q[i].off < end /\ q[i].off \in Nat /\ p[i] = q[i]
      BY <1>2, <1>3, <1>5, <2>1
    <3> QED
      BY <3>1
  <2>2. CASE i = n + 1
    BY <1>3, <1>5, <2>2
  <2> QED
    BY <1>1, <2>1, <2>2
<1>8. ix \in Index /\ ix.pgs = p
  BY <1>5 DEF Index
<1>9. p # <<>>
  BY <1>1, <1>5
<1> HIDE DEF ix
<1>10. GoodIndex(ix, start)
  BY <1>5, <1>6, <1>7, <1>8 DEF GoodIndex
<1> QED
  BY <1>5, <1>8, <1>9, <1>10 DEF ix, p, q

(* The index a session writes, and the file with it.                       *)
NewIndex(s, t) ==
  [pgs |-> Append(s.old.pgs, [sid |-> s.sid, off |-> s.pgStart, time |-> t]),
   vars |-> s.old.vars \o s.written]

(* The file once index and minifooter are written behind the process       *)
(* group.                                                                  *)
IndexedFile(s, f, t) ==
  WriteAt(f, IndexStart(s), IndexCells(NewIndex(s, t), IndexStart(s)))

(* The merged index of old and new process groups is in order again: this  *)
(* is where the times have to be consecutive.                              *)
LEMMA SessionIndex ==
  ASSUME NEW s \in Session, NEW f \in Seq(Cell), NEW t \in Nat, Layout(s, f, t),
         s.st = "flushing"
  PROVE  /\ IndexStart(s) \in Nat /\ IndexStart(s) >= s.endOfPgs + 2
         /\ GoodIndex(NewIndex(s, t), IndexStart(s)) /\ NewIndex(s, t).pgs # <<>>
         /\ Len(NewIndex(s, t).pgs) = Len(s.old.pgs) + 1
         /\ Valid(f) => Len(f) <= IndexStart(s) + (Len(NewIndex(s, t).pgs) + 2)
<1> DEFINE pg == [sid |-> s.sid, off |-> s.pgStart, time |-> t]
           vs == s.old.vars \o s.written
<1>2. /\ s.sid \in Nat /\ s.endOfPgs \in Nat /\ s.base \in Nat /\ s.old \in Index
      /\ s.buffer \in Seq(PlainCell) /\ Len(s.buffer) \in Nat
      /\ s.written \in Seq(Entry)
  BY DEF Session
<1>3. /\ GoodIndex(s.old, s.endOfPgs)
      /\ s.old.pgs # <<>> => t = Last(s.old.pgs).time + 1
      /\ s.pgStart = s.endOfPgs /\ s.endOfPgs <= Len(f)
      /\ Valid(f) => Len(f) = s.endOfPgs + Len(s.old.pgs) + 2
      /\ IF s.shared THEN s.base = s.endOfPgs /\ Len(s.buffer) >= 2
         ELSE s.base >= s.endOfPgs + 2 /\ s.buffer = <<>>
  BY DEF Layout
<1>5. IndexStart(s) \in Nat /\ IndexStart(s) >= s.endOfPgs + 2
  <2>1. IndexStart(s) = s.base + Len(s.buffer)
    BY DEF IndexStart
  <2>2. \A b, e, k \in Nat : b = e /\ k >= 2 => b + k >= e + 2
    OBVIOUS
  <2>3. \A b, e, k \in Nat : b >= e + 2 => b + k >= e + 2
    OBVIOUS
  <2>4. IndexStart(s) \in Nat
    BY <1>2, <2>1
  <2> QED
    BY <1>2, <1>3, <2>1, <2>2, <2>3, <2>4
<1>6. pg \in Pg /\ pg.off = s.endOfPgs /\ pg.time = t
  BY <1>2, <1>3 DEF Pg
<1>7. vs \in Seq(Entry)
  BY <1>2 DEF Index
<1> HIDE DEF pg, vs
<1>8. s.endOfPgs < IndexStart(s)
  BY <1>2, <1>5
<1>9. LET ix == [pgs |-> Append(s.old.pgs, pg), vars |-> vs] IN
      /\ GoodIndex(ix, IndexStart(s)) /\ ix.pgs # <<>>
      /\ Len(ix.pgs) = Len(s.old.pgs) + 1
  BY <1>2, <1>3, <1>5, <1>6, <1>7, <1>8, AppendedIndexGood
<1>10. /\ GoodIndex(NewIndex(s, t), IndexStart(s)) /\ NewIndex(s, t).pgs # <<>>
       /\ Len(NewIndex(s, t).pgs) = Len(s.old.pgs) + 1
  BY <1>9 DEF NewIndex, pg, vs
<1>11. Len(s.old.pgs) \in Nat
  BY <1>2 DEF Index
<1>12. Valid(f) => Len(f) <= IndexStart(s) + (Len(NewIndex(s, t).pgs) + 2)
  <2>1. \A e, b, n \in Nat : b >= e + 2 => e + n + 2 <= b + ((n + 1) + 2)
    OBVIOUS
  <2> QED
    BY <1>2, <1>3, <1>5, <1>10, <1>11, <2>1
<1> QED
  BY <1>5, <1>10, <1>12

(* The file that holds the merged index is in order; it is valid unless    *)
(* something longer was there before.                                      *)
LEMMA SessionIndexWritten ==
  ASSUME NEW s \in Session, NEW f \in Seq(Cell), NEW t \in Nat, Layout(s, f, t),
         s.st = "flushing"
  PROVE  LET w == IndexedFile(s, f, t) IN
         /\ w \in Seq(Cell) /\ GoodFile(w)
         /\ Valid(w) => IndexOffset(w) = IndexStart(s) /\ IndexOf(w) = NewIndex(s, t)
         /\ Len(f) <= IndexStart(s) + (Len(NewIndex(s, t).pgs) + 2) => Valid(w)
         /\ \A i \in 1 .. Len(f) : i <= IndexStart(s) => w[i] = f[i]
<1> DEFINE start == IndexStart(s)
           ix == NewIndex(s, t)
<1>1. /\ start \in Nat /\ GoodIndex(ix, start) /\ ix.pgs # <<>>
      /\ Valid(f) => Len(f) <= start + (Len(ix.pgs) + 2)
  BY SessionIndex
<1> HIDE DEF start, ix
<1>2. LET w == WriteAt(f, start, IndexCells(ix, start)) IN
      /\ w \in Seq(Cell)
      /\ GoodFile(w)
      /\ Valid(w) => IndexOffset(w) = start /\ IndexOf(w) = ix
      /\ Len(f) <= start + (Len(ix.pgs) + 2) => Valid(w)
      /\ \A i \in 1 .. Len(f) : i <= start => w[i] = f[i]
  BY <1>1, IndexWritten
<1> QED
  BY <1>2 DEF IndexedFile, start, ix

(* Writing index and minifooter leaves a file in order.                    *)
LEMMA WriteIndexLayout ==
  ASSUME TypeInv, LayoutInv, NEW g \in Groups, WriteIndex(g)
  PROVE  /\ TypeInv' /\ LayoutInv'
         /\ \A i \in 1 .. fd[g].endOfPgs : file'[g][i] = file[g][i]
<1> DEFINE s == fd[g]
           f == file[g]
           t == group[g].time
           fn == IndexedFile(s, f, t)
<1>1. /\ s \in Session /\ f \in Seq(Cell) /\ s.st = "flushing" /\ t \in Nat
      /\ Layout(s, f, t)
  BY DEF TypeInv, LayoutInv, WriteIndex
<1>2. /\ s.endOfPgs \in Nat /\ s.endOfPgs <= Len(f)
      /\ IndexStart(s) \in Nat /\ IndexStart(s) >= s.endOfPgs + 2
  <2>1. s.endOfPgs \in Nat
    BY <1>1 DEF Session
  <2>2. s.endOfPgs <= Len(f)
    BY <1>1 DEF Layout
  <2> QED
    BY <1>1, <2>1, <2>2, SessionIndex
<1>4. /\ fd' = [fd EXCEPT ![g] = NoSession] /\ file' = [file EXCEPT ![g] = fn]
      /\ log' = [log EXCEPT ![g] = Append(@, [sid |-> s.sid, shared |-> s.shared,
                                              nvars |-> s.nvars])]
      /\ UNCHANGED <<group, sessions>>
  BY DEF WriteIndex, EndSession, BuildIndex, IndexedFile, NewIndex
<1>5. /\ fn \in Seq(Cell) /\ GoodFile(fn)
      /\ \A i \in 1 .. Len(f) : i <= IndexStart(s) => fn[i] = f[i]
  BY <1>1, SessionIndexWritten
<1> HIDE DEF fn
<1>6. fd' \in [Groups -> Session] /\ file' \in [Groups -> Seq(Cell)] /\ LayoutInv'
  BY <1>4, <1>5, NoSessionLayout, OneGroup DEF TypeInv
<1>7. log' \in [Groups -> Seq(LogEntry)]
  <2>1. [sid |-> s.sid, shared |-> s.shared, nvars |-> s.nvars] \in LogEntry
    BY <1>1 DEF Session, LogEntry
  <2>2. log[g] \in Seq(LogEntry)
    BY DEF TypeInv
  <2>3. Append(log[g], [sid |-> s.sid, shared |-> s.shared, nvars |-> s.nvars])
          \in Seq(LogEntry)
    BY <2>1, <2>2
  <2> QED
    BY <1>4, <2>3 DEF TypeInv
<1>8. ASSUME NEW i \in 1 .. s.endOfPgs PROVE fn[i] = f[i]
  <2>1. i \in 1 .. Len(f) /\ i <= IndexStart(s)
    BY <1>1, <1>2
  <2> QED
    BY <1>5, <2>1
<1>9. file'[g] = fn
  BY <1>4 DEF TypeInv
<1> QED
  BY <1>4, <1>6, <1>7, <1>8, <1>9 DEF TypeInv

-----------------------------------------------------------------------------
(* What lies before the index that an append found.                        *)

(* A write of plain cells behind endOfPgs leaves it alone.                 *)
LEMMA WriteBehind ==
  ASSUME NEW f \in Seq(Cell), NEW s \in Session, NEW p \in Nat,
         NEW cells \in Seq(PlainCell), s.endOfPgs <= p, s.endOfPgs <= Len(f)
  PROVE  \A i \in 1 .. s.endOfPgs : WriteAt(f, p, cells)[i] = f[i]
<1>1. \A i \in 1 .. Len(f) : i <= p => WriteAt(f, p, cells)[i] = f[i]
  BY PlainWriteLayout
<1>2. s.endOfPgs \in Nat /\ Len(f) \in Nat
  BY DEF Session
<1>3. ASSUME NEW i \in 1 .. s.endOfPgs PROVE i \in 1 .. Len(f) /\ i <= p
  BY <1>2
<1> QED
  BY <1>1, <1>3

(* adios_group_size leaves the process groups of earlier sessions.         *)
LEMMA GroupSizeKeeps ==
  ASSUME TypeInv, LayoutInv, NEW g \in Groups, NEW n \in DataSizes, GroupSize(g, n)
  PROVE  \A i \in 1 .. fd[g].endOfPgs : file'[g][i] = file[g][i]
<1> DEFINE s == fd[g]
           f == file[g]
<1>1. s \in Session /\ f \in Seq(Cell) /\ s.st = "opened" /\ Layout(s, f, group[g].time)
  BY DEF TypeInv, LayoutInv, GroupSize
<1>2. CASE UNCHANGED file
  BY <1>2
<1>3. CASE file' # file
  <2>1. s.mode # "r" /\ file' = [file EXCEPT ![g] = WriteAt(f, s.base, <<PgHeader(s.sid)>>)]
    BY <1>3 DEF GroupSize, GroupSizeBuffered, GroupSizeDirect
  <2>2. s.base \in Nat /\ s.sid \in Nat
    BY <1>1 DEF Session
  <2>3. <<PgHeader(s.sid)>> \in Seq(PlainCell)
    BY <2>2 DEF PgHeader, PlainCell, Kinds
  <2>4. s.endOfPgs <= s.base /\ s.endOfPgs <= Len(f)
    BY <1>1, <2>1 DEF Layout
  <2>5. file'[g] = WriteAt(f, s.base, <<PgHeader(s.sid)>>)
    BY <2>1 DEF TypeInv
  <2> DEFINE c == <<PgHeader(s.sid)>>
  <2> HIDE DEF c
  <2>6. \A i \in 1 .. s.endOfPgs : WriteAt(f, s.base, c)[i] = f[i]
    BY <1>1, <2>2, <2>3, <2>4, WriteBehind DEF c
  <2> QED
    BY <2>5, <2>6 DEF c
<1> QED
  BY <1>2, <1>3

(* adios_write leaves the process groups of earlier sessions.              *)
LEMMA WriteKeeps ==
  ASSUME TypeInv, LayoutInv, NEW g \in Groups, NEW n \in Payloads, Write(g, n)
  PROVE  \A i \in 1 .. fd[g].endOfPgs : file'[g][i] = file[g][i]
<1> DEFINE s == fd[g]
           f == file[g]
<1>1. /\ s \in Session /\ f \in Seq(Cell) /\ s.st = "sized" /\ s.mode # "r"
      /\ Layout(s, f, group[g].time)
  BY DEF TypeInv, LayoutInv, Write
<1>2. CASE WriteBuffered(g, n)
  BY <1>2 DEF WriteBuffered
<1>3. CASE WriteDirect(g, n)
  <2> DEFINE v == s.nvars + 1
             H == <<VarHeader(s.sid, v)>>
             R == Repeat(Payload(s.sid, v), n)
             cells == H \o (R \o R)
  <2>1. /\ ~s.shared /\ file' = [file EXCEPT ![g] = WriteAt(f, s.pos, cells)]
    BY <1>3 DEF WriteDirect, DirectPayload
  <2>2. s.pos \in Nat /\ s.sid \in Nat /\ n \in Nat /\ s.base \in Nat /\ s.endOfPgs \in Nat
    BY <1>1, PosixWriteAssumption DEF Session
  <2>3. v \in Nat
    <3>1. s.nvars \in Nat
      BY <1>1 DEF Session
    <3> QED
      BY <3>1
  <2>4. VarHeader(s.sid, v) \in PlainCell /\ Payload(s.sid, v) \in PlainCell
    BY <2>2, <2>3, VarCells
  <2>5. H \in Seq(PlainCell) /\ R \in Seq(PlainCell)
    BY <2>2, <2>4, RepeatResult
  <2> HIDE DEF H, R
  <2>6. cells \in Seq(PlainCell)
    BY <2>5, ConcatPlain
  <2> HIDE DEF cells
  <2>7. s.endOfPgs <= s.pos /\ s.endOfPgs <= Len(f)
    <3>1. /\ s.endOfPgs <= s.base /\ s.pos >= s.base /\ s.endOfPgs <= Len(f)
      BY <1>1, <2>1 DEF Layout
    <3> QED
      BY <2>2, <3>1
  <2>8. file'[g] = WriteAt(f, s.pos, cells)
    BY <2>1 DEF TypeInv
  <2> QED
    BY <1>1, <2>2, <2>6, <2>7, <2>8, WriteBehind
<1> QED
  BY <1>2, <1>3 DEF Write

-----------------------------------------------------------------------------
(* The first invariant and its theorems.                                   *)

(* The inductive invariant's first half: initially ...                     *)
LEMMA LayoutInit == Init => TypeInv /\ LayoutInv
<1> SUFFICES ASSUME Init PROVE TypeInv /\ LayoutInv
  OBVIOUS
<1>1. TypeInv
  BY NoSessionLayout DEF Init, TypeInv
<1>2. ASSUME NEW g \in Groups
      PROVE  Layout(fd[g], file[g], group[g].time) /\ (Quiet(fd[g]) => GoodFile(file[g]))
  <2>1. fd[g] = NoSession /\ file[g] = <<>>
    BY DEF Init
  <2> QED
    BY <2>1, NoSessionLayout, EmptyFile
<1> QED
  BY <1>1, <1>2 DEF LayoutInv

(* ... and in every step, one case for each action.                        *)
LEMMA LayoutStep == TypeInv /\ LayoutInv /\ [Next]_vars => TypeInv' /\ LayoutInv'
<1> SUFFICES ASSUME TypeInv, LayoutInv, [Next]_vars PROVE TypeInv' /\ LayoutInv'
  OBVIOUS
<1>1. ASSUME NEW n \in PoolSizes, AllocateBuffer(n) PROVE TypeInv' /\ LayoutInv'
  BY <1>1 DEF AllocateBuffer, TypeInv, LayoutInv
<1>2. ASSUME NEW g \in Groups, Close(g) PROVE TypeInv' /\ LayoutInv'
  BY <1>2, CloseReadLayout, CloseBufferedLayout, CloseDirectLayout DEF Close
<1>3. CASE UNCHANGED vars
  BY <1>3 DEF vars, TypeInv, LayoutInv
<1> QED
  BY <1>1, <1>2, <1>3, OpenLayout, GroupSizeLayout, WriteLayout, FlushLayout,
     WriteIndexLayout DEF Next

(* Every file, session, index and log entry keeps its type: no offset of   *)
(* adios_posix.c becomes negative, and the buffer holds only cells of PGs, *)
(* never of an index.                                                      *)
THEOREM PosixTypeCorrect == Spec => []TypeInv
<1>1. Spec => [](TypeInv /\ LayoutInv)
  BY LayoutInit, LayoutStep, PTL DEF Spec
<1> QED
  BY <1>1, PTL

(* A file that ends in a minifooter has consecutive times in its index.    *)
LEMMA GoodTimes == LayoutInv => TimesIncrease
<1> SUFFICES ASSUME LayoutInv, NEW g \in Groups, fd[g].st = "closed", Indexed(file[g])
             PROVE  LET pgs == IndexOf(file[g]).pgs IN
                    \A i \in 1 .. Len(pgs) - 1 :
                      /\ pgs[i + 1].time = pgs[i].time + 1
                      /\ pgs[i + 1].off > pgs[i].off
  BY DEF TimesIncrease
<1> DEFINE pgs == IndexOf(file[g]).pgs
           end == IndexOffset(file[g])
<1>1. IndexOf(file[g]) \in Index /\ GoodIndex(IndexOf(file[g]), end)
  BY DEF LayoutInv, Quiet, GoodFile, Indexed, GoodIndex
<1>2. pgs \in Seq(Pg) /\ Len(pgs) \in Nat
  BY <1>1 DEF Index
<1>3. \A i, j \in 1 .. Len(pgs) : i < j => /\ pgs[j].time = pgs[i].time + (j - i)
                                           /\ pgs[i].off < pgs[j].off
  BY <1>1 DEF GoodIndex
<1> HIDE DEF pgs
<1>4. ASSUME NEW i \in 1 .. Len(pgs) - 1
      PROVE  pgs[i + 1].time = pgs[i].time + 1 /\ pgs[i + 1].off > pgs[i].off
  <2>1. i \in 1 .. Len(pgs) /\ i + 1 \in 1 .. Len(pgs) /\ i < i + 1 /\ (i + 1) - i = 1
    BY <1>2
  <2>2. pgs[i] \in Pg /\ pgs[i + 1] \in Pg
    BY <1>2, <2>1
  <2>3. pgs[i].off \in Nat /\ pgs[i + 1].off \in Nat
    BY <2>2 DEF Pg
  <2>4. pgs[i + 1].time = pgs[i].time + ((i + 1) - i) /\ pgs[i].off < pgs[i + 1].off
    BY <1>3, <2>1
  <2> QED
    BY <2>1, <2>3, <2>4
<1> QED
  BY <1>4 DEF pgs

(* However sessions of any mode follow each other on a file, buffered or   *)
(* direct, the index that a closed file ends in has PGs with consecutive   *)
(* times, one behind the other.                                            *)
THEOREM PosixTimesIncrease == Spec => []TimesIncrease
<1>1. Spec => [](TypeInv /\ LayoutInv)
  BY LayoutInit, LayoutStep, PTL DEF Spec
<1> QED
  BY <1>1, GoodTimes, PTL

(* Two files that agree cell by cell have the same prefix.                 *)
LEMMA SameBelow ==
  ASSUME NEW a, NEW b, NEW n \in Nat, \A i \in 1 .. n : a[i] = b[i]
  PROVE  SubSeq(a, 1, n) = SubSeq(b, 1, n)
OBVIOUS

(* A call on one group leaves the session and the file of another.         *)
LEMMA OtherGroup ==
  ASSUME TypeInv, NEW g \in Groups, NEW h \in Groups, h # g,
         \/ \E mode \in Modes : Open(h, mode)
         \/ \E n \in DataSizes : GroupSize(h, n)
         \/ \E n \in Payloads : Write(h, n)
         \/ Close(h)
         \/ FlushBuffer(h)
         \/ WriteIndex(h)
  PROVE  fd'[g] = fd[g] /\ file'[g] = file[g]
<1> USE DEF TypeInv
<1>1. ASSUME NEW mode \in Modes, Open(h, mode) PROVE fd'[g] = fd[g] /\ file'[g] = file[g]
  BY <1>1 DEF Open
<1>2. ASSUME NEW n \in DataSizes, GroupSize(h, n)
      PROVE  fd'[g] = fd[g] /\ file'[g] = file[g]
  <2>1. ASSUME NEW m, GroupSizeBuffered(h, m)
        PROVE  fd'[g] = fd[g] /\ file'[g] = file[g]
    BY <2>1 DEF GroupSizeBuffered
  <2>2. ASSUME NEW m, GroupSizeDirect(h, m)
        PROVE  fd'[g] = fd[g] /\ file'[g] = file[g]
    BY <2>2, SMTT(30) DEF GroupSizeDirect
  <2> QED
    BY <1>2, <2>1, <2>2 DEF GroupSize
<1>3. ASSUME NEW n \in Payloads, Write(h, n) PROVE fd'[g] = fd[g] /\ file'[g] = file[g]
  BY <1>3 DEF Write, WriteBuffered, WriteDirect
<1>4. CASE Close(h)
  <2>1. CASE CloseRead(h)
    BY <2>1 DEF CloseRead, EndSession
  <2>2. CASE CloseBuffered(h)
    BY <2>2 DEF CloseBuffered
  <2>3. CASE CloseDirect(h)
    BY <2>3 DEF CloseDirect
  <2> QED
    BY <1>4, <2>1, <2>2, <2>3 DEF Close
<1>5. CASE FlushBuffer(h)
  BY <1>5 DEF FlushBuffer
<1>6. CASE WriteIndex(h)
  BY <1>6 DEF WriteIndex, EndSession
<1> QED
  BY <1>1, <1>2, <1>3, <1>4, <1>5, <1>6

(* A step leaves the cells before the index that an open session found.    *)
LEMMA KeepsOld ==
  ASSUME TypeInv, LayoutInv, [Next]_vars, NEW g \in Groups, fd[g].st # "closed"
  PROVE  \A i \in 1 .. fd[g].endOfPgs : file'[g][i] = file[g][i]
<1>1. CASE UNCHANGED file
  BY <1>1
<1>2. ASSUME NEW h \in Groups,
             \/ \E mode \in Modes : Open(h, mode)
             \/ \E n \in DataSizes : GroupSize(h, n)
             \/ \E n \in Payloads : Write(h, n)
             \/ Close(h)
             \/ FlushBuffer(h)
             \/ WriteIndex(h)
      PROVE  \A i \in 1 .. fd[g].endOfPgs : file'[g][i] = file[g][i]
  <2>1. CASE h # g
    <3>1. file'[g] = file[g]
      BY <1>2, <2>1, OtherGroup
    <3> QED
      BY <3>1
  <2>2. CASE h = g
    <3>1. ASSUME Close(g) PROVE \A i \in 1 .. fd[g].endOfPgs : file'[g][i] = file[g][i]
      <4>1. fd[g].st = "sized" /\ (UNCHANGED file \/ CloseDirect(g))
        BY <3>1 DEF Close, CloseRead, CloseBuffered
      <4> QED
        BY <4>1, CloseDirectLayout
    <3>2. ASSUME NEW mode \in Modes, Open(g, mode) PROVE FALSE
      BY <3>2 DEF Open
    <3> QED
      BY <1>2, <2>2, <3>1, <3>2, GroupSizeKeeps, WriteKeeps, FlushLayout,
         WriteIndexLayout
  <2> QED
    BY <2>1, <2>2
<1> QED
  BY <1>1, <1>2 DEF Next, AllocateBuffer, vars

(* adios_posix.c: whatever the sizes of the buffer, the payloads and the   *)
(* write(2) calls, a session that appends or updates never writes over the *)
(* PGs it found.                                                           *)
THEOREM PosixAppendKeepsOld == Spec => AppendKeepsOld
<1>1. Spec => [](TypeInv /\ LayoutInv)
  BY LayoutInit, LayoutStep, PTL DEF Spec
<1> DEFINE Keep == \A g \in Groups : fd[g].st # "closed" /\ fd[g].endOfPgs > 0 =>
                     SubSeq(file'[g], 1, fd[g].endOfPgs)
                       = SubSeq(file[g], 1, fd[g].endOfPgs)
<1>2. TypeInv /\ LayoutInv /\ [Next]_vars => [Keep]_vars
  <2> SUFFICES ASSUME TypeInv, LayoutInv, [Next]_vars, NEW g \in Groups,
                      fd[g].st # "closed"
               PROVE  SubSeq(file'[g], 1, fd[g].endOfPgs)
                        = SubSeq(file[g], 1, fd[g].endOfPgs)
    OBVIOUS
  <2>1. fd[g].endOfPgs \in Nat
    <3>1. fd[g] \in Session
      BY DEF TypeInv
    <3> QED
      BY <3>1 DEF Session
  <2> QED
    BY <2>1, KeepsOld, SameBelow
<1> QED
  BY <1>1, <1>2, PTL DEF Spec, AppendKeepsOld

-----------------------------------------------------------------------------
(* The contents.                                                           *)

(* One session more takes no number that is in use.                        *)
LEMMA NumberedLater ==
  ASSUME NEW s \in Session, NEW f \in Seq(Cell), NEW lg \in Seq(LogEntry),
         NEW n \in Nat, Numbered(s, f, lg, n), Valid(f) => IndexOf(f) \in Index
  PROVE  Numbered(s, f, lg, n + 1)
<1>1. \A k \in 1 .. Len(lg) : lg[k].sid \in Nat
  <2>1. \A k \in 1 .. Len(lg) : lg[k] \in LogEntry
    OBVIOUS
  <2> QED
    BY <2>1 DEF LogEntry
<1>2. s.sid \in Nat
  BY DEF Session
<1>3. Valid(f) => \A i \in 1 .. Len(IndexOf(f).vars) : IndexOf(f).vars[i].sid \in Nat
  <2>1. Valid(f) => IndexOf(f).vars \in Seq(Entry)
    BY DEF Index
  <2>2. Valid(f) => \A i \in 1 .. Len(IndexOf(f).vars) : IndexOf(f).vars[i] \in Entry
    BY <2>1
  <2> QED
    BY <2>2 DEF Entry
<1>4. \A k \in 1 .. Len(lg) : lg[k].sid <= n + 1
  BY <1>1 DEF Numbered
<1>5. s.st # "closed" => s.sid <= n + 1
  BY <1>2 DEF Numbered
<1>6. s.st = "closed" /\ Valid(f) =>
        \A i \in 1 .. Len(IndexOf(f).vars) : IndexOf(f).vars[i].sid <= n + 1
  BY <1>3 DEF Numbered, Quiet
<1> QED
  BY <1>4, <1>5, <1>6 DEF Numbered

(* A step that changes one group's session and file keeps the contents of  *)
(* all when it keeps those of the one.                                     *)
LEMMA OneGroupContent ==
  ASSUME TypeInv, LayoutInv, ContentInv, NEW g \in Groups, NEW s, NEW f, NEW lg,
         fd' = [fd EXCEPT ![g] = s], file' = [file EXCEPT ![g] = f],
         log' = [log EXCEPT ![g] = lg],
         sessions' = sessions \/ sessions' = sessions + 1,
         Numbered(s, f, lg, sessions'), Quiet(s) => Rest(f, lg),
         s.st # "closed" /\ s.mode # "r" => Writes(s, f, lg)
  PROVE  ContentInv'
<1>1. fd'[g] = s /\ file'[g] = f /\ log'[g] = lg
  BY DEF TypeInv
<1>2. \A h \in Groups : h # g => fd'[h] = fd[h] /\ file'[h] = file[h] /\ log'[h] = log[h]
  BY DEF TypeInv
<1>3. ASSUME NEW h \in Groups, h # g PROVE Numbered(fd[h], file[h], log[h], sessions')
  <2>1. /\ fd[h] \in Session /\ file[h] \in Seq(Cell) /\ log[h] \in Seq(LogEntry)
        /\ sessions \in Nat /\ Numbered(fd[h], file[h], log[h], sessions)
    BY DEF TypeInv, ContentInv
  <2>2. Quiet(fd[h]) /\ Valid(file[h]) => IndexOf(file[h]) \in Index
    BY DEF LayoutInv, GoodFile, GoodIndex
  <2>3. CASE Quiet(fd[h])
    BY <2>1, <2>2, <2>3, NumberedLater
  <2>4. CASE ~Quiet(fd[h])
    <3>1. \A k \in 1 .. Len(log[h]) : log[h][k].sid \in Nat
      <4>1. \A k \in 1 .. Len(log[h]) : log[h][k] \in LogEntry
        BY <2>1
      <4> QED
        BY <4>1 DEF LogEntry
    <3>2. fd[h].sid \in Nat
      BY <2>1 DEF Session
    <3> QED
      BY <2>1, <2>4, <3>1, <3>2 DEF Numbered
  <2> QED
    BY <2>3, <2>4
<1>4. ASSUME NEW h \in Groups
      PROVE  /\ Numbered(fd'[h], file'[h], log'[h], sessions')
             /\ Quiet(fd'[h]) => Rest(file'[h], log'[h])
             /\ fd'[h].st # "closed" /\ fd'[h].mode # "r" => Writes(fd'[h], file'[h], log'[h])
  BY <1>1, <1>2, <1>3 DEF ContentInv
<1> QED
  BY <1>4 DEF ContentInv

(* The fields of an entry of an index.                                     *)
LEMMA EntryType ==
  ASSUME NEW vs \in Seq(Entry), NEW i \in 1 .. Len(vs)
  PROVE  /\ vs[i] \in Entry
         /\ vs[i].sid \in Nat /\ vs[i].var \in Nat /\ vs[i].off \in Nat /\ vs[i].size \in Nat
<1>1. vs[i] \in Entry
  OBVIOUS
<1> QED
  BY <1>1 DEF Entry

(* Entries whose variables lie before the end stay good when the cells     *)
(* before the end do.                                                      *)
LEMMA EntriesKept ==
  ASSUME NEW vs \in Seq(Entry), NEW s \in Session, NEW f \in Seq(Cell),
         NEW f2 \in Seq(Cell), NEW lg, Entries(vs, s.endOfPgs, f, lg),
         s.endOfPgs <= Len(f2), \A i \in 1 .. s.endOfPgs : f2[i] = f[i]
  PROVE  Entries(vs, s.endOfPgs, f2, lg)
<1> SUFFICES ASSUME NEW i \in 1 .. Len(vs), Buffered(lg, vs[i].sid)
             PROVE  VarAt(f2, vs[i].off, vs[i])
  BY DEF Entries
<1> DEFINE e == vs[i]
<1>1. e.off \in Nat /\ e.size \in Nat
  BY EntryType
<1>2. e.off + 1 + e.size <= s.endOfPgs /\ VarAt(f, e.off, e)
  BY DEF Entries
<1>3. s.endOfPgs \in Nat /\ Len(f2) \in Nat
  BY DEF Session
<1> HIDE DEF e
<1>4. e.off + 1 \in 1 .. s.endOfPgs /\ e.off + 1 + e.size <= Len(f2)
  BY <1>1, <1>2, <1>3
<1>5. \A k \in 1 .. e.size : e.off + 1 + k \in 1 .. s.endOfPgs
  <2>1. \A o, z, m \in Nat : o + 1 + z <= m =>
          \A k \in 1 .. z : o + 1 + k \in 1 .. m
    OBVIOUS
  <2> QED
    BY <1>1, <1>2, <1>3, <2>1
<1>6. VarAt(f2, e.off, e)
  BY <1>2, <1>4, <1>5 DEF VarAt
<1> QED
  BY <1>6 DEF e

(* adios_open takes over what the file holds.                              *)
LEMMA OpenContent ==
  ASSUME TypeInv, LayoutInv, ContentInv, NEW g \in Groups, NEW mode \in Modes,
         Open(g, mode)
  PROVE  ContentInv'
<1> DEFINE f == file[g]
           lg == log[g]
           n == sessions
           appends == mode \in {"a", "u"} /\ Valid(f)
           old == IF appends THEN OldIndex(f) ELSE EmptyIndex
           end == IF appends THEN IndexOffset(f) ELSE 0
           s == [NoSession EXCEPT !.st = "opened", !.mode = mode,
                   !.sid = sessions + 1, !.base = end, !.pgStart = end,
                   !.endOfPgs = end, !.old = old]
           fn == IF mode = "w" THEN <<>> ELSE f
           ln == IF mode = "w" THEN <<>> ELSE lg
<1>1. /\ fd' = [fd EXCEPT ![g] = s] /\ file' = [file EXCEPT ![g] = fn]
      /\ log' = [log EXCEPT ![g] = ln] /\ sessions' = n + 1
      /\ fd[g].st = "closed"
  BY DEF Open, TypeInv
<1>2. f \in Seq(Cell) /\ GoodFile(f) /\ n \in Nat /\ lg \in Seq(LogEntry)
  BY <1>1 DEF TypeInv, LayoutInv, Quiet
<1>3. Numbered(fd[g], f, lg, n) /\ Rest(f, lg)
  BY <1>1 DEF ContentInv, Quiet
<1>4. /\ s.st = "opened" /\ s.mode = mode /\ s.sid = n + 1 /\ s.endOfPgs = end
      /\ s.old = old /\ s.buffer = <<>> /\ s.written = <<>>
      /\ s.nvars = 0 /\ s.flushed = 0 /\ s.shared = FALSE
  BY DEF NoSession
<1> HIDE DEF s
<1>5. Rest(<<>>, <<>>)
  BY EmptyFile DEF Rest
<1>6. Rest(fn, ln)
  BY <1>3, <1>5
<1>7. Valid(f) => IndexOf(f) \in Index
  BY <1>2 DEF GoodFile, GoodIndex
<1>8. \A k \in 1 .. Len(lg) : lg[k].sid \in Nat /\ lg[k].sid <= n
  <2>1. \A k \in 1 .. Len(lg) : lg[k] \in LogEntry
    BY <1>2
  <2> QED
    BY <1>3, <2>1 DEF LogEntry, Numbered
<1>9. ASSUME Valid(f), NEW i \in 1 .. Len(IndexOf(f).vars)
      PROVE  IndexOf(f).vars[i].sid < n + 1
  <2>1. IndexOf(f).vars \in Seq(Entry)
    BY <1>7, <1>9 DEF Index
  <2>2. IndexOf(f).vars[i].sid \in Nat
    BY <2>1, EntryType
  <2>3. IndexOf(f).vars[i].sid <= n
    BY <1>1, <1>3, <1>9 DEF Numbered, Quiet
  <2> QED
    BY <1>2, <2>2, <2>3
<1>10. ASSUME NEW i \in 1 .. Len(old.vars) PROVE old.vars[i].sid < n + 1
  <2>1. CASE appends
    <3>1. old = IndexOf(f) /\ Valid(f)
      BY <2>1 DEF OldIndex
    <3> HIDE DEF old
    <3> QED
      BY <1>9, <3>1
  <2>2. CASE ~appends
    <3>1. old = EmptyIndex
      BY <2>2
    <3>2. Len(EmptyIndex.vars) = 0
      BY DEF EmptyIndex
    <3> HIDE DEF old
    <3> QED
      BY <3>1, <3>2
  <2> QED
    BY <2>1, <2>2
<1>11. Numbered(s, fn, ln, n + 1)
  <2>1. \A k \in 1 .. Len(ln) : ln[k].sid <= n + 1 /\ ln[k].sid < n + 1
    <3>1. CASE mode = "w"
      <4>1. ln = <<>>
        BY <3>1
      <4> QED
        BY <4>1
    <3>2. CASE mode # "w"
      <4>1. ln = lg
        BY <3>2
      <4> HIDE DEF ln
      <4> QED
        BY <1>2, <1>8, <4>1
    <3> QED
      BY <3>1, <3>2
  <2>2. s.sid <= n + 1
    BY <1>2, <1>4
  <2>3. Len(s.written) = 0
    BY <1>4
  <2>4. Valid(fn) => fn = f
    BY EmptyFile
  <2> HIDE DEF ln, fn, old
  <2> QED
    BY <1>4, <1>9, <1>10, <2>1, <2>2, <2>3, <2>4 DEF Numbered
<1>12. ASSUME mode # "r" PROVE Writes(s, fn, ln)
  <2>1. Entries(old.vars, end, fn, ln)
    <3>1. CASE appends
      <4>1. old = IndexOf(f) /\ end = IndexOffset(f) /\ fn = f /\ ln = lg /\ Valid(f)
        BY <3>1 DEF OldIndex
      <4> HIDE DEF old, end, fn, ln
      <4> QED
        BY <1>3, <4>1 DEF Rest
    <3>2. CASE ~appends
      <4>1. old = EmptyIndex
        BY <3>2
      <4>2. Len(EmptyIndex.vars) = 0
        BY DEF EmptyIndex
      <4> HIDE DEF old, end, fn, ln
      <4> QED
        BY <4>1, <4>2 DEF Entries
    <3> QED
      BY <3>1, <3>2
  <2>2. AllShared(ln) => Len(fn) <= end + Len(old.pgs) + 2
    <3>1. CASE appends
      <4>1. old = IndexOf(f) /\ end = IndexOffset(f) /\ fn = f /\ Valid(f)
        BY <3>1 DEF OldIndex
      <4>2. /\ IndexOffset(f) \in Nat /\ Len(f) = IndexOffset(f) + Len(IndexOf(f).pgs) + 2
            /\ IndexOf(f) \in Index
        BY <1>2, <1>7, <4>1 DEF GoodFile
      <4>3. Len(IndexOf(f).pgs) \in Nat
        BY <4>2 DEF Index
      <4> HIDE DEF old, end, fn
      <4> QED
        BY <4>1, <4>2, <4>3
    <3>2. CASE ~appends
      <4>1. AllShared(ln) => fn = <<>>
        <5>1. CASE mode = "w"
          BY <5>1
        <5>2. CASE mode # "w"
          <6>1. mode \in {"a", "u"}
            BY <1>12, <5>2, PosixWriteAssumption
          <6>2. ~Valid(f) /\ fn = f /\ ln = lg
            BY <3>2, <5>2, <6>1
          <6> HIDE DEF fn, ln
          <6> QED
            BY <1>3, <6>2 DEF Rest
        <5> QED
          BY <5>1, <5>2
      <4>2. end = 0 /\ old = EmptyIndex
        BY <3>2
      <4>3. EmptyIndex.pgs = <<>>
        BY DEF EmptyIndex
      <4> HIDE DEF old, end, fn, ln
      <4> QED
        BY <4>1, <4>2, <4>3
    <3> QED
      BY <3>1, <3>2
  <2> HIDE DEF old, end, fn, ln
  <2>3. Len(s.written) = 0
    BY <1>4
  <2> QED
    BY <1>4, <2>1, <2>2, <2>3 DEF Writes
<1> HIDE DEF fn, ln
<1> QED
  BY <1>1, <1>4, <1>6, <1>11, <1>12, OneGroupContent

(* A step that stays in the session keeps the numbering.                   *)
LEMMA NumberedNext ==
  ASSUME NEW s, NEW s2, NEW f, NEW f2, NEW lg, NEW n, Numbered(s, f, lg, n),
         s.st # "closed", s2.st # "closed", s2.sid = s.sid, s2.old = s.old,
         \A i \in 1 .. Len(s2.written) : s2.written[i].sid = s.sid,
         Quiet(s2) => f2 = f /\ Quiet(s)
  PROVE  Numbered(s2, f2, lg, n)
BY DEF Numbered

(* adios_group_size keeps the contents.                                    *)
LEMMA GroupSizeContent ==
  ASSUME TypeInv, LayoutInv, ContentInv, NEW g \in Groups, NEW dataSize \in DataSizes,
         GroupSize(g, dataSize), TypeInv', LayoutInv'
  PROVE  ContentInv'
<1> DEFINE s == fd[g]
           f == file[g]
           lg == log[g]
           n == dataSize + Overhead(g)
           t == group[g].time
<1>1. /\ s \in Session /\ f \in Seq(Cell) /\ s.st = "opened"
      /\ Layout(s, f, t) /\ Numbered(s, f, lg, sessions) /\ Rest(f, lg)
      /\ s.mode # "r" => Writes(s, f, lg)
  BY DEF TypeInv, LayoutInv, ContentInv, GroupSize, Quiet
<1>2. log' = [log EXCEPT ![g] = lg] /\ sessions' = sessions
  BY DEF TypeInv, GroupSize
<1>3. /\ s.base = s.endOfPgs /\ s.buffer = <<>> /\ s.flushed = 0 /\ ~s.shared
      /\ s.written = <<>> /\ s.nvars = 0
      /\ s.base \in Nat /\ s.endOfPgs \in Nat /\ s.sid \in Nat
  BY <1>1 DEF Layout, Session
<1>4. Len(s.written) = 0
  BY <1>3
<1>5. CASE GroupSizeBuffered(g, n)
  <2> DEFINE b == <<PgHeader(s.sid), Garbage>>
             sn == [s EXCEPT !.st = "sized", !.size = n, !.shared = TRUE,
                      !.buffer = b, !.varsStart = 1]
  <2>1. fd' = [fd EXCEPT ![g] = sn] /\ file' = [file EXCEPT ![g] = f]
    BY <1>5 DEF GroupSizeBuffered, TypeInv
  <2>2. /\ Len(b) = 2 /\ b[2] = Garbage
        /\ b[1][1] = "pg" /\ b[2][1] = "garbage"
    BY DEF PgHeader, Garbage
  <2> HIDE DEF b
  <2>3. /\ sn.st = "sized" /\ sn.shared = TRUE /\ sn.buffer = b
        /\ sn.mode = s.mode /\ sn.base = s.base /\ sn.nvars = s.nvars
        /\ sn.endOfPgs = s.endOfPgs /\ sn.old = s.old /\ sn.flushed = s.flushed
        /\ sn.sid = s.sid /\ sn.written = s.written
    BY <1>1 DEF Session
  <2> HIDE DEF sn
  <2>4. Numbered(sn, f, lg, sessions)
    BY <1>1, <1>4, <2>3, NumberedNext DEF Quiet
  <2>5. HeadersAre(b, 1, Len(b), s.sid, 0)
    <3>1. \A i \in 1 .. 2 : i = 1 \/ i = 2
      OBVIOUS
    <3>2. \A i \in 1 .. 2 : b[i][1] # "var"
      BY <2>2, <3>1
    <3>3. \A v \in 1 .. 0 : FALSE
      OBVIOUS
    <3> QED
      BY <2>2, <3>2, <3>3 DEF HeadersAre
  <2>6. ASSUME s.mode # "r" PROVE Writes(sn, f, lg)
    <3>1. HeadersAre(sn.buffer, 1, Len(sn.buffer), sn.sid, sn.nvars)
      BY <1>3, <2>3, <2>5
    <3>2. Entries(sn.old.vars, sn.endOfPgs, f, lg)
      BY <1>1, <2>3, <2>6 DEF Writes
    <3>3. AllShared(lg) => \/ Len(f) <= sn.endOfPgs + Len(sn.old.pgs) + 2
                           \/ Len(f) <= sn.endOfPgs + sn.flushed
      BY <1>1, <2>3, <2>6 DEF Writes
    <3>4. Len(sn.written) = 0 /\ sn.buffer[2] = Garbage
      BY <1>4, <2>2, <2>3
    <3> QED
      BY <2>3, <3>1, <3>2, <3>3, <3>4 DEF Writes
  <2> QED
    BY <1>1, <1>2, <2>1, <2>3, <2>4, <2>6, OneGroupContent
<1>6. CASE GroupSizeDirect(g, n) /\ s.mode = "r"
  <2> DEFINE sn == [s EXCEPT !.st = "sized", !.size = n]
  <2>1. fd' = [fd EXCEPT ![g] = sn] /\ file' = [file EXCEPT ![g] = f]
    BY <1>6 DEF GroupSizeDirect, TypeInv
  <2>2. /\ sn.st = "sized" /\ sn.mode = "r" /\ sn.sid = s.sid /\ sn.old = s.old
        /\ sn.written = s.written
    BY <1>1, <1>6 DEF Session
  <2> HIDE DEF sn
  <2>3. Numbered(sn, f, lg, sessions)
    BY <1>1, <1>4, <2>2, NumberedNext DEF Quiet
  <2> QED
    BY <1>1, <1>2, <2>1, <2>2, <2>3, OneGroupContent
<1>7. CASE GroupSizeDirect(g, n) /\ s.mode # "r"
  <2> DEFINE sn == [s EXCEPT !.st = "sized", !.size = n, !.pos = s.base + 2,
                      !.varsStart = s.base + 1, !.varsHeaderSize = 1,
                      !.base = s.base + 2]
             fn == WriteAt(f, s.base, <<PgHeader(s.sid)>>)
  <2>1. fd' = [fd EXCEPT ![g] = sn] /\ file' = [file EXCEPT ![g] = fn]
    BY <1>7 DEF GroupSizeDirect, TypeInv
  <2>2. fn \in Seq(Cell) /\ \A i \in 1 .. s.endOfPgs : fn[i] = f[i]
    <3>1. file'[g] = fn
      BY <2>1 DEF TypeInv
    <3>2. file'[g] \in Seq(Cell)
      BY DEF TypeInv
    <3> QED
      BY <3>1, <3>2, GroupSizeKeeps
  <2>3. /\ sn.st = "sized" /\ sn.shared = s.shared /\ sn.mode = s.mode
        /\ sn.endOfPgs = s.endOfPgs /\ sn.old = s.old
        /\ sn.sid = s.sid /\ sn.written = s.written
    BY <1>1 DEF Session
  <2>4. s.endOfPgs <= Len(fn)
    <3>1. Layout(fd'[g], file'[g], group'[g].time)
      BY DEF LayoutInv
    <3>2. fd'[g] = sn /\ file'[g] = fn
      BY <2>1 DEF TypeInv
    <3> HIDE DEF sn, fn
    <3> QED
      BY <1>7, <2>3, <3>1, <3>2 DEF Layout
  <2> HIDE DEF sn, fn
  <2>5. Numbered(sn, fn, lg, sessions)
    BY <1>1, <1>4, <1>7, <2>3, NumberedNext DEF Quiet
  <2>6. Entries(s.old.vars, s.endOfPgs, fn, lg)
    <3>1. s.old.vars \in Seq(Entry)
      BY <1>1 DEF Session, Index
    <3>2. Entries(s.old.vars, s.endOfPgs, f, lg)
      BY <1>1, <1>7 DEF Writes
    <3> QED
      BY <1>1, <2>2, <2>4, <3>1, <3>2, EntriesKept
  <2>7. Writes(sn, fn, lg)
    BY <1>3, <1>4, <2>3, <2>6 DEF Writes
  <2>8. ~Quiet(sn)
    BY <1>7, <2>3 DEF Quiet
  <2> QED
    BY <1>2, <2>1, <2>5, <2>7, <2>8, OneGroupContent
<1> QED
  BY <1>5, <1>6, <1>7 DEF GroupSize

(* A variable stays where it is when the cells of the buffer are kept, but *)
(* for the second one, the header of the variables.                        *)
LEMMA VarAtKept ==
  ASSUME NEW a \in Seq(PlainCell), NEW b \in Seq(PlainCell), NEW o, o \in Nat,
         NEW e, e.size \in Nat, VarAt(a, o, e), Len(a) <= Len(b),
         \A i \in 1 .. Len(a) : i # 2 => b[i] = a[i], o >= 2
  PROVE  VarAt(b, o, e)
<1>1. Len(a) \in Nat /\ Len(b) \in Nat /\ o + 1 + e.size <= Len(a)
  BY DEF VarAt
<1>2. o + 1 \in 1 .. Len(a) /\ o + 1 # 2 /\ o + 1 + e.size <= Len(b)
  BY <1>1
<1>3. \A k \in 1 .. e.size : o + 1 + k \in 1 .. Len(a) /\ o + 1 + k # 2
  <2>1. \A x, z, m \in Nat : x + 1 + z <= m /\ x >= 2 =>
          \A k \in 1 .. z : x + 1 + k \in 1 .. m /\ x + 1 + k # 2
    OBVIOUS
  <2> QED
    BY <1>1, <2>1
<1> QED
  BY <1>2, <1>3 DEF VarAt

(* The headers in the buffer after one more variable.                      *)
LEMMA HeadersGrown ==
  ASSUME NEW b \in Seq(PlainCell), NEW sid \in Nat, NEW m \in Nat, NEW n \in Nat,
         NEW v \in Nat, v = m + 1, HeadersAre(b, 1, Len(b), sid, m)
  PROVE  HeadersAre(Grown(b, sid, v, n), 1, Len(Grown(b, sid, v, n)), sid, v)
<1> DEFINE c == Grown(b, sid, v, n)
<1>1. 1 .. m \subseteq 1 .. v /\ v \in 1 .. v
  OBVIOUS
<1>2. \A x \in 1 .. v : x \in 1 .. m \/ x = v
  OBVIOUS
<1>3. /\ c \in Seq(PlainCell) /\ Len(c) = (Len(b) + 1) + n
      /\ \A i \in 1 .. Len(b) : c[i] = b[i]
      /\ c[Len(b) + 1] = VarHeader(sid, v)
      /\ \A i \in 1 .. Len(c) : i > Len(b) + 1 => c[i] = Payload(sid, v)
  <2>1. c \in Seq(PlainCell) /\ Len(c) = (Len(b) + 1) + n
    BY ONLY BufferGrowsLen, b \in Seq(PlainCell), sid \in Nat, v \in Nat,
       n \in Nat
  <2>2. \A i \in 1 .. Len(b) : c[i] = b[i]
    BY ONLY BufferGrowsPrefix, b \in Seq(PlainCell), sid \in Nat, v \in Nat,
       n \in Nat
  <2>3. c[Len(b) + 1] = VarHeader(sid, v)
    BY ONLY BufferGrowsHeader, b \in Seq(PlainCell), sid \in Nat, v \in Nat,
       n \in Nat
  <2>4. \A i \in 1 .. Len(c) : i > Len(b) + 1 => c[i] = Payload(sid, v)
    BY ONLY BufferGrowsPayload, b \in Seq(PlainCell), sid \in Nat, v \in Nat,
       n \in Nat
  <2> QED
    BY <2>1, <2>2, <2>3, <2>4
<1> HIDE DEF c
<1>4. Len(b) \in Nat /\ 1 .. Len(b) \subseteq 1 .. Len(c) /\ Len(b) + 1 \in 1 .. Len(c)
  BY <1>3
<1>5. ASSUME NEW i \in 1 .. Len(c), c[i][1] = "var"
      PROVE  c[i][2] = sid /\ c[i][3] \in 1 .. v
  <2>1. CASE i \in 1 .. Len(b)
    BY <1>1, <1>3, <1>5, <2>1 DEF HeadersAre
  <2>2. CASE i = Len(b) + 1
    BY <1>1, <1>3, <2>2 DEF VarHeader
  <2>3. CASE i > Len(b) + 1
    <3>1. c[i] = Payload(sid, v)
      BY <1>3, <2>3
    <3> QED
      BY <1>5, <3>1 DEF Payload
  <2> QED
    BY <1>4, <2>1, <2>2, <2>3
<1>6. ASSUME NEW x \in 1 .. v PROVE \E i \in 1 .. Len(c) : c[i] = VarHeader(sid, x)
  <2>1. CASE x = v
    BY <1>3, <1>4, <2>1
  <2>2. CASE x \in 1 .. m
    <3>1. PICK i \in 1 .. Len(b) : b[i] = VarHeader(sid, x)
      BY <2>2 DEF HeadersAre
    <3> QED
      BY <1>3, <1>4, <3>1
  <2> QED
    BY <1>2, <2>1, <2>2
<1>7. HeadersAre(c, 1, Len(c), sid, v)
  BY <1>5, <1>6 DEF HeadersAre
<1> QED
  BY <1>7 DEF c

(* The list of the variables gets one entry or none.                       *)
LEMMA CopyVarWrittenResult ==
  ASSUME NEW s \in Session, NEW v \in Nat, NEW off \in Nat, NEW n \in Nat
  PROVE  \A i \in 1 .. Len(CopyVarWritten(s, v, off, n)) :
           \/ /\ i \in 1 .. Len(s.written)
              /\ CopyVarWritten(s, v, off, n)[i] = s.written[i]
           \/ CopyVarWritten(s, v, off, n)[i]
                = [sid |-> s.sid, var |-> v, off |-> off, size |-> n]
<1> DEFINE e == [sid |-> s.sid, var |-> v, off |-> off, size |-> n]
           w == s.written
<1>1. w \in Seq(Entry) /\ e \in Entry
  BY DEF Session, Entry
<1>2. CopyVarWritten(s, v, off, n) \in {w, Append(w, e)}
  BY DEF CopyVarWritten
<1> HIDE DEF e, w
<1>3. \A i \in 1 .. Len(Append(w, e)) :
        (i \in 1 .. Len(w) /\ Append(w, e)[i] = w[i]) \/ Append(w, e)[i] = e
  BY <1>1
<1> DEFINE c == CopyVarWritten(s, v, off, n)
<1> HIDE DEF c
<1>4. \A i \in 1 .. Len(c) : (i \in 1 .. Len(w) /\ c[i] = w[i]) \/ c[i] = e
  BY <1>2, <1>3 DEF c
<1> QED
  BY <1>4 DEF c, w, e

(* The same, for a list of variables.                                      *)
WrittenBy(list, s, v, off, n) ==
  \A i \in 1 .. Len(list) :
    \/ i \in 1 .. Len(s.written) /\ list[i] = s.written[i]
    \/ list[i] = [sid |-> s.sid, var |-> v, off |-> off, size |-> n]

LEMMA CopyVarWrittenBy ==
  ASSUME NEW s \in Session, NEW v \in Nat, NEW off \in Nat, NEW n \in Nat
  PROVE  WrittenBy(CopyVarWritten(s, v, off, n), s, v, off, n)
BY CopyVarWrittenResult DEF WrittenBy

(* adios_write into the buffer: the earlier variables stay, the new one is *)
(* there.                                                                  *)
LEMMA AfterWriteContent ==
  ASSUME NEW s \in Session, NEW n \in Nat, NEW f, NEW lg, Writes(s, f, lg),
         s.shared, s.st = "sized", Len(s.buffer) >= 2,
         \A i \in 1 .. Len(s.written) : s.written[i].sid = s.sid
  PROVE  /\ Writes(AfterWrite(s, n), f, lg)
         /\ \A i \in 1 .. Len(AfterWrite(s, n).written) :
              AfterWrite(s, n).written[i].sid = s.sid
<1> DEFINE r == AfterWrite(s, n)
           b == s.buffer
<1>1. /\ r \in Session /\ r.st = "sized" /\ r.shared
      /\ r.base = s.base /\ r.endOfPgs = s.endOfPgs /\ r.old = s.old
      /\ r.flushed = s.flushed /\ r.sid = s.sid
      /\ r.nvars = s.nvars + 1
      /\ r.written = CopyVarWritten(s, s.nvars + 1, s.base + Len(s.buffer), n)
      /\ r.buffer = Grown(s.buffer, s.sid, s.nvars + 1, n)
  BY AfterWriteResult
<1> HIDE DEF r
<1>2. /\ b \in Seq(PlainCell) /\ s.sid \in Nat /\ s.base \in Nat /\ s.nvars \in Nat
      /\ Len(b) \in Nat /\ s.written \in Seq(Entry) /\ r.written \in Seq(Entry)
      /\ r.buffer \in Seq(PlainCell)
  BY <1>1 DEF Session
<1>3. PICK v \in Nat : v = s.nvars + 1
  BY <1>2
<1>4. PICK off \in Nat : off = s.base + Len(b)
  BY <1>2
<1> PICK sid \in Nat : sid = s.sid
  BY <1>2
<1> DEFINE c == Grown(b, s.sid, v, n)
<1>5. r.nvars = v /\ r.buffer = c /\ r.written = CopyVarWritten(s, v, off, n)
  BY <1>1, <1>3, <1>4
<1>6. /\ c \in Seq(PlainCell) /\ Len(c) = (Len(b) + 1) + n
      /\ \A i \in 1 .. Len(b) : c[i] = b[i]
      /\ c[Len(b) + 1] = VarHeader(s.sid, v)
      /\ \A i \in 1 .. Len(c) : i > Len(b) + 1 => c[i] = Payload(s.sid, v)
  <2> DEFINE d == Grown(b, sid, v, n)
  <2>0. b \in Seq(PlainCell)
    BY <1>2
  <2> HIDE DEF b
  <2>1. d \in Seq(PlainCell) /\ Len(d) = (Len(b) + 1) + n
    BY ONLY BufferGrowsLen, <2>0, sid \in Nat, v \in Nat, n \in Nat
  <2>2. \A i \in 1 .. Len(b) : d[i] = b[i]
    BY ONLY BufferGrowsPrefix, <2>0, sid \in Nat, v \in Nat, n \in Nat
  <2>3. d[Len(b) + 1] = VarHeader(sid, v)
    BY ONLY BufferGrowsHeader, <2>0, sid \in Nat, v \in Nat, n \in Nat
  <2>4. \A i \in 1 .. Len(d) : i > Len(b) + 1 => d[i] = Payload(sid, v)
    BY ONLY BufferGrowsPayload, <2>0, sid \in Nat, v \in Nat, n \in Nat
  <2> QED
    BY <2>1, <2>2, <2>3, <2>4
<1>7. HeadersAre(c, 1, Len(c), s.sid, v)
  <2>1. HeadersAre(b, 1, Len(b), s.sid, s.nvars)
    BY DEF Writes
  <2> QED
    BY ONLY HeadersGrown, <1>2, <1>3, <2>1, v \in Nat, n \in Nat
<1>8. \A i \in 1 .. Len(r.written) :
        \/ i \in 1 .. Len(s.written) /\ r.written[i] = s.written[i]
        \/ r.written[i] = [sid |-> s.sid, var |-> v, off |-> off, size |-> n]
  BY ONLY CopyVarWrittenResult, <1>5, s \in Session, v \in Nat, off \in Nat,
     n \in Nat
<1> HIDE DEF c
<1>9. ASSUME NEW i \in 1 .. Len(r.written)
      PROVE  /\ r.written[i].off + 1 + r.written[i].size <= s.base + Len(c)
             /\ r.written[i].off >= s.base + 2
             /\ VarAt(c, r.written[i].off - s.base, r.written[i])
             /\ r.written[i].sid = s.sid
  <2> DEFINE e == r.written[i]
  <2>1. CASE i \in 1 .. Len(s.written) /\ r.written[i] = s.written[i]
    <3>1. /\ e.off + 1 + e.size <= s.base + Len(b) /\ e.off >= s.base + 2
          /\ VarAt(b, e.off - s.base, e) /\ e.sid = s.sid
      BY <2>1 DEF Writes
    <3>2. e.off \in Nat /\ e.size \in Nat
      BY <1>2, EntryType
    <3> HIDE DEF e
    <3>3. e.off - s.base \in Nat /\ e.off - s.base >= 2 /\ Len(b) <= Len(c)
      <4>1. \A o, z, m, k \in Nat : o + 1 + z <= m + k /\ o >= m + 2 =>
              o - m \in Nat /\ o - m >= 2
        OBVIOUS
      <4>2. Len(b) <= Len(c)
        BY <1>2, <1>6
      <4> QED
        BY <1>2, <3>1, <3>2, <4>1, <4>2
    <3>4. VarAt(c, e.off - s.base, e)
      <4>1. PICK o : o = e.off - s.base
        OBVIOUS
      <4>2. VarAt(b, o, e) /\ o \in Nat /\ o >= 2
        BY <3>1, <3>3, <4>1
      <4>3. VarAt(c, o, e)
        BY <1>2, <1>6, <3>2, <3>3, <4>2, VarAtKept
      <4> QED
        BY <4>1, <4>3
    <3>5. e.off + 1 + e.size <= s.base + Len(c)
      <4>1. \A o, z, m, k, j \in Nat : o + 1 + z <= m + k /\ k <= j => o + 1 + z <= m + j
        OBVIOUS
      <4>2. Len(c) \in Nat
        BY <1>6
      <4> QED
        BY <1>2, <3>1, <3>2, <3>3, <4>1, <4>2
    <3> QED
      BY <3>1, <3>4, <3>5 DEF e
  <2>2. CASE r.written[i] = [sid |-> s.sid, var |-> v, off |-> off, size |-> n]
    <3>1. e.sid = s.sid /\ e.var = v /\ e.off = off /\ e.size = n
      BY <2>2
    <3> HIDE DEF e
    <3>2. /\ e.off + 1 + e.size <= s.base + Len(c) /\ e.off >= s.base + 2
          /\ e.off - s.base = Len(b)
      <4>1. \A m, k, z \in Nat : k >= 2 =>
              /\ m + k + 1 + z <= m + ((k + 1) + z)
              /\ m + k >= m + 2 /\ (m + k) - m = k
        OBVIOUS
      <4>2. /\ s.base + Len(b) + 1 + n <= s.base + ((Len(b) + 1) + n)
            /\ s.base + Len(b) >= s.base + 2 /\ (s.base + Len(b)) - s.base = Len(b)
        BY <1>2, <4>1
      <4>3. e.off = s.base + Len(b) /\ e.size = n /\ Len(c) = (Len(b) + 1) + n
        BY <1>4, <1>6, <3>1
      <4> QED
        BY <4>2, <4>3
    <3>3. VarAt(c, Len(b), e)
      <4>1. Len(b) + 1 + n <= Len(c)
        BY <1>2, <1>6
      <4>2. \A k \in 1 .. n : Len(b) + 1 + k \in 1 .. Len(c) /\ Len(b) + 1 + k > Len(b) + 1
        BY <1>2, <1>6
      <4>3. \A k \in 1 .. n : c[Len(b) + 1 + k] = Payload(s.sid, v)
        BY <1>6, <4>2
      <4> QED
        BY <1>6, <3>1, <4>1, <4>3 DEF VarAt
    <3> QED
      BY <3>1, <3>2, <3>3 DEF e
  <2> QED
    BY <1>8, <2>1, <2>2
<1>10. c[2] = Garbage
  <2>1. b[2] = Garbage
    BY DEF Writes
  <2>2. 2 \in 1 .. Len(b)
    BY <1>2
  <2> QED
    BY <1>6, <2>1, <2>2
<1>11. Writes(r, f, lg)
  <2>1. Entries(r.old.vars, r.endOfPgs, f, lg)
    BY <1>1 DEF Writes
  <2>2. AllShared(lg) => \/ Len(f) <= r.endOfPgs + Len(r.old.pgs) + 2
                         \/ Len(f) <= r.endOfPgs + r.flushed
    BY <1>1 DEF Writes
  <2>3. HeadersAre(r.buffer, 1, Len(r.buffer), r.sid, r.nvars)
    BY <1>1, <1>5, <1>7
  <2>4. \A i \in 1 .. Len(r.written) :
          /\ r.written[i].off + 1 + r.written[i].size <= r.base + Len(r.buffer)
          /\ r.written[i].off >= r.base + 2
          /\ VarAt(r.buffer, r.written[i].off - r.base, r.written[i])
    BY <1>1, <1>5, <1>9
  <2>5. r.buffer[2] = Garbage
    BY <1>5, <1>10
  <2> QED
    BY <1>1, <2>1, <2>2, <2>3, <2>4, <2>5 DEF Writes
<1> QED
  BY <1>1, <1>9, <1>11 DEF r

(* adios_write keeps the contents.                                         *)
LEMMA WriteContent ==
  ASSUME TypeInv, LayoutInv, ContentInv, NEW g \in Groups, NEW n \in Payloads,
         Write(g, n), TypeInv', LayoutInv'
  PROVE  ContentInv'
<1> DEFINE s == fd[g]
           f == file[g]
           lg == log[g]
           v == s.nvars + 1
<1>1. /\ s \in Session /\ f \in Seq(Cell) /\ s.st = "sized" /\ s.mode # "r"
      /\ Layout(s, f, group[g].time) /\ Numbered(s, f, lg, sessions)
      /\ Writes(s, f, lg)
  BY DEF TypeInv, LayoutInv, ContentInv, Write
<1>2. log' = [log EXCEPT ![g] = lg] /\ sessions' = sessions
  BY DEF TypeInv, Write
<1>3. n \in Nat
  BY PosixWriteAssumption
<1>4. \A i \in 1 .. Len(s.written) : s.written[i].sid = s.sid
  BY <1>1 DEF Numbered
<1>5. CASE WriteBuffered(g, n)
  <2> DEFINE sn == AfterWrite(s, n)
  <2>1. /\ fd' = [fd EXCEPT ![g] = sn] /\ file' = [file EXCEPT ![g] = f]
        /\ s.shared
    BY <1>5 DEF WriteBuffered, TypeInv, AfterWrite, Grown
  <2>2. sn.st = s.st /\ sn.mode = s.mode /\ sn.old = s.old /\ sn.sid = s.sid
    BY <1>1, <1>3, AfterWriteResult
  <2>3. Len(s.buffer) >= 2
    BY <1>1, <2>1 DEF Layout
  <2>4. Writes(sn, f, lg) /\ \A i \in 1 .. Len(sn.written) : sn.written[i].sid = s.sid
    BY <1>1, <1>3, <1>4, <2>1, <2>3, AfterWriteContent
  <2> HIDE DEF sn
  <2>5. ~Quiet(sn)
    BY <1>1, <2>2 DEF Quiet
  <2>6. Numbered(sn, f, lg, sessions)
    BY <1>1, <2>2, <2>4, <2>5, NumberedNext
  <2> QED
    BY <1>2, <2>1, <2>4, <2>5, <2>6, OneGroupContent
<1>6. CASE WriteDirect(g, n)
  <2> DEFINE sn == fd'[g]
             fn == file'[g]
  <2>1. sn \in Session /\ fn \in Seq(Cell) /\ Layout(sn, fn, group'[g].time)
    BY DEF TypeInv, LayoutInv
  <2>2. /\ fd' = [fd EXCEPT ![g] = sn] /\ file' = [file EXCEPT ![g] = fn]
        /\ ~s.shared
    BY <1>6 DEF WriteDirect, TypeInv
  <2>3. /\ sn.st = s.st /\ sn.mode = s.mode /\ sn.old = s.old /\ sn.sid = s.sid
        /\ sn.shared = s.shared /\ sn.endOfPgs = s.endOfPgs /\ sn.buffer = s.buffer
        /\ sn.base = s.base + 1 + n
        /\ sn.written = CopyVarWritten(s, v, s.base, n)
    <3>1. sn = [s EXCEPT !.nvars = v, !.written = CopyVarWritten(s, v, s.base, n),
                  !.pos = sn.pos, !.base = s.base + 1 + n]
      BY <1>1, <1>6 DEF WriteDirect, TypeInv, Session
    <3> QED
      BY <1>1, <3>1 DEF Session
  <2>4. \A i \in 1 .. s.endOfPgs : fn[i] = f[i]
    BY WriteKeeps
  <2> HIDE DEF sn, fn
  <2>5. sn.endOfPgs <= Len(fn) /\ s.buffer = <<>>
    BY <1>1, <2>1, <2>2, <2>3 DEF Layout
  <2>6. Entries(s.old.vars, s.endOfPgs, fn, lg)
    <3>1. s.old.vars \in Seq(Entry)
      BY <1>1 DEF Session, Index
    <3>2. Entries(s.old.vars, s.endOfPgs, f, lg)
      BY <1>1 DEF Writes
    <3> QED
      BY <1>1, <2>1, <2>3, <2>4, <2>5, <3>1, <3>2, EntriesKept
  <2>7. s.nvars \in Nat /\ s.base \in Nat /\ s.written \in Seq(Entry)
    BY <1>1 DEF Session
  <2>8. PICK w \in Nat : w = v
    BY <2>7
  <2>9. PICK base \in Nat : base = s.base
    BY <2>7
  <2>10. \A i \in 1 .. Len(sn.written) :
           \/ i \in 1 .. Len(s.written) /\ sn.written[i] = s.written[i]
           \/ sn.written[i] = [sid |-> s.sid, var |-> w, off |-> base, size |-> n]
    <3>1. sn.written = CopyVarWritten(s, w, base, n)
      BY <2>3, <2>8, <2>9
    <3>2. s \in Session /\ n \in Nat /\ w \in Nat /\ base \in Nat
      BY <1>1, <1>3
    <3>3. WrittenBy(CopyVarWritten(s, w, base, n), s, w, base, n)
      BY <3>2, CopyVarWrittenBy
    <3>4. WrittenBy(sn.written, s, w, base, n)
      BY <3>1, <3>3
    <3> QED
      BY ONLY <3>4 DEF WrittenBy
  <2>11. ASSUME NEW i \in 1 .. Len(sn.written)
         PROVE  /\ sn.written[i].off + 1 + sn.written[i].size <= sn.base + Len(sn.buffer)
                /\ sn.written[i].sid = s.sid
    <3>1. Len(sn.buffer) = 0 /\ Len(s.buffer) = 0
      BY <2>3, <2>5
    <3>2. CASE i \in 1 .. Len(s.written) /\ sn.written[i] = s.written[i]
      <4> DEFINE e == s.written[i]
      <4>1. e.off + 1 + e.size <= s.base + Len(s.buffer)
        BY <1>1, <3>2 DEF Writes
      <4>2. e.off \in Nat /\ e.size \in Nat
        BY <2>7, <3>2, EntryType
      <4> HIDE DEF e
      <4>3. \A o, z, b, m \in Nat : o + 1 + z <= b + 0 => o + 1 + z <= (b + 1 + m) + 0
        OBVIOUS
      <4>4. e.off + 1 + e.size <= sn.base + Len(sn.buffer)
        BY <1>3, <2>3, <2>7, <3>1, <4>1, <4>2, <4>3
      <4> QED
        BY <1>4, <3>2, <4>4 DEF e
    <3>3. CASE sn.written[i] = [sid |-> s.sid, var |-> w, off |-> base, size |-> n]
      <4>1. sn.written[i].sid = s.sid /\ sn.written[i].off = base /\ sn.written[i].size = n
        BY <3>3
      <4>2. sn.base + Len(sn.buffer) = base + 1 + n
        BY <1>3, <2>3, <2>9, <3>1
      <4>3. base + 1 + n <= base + 1 + n
        BY <1>3
      <4> QED
        BY <4>1, <4>2, <4>3
    <3> QED
      BY <2>10, <3>2, <3>3
  <2>12. ~Quiet(sn)
    BY <1>1, <2>3 DEF Quiet
  <2>13. Numbered(sn, fn, lg, sessions)
    BY <1>1, <2>3, <2>11, <2>12, NumberedNext
  <2>14. Writes(sn, fn, lg)
    BY <1>1, <2>2, <2>3, <2>6, <2>11 DEF Writes
  <2> QED
    BY <1>2, <2>2, <2>12, <2>13, <2>14, OneGroupContent
<1> QED
  BY <1>5, <1>6 DEF Write

(* The close of a session that reads keeps the contents.                   *)
LEMMA CloseReadContent ==
  ASSUME TypeInv, LayoutInv, ContentInv, NEW g \in Groups, fd[g].st = "sized",
         CloseRead(g)
  PROVE  ContentInv'
<1> DEFINE s == fd[g]
           f == file[g]
           lg == log[g]
           n == sessions
<1>1. /\ s \in Session /\ f \in Seq(Cell) /\ s.mode = "r" /\ n \in Nat
      /\ GoodFile(f) /\ Numbered(s, f, lg, n) /\ Rest(f, lg)
  BY DEF TypeInv, LayoutInv, ContentInv, CloseRead, Quiet
<1>2. /\ fd' = [fd EXCEPT ![g] = NoSession] /\ file' = [file EXCEPT ![g] = f]
      /\ log' = [log EXCEPT ![g] = lg] /\ sessions' = n
  BY DEF TypeInv, CloseRead, EndSession
<1>3. ASSUME Valid(f), NEW i \in 1 .. Len(IndexOf(f).vars)
      PROVE  IndexOf(f).vars[i].sid <= n
  <2>1. IndexOf(f).vars \in Seq(Entry)
    BY <1>1, <1>3 DEF GoodFile, GoodIndex, Index
  <2>2. IndexOf(f).vars[i].sid \in Nat /\ s.sid \in Nat
    BY <1>1, <2>1, EntryType DEF Session
  <2>3. IndexOf(f).vars[i].sid < s.sid /\ s.sid <= n
    BY <1>1, <1>3 DEF Numbered, Quiet
  <2> QED
    BY <1>1, <2>2, <2>3
<1>4. NoSession.st = "closed"
  BY DEF NoSession
<1>5. Numbered(NoSession, f, lg, n)
  BY <1>1, <1>3, <1>4 DEF Numbered
<1> QED
  BY <1>1, <1>2, <1>4, <1>5, OneGroupContent

(* The headers in the buffer are not touched by close.                     *)
LEMMA HeadersClosed ==
  ASSUME NEW b \in Seq(PlainCell), Len(b) >= 2, NEW c \in Seq(PlainCell), NEW sid, NEW n,
         Len(c) >= Len(b), b[2] = Garbage,
         \A i \in 1 .. Len(b) : i # 2 => c[i] = b[i],
         \A i \in 1 .. Len(c) : i = 2 \/ i > Len(b) => c[i][1] # "var",
         HeadersAre(b, 1, Len(b), sid, n)
  PROVE  HeadersAre(c, 1, Len(c), sid, n)
<1>1. Len(b) \in Nat /\ Len(c) \in Nat /\ 1 .. Len(b) \subseteq 1 .. Len(c)
  OBVIOUS
<1>2. ASSUME NEW i \in 1 .. Len(c), c[i][1] = "var"
      PROVE  c[i][2] = sid /\ c[i][3] \in 1 .. n
  <2>1. i # 2 /\ i \in 1 .. Len(b)
    BY <1>1, <1>2
  <2> QED
    BY <1>2, <2>1 DEF HeadersAre
<1>3. ASSUME NEW v \in 1 .. n PROVE \E i \in 1 .. Len(c) : c[i] = VarHeader(sid, v)
  <2>1. PICK i \in 1 .. Len(b) : b[i] = VarHeader(sid, v)
    BY DEF HeadersAre
  <2>2. b[2] # VarHeader(sid, v)
    BY DEF Garbage, VarHeader
  <2>3. c[i] = b[i] /\ i \in 1 .. Len(c)
    BY <1>1, <2>1, <2>2
  <2> QED
    BY <2>1, <2>3
<1> QED
  BY <1>2, <1>3 DEF HeadersAre

(* adios_close of a buffered session keeps the contents.                   *)
LEMMA CloseBufferedContent ==
  ASSUME TypeInv, LayoutInv, ContentInv, NEW g \in Groups, fd[g].st = "sized",
         CloseBuffered(g)
  PROVE  ContentInv'
<1> DEFINE s == fd[g]
           f == file[g]
           lg == log[g]
           a == group[g].attrs
           b == s.buffer
           c == Closed(s.buffer, s.sid, a)
           sn == [s EXCEPT !.st = "flushing", !.pos = s.endOfPgs, !.buffer = c]
<1>1. /\ s \in Session /\ s.mode # "r" /\ s.shared /\ a \in Nat
      /\ Layout(s, f, group[g].time) /\ Numbered(s, f, lg, sessions)
      /\ Writes(s, f, lg)
  BY DEF TypeInv, LayoutInv, ContentInv, CloseBuffered
<1>2. /\ b \in Seq(PlainCell) /\ Len(b) >= 2 /\ s.sid \in Nat
      /\ s.varsStart = 1 /\ s.flushed = 0 /\ s.base \in Nat
      /\ s.written \in Seq(Entry) /\ Len(b) \in Nat
  BY <1>1 DEF Layout, Session
<1>3. /\ fd' = [fd EXCEPT ![g] = sn] /\ file' = [file EXCEPT ![g] = f]
      /\ log' = [log EXCEPT ![g] = lg] /\ sessions' = sessions
  <2>1. s.varsStart + 1 = 2
    BY <1>2
  <2>2. fd' = [fd EXCEPT ![g] = sn]
    BY <2>1 DEF CloseBuffered, Closed, AttrCells, AttributeCells
  <2>3. UNCHANGED <<file, log, sessions>>
    BY DEF CloseBuffered
  <2> QED
    BY <2>2, <2>3 DEF TypeInv
<1>4. /\ c \in Seq(PlainCell) /\ Len(c) >= Len(b)
      /\ \A i \in 1 .. Len(b) : i # 2 => c[i] = b[i]
      /\ \A i \in 1 .. Len(c) : i = 2 \/ i > Len(b) => c[i][1] # "var"
  <2>1. PICK d \in Seq(PlainCell), i \in Nat, k \in Nat : d = b /\ i = s.sid /\ k = a
    BY <1>1, <1>2
  <2>2. Len(d) >= 2 /\ d \in Seq(PlainCell) /\ i \in Nat /\ k \in Nat
    BY <1>2, <2>1
  <2>3. /\ Closed(d, i, k) \in Seq(PlainCell) /\ Len(Closed(d, i, k)) >= Len(d)
        /\ \A j \in 1 .. Len(d) : j # 2 => Closed(d, i, k)[j] = d[j]
        /\ \A j \in 1 .. Len(Closed(d, i, k)) :
             j = 2 \/ j > Len(d) => Closed(d, i, k)[j][1] # "var"
    BY ONLY <2>2, ClosedResult
  <2> QED
    BY <2>1, <2>3
<1> HIDE DEF c
<1>5. /\ sn.st = "flushing" /\ sn.shared = s.shared /\ sn.mode = s.mode
      /\ sn.base = s.base /\ sn.endOfPgs = s.endOfPgs /\ sn.nvars = s.nvars
      /\ sn.old = s.old /\ sn.flushed = s.flushed /\ sn.buffer = c
      /\ sn.sid = s.sid /\ sn.written = s.written
  BY <1>1 DEF Session
<1> HIDE DEF sn
<1>6. ~Quiet(sn)
  BY <1>1, <1>5 DEF Quiet
<1>7. Numbered(sn, f, lg, sessions)
  <2>1. \A i \in 1 .. Len(s.written) : s.written[i].sid = s.sid
    BY <1>1 DEF Numbered
  <2> QED
    BY <1>1, <1>5, <1>6, <2>1, NumberedNext
<1>8. HeadersAre(c, 1, Len(c), s.sid, s.nvars)
  <2>1. HeadersAre(b, 1, Len(b), s.sid, s.nvars) /\ b[2] = Garbage
    BY <1>1 DEF Writes
  <2> QED
    BY <1>2, <1>4, <2>1, HeadersClosed
<1>9. ASSUME NEW i \in 1 .. Len(s.written)
      PROVE  /\ s.written[i].off + 1 + s.written[i].size <= s.base + Len(c)
             /\ s.written[i].off >= s.base + 2
             /\ VarAt(c, s.written[i].off - s.base, s.written[i])
  <2> DEFINE e == s.written[i]
  <2>1. /\ e.off + 1 + e.size <= s.base + Len(b) /\ e.off >= s.base + 2
        /\ VarAt(b, e.off - s.base, e)
    BY <1>1 DEF Writes
  <2>2. e.off \in Nat /\ e.size \in Nat
    BY <1>2, EntryType
  <2> HIDE DEF e
  <2>3. /\ \A o, z, m, k, j \in Nat : o + 1 + z <= m + k /\ k <= j => o + 1 + z <= m + j
        /\ \A o, m \in Nat : o >= m + 2 => o - m \in Nat /\ o - m >= 2
    OBVIOUS
  <2>4. Len(c) \in Nat /\ Len(b) <= Len(c)
    BY <1>2, <1>4
  <2>5. /\ e.off + 1 + e.size <= s.base + Len(c)
        /\ e.off - s.base \in Nat /\ e.off - s.base >= 2
    <3>1. e.off + 1 + e.size <= s.base + Len(c)
      BY <1>2, <2>1, <2>2, <2>3, <2>4
    <3>2. e.off - s.base \in Nat /\ e.off - s.base >= 2
      BY <1>2, <2>1, <2>2, <2>3
    <3> QED
      BY <3>1, <3>2
  <2>6. PICK o : o = e.off - s.base
    OBVIOUS
  <2>7. VarAt(b, o, e) /\ o \in Nat /\ o >= 2
    BY <2>1, <2>5, <2>6
  <2>8. VarAt(c, o, e)
    BY <1>2, <1>4, <2>2, <2>7, VarAtKept
  <2> QED
    BY <2>1, <2>5, <2>6, <2>8 DEF e
<1>10. Writes(sn, f, lg)
  <2>1. Entries(sn.old.vars, sn.endOfPgs, f, lg)
    BY <1>1, <1>5 DEF Writes
  <2>2. AllShared(lg) => \/ Len(f) <= sn.endOfPgs + Len(sn.old.pgs) + 2
                         \/ Len(f) <= sn.endOfPgs + sn.flushed
    BY <1>1, <1>5 DEF Writes
  <2>3. \A i \in 1 .. Len(sn.written) :
          /\ sn.written[i].off + 1 + sn.written[i].size <= sn.base + Len(sn.buffer)
          /\ sn.written[i].off >= sn.base + 2
          /\ VarAt(sn.buffer, sn.written[i].off - sn.base, sn.written[i])
    BY <1>5, <1>9
  <2>4. HeadersAre(sn.buffer, 1, Len(sn.buffer), sn.sid, sn.nvars)
    BY <1>5, <1>8
  <2>5. sn.flushed = 0 /\ sn.flushed # Len(sn.buffer)
    <3>1. Len(c) # 0
      BY <1>2, <1>4
    <3> QED
      BY <1>2, <1>5, <3>1
  <2> QED
    BY <1>5, <2>1, <2>2, <2>3, <2>4, <2>5 DEF Writes
<1> QED
  BY <1>3, <1>6, <1>7, <1>10, OneGroupContent

(* adios_close of a session without a buffer keeps the contents of the     *)
(* others.                                                                 *)
LEMMA CloseDirectContent ==
  ASSUME TypeInv, LayoutInv, ContentInv, NEW g \in Groups, fd[g].st = "sized",
         CloseDirect(g), TypeInv', LayoutInv'
  PROVE  ContentInv'
<1> DEFINE s == fd[g]
           f == file[g]
           lg == log[g]
           a == group[g].attrs
           sn == fd'[g]
           fn == file'[g]
<1>1. /\ s \in Session /\ f \in Seq(Cell) /\ s.mode # "r" /\ ~s.shared /\ a \in Nat
      /\ Layout(s, f, group[g].time) /\ Numbered(s, f, lg, sessions)
      /\ Writes(s, f, lg)
  BY DEF TypeInv, LayoutInv, ContentInv, CloseDirect
<1>2. sn \in Session /\ fn \in Seq(Cell) /\ Layout(sn, fn, group'[g].time)
  BY DEF TypeInv, LayoutInv
<1>3. /\ fd' = [fd EXCEPT ![g] = sn] /\ file' = [file EXCEPT ![g] = fn]
      /\ log' = [log EXCEPT ![g] = lg] /\ sessions' = sessions
  <2>1. UNCHANGED <<log, sessions>>
    BY DEF CloseDirect
  <2> QED
    BY <2>1 DEF CloseDirect, TypeInv
<1>4. /\ sn.st = "flushing" /\ sn.mode = s.mode /\ sn.old = s.old /\ sn.sid = s.sid
      /\ sn.shared = s.shared /\ sn.endOfPgs = s.endOfPgs /\ sn.buffer = s.buffer
      /\ sn.base = s.base + 1 + a /\ sn.written = s.written
  <2>1. sn = [s EXCEPT !.st = "flushing", !.varsStart = s.pos,
                !.varsHeaderSize = s.pos + 1 - s.base,
                !.pos = s.pos + (s.pos + 1 - s.base), !.base = s.base + 1 + a]
    BY <1>1 DEF CloseDirect, TypeInv
  <2> QED
    BY <1>1, <2>1 DEF Session
<1>5. \A i \in 1 .. s.endOfPgs : fn[i] = f[i]
  BY CloseDirectLayout
<1> HIDE DEF sn, fn
<1>6. sn.endOfPgs <= Len(fn) /\ s.buffer = <<>>
  BY <1>1, <1>2, <1>4 DEF Layout
<1>7. Entries(s.old.vars, s.endOfPgs, fn, lg)
  <2>1. s.old.vars \in Seq(Entry)
    BY <1>1 DEF Session, Index
  <2>2. Entries(s.old.vars, s.endOfPgs, f, lg)
    BY <1>1 DEF Writes
  <2> QED
    BY <1>1, <1>2, <1>4, <1>5, <1>6, <2>1, <2>2, EntriesKept
<1>8. s.base \in Nat /\ s.written \in Seq(Entry)
  BY <1>1 DEF Session
<1>9. ASSUME NEW i \in 1 .. Len(s.written)
      PROVE  s.written[i].off + 1 + s.written[i].size <= sn.base + Len(sn.buffer)
  <2> DEFINE e == s.written[i]
  <2>1. e.off + 1 + e.size <= s.base + Len(s.buffer)
    BY <1>1 DEF Writes
  <2>2. e.off \in Nat /\ e.size \in Nat
    BY <1>8, EntryType
  <2> HIDE DEF e
  <2>3. \A o, z, b, m \in Nat : o + 1 + z <= b + 0 => o + 1 + z <= (b + 1 + m) + 0
    OBVIOUS
  <2>4. Len(sn.buffer) = 0 /\ Len(s.buffer) = 0
    BY <1>4, <1>6
  <2>5. e.off + 1 + e.size <= sn.base + Len(sn.buffer)
    BY <1>1, <1>4, <1>8, <2>1, <2>2, <2>3, <2>4
  <2> QED
    BY <2>5 DEF e
<1>10. ~Quiet(sn)
  BY <1>1, <1>4 DEF Quiet
<1>11. Numbered(sn, fn, lg, sessions)
  <2>1. \A i \in 1 .. Len(s.written) : s.written[i].sid = s.sid
    BY <1>1 DEF Numbered
  <2> QED
    BY <1>1, <1>4, <1>10, <2>1, NumberedNext
<1>12. Writes(sn, fn, lg)
  BY <1>1, <1>4, <1>7, <1>9 DEF Writes
<1> QED
  BY <1>3, <1>10, <1>11, <1>12, OneGroupContent

(* A write at the end of the old process groups.                           *)
LEMMA WriteAtEnd ==
  ASSUME NEW f \in Seq(Cell), NEW s \in Session, NEW cells \in Seq(Cell)
  PROVE  /\ Len(WriteAt(f, s.endOfPgs, cells))
              = IF Len(f) >= s.endOfPgs + Len(cells) THEN Len(f)
                ELSE s.endOfPgs + Len(cells)
         /\ \A i \in 1 .. Len(cells) :
              WriteAt(f, s.endOfPgs, cells)[s.endOfPgs + i] = cells[i]
<1>1. PICK p \in Nat : p = s.endOfPgs
  BY DEF Session
<1>2. /\ Len(WriteAt(f, p, cells))
           = IF Len(f) >= p + Len(cells) THEN Len(f) ELSE p + Len(cells)
      /\ \A i \in 1 .. Len(cells) : WriteAt(f, p, cells)[p + i] = cells[i]
  BY ONLY WriteAtResult, f \in Seq(Cell), cells \in Seq(Cell), p \in Nat
<1> QED
  BY <1>1, <1>2

(* The one write of a buffer that fits.                                    *)
LEMMA FlushContent ==
  ASSUME TypeInv, LayoutInv, ContentInv, NEW g \in Groups, FlushBuffer(g),
         Len(fd[g].buffer) <= MaxWrite, TypeInv', LayoutInv'
  PROVE  ContentInv'
<1> DEFINE s == fd[g]
           f == file[g]
           lg == log[g]
           b == s.buffer
           sn == fd'[g]
           fn == file'[g]
<1>1. /\ s \in Session /\ f \in Seq(Cell) /\ s.st = "flushing"
      /\ s.flushed < Len(b) /\ Layout(s, f, group[g].time)
      /\ Numbered(s, f, lg, sessions)
  BY DEF TypeInv, LayoutInv, ContentInv, FlushBuffer
<1>2. /\ s.endOfPgs \in Nat /\ s.flushed \in Nat /\ b \in Seq(PlainCell)
      /\ Len(b) \in Nat /\ s.pos \in Nat
  BY <1>1 DEF Session
<1>3. s.mode # "r" /\ s.shared /\ s.pos = s.endOfPgs + s.flushed
  <2>1. s.buffer # <<>>
    BY <1>1, <1>2
  <2> QED
    BY <1>1, <2>1 DEF Layout
<1>4. Writes(s, f, lg)
  BY <1>1, <1>3 DEF ContentInv
<1>5. s.flushed = 0 /\ s.pos = s.endOfPgs
  <2>1. s.flushed \in {0, Len(b)}
    BY <1>1, <1>3, <1>4 DEF Writes
  <2>2. s.flushed = 0
    BY <1>1, <1>2, <2>1
  <2> QED
    BY <1>2, <1>3, <2>2
<1>6. Chunk(s) = b
  <2>1. /\ Chunk(s) \in Seq(PlainCell)
        /\ Len(Chunk(s)) = IF MaxWrite <= Len(s.buffer) - s.flushed THEN MaxWrite
                           ELSE Len(s.buffer) - s.flushed
        /\ \A i \in 1 .. Len(Chunk(s)) : Chunk(s)[i] = s.buffer[i]
    BY <1>1, ChunkResult
  <2>2. Len(b) - s.flushed = Len(b)
    BY <1>2, <1>5
  <2>3. Len(Chunk(s)) = Len(b)
    <3>1. MaxWrite \in Nat
      BY PosixWriteAssumption
    <3> QED
      BY <1>2, <2>1, <2>2, <3>1
  <2> QED
    <3>1. \A i \in 1 .. Len(b) : Chunk(s)[i] = b[i]
      BY <2>1, <2>3
    <3>2. \A x, y \in Seq(PlainCell) :
            Len(x) = Len(y) /\ (\A i \in 1 .. Len(y) : x[i] = y[i]) => x = y
      OBVIOUS
    <3> QED
      BY ONLY <1>2, <2>1, <2>3, <3>1, <3>2
<1>7. /\ fd' = [fd EXCEPT ![g] = sn] /\ file' = [file EXCEPT ![g] = fn]
      /\ log' = [log EXCEPT ![g] = lg] /\ sessions' = sessions
  BY DEF FlushBuffer, TypeInv
<1>8. fn = WriteAt(f, s.endOfPgs, b) /\ fn \in Seq(Cell)
  BY <1>5, <1>6 DEF FlushBuffer, TypeInv
<1>9. /\ sn.st = s.st /\ sn.shared = s.shared /\ sn.mode = s.mode
      /\ sn.base = s.base /\ sn.endOfPgs = s.endOfPgs /\ sn.nvars = s.nvars
      /\ sn.old = s.old /\ sn.buffer = b /\ sn.written = s.written
      /\ sn.sid = s.sid /\ sn.flushed = s.flushed + Len(b)
  BY <1>1, <1>6 DEF FlushBuffer, TypeInv, Session
<1>10. \A i \in 1 .. s.endOfPgs : fn[i] = f[i]
  BY FlushLayout
<1> HIDE DEF sn, fn
<1>11. sn.flushed = Len(b)
  BY <1>2, <1>5, <1>9
<1>12. /\ Len(fn) = IF Len(f) >= s.endOfPgs + Len(b) THEN Len(f) ELSE s.endOfPgs + Len(b)
       /\ \A i \in 1 .. Len(b) : fn[s.endOfPgs + i] = b[i]
  <2>1. b \in Seq(Cell)
    BY <1>2 DEF Cell
  <2> QED
    BY <1>1, <1>8, <2>1, WriteAtEnd, SMTT(30)
<1>13. Len(f) \in Nat /\ Len(fn) \in Nat /\ Len(s.old.pgs) \in Nat
  <2>1. s.old.pgs \in Seq(Pg)
    BY <1>1 DEF Session, Index
  <2> QED
    BY <1>1, <1>8, <2>1
<1>14. s.endOfPgs <= Len(fn) /\ s.endOfPgs + Len(b) <= Len(fn)
  <2>1. \A l, m, k \in Nat : k = (IF l >= m THEN l ELSE m) => m <= k
    OBVIOUS
  <2>2. s.endOfPgs + Len(b) \in Nat /\ s.endOfPgs <= s.endOfPgs + Len(b)
    BY <1>2
  <2>3. s.endOfPgs + Len(b) <= Len(fn)
    BY ONLY <1>12, <1>13, <2>1, <2>2
  <2> QED
    BY <1>2, <1>13, <2>2, <2>3
<1>15. Entries(s.old.vars, s.endOfPgs, fn, lg)
  <2>1. s.old.vars \in Seq(Entry)
    BY <1>1 DEF Session, Index
  <2>2. Entries(s.old.vars, s.endOfPgs, f, lg)
    BY <1>4 DEF Writes
  <2> QED
    BY <1>1, <1>8, <1>10, <1>14, <2>1, <2>2, EntriesKept
<1>16. AllShared(lg) => \/ Len(fn) <= s.endOfPgs + Len(s.old.pgs) + 2
                        \/ Len(fn) <= s.endOfPgs + Len(b)
  <2>1. AllShared(lg) => \/ Len(f) <= s.endOfPgs + Len(s.old.pgs) + 2
                         \/ Len(f) <= s.endOfPgs + s.flushed
    BY <1>3, <1>4 DEF Writes
  <2> QED
    BY <1>2, <1>5, <1>12, <1>13, <2>1
<1>17. ~Quiet(sn)
  BY <1>1, <1>3, <1>9 DEF Quiet
<1>18. Numbered(sn, fn, lg, sessions)
  <2>1. \A i \in 1 .. Len(s.written) : s.written[i].sid = s.sid
    BY <1>1 DEF Numbered
  <2> QED
    BY <1>1, <1>9, <1>17, <2>1, NumberedNext
<1>19. Writes(sn, fn, lg)
  <2>1. \A i \in 1 .. Len(sn.written) :
          /\ sn.written[i].off + 1 + sn.written[i].size <= sn.base + Len(sn.buffer)
          /\ sn.written[i].off >= sn.base + 2
          /\ VarAt(sn.buffer, sn.written[i].off - sn.base, sn.written[i])
    BY <1>3, <1>4, <1>9 DEF Writes
  <2>2. HeadersAre(sn.buffer, 1, Len(sn.buffer), sn.sid, sn.nvars)
    BY <1>3, <1>4, <1>9 DEF Writes
  <2>3. AllShared(lg) => \/ Len(fn) <= sn.endOfPgs + Len(sn.old.pgs) + 2
                         \/ Len(fn) <= sn.endOfPgs + sn.flushed
    BY <1>9, <1>11, <1>16
  <2>4. Entries(sn.old.vars, sn.endOfPgs, fn, lg)
    BY <1>9, <1>15
  <2>5. /\ sn.flushed = Len(sn.buffer) /\ sn.endOfPgs + Len(sn.buffer) <= Len(fn)
        /\ \A i \in 1 .. Len(sn.buffer) : fn[sn.endOfPgs + i] = sn.buffer[i]
    BY <1>9, <1>11, <1>12, <1>14
  <2> QED
    BY <1>1, <1>3, <1>9, <2>1, <2>2, <2>3, <2>4, <2>5 DEF Writes
<1> QED
  BY <1>7, <1>17, <1>18, <1>19, OneGroupContent

(* The log with the session that ends.                                     *)
Logged(s, lg) == Append(lg, [sid |-> s.sid, shared |-> s.shared, nvars |-> s.nvars])

(* The log with the session that closes.                                   *)
LEMMA LoggedResult ==
  ASSUME NEW s \in Session, NEW lg \in Seq(LogEntry)
  PROVE  LET ln == Logged(s, lg) IN
         /\ ln \in Seq(LogEntry) /\ ln # <<>> /\ Len(ln) = Len(lg) + 1
         /\ \A k \in 1 .. Len(lg) : ln[k] = lg[k]
         /\ ln[Len(lg) + 1].sid = s.sid /\ ln[Len(lg) + 1].shared = s.shared
         /\ Last(ln).sid = s.sid /\ Last(ln).shared = s.shared /\ Last(ln).nvars = s.nvars
<1> DEFINE x == [sid |-> s.sid, shared |-> s.shared, nvars |-> s.nvars]
           ln == Append(lg, x)
<1>1. x \in LogEntry /\ x.sid = s.sid /\ x.shared = s.shared /\ x.nvars = s.nvars
  BY DEF Session, LogEntry
<1> HIDE DEF x
<1>2. /\ ln \in Seq(LogEntry) /\ Len(ln) = Len(lg) + 1 /\ ln[Len(lg) + 1] = x
      /\ \A k \in 1 .. Len(lg) : ln[k] = lg[k]
  BY <1>1
<1> HIDE DEF ln
<1>3. ln # <<>> /\ Last(ln) = x
  BY <1>2 DEF Last
<1>4. Logged(s, lg) = ln
  BY DEF Logged, ln, x
<1> QED
  BY <1>1, <1>2, <1>3, <1>4

(* Which sessions of the new log were buffered.                            *)
LEMMA LoggedBuffered ==
  ASSUME NEW s \in Session, NEW lg \in Seq(LogEntry)
  PROVE  /\ \A sid : Buffered(Logged(s, lg), sid) => Buffered(lg, sid)
         /\ Buffered(Logged(s, lg), s.sid) => s.shared
         /\ AllShared(Logged(s, lg)) => AllShared(lg) /\ s.shared
<1> DEFINE ln == Logged(s, lg)
<1>1. /\ Len(ln) = Len(lg) + 1 /\ \A k \in 1 .. Len(lg) : ln[k] = lg[k]
      /\ ln[Len(lg) + 1].sid = s.sid /\ ln[Len(lg) + 1].shared = s.shared
  BY LoggedResult
<1> HIDE DEF ln
<1>2. 1 .. Len(lg) \subseteq 1 .. Len(ln) /\ Len(lg) + 1 \in 1 .. Len(ln)
  BY <1>1
<1>3. \A sid : Buffered(ln, sid) => Buffered(lg, sid)
  BY <1>1, <1>2 DEF Buffered
<1>4. Buffered(ln, s.sid) => s.shared
  BY <1>1, <1>2 DEF Buffered
<1>5. AllShared(ln) => AllShared(lg) /\ s.shared
  BY <1>1, <1>2 DEF AllShared
<1> QED
  BY <1>3, <1>4, <1>5 DEF ln

(* The variables of the new index: those of the old one, and those of the  *)
(* session, which the flush has copied to the file.                        *)
LEMMA NewEntries ==
  ASSUME NEW s \in Session, NEW f \in Seq(Cell), NEW t \in Nat, NEW lg \in Seq(LogEntry),
         NEW n \in Nat, Layout(s, f, t), s.st = "flushing", s.flushed = Len(s.buffer),
         Numbered(s, f, lg, n), Writes(s, f, lg), NEW w \in Seq(Cell),
         Len(w) >= IndexStart(s),
         \A i \in 1 .. Len(f) : i <= IndexStart(s) => w[i] = f[i]
  PROVE  Entries(NewIndex(s, t).vars, IndexStart(s), w, Logged(s, lg))
<1> DEFINE vs == NewIndex(s, t).vars
           o == s.old.vars
           ln == Logged(s, lg)
<1>1. /\ s.endOfPgs \in Nat /\ s.base \in Nat /\ Len(s.buffer) \in Nat
      /\ o \in Seq(Entry) /\ s.written \in Seq(Entry) /\ s.buffer \in Seq(PlainCell)
      /\ Len(f) \in Nat /\ Len(w) \in Nat
  <2>1. o \in Seq(Entry) /\ s.written \in Seq(Entry) /\ s.buffer \in Seq(PlainCell)
    BY DEF Session, Index
  <2>2. s.endOfPgs \in Nat /\ s.base \in Nat
    BY DEF Session
  <2> QED
    BY <2>1, <2>2
<1>2. vs = o \o s.written
  BY DEF NewIndex
<1>3. /\ IndexStart(s) \in Nat /\ IndexStart(s) >= s.endOfPgs + 2
      /\ IndexStart(s) = s.base + Len(s.buffer)
  BY SessionIndex DEF IndexStart
<1>4. s.endOfPgs <= Len(f) /\ (s.shared => s.base = s.endOfPgs)
  BY DEF Layout
<1> HIDE DEF vs, o
<1>5. /\ vs \in Seq(Entry) /\ Len(vs) = Len(o) + Len(s.written)
      /\ \A i \in 1 .. Len(o) : vs[i] = o[i]
      /\ \A i \in 1 .. Len(s.written) : vs[Len(o) + i] = s.written[i]
  BY <1>1, <1>2
<1>6. ASSUME NEW i \in 1 .. Len(o)
      PROVE  /\ o[i].off + 1 + o[i].size <= IndexStart(s)
             /\ Buffered(ln, o[i].sid) => VarAt(w, o[i].off, o[i])
  <2> DEFINE e == o[i]
  <2>1. /\ e.off + 1 + e.size <= s.endOfPgs
        /\ Buffered(lg, e.sid) => VarAt(f, e.off, e)
    BY DEF Writes, Entries, o
  <2>2. e.off \in Nat /\ e.size \in Nat
    BY <1>1, EntryType
  <2> HIDE DEF e
  <2>3. Buffered(ln, e.sid) => Buffered(lg, e.sid)
    BY LoggedBuffered
  <2>4. ASSUME VarAt(f, e.off, e) PROVE VarAt(w, e.off, e)
    <3>1. e.off + 1 + e.size <= Len(w)
      <4>1. \A x, z, m, k, l \in Nat : x + 1 + z <= m /\ k >= m + 2 /\ l >= k => x + 1 + z <= l
        OBVIOUS
      <4> QED
        BY <1>1, <1>3, <2>1, <2>2, <4>1
    <3>2. \A x, z, m, k, l \in Nat : x + 1 + z <= m /\ m <= k /\ l >= m + 2 =>
            /\ x + 1 \in 1 .. k /\ x + 1 <= l
            /\ \A j \in 1 .. z : x + 1 + j \in 1 .. k /\ x + 1 + j <= l
      OBVIOUS
    <3>3. /\ e.off + 1 \in 1 .. Len(f) /\ e.off + 1 <= IndexStart(s)
          /\ \A j \in 1 .. e.size : e.off + 1 + j \in 1 .. Len(f) /\ e.off + 1 + j <= IndexStart(s)
      BY <1>1, <1>3, <1>4, <2>1, <2>2, <3>2
    <3> QED
      BY <2>4, <3>1, <3>3 DEF VarAt
  <2>5. e.off + 1 + e.size <= IndexStart(s)
    <3>1. \A x, z, m, k \in Nat : x + 1 + z <= m /\ k >= m + 2 => x + 1 + z <= k
      OBVIOUS
    <3> QED
      BY <1>1, <1>3, <2>1, <2>2, <3>1
  <2> QED
    BY <2>1, <2>3, <2>4, <2>5 DEF e
<1>7. ASSUME NEW i \in 1 .. Len(s.written)
      PROVE  /\ s.written[i].off + 1 + s.written[i].size <= IndexStart(s)
             /\ Buffered(ln, s.written[i].sid) => VarAt(w, s.written[i].off, s.written[i])
  <2> DEFINE e == s.written[i]
  <2>1. /\ e.off + 1 + e.size <= IndexStart(s)
        /\ s.shared => e.off >= s.base + 2 /\ VarAt(s.buffer, e.off - s.base, e)
    BY <1>3 DEF Writes
  <2>2. e.off \in Nat /\ e.size \in Nat
    BY <1>1, EntryType
  <2>3. e.sid = s.sid
    BY DEF Numbered
  <2> HIDE DEF e
  <2>4. ASSUME s.shared PROVE VarAt(w, e.off, e)
    <3>1. /\ s.endOfPgs + Len(s.buffer) <= Len(f) /\ s.base = s.endOfPgs
          /\ \A j \in 1 .. Len(s.buffer) : f[s.endOfPgs + j] = s.buffer[j]
      BY <1>4, <2>4 DEF Writes
    <3>2. \A j \in 1 .. Len(s.buffer) :
            s.endOfPgs + j \in 1 .. Len(f) /\ s.endOfPgs + j <= IndexStart(s)
      <4>1. \A m, k, l \in Nat : m + k <= l =>
              \A j \in 1 .. k : m + j \in 1 .. l /\ m + j <= m + k
        OBVIOUS
      <4>2. IndexStart(s) = s.endOfPgs + Len(s.buffer)
        BY <1>3, <3>1
      <4> QED
        BY <1>1, <3>1, <4>1, <4>2
    <3>3. \A j \in 1 .. Len(s.buffer) : w[s.endOfPgs + j] = s.buffer[j]
      BY <3>1, <3>2
    <3>4. PICK p \in Nat : p = e.off - s.base
      BY <1>1, <2>1, <2>2, <2>4
    <3>5. /\ p + 1 + e.size <= Len(s.buffer)
          /\ s.buffer[p + 1] = VarHeader(e.sid, e.var)
          /\ \A k \in 1 .. e.size : s.buffer[p + 1 + k] = Payload(e.sid, e.var)
      BY <2>1, <2>4, <3>4 DEF VarAt
    <3>6. e.off = s.endOfPgs + p
      BY <1>1, <2>2, <3>1, <3>4
    <3>7. e.off + 1 + e.size <= Len(w)
      BY <1>1, <1>3, <2>1, <2>2
    <3>8. p + 1 \in 1 .. Len(s.buffer) /\ e.off + 1 = s.endOfPgs + (p + 1)
      <4>1. \A q, z, m, k \in Nat : q + 1 + z <= k =>
              q + 1 \in 1 .. k /\ (m + q) + 1 = m + (q + 1)
        OBVIOUS
      <4> QED
        BY <1>1, <2>2, <3>5, <3>6, <4>1
    <3>9. ASSUME NEW k \in 1 .. e.size
          PROVE  p + 1 + k \in 1 .. Len(s.buffer) /\ e.off + 1 + k = s.endOfPgs + (p + 1 + k)
      <4>1. \A q, z, l \in Nat : q + 1 + z <= l => \A j \in 1 .. z : q + 1 + j \in 1 .. l
        OBVIOUS
      <4>2. p + 1 + k \in 1 .. Len(s.buffer)
        BY <1>1, <2>2, <3>5, <4>1
      <4>3. \A q, j, m \in Nat : (m + q) + 1 + j = m + (q + 1 + j)
        OBVIOUS
      <4>4. k \in Nat
        BY <2>2
      <4>5. e.off + 1 + k = s.endOfPgs + (p + 1 + k)
        BY <1>1, <3>6, <4>3, <4>4
      <4> QED
        BY <4>2, <4>5
    <3>10. w[e.off + 1] = VarHeader(e.sid, e.var)
      BY <3>3, <3>5, <3>8
    <3>11. \A k \in 1 .. e.size : w[e.off + 1 + k] = Payload(e.sid, e.var)
      BY <3>3, <3>5, <3>9
    <3> QED
      BY <3>7, <3>10, <3>11 DEF VarAt
  <2>5. Buffered(ln, e.sid) => s.shared
    BY <2>3, LoggedBuffered
  <2> QED
    BY <2>1, <2>4, <2>5 DEF e
<1> HIDE DEF ln
<1>8. ASSUME NEW i \in 1 .. Len(vs)
      PROVE  /\ vs[i].off + 1 + vs[i].size <= IndexStart(s)
             /\ Buffered(ln, vs[i].sid) => VarAt(w, vs[i].off, vs[i])
  <2>1. CASE i \in 1 .. Len(o)
    BY <1>5, <1>6, <2>1
  <2>2. CASE i \notin 1 .. Len(o)
    <3> DEFINE j == i - Len(o)
    <3>1. j \in 1 .. Len(s.written) /\ i = Len(o) + j
      BY <1>1, <1>5, <2>2
    <3> HIDE DEF j
    <3>2. vs[i] = s.written[j]
      BY <1>5, <3>1
    <3> QED
      BY <1>7, <3>1, <3>2
  <2> QED
    BY <2>1, <2>2
<1>9. Entries(vs, IndexStart(s), w, ln)
  BY <1>8 DEF Entries
<1> QED
  BY <1>9 DEF vs, ln

(* The headers of the last PG are those of the buffer.                     *)
LEMMA HeadersMoved ==
  ASSUME NEW s \in Session, NEW w, NEW b \in Seq(PlainCell), NEW sid, NEW n,
         \A i \in 1 .. Len(b) : w[s.endOfPgs + i] = b[i],
         HeadersAre(b, 1, Len(b), sid, n)
  PROVE  HeadersAre(w, s.endOfPgs + 1, s.endOfPgs + Len(b), sid, n)
<1>1. PICK p \in Nat : p = s.endOfPgs
  BY DEF Session
<1>2. Len(b) \in Nat
  OBVIOUS
<1>3. ASSUME NEW i \in p + 1 .. p + Len(b), w[i][1] = "var"
      PROVE  w[i][2] = sid /\ w[i][3] \in 1 .. n
  <2>1. i - p \in 1 .. Len(b) /\ p + (i - p) = i
    BY <1>2
  <2>2. w[i] = b[i - p]
    BY <1>1, <2>1
  <2> QED
    BY <1>3, <2>1, <2>2 DEF HeadersAre
<1>4. ASSUME NEW v \in 1 .. n PROVE \E i \in p + 1 .. p + Len(b) : w[i] = VarHeader(sid, v)
  <2>1. PICK j \in 1 .. Len(b) : b[j] = VarHeader(sid, v)
    BY DEF HeadersAre
  <2>2. p + j \in p + 1 .. p + Len(b)
    BY <1>2
  <2>3. w[p + j] = VarHeader(sid, v)
    BY <1>1, <2>1
  <2> QED
    BY <2>2, <2>3
<1>5. HeadersAre(w, p + 1, p + Len(b), sid, n)
  BY <1>3, <1>4 DEF HeadersAre
<1> QED
  BY <1>1, <1>5

(* Entries of a concatenation are entries of its parts.                    *)
LEMMA ConcatEntries ==
  ASSUME NEW a \in Seq(Entry), NEW b \in Seq(Entry)
  PROVE  \A i \in 1 .. Len(a \o b) :
           \/ i \in 1 .. Len(a) /\ (a \o b)[i] = a[i]
           \/ \E j \in 1 .. Len(b) : (a \o b)[i] = b[j]
<1> SUFFICES ASSUME NEW i \in 1 .. Len(a \o b)
             PROVE  \/ i \in 1 .. Len(a) /\ (a \o b)[i] = a[i]
                    \/ \E j \in 1 .. Len(b) : (a \o b)[i] = b[j]
  OBVIOUS
<1>1. CASE i \in 1 .. Len(a)
  BY <1>1
<1>2. CASE i \notin 1 .. Len(a)
  <2>1. i - Len(a) \in 1 .. Len(b) /\ (a \o b)[i] = b[i - Len(a)]
    BY <1>2
  <2> QED
    BY <2>1
<1> QED
  BY <1>1, <1>2

(* The file at rest after index and minifooter are written.                *)
LEMMA WriteIndexRest ==
  ASSUME NEW s \in Session, NEW f \in Seq(Cell), NEW t \in Nat, NEW lg \in Seq(LogEntry),
         NEW n \in Nat, Layout(s, f, t), s.st = "flushing", s.flushed = Len(s.buffer),
         Numbered(s, f, lg, n), Writes(s, f, lg)
  PROVE  /\ Rest(IndexedFile(s, f, t), Logged(s, lg))
         /\ Numbered(NoSession, IndexedFile(s, f, t), Logged(s, lg), n)
<1> DEFINE w == IndexedFile(s, f, t)
           ln == Logged(s, lg)
           ix == NewIndex(s, t)
<1>1. /\ w \in Seq(Cell) /\ GoodFile(w)
      /\ Valid(w) => IndexOffset(w) = IndexStart(s) /\ IndexOf(w) = ix
      /\ Len(f) <= IndexStart(s) + (Len(ix.pgs) + 2) => Valid(w)
      /\ \A i \in 1 .. Len(f) : i <= IndexStart(s) => w[i] = f[i]
  BY SessionIndexWritten
<1> HIDE DEF w
<1>2. /\ IndexStart(s) \in Nat /\ IndexStart(s) >= s.endOfPgs + 2
      /\ Len(ix.pgs) = Len(s.old.pgs) + 1 /\ IndexStart(s) = s.base + Len(s.buffer)
  BY SessionIndex DEF IndexStart
<1>3. /\ s.endOfPgs \in Nat /\ Len(s.buffer) \in Nat /\ Len(s.old.pgs) \in Nat
      /\ s.old.vars \in Seq(Entry) /\ s.written \in Seq(Entry)
      /\ s.old.pgs \in Seq(Pg) /\ s.buffer \in Seq(PlainCell) /\ s.sid \in Nat
  <2>1. s.old.pgs \in Seq(Pg) /\ s.old.vars \in Seq(Entry)
    BY DEF Session, Index
  <2>2. s.endOfPgs \in Nat /\ s.written \in Seq(Entry) /\ s.sid \in Nat
        /\ s.buffer \in Seq(PlainCell)
    BY DEF Session
  <2> QED
    BY <2>1, <2>2
<1>4. s.pgStart = s.endOfPgs /\ (s.shared => s.base = s.endOfPgs)
  BY DEF Layout
<1>5. AllShared(ln) => Valid(w)
  <2> SUFFICES ASSUME AllShared(ln) PROVE Valid(w)
    OBVIOUS
  <2>1. AllShared(lg) /\ s.shared
    BY LoggedBuffered
  <2>2. \/ Len(f) <= s.endOfPgs + Len(s.old.pgs) + 2
        \/ Len(f) <= s.endOfPgs + s.flushed
    BY <2>1 DEF Writes
  <2>3. IndexStart(s) = s.endOfPgs + s.flushed
    BY <1>2, <1>4, <2>1
  <2>4. \A l, e, k, b \in Nat :
          /\ l <= e + k + 2 /\ b >= e + 2 => l <= b + ((k + 1) + 2)
          /\ l <= b => l <= b + ((k + 1) + 2)
    OBVIOUS
  <2>5. Len(f) \in Nat
    OBVIOUS
  <2>6. Len(f) <= IndexStart(s) + (Len(ix.pgs) + 2)
    BY <1>2, <1>3, <2>2, <2>3, <2>4, <2>5
  <2> QED
    BY <1>1, <2>6
<1>6. ASSUME Valid(w) PROVE Entries(ix.vars, IndexStart(s), w, ln)
  <2>1. Len(w) >= IndexStart(s)
    <3>1. /\ IndexOffset(w) = IndexStart(s) /\ IndexOf(w) = ix
          /\ Len(w) = IndexOffset(w) + Len(IndexOf(w).pgs) + 2
      BY <1>1, <1>6 DEF GoodFile
    <3>2. \A b, k \in Nat : b + (k + 1) + 2 >= b
      OBVIOUS
    <3> QED
      BY <1>2, <1>3, <3>1, <3>2
  <2> HIDE DEF ix, ln
  <2> QED
    BY <1>1, <2>1, NewEntries DEF ix, ln
<1>7. /\ ln # <<>> /\ Len(ln) = Len(lg) + 1 /\ ln \in Seq(LogEntry)
      /\ \A k \in 1 .. Len(lg) : ln[k] = lg[k]
      /\ ln[Len(lg) + 1].sid = s.sid
      /\ Last(ln).sid = s.sid /\ Last(ln).shared = s.shared /\ Last(ln).nvars = s.nvars
  BY LoggedResult
<1>8. Last(ix.pgs).off = s.endOfPgs
  <2> DEFINE pg == [sid |-> s.sid, off |-> s.pgStart, time |-> t]
  <2>1. ix.pgs = Append(s.old.pgs, pg)
    BY DEF NewIndex
  <2>2. pg \in Pg
    BY <1>3, <1>4 DEF Pg
  <2>3. pg.off = s.endOfPgs
    BY <1>4
  <2> HIDE DEF pg, ix
  <2>4. Last(Append(s.old.pgs, pg)) = pg
    BY <1>3, <2>2 DEF Last
  <2> QED
    BY <2>1, <2>3, <2>4
<1>9. ASSUME s.shared
      PROVE  HeadersAre(w, s.endOfPgs + 1, IndexStart(s), s.sid, s.nvars)
  <2>1. /\ s.endOfPgs + Len(s.buffer) <= Len(f)
        /\ \A j \in 1 .. Len(s.buffer) : f[s.endOfPgs + j] = s.buffer[j]
        /\ HeadersAre(s.buffer, 1, Len(s.buffer), s.sid, s.nvars)
    BY <1>9 DEF Writes
  <2>2. IndexStart(s) = s.endOfPgs + Len(s.buffer)
    BY <1>2, <1>4, <1>9
  <2>3. \A j \in 1 .. Len(s.buffer) :
          s.endOfPgs + j \in 1 .. Len(f) /\ s.endOfPgs + j <= IndexStart(s)
    <3>1. \A m, k, l \in Nat : m + k <= l =>
            \A j \in 1 .. k : m + j \in 1 .. l /\ m + j <= m + k
      OBVIOUS
    <3>2. Len(f) \in Nat
      OBVIOUS
    <3> QED
      BY <1>3, <2>1, <2>2, <3>1, <3>2
  <2>4. \A j \in 1 .. Len(s.buffer) : w[s.endOfPgs + j] = s.buffer[j]
    BY <1>1, <2>1, <2>3
  <2>5. HeadersAre(w, s.endOfPgs + 1, s.endOfPgs + Len(s.buffer), s.sid, s.nvars)
    BY <1>3, <2>1, <2>4, HeadersMoved
  <2> QED
    BY <2>2, <2>5
<1> HIDE DEF ix, ln
<1>10. Rest(w, ln)
  BY <1>1, <1>5, <1>6, <1>7, <1>8, <1>9 DEF Rest
<1>11. ASSUME NEW k \in 1 .. Len(ln) PROVE ln[k].sid <= n
  <2>1. CASE k \in 1 .. Len(lg)
    BY <1>7, <2>1 DEF Numbered
  <2>2. CASE k = Len(lg) + 1
    BY <1>7, <2>2 DEF Numbered
  <2> QED
    BY <1>7, <2>1, <2>2
<1>12. ASSUME NEW i \in 1 .. Len(ix.vars) PROVE ix.vars[i].sid <= n
  <2>1. ix.vars = s.old.vars \o s.written
    BY DEF ix, NewIndex
  <2>2. s.sid <= n
    BY DEF Numbered
  <2>3. CASE i \in 1 .. Len(s.old.vars) /\ ix.vars[i] = s.old.vars[i]
    <3>1. s.old.vars[i].sid < s.sid /\ s.old.vars[i].sid \in Nat
      BY <1>3, <2>3, EntryType DEF Numbered
    <3>2. \A x, y, z \in Nat : x < y /\ y <= z => x <= z
      OBVIOUS
    <3> QED
      BY <1>3, <2>2, <2>3, <3>1, <3>2
  <2>4. CASE \E j \in 1 .. Len(s.written) : ix.vars[i] = s.written[j]
    BY <2>2, <2>4 DEF Numbered
  <2>5. \/ i \in 1 .. Len(s.old.vars) /\ ix.vars[i] = s.old.vars[i]
        \/ \E j \in 1 .. Len(s.written) : ix.vars[i] = s.written[j]
    <3> DEFINE a == s.old.vars
               b == s.written
    <3> HIDE DEF a, b
    <3>1. a \in Seq(Entry) /\ b \in Seq(Entry) /\ i \in 1 .. Len(a \o b)
          /\ ix.vars = a \o b
      BY <1>3, <2>1 DEF a, b
    <3>2. \/ i \in 1 .. Len(a) /\ (a \o b)[i] = a[i]
          \/ \E j \in 1 .. Len(b) : (a \o b)[i] = b[j]
      BY ONLY <3>1, ConcatEntries
    <3> QED
      BY <3>1, <3>2 DEF a, b
  <2> QED
    BY <2>3, <2>4, <2>5
<1>13. NoSession.st = "closed"
  BY DEF NoSession
<1>14. Numbered(NoSession, w, ln, n)
  BY <1>1, <1>11, <1>12, <1>13 DEF Numbered
<1> QED
  BY <1>10, <1>14 DEF w, ln

(* Writing index and minifooter keeps the contents.                        *)
LEMMA WriteIndexContent ==
  ASSUME TypeInv, LayoutInv, ContentInv, NEW g \in Groups, WriteIndex(g)
  PROVE  ContentInv'
<1> DEFINE s == fd[g]
           f == file[g]
           lg == log[g]
           t == group[g].time
<1>1. /\ s \in Session /\ f \in Seq(Cell) /\ t \in Nat /\ lg \in Seq(LogEntry)
      /\ sessions \in Nat /\ Layout(s, f, t) /\ s.st = "flushing"
      /\ s.flushed = Len(s.buffer) /\ Numbered(s, f, lg, sessions)
  BY DEF TypeInv, LayoutInv, ContentInv, WriteIndex
<1>2. Writes(s, f, lg)
  BY <1>1 DEF ContentInv, Layout
<1>3. /\ fd' = [fd EXCEPT ![g] = NoSession]
      /\ file' = [file EXCEPT ![g] = IndexedFile(s, f, t)]
      /\ log' = [log EXCEPT ![g] = Logged(s, lg)]
      /\ sessions' = sessions
  BY DEF WriteIndex, EndSession, BuildIndex, IndexedFile, NewIndex, Logged
<1>4. /\ Rest(IndexedFile(s, f, t), Logged(s, lg))
      /\ Numbered(NoSession, IndexedFile(s, f, t), Logged(s, lg), sessions)
  BY <1>1, <1>2, WriteIndexRest
<1>5. NoSession.st = "closed"
  BY DEF NoSession
<1> QED
  BY <1>3, <1>4, <1>5, OneGroupContent

-----------------------------------------------------------------------------
(* The theorems about the contents.                                        *)

(* The PG of every session fits one write(2): MAX_MPIWRITE_SIZE is 2 GB    *)
(* less 16 MB.  The loop of adios_posix_do_write writes the start of the   *)
(* buffer again when it does not.                                          *)
FitsOneWrite == \A g \in Groups : Len(fd[g].buffer) <= MaxWrite

(* The inductive invariant.                                                *)
Inv == TypeInv /\ LayoutInv /\ ContentInv

(* It holds initially ...                                                  *)
LEMMA ContentInit == Init => Inv
<1> SUFFICES ASSUME Init PROVE Inv
  OBVIOUS
<1>1. TypeInv /\ LayoutInv
  BY LayoutInit
<1>2. ASSUME NEW g \in Groups
      PROVE  /\ Numbered(fd[g], file[g], log[g], sessions)
             /\ Rest(file[g], log[g]) /\ fd[g].st = "closed"
  <2>1. fd[g] = NoSession /\ file[g] = <<>> /\ log[g] = <<>>
    BY DEF Init
  <2>2. NoSession.st = "closed"
    BY DEF NoSession
  <2>3. Len(log[g]) = 0 /\ ~Valid(file[g])
    BY <2>1, EmptyFile
  <2> QED
    BY <2>1, <2>2, <2>3 DEF Numbered, Rest
<1> QED
  BY <1>1, <1>2 DEF Inv, ContentInv

(* ... and is kept by every step while a buffer fits one write.            *)
LEMMA ContentStep == Inv /\ FitsOneWrite /\ [Next]_vars => Inv'
<1> SUFFICES ASSUME Inv, FitsOneWrite, [Next]_vars PROVE Inv'
  OBVIOUS
<1>1. TypeInv /\ LayoutInv /\ ContentInv /\ TypeInv' /\ LayoutInv'
  BY LayoutStep DEF Inv
<1>2. ASSUME NEW n \in PoolSizes, AllocateBuffer(n) PROVE ContentInv'
  BY <1>1, <1>2 DEF AllocateBuffer, ContentInv
<1>3. ASSUME NEW g \in Groups, Close(g) PROVE ContentInv'
  BY <1>1, <1>3, CloseReadContent, CloseBufferedContent, CloseDirectContent
     DEF Close
<1>4. ASSUME UNCHANGED vars PROVE ContentInv'
  BY <1>1, <1>4 DEF vars, ContentInv
<1>5. ASSUME NEW g \in Groups, FlushBuffer(g) PROVE ContentInv'
  BY <1>1, <1>5, FlushContent DEF FitsOneWrite
<1>6. ContentInv'
  BY <1>1, <1>2, <1>3, <1>4, <1>5, OpenContent, GroupSizeContent, WriteContent,
     WriteIndexContent DEF Next
<1> QED
  BY <1>1, <1>6 DEF Inv

(* A good file that ends in a minifooter has its index whole.              *)
LEMMA GoodIsIndexed ==
  ASSUME NEW f \in Seq(Cell), GoodFile(f), Valid(f)
  PROVE  Indexed(f)
<1> DEFINE off == IndexOffset(f)
           ix == IndexOf(f)
           n == Len(ix.pgs)
           c == SubSeq(f, off + 1, Len(f) - 1)
<1>1. /\ off \in Nat /\ ix \in Index /\ Len(f) = off + n + 2
      /\ \A k \in 1 .. 1 + n : f[off + k] = <<"index", ix, k>>
  BY DEF GoodFile, GoodIndex
<1>2. n \in Nat
  BY <1>1 DEF Index
<1> HIDE DEF off, ix, n
<1>3. off + 1 \in Nat /\ Len(f) - 1 = off + (n + 1)
  BY <1>1, <1>2
<1>4. /\ c = [k \in 1 .. n + 1 |-> f[off + k]]
  <2>1. c \in Seq(Cell) /\ Len(c) = n + 1
    BY <1>1, <1>2, <1>3
  <2>2. \A k \in 1 .. n + 1 : c[k] = f[off + k]
    BY <1>1, <1>2, <1>3
  <2> HIDE DEF c
  <2> QED
    BY <1>2, <2>1, <2>2
<1>5. c = IndexEntries(ix)
  <2>1. 1 .. n + 1 = 1 .. 1 + n
    BY <1>2
  <2>2. IndexEntries(ix) = [k \in 1 .. 1 + n |-> <<"index", ix, k>>]
    BY DEF IndexEntries, n
  <2> HIDE DEF c
  <2> QED
    BY <1>1, <1>4, <2>1, <2>2
<1>6. c # <<>> /\ c[1] = <<"index", ix, 1>>
  <2>1. 1 \in 1 .. 1 + n /\ 1 \in 1 .. n + 1 /\ Len(<<>>) = 0
    BY <1>2
  <2>2. c[1] = <<"index", ix, 1>>
    BY <1>1, <1>4, <2>1
  <2>3. DOMAIN c = 1 .. n + 1
    BY <1>4
  <2> HIDE DEF c
  <2>4. c # <<>>
    <3>1. 1 \in DOMAIN c /\ 1 \notin DOMAIN <<>>
      BY <2>1, <2>3
    <3> QED
      BY <3>1
  <2> QED
    BY <2>2, <2>4
<1> HIDE DEF c
<1>7. WholeIndex(c)
  BY <1>5, <1>6 DEF WholeIndex
<1> QED
  BY <1>7 DEF Indexed, c, off

(* The cells at an entry are the variable.                                 *)
LEMMA VarAtIntact ==
  ASSUME NEW f \in Seq(Cell), NEW e \in Entry, VarAt(f, e.off, e)
  PROVE  IntactEntry(f, e)
<1>1. PICK o \in Nat : o = e.off
  BY DEF Entry
<1>2. PICK z \in Nat : z = e.size
  BY DEF Entry
<1>3. PICK sid \in Nat : sid = e.sid
  BY DEF Entry
<1>4. PICK v \in Nat : v = e.var
  BY DEF Entry
<1> DEFINE h == VarHeader(sid, v)
           p == Payload(sid, v)
           r == Repeat(p, z)
           a == SubSeq(f, o + 1, o + 1 + z)
           b == <<h>> \o r
<1>5. /\ o + 1 + z <= Len(f) /\ f[o + 1] = h
      /\ \A k \in 1 .. z : f[o + 1 + k] = p
  BY <1>1, <1>2, <1>3, <1>4 DEF VarAt
<1>6. h \in PlainCell /\ p \in PlainCell
  BY VarCells
<1> HIDE DEF h, p
<1>7. r \in Seq(PlainCell) /\ Len(r) = z /\ \A i \in 1 .. z : r[i] = p
  BY <1>6, RepeatResult
<1> HIDE DEF r
<1>8. a \in Seq(Cell) /\ Len(a) = z + 1 /\ \A i \in 1 .. z + 1 : a[i] = f[o + i]
  BY <1>5
<1>9. /\ b \in Seq(PlainCell) /\ Len(b) = 1 + z /\ b[1] = h
      /\ \A i \in 1 .. z : b[1 + i] = p
  <2>1. <<h>> \in Seq(PlainCell) /\ Len(<<h>>) = 1
    BY <1>6
  <2> QED
    BY <1>6, <1>7, <2>1, ConcatPlain
<1> HIDE DEF a, b
<1>10. ASSUME NEW i \in 1 .. z + 1 PROVE a[i] = b[i]
  <2>1. CASE i = 1
    BY <1>5, <1>8, <1>9, <2>1
  <2>2. CASE i # 1
    <3>1. i - 1 \in 1 .. z /\ o + 1 + (i - 1) = o + i /\ 1 + (i - 1) = i
      BY <2>2
    <3>2. a[i] = f[o + i]
      BY <1>8
    <3>3. f[o + i] = p /\ b[i] = p
      BY <1>5, <1>9, <3>1
    <3> QED
      BY <3>2, <3>3
  <2> QED
    BY <2>1, <2>2
<1>11. a = b
  BY <1>8, <1>9, <1>10
<1> QED
  BY <1>1, <1>2, <1>3, <1>4, <1>11 DEF IntactEntry, a, b, r, h, p

(* It says that what an index names is intact.                             *)
LEMMA IntactFromContent == Inv => IndexedIntact
<1> SUFFICES ASSUME Inv, NEW g \in Groups, fd[g].st \in {"closed", "opened"},
                    file[g] # <<>>
             PROVE  /\ (\A i \in DOMAIN log[g] : log[g][i].shared) => Valid(file[g])
                    /\ Valid(file[g]) =>
                         /\ Indexed(file[g])
                         /\ \A e \in ToSet(IndexOf(file[g]).vars) :
                              WasBuffered(g, e.sid) => IntactEntry(file[g], e)
  BY DEF IndexedIntact
<1> DEFINE f == file[g]
           lg == log[g]
<1>1. f \in Seq(Cell) /\ lg \in Seq(LogEntry) /\ GoodFile(f) /\ Rest(f, lg)
  BY DEF Inv, TypeInv, LayoutInv, ContentInv, Quiet
<1>2. DOMAIN lg = 1 .. Len(lg)
  BY <1>1
<1> HIDE DEF f, lg
<1>3. (\A i \in DOMAIN lg : lg[i].shared) => Valid(f)
  BY <1>1, <1>2 DEF Rest, AllShared, f
<1>4. ASSUME Valid(f), NEW e \in ToSet(IndexOf(f).vars), WasBuffered(g, e.sid)
      PROVE  IntactEntry(f, e)
  <2> DEFINE vs == IndexOf(f).vars
  <2>1. vs \in Seq(Entry) /\ Entries(vs, IndexOffset(f), f, lg)
    BY <1>1, <1>4 DEF GoodFile, GoodIndex, Index, Rest
  <2> HIDE DEF vs
  <2>2. PICK i \in 1 .. Len(vs) : e = vs[i]
    BY <1>4, <2>1 DEF ToSet, vs
  <2>3. e \in Entry
    BY <2>1, <2>2
  <2>4. Buffered(lg, e.sid)
    BY <1>2, <1>4 DEF WasBuffered, SessionLog, Buffered, lg
  <2>5. VarAt(f, e.off, e)
    BY <2>1, <2>2, <2>4 DEF Entries
  <2> QED
    BY <1>1, <2>3, <2>5, VarAtIntact
<1>5. Valid(f) => Indexed(f)
  BY <1>1, GoodIsIndexed
<1> QED
  BY <1>3, <1>4, <1>5 DEF f, lg

(* A closed file that only buffered sessions wrote is valid, and in a      *)
(* valid one every index entry made by a buffered session points at the    *)
(* variable that session wrote: no later session, buffered or direct, in   *)
(* any mode, overwrites it or moves it.  For PGs that fit one write(2).    *)
THEOREM PosixIndexedIntact == Spec /\ []FitsOneWrite => []IndexedIntact
<1>1. Spec /\ []FitsOneWrite => []Inv
  BY ContentInit, ContentStep, PTL DEF Spec
<1> QED
  BY <1>1, IntactFromContent, PTL

(* What adios_posix_do_read finds in the last PG.                          *)
LEMMA LastPgVarsAre ==
  ASSUME NEW f \in Seq(Cell), GoodFile(f), Valid(f), NEW sid, NEW n,
         HeadersAre(f, Last(IndexOf(f).pgs).off + 1, IndexOffset(f), sid, n)
  PROVE  LastPgVars(f) = {<<sid, v>> : v \in 1 .. n}
<1> DEFINE pgs == IndexOf(f).pgs
<1>1. /\ IndexOffset(f) \in Nat /\ IndexOf(f) \in Index /\ pgs # <<>>
      /\ \A i \in 1 .. Len(pgs) : pgs[i].off < IndexOffset(f)
      /\ Len(f) = IndexOffset(f) + Len(pgs) + 2
  BY DEF GoodFile, GoodIndex
<1>2. pgs \in Seq(Pg) /\ Len(pgs) \in Nat
  BY <1>1 DEF Index
<1> HIDE DEF pgs
<1>3. Last(pgs) \in Pg /\ Last(pgs).off < IndexOffset(f)
  <2>1. Len(pgs) \in 1 .. Len(pgs)
    BY <1>1, <1>2
  <2> QED
    BY <1>1, <1>2, <2>1 DEF Last
<1>4. PICK off \in Nat : off = Last(pgs).off
  BY <1>3 DEF Pg
<1>5. PICK end \in Nat : end = IndexOffset(f)
  BY <1>1
<1>6. off < end /\ end <= Len(f)
  BY <1>1, <1>2, <1>3, <1>4, <1>5
<1> DEFINE pg == SubSeq(f, off + 1, end)
           hits == {j \in 1 .. Len(pg) : pg[j][1] = "var"}
<1>7. LastPgVars(f) = {<<pg[i][2], pg[i][3]>> : i \in hits}
  BY <1>4, <1>5 DEF LastPgVars, pgs
<1>8. pg \in Seq(Cell) /\ Len(pg) = end - off /\ \A i \in 1 .. end - off : pg[i] = f[off + i]
  BY <1>6
<1> HIDE DEF pg
<1>9. /\ \A i \in off + 1 .. end : f[i][1] = "var" => f[i][2] = sid /\ f[i][3] \in 1 .. n
      /\ \A v \in 1 .. n : \E i \in off + 1 .. end : f[i] = VarHeader(sid, v)
  BY <1>4, <1>5 DEF HeadersAre, pgs
<1>10. ASSUME NEW i \in hits PROVE \E v \in 1 .. n : <<pg[i][2], pg[i][3]>> = <<sid, v>>
  <2>1. i \in 1 .. end - off /\ pg[i][1] = "var"
    BY <1>8
  <2>2. off + i \in off + 1 .. end /\ pg[i] = f[off + i]
    BY <1>8, <2>1
  <2>3. pg[i][2] = sid /\ pg[i][3] \in 1 .. n
    BY <1>9, <2>1, <2>2
  <2> QED
    BY <2>3
<1>11. ASSUME NEW v \in 1 .. n PROVE \E i \in hits : <<pg[i][2], pg[i][3]>> = <<sid, v>>
  <2>1. PICK i \in off + 1 .. end : f[i] = VarHeader(sid, v)
    BY <1>9
  <2>2. i - off \in 1 .. end - off /\ off + (i - off) = i
    OBVIOUS
  <2>3. pg[i - off] = VarHeader(sid, v) /\ i - off \in 1 .. Len(pg)
    BY <1>8, <2>1, <2>2
  <2>4. /\ VarHeader(sid, v)[1] = "var" /\ VarHeader(sid, v)[2] = sid
        /\ VarHeader(sid, v)[3] = v
    BY DEF VarHeader
  <2>5. PICK k : k = i - off
    OBVIOUS
  <2>6. k \in hits /\ pg[k][2] = sid /\ pg[k][3] = v
    BY <2>3, <2>4, <2>5
  <2> QED
    BY <2>6
<1> HIDE DEF hits
<1> QED
  BY <1>7, <1>10, <1>11

(* Only adios_close ends a session that reads.                             *)
LEMMA OnlyCloseEndsRead ==
  ASSUME TypeInv, [Next]_vars, NEW g \in Groups, fd[g].st = "sized", fd[g].mode = "r",
         fd'[g].st = "closed"
  PROVE  CloseRead(g)
<1>1. fd[g] \in Session
  BY DEF TypeInv
<1>2. fd' # fd
  OBVIOUS
<1>3. PICK h \in Groups :
             \/ \E mode \in Modes : Open(h, mode)
             \/ \E n \in DataSizes : GroupSize(h, n)
             \/ \E n \in Payloads : Write(h, n)
             \/ Close(h)
             \/ FlushBuffer(h)
             \/ WriteIndex(h)
  BY <1>2 DEF Next, AllocateBuffer, vars
<1>4. CASE h # g
  <2>1. fd'[g] = fd[g]
    BY <1>3, <1>4, OtherGroup
  <2> QED
    BY <2>1
<1>5. CASE h = g
  <2>1. Close(g)
    BY <1>3, <1>5 DEF Open, GroupSize, Write, FlushBuffer, WriteIndex
  <2> QED
    BY <2>1 DEF Close, CloseBuffered, CloseDirect
<1> QED
  BY <1>4, <1>5

(* readback is a function on the groups.                                   *)
ReadbackType == readback = [g \in Groups |-> readback[g]]

(* It stays one.                                                           *)
LEMMA ReadbackStep == ReadbackType /\ [Next]_vars => ReadbackType'
<1> SUFFICES ASSUME ReadbackType, [Next]_vars PROVE ReadbackType'
  OBVIOUS
<1>1. CASE UNCHANGED readback
  BY <1>1 DEF ReadbackType
<1>2. CASE readback' # readback
  <2>1. PICK g \in Groups :
             \/ \E mode \in Modes : Open(g, mode)
             \/ \E n \in DataSizes : GroupSize(g, n)
             \/ \E n \in Payloads : Write(g, n)
             \/ Close(g)
             \/ FlushBuffer(g)
             \/ WriteIndex(g)
    BY <1>2 DEF Next, AllocateBuffer, vars
  <2>2. Close(g)
    BY <1>2, <2>1 DEF Open, GroupSize, Write, FlushBuffer, WriteIndex
  <2>3. CloseRead(g)
    BY <1>2, <2>2 DEF Close, CloseBuffered, CloseDirect
  <2> QED
    BY <2>3 DEF CloseRead, ReadbackType
<1> QED
  BY <1>1, <1>2

(* A session in mode "r" gets exactly the variables that the last session  *)
(* wrote, if that one was buffered and its PG fit one write(2): the PG     *)
(* that the index names last lies where that session put it.               *)
THEOREM PosixReadReturnsLast == Spec /\ []FitsOneWrite => ReadReturnsLast
<1>1. Spec /\ []FitsOneWrite => []Inv
  BY ContentInit, ContentStep, PTL DEF Spec
<1>2. Spec => []ReadbackType
  <2>1. Init => ReadbackType
    BY DEF Init, ReadbackType
  <2> QED
    BY <2>1, ReadbackStep, PTL DEF Spec
<1> DEFINE Got == \A g \in Groups :
       fd[g].st = "sized" /\ fd[g].mode = "r" /\ fd'[g].st = "closed"
         /\ Last(log[g]).shared /\ Valid(file[g])
       => readback'[g] = {<<Last(log[g]).sid, v>> : v \in 1 .. Last(log[g]).nvars}
<1>3. Inv /\ ReadbackType /\ [Next]_vars => [Got]_vars
  <2> SUFFICES ASSUME Inv, ReadbackType, [Next]_vars, NEW g \in Groups,
                      fd[g].st = "sized", fd[g].mode = "r", fd'[g].st = "closed",
                      Last(log[g]).shared, Valid(file[g])
               PROVE  readback'[g] = {<<Last(log[g]).sid, v>> : v \in 1 .. Last(log[g]).nvars}
    OBVIOUS
  <2>1. CloseRead(g)
    BY OnlyCloseEndsRead DEF Inv
  <2>2. readback'[g] = LastPgVars(file[g])
    BY <2>1 DEF CloseRead, ReadbackType
  <2>3. file[g] \in Seq(Cell) /\ GoodFile(file[g]) /\ Rest(file[g], log[g])
    BY DEF Inv, TypeInv, LayoutInv, ContentInv, Quiet
  <2>4. HeadersAre(file[g], Last(IndexOf(file[g]).pgs).off + 1, IndexOffset(file[g]),
                   Last(log[g]).sid, Last(log[g]).nvars)
    BY <2>3 DEF Rest
  <2> QED
    BY <2>2, <2>3, <2>4, LastPgVarsAre
<1> QED
  BY <1>1, <1>2, <1>3, PTL DEF Spec, ReadReturnsLast

-----------------------------------------------------------------------------
(* The buffer pool.                                                        *)

(* The counters are numbers, no more is left than there is, and what is    *)
(* missing is held by the sessions that build their PG in memory.          *)
PoolInv ==
  /\ pool \in [max : Nat, remaining : Nat]
  /\ NothingLeaked

(* What the sessions d of the groups hold.                                 *)
InMemory(d) == {g \in Groups : d[g].shared}
HeldBy(d) == MapThenSumSet(LAMBDA g : d[g].size, InMemory(d))
HeldByOne(s) == IF s.shared THEN s.size ELSE 0

(* It is the sum of their sizes, in whatever order.                        *)
LEMMA HeldIsSum ==
  ASSUME NEW d \in [Groups -> Session],
         NEW F, Sums(F, [g \in Groups |-> d[g].size], Groups)
  PROVE  HeldBy(d) = F[InMemory(d)]
<1> DEFINE B == InMemory(d)
           h == [g \in Groups |-> d[g].size]
           iter[s \in SUBSET B] ==
             IF s = {} THEN 0
             ELSE d[CHOOSE x \in s : TRUE].size + iter[s \ {CHOOSE x \in s : TRUE}]
<1>0. IsFiniteSet(Groups) /\ B \in SUBSET Groups
  BY PosixWriteAssumption DEF InMemory
<1>1. HeldBy(d) = iter[B]
  BY DEF HeldBy, MapThenSumSet, MapThenFoldSet
<1>2. IsFiniteSet(B) /\ \A x \in B : h[x] \in Nat /\ h[x] = d[x].size
  BY <1>0, FS_Subset DEF Session
<1>3. PICK K : SumsInOrder(K, h, B)
  BY <1>2, SumsExist, SumsAnyOrder
<1>4. \A s \in SUBSET B : s # {} => (CHOOSE x \in s : TRUE) \in s
  OBVIOUS
<1>5. \A s \in SUBSET B : s # {} =>
        h[CHOOSE x \in s : TRUE] = d[CHOOSE x \in s : TRUE].size
  BY <1>2, <1>4
<1> HIDE DEF B, h
<1>6. \E K0 : K0 = [s \in SUBSET B |-> IF s = {} THEN 0
             ELSE d[CHOOSE x \in s : TRUE].size + K0[s \ {CHOOSE x \in s : TRUE}]]
  <2>1. K = [s \in SUBSET B |-> IF s = {} THEN 0
             ELSE h[CHOOSE x \in s : TRUE] + K[s \ {CHOOSE x \in s : TRUE}]]
    BY <1>3 DEF SumsInOrder, Chosen
  <2> DEFINE c(s) == CHOOSE x \in s : TRUE
  <2>2. \A s \in SUBSET B : s # {} => h[c(s)] = d[c(s)].size
    BY <1>5
  <2>3. K = [s \in SUBSET B |-> IF s = {} THEN 0 ELSE h[c(s)] + K[s \ {c(s)}]]
    BY <2>1
  <2> HIDE DEF c
  <2>4. K = [s \in SUBSET B |-> IF s = {} THEN 0 ELSE d[c(s)].size + K[s \ {c(s)}]]
    BY <2>2, <2>3
  <2> QED
    BY <2>4, Zenon DEF c
<1>7. iter = [s \in SUBSET B |-> IF s = {} THEN 0
             ELSE d[CHOOSE x \in s : TRUE].size + iter[s \ {CHOOSE x \in s : TRUE}]]
  BY <1>6, Zenon DEF iter
<1> HIDE DEF iter
<1>8. SumsInOrder(iter, h, B)
  <2> DEFINE c(s) == CHOOSE x \in s : TRUE
  <2>1. \A s \in SUBSET B : s # {} => h[c(s)] = d[c(s)].size
    BY <1>5
  <2>2. iter = [s \in SUBSET B |-> IF s = {} THEN 0 ELSE d[c(s)].size + iter[s \ {c(s)}]]
    BY <1>7
  <2> HIDE DEF c
  <2>3. iter = [s \in SUBSET B |-> IF s = {} THEN 0 ELSE h[c(s)] + iter[s \ {c(s)}]]
    BY <2>1, <2>2
  <2> QED
    BY <2>3, Zenon DEF SumsInOrder, Chosen, c
<1>9. iter[B] = F[B]
  BY <1>0, <1>8, SumsUnique DEF h
<1> QED
  BY <1>1, <1>9 DEF B

(* The session of one group changes.                                       *)
LEMMA HeldChanges ==
  ASSUME NEW d \in [Groups -> Session], NEW e \in [Groups -> Session], NEW g \in Groups,
         \A k \in Groups \ {g} : e[k] = d[k]
  PROVE  \E rest \in Nat : /\ HeldBy(d) = rest + HeldByOne(d[g])
                           /\ HeldBy(e) = rest + HeldByOne(e[g])
<1> DEFINE h == [k \in Groups |-> d[k].size]
           i == [k \in Groups |-> e[k].size]
           T == InMemory(d) \ {g}
<1>0. IsFiniteSet(Groups)
  BY PosixWriteAssumption
<1>1. \A k \in Groups : h[k] \in Nat /\ i[k] \in Nat /\ d[k].shared \in BOOLEAN
        /\ e[k].shared \in BOOLEAN
  BY DEF Session
<1>2. T = InMemory(e) \ {g} /\ T \in SUBSET Groups /\ \A k \in T : h[k] = i[k]
  BY DEF InMemory
<1>3. InMemory(d) \in SUBSET Groups /\ InMemory(e) \in SUBSET Groups
  BY DEF InMemory
<1>4. h[g] = d[g].size /\ i[g] = e[g].size
  OBVIOUS
<1> HIDE DEF h, i
<1>5. PICK F : Sums(F, h, Groups)
  BY <1>0, <1>1, SumsExist
<1>6. PICK G : Sums(G, i, Groups)
  BY <1>0, <1>1, SumsExist
<1>7. F[T] = G[T]
  BY <1>0, <1>1, <1>2, <1>5, <1>6, SumsSame
<1>8. HeldBy(d) = F[InMemory(d)] /\ HeldBy(e) = G[InMemory(e)]
  BY <1>5, <1>6, HeldIsSum DEF h, i
<1>9. F[T] \in Nat
  BY <1>2, <1>5 DEF Sums
<1>10. F[InMemory(d)] = F[T] + HeldByOne(d[g])
  <2>1. CASE d[g].shared
    <3>1. g \in InMemory(d)
      BY <2>1 DEF InMemory
    <3>2. F[InMemory(d)] = h[g] + F[T]
      BY <1>3, <1>5, <3>1 DEF Sums
    <3> QED
      BY <2>1, <3>2, <1>1, <1>4, <1>9 DEF HeldByOne
  <2>2. CASE ~d[g].shared
    <3>1. InMemory(d) = T
      BY <2>2 DEF InMemory
    <3> QED
      BY <2>2, <3>1, <1>9 DEF HeldByOne
  <2> QED
    BY <2>1, <2>2
<1>11. G[InMemory(e)] = G[T] + HeldByOne(e[g])
  <2>1. CASE e[g].shared
    <3>1. g \in InMemory(e)
      BY <2>1 DEF InMemory
    <3>2. G[InMemory(e)] = i[g] + G[T]
      BY <1>2, <1>3, <1>6, <3>1 DEF Sums
    <3> QED
      BY <2>1, <3>2, <1>1, <1>4, <1>7, <1>9 DEF HeldByOne
  <2>2. CASE ~e[g].shared
    <3>1. InMemory(e) = T
      BY <1>2, <2>2 DEF InMemory
    <3> QED
      BY <2>2, <3>1, <1>7, <1>9 DEF HeldByOne
  <2> QED
    BY <2>1, <2>2
<1> QED
  BY <1>7, <1>8, <1>9, <1>10, <1>11

(* Bytes taken and returned, with rest held by the other sessions.         *)
LEMMA PoolTakes ==
  ASSUME NEW p \in [max : Nat, remaining : Nat], NEW n \in Nat, NEW rest \in Nat,
         p.remaining <= p.max, p.remaining + rest >= p.max, Alloc(p, n) = n
  PROVE  /\ Taken(p, n) \in [max : Nat, remaining : Nat]
         /\ Taken(p, n).remaining <= Taken(p, n).max
         /\ Taken(p, n).remaining + (rest + n) >= Taken(p, n).max
<1> DEFINE q == Taken(p, n)
<1>1. p.max \in Nat /\ p.remaining \in Nat
  OBVIOUS
<1>2. p.remaining >= n
  BY <1>1 DEF Alloc
<1>3. q = [p EXCEPT !.remaining = p.remaining - n]
  BY <1>2 DEF Taken, Alloc
<1>4. p.remaining - n \in Nat
  BY <1>1, <1>2
<1>5. q \in [max : Nat, remaining : Nat] /\ q.max = p.max /\ q.remaining = p.remaining - n
  BY <1>3, <1>4
<1> HIDE DEF q
<1>6. q.remaining <= q.max /\ q.remaining + (rest + n) >= q.max
  BY <1>1, <1>5
<1> QED
  BY <1>5, <1>6 DEF q

LEMMA PoolReturns ==
  ASSUME NEW p \in [max : Nat, remaining : Nat], NEW n \in Nat, NEW rest \in Nat,
         p.remaining <= p.max, p.remaining + (rest + n) >= p.max
  PROVE  /\ Freed(p, n) \in [max : Nat, remaining : Nat]
         /\ Freed(p, n).remaining <= Freed(p, n).max
         /\ Freed(p, n).remaining + rest >= Freed(p, n).max
<1> DEFINE q == Freed(p, n)
           m == IF n + p.remaining > p.max THEN p.max ELSE p.remaining + n
<1>1. p.max \in Nat /\ p.remaining \in Nat
  OBVIOUS
<1>2. m \in Nat /\ m <= p.max /\ m + rest >= p.max
  BY <1>1
<1>3. q = [p EXCEPT !.remaining = m]
  BY DEF Freed
<1> HIDE DEF m
<1>4. q \in [max : Nat, remaining : Nat] /\ q.max = p.max /\ q.remaining = m
  BY <1>2, <1>3
<1> HIDE DEF q
<1>5. q.remaining <= q.max /\ q.remaining + rest >= q.max
  BY <1>2, <1>4
<1> QED
  BY <1>4, <1>5 DEF q

(* A request that is not granted in full returns what it got.              *)
LEMMA PoolRefused ==
  ASSUME NEW p \in [max : Nat, remaining : Nat], NEW n \in Nat,
         p.remaining <= p.max, Alloc(p, n) # n
  PROVE  Freed(Taken(p, n), Alloc(p, n)) = p
<1>1. p.max \in Nat /\ p.remaining \in Nat
  OBVIOUS
<1>2. Alloc(p, n) = p.remaining
  BY <1>1 DEF Alloc
<1>3. Taken(p, n) = [p EXCEPT !.remaining = 0]
  BY <1>1, <1>2 DEF Taken
<1>4. Taken(p, n).remaining = 0 /\ Taken(p, n).max = p.max
  BY <1>3
<1>5. (IF p.remaining + 0 > p.max THEN p.max ELSE 0 + p.remaining) = p.remaining
  BY <1>1
<1>6. Freed(Taken(p, n), Alloc(p, n)) = [Taken(p, n) EXCEPT !.remaining = p.remaining]
  BY <1>2, <1>4, <1>5 DEF Freed
<1>7. Freed(Taken(p, n), Alloc(p, n)) = [p EXCEPT !.remaining = p.remaining]
  BY <1>3, <1>6
<1> QED
  BY <1>7

(* Min of two numbers.                                                     *)
LEMMA MinOfTwo ==
  ASSUME NEW a \in Nat, NEW b \in Nat
  PROVE  Min({a, b}) \in Nat
<1>1. \E x \in {a, b} : \A y \in {a, b} : x <= y
  <2>1. CASE a <= b
    BY <2>1
  <2>2. CASE ~(a <= b)
    BY <2>2
  <2> QED
    BY <2>1, <2>2
<1>2. Min({a, b}) \in {a, b}
  BY <1>1 DEF Min
<1> QED
  BY <1>2

(* The session of one group, before and after a step.                      *)
LEMMA HeldStep ==
  ASSUME TypeInv, TypeInv', NEW g \in Groups, \A k \in Groups \ {g} : fd'[k] = fd[k]
  PROVE  \E rest \in Nat : /\ Held = rest + HeldByOne(fd[g])
                           /\ Held' = rest + HeldByOne(fd'[g])
<1>1. fd \in [Groups -> Session] /\ fd' \in [Groups -> Session]
  BY DEF TypeInv
<1>2. Held = HeldBy(fd)
  BY DEF Held, HeldBy, InMemory, MapThenSumSet, MapThenFoldSet
<1>3. Held' = HeldBy(fd')
  BY DEF Held, HeldBy, InMemory, MapThenSumSet, MapThenFoldSet
<1> QED
  BY <1>1, <1>2, <1>3, HeldChanges

(* A step that leaves the pool and the reservation alone.                  *)
LEMMA PoolSame ==
  ASSUME TypeInv, TypeInv', PoolInv, NEW g \in Groups, pool' = pool,
         \A k \in Groups \ {g} : fd'[k] = fd[k],
         HeldByOne(fd'[g]) = HeldByOne(fd[g])
  PROVE  PoolInv'
<1>1. Held' = Held
  BY HeldStep
<1> QED
  BY <1>1 DEF PoolInv, NothingLeaked

(* The end of a session returns what it held.                              *)
LEMMA PoolAfterEnd ==
  ASSUME TypeInv, TypeInv', PoolInv, NEW g \in Groups, EndSession(g)
  PROVE  PoolInv'
<1>1. fd \in [Groups -> Session] /\ fd[g] \in Session
  BY DEF TypeInv
<1>2. fd'[g] = NoSession /\ \A k \in Groups \ {g} : fd'[k] = fd[k]
  BY <1>1 DEF EndSession
<1>3. HeldByOne(fd'[g]) = 0
  BY <1>2 DEF HeldByOne, NoSession
<1>4. CASE ~fd[g].shared
  <2>1. pool' = pool /\ HeldByOne(fd[g]) = 0
    BY <1>4 DEF EndSession, HeldByOne
  <2> QED
    BY <1>2, <1>3, <2>1, PoolSame
<1>5. CASE fd[g].shared
  <2>1. PICK rest \in Nat : Held = rest + HeldByOne(fd[g]) /\ Held' = rest + HeldByOne(fd'[g])
    BY <1>2, HeldStep
  <2>2. HeldByOne(fd[g]) = fd[g].size /\ fd[g].size \in Nat
    BY <1>1, <1>5 DEF HeldByOne, Session
  <2>3. Held = rest + fd[g].size /\ Held' = rest
    BY <2>1, <2>2, <1>3
  <2>4. pool' = Freed(pool, fd[g].size)
    BY <1>5 DEF EndSession
  <2>5. pool \in [max : Nat, remaining : Nat] /\ pool.remaining <= pool.max
        /\ pool.remaining + (rest + fd[g].size) >= pool.max
    BY <2>3 DEF PoolInv, NothingLeaked
  <2>6. /\ pool' \in [max : Nat, remaining : Nat]
        /\ pool'.remaining <= pool'.max
        /\ pool'.remaining + rest >= pool'.max
    BY ONLY <2>1, <2>2, <2>4, <2>5, PoolReturns
  <2>7. pool'.max \in Nat /\ pool'.remaining \in Nat
    BY <2>6
  <2>8. pool'.remaining \in 0 .. pool'.max
    BY <2>6, <2>7
  <2> QED
    BY <2>3, <2>6, <2>8 DEF PoolInv, NothingLeaked
<1> QED
  BY <1>4, <1>5

LEMMA PoolGroupSize ==
  ASSUME TypeInv, TypeInv', LayoutInv, PoolInv, NEW g \in Groups, NEW size0 \in DataSizes,
         GroupSize(g, size0)
  PROVE  PoolInv'
<1> DEFINE n == size0 + Overhead(g)
<1>1. fd \in [Groups -> Session] /\ fd[g] \in Session
  BY DEF TypeInv
<1>2. n \in Nat
  <2>1. size0 \in Nat
    BY ONLY size0 \in DataSizes, PosixWriteAssumption
  <2>2. Overhead(g) \in Nat
    BY OverheadType
  <2> QED
    BY ONLY <2>1, <2>2
<1>3. ~fd[g].shared
  BY DEF LayoutInv, Layout, GroupSize
<1>4. HeldByOne(fd[g]) = 0
  BY <1>3 DEF HeldByOne
<1>5. pool \in [max : Nat, remaining : Nat] /\ pool.remaining <= pool.max
      /\ pool.remaining + Held >= pool.max
  BY DEF PoolInv, NothingLeaked
<1> HIDE DEF n
<1>6. CASE GroupSizeDirect(g, n)
  <2>1. pool' = pool
    BY <1>2, <1>5, <1>6, PoolRefused DEF GroupSizeDirect
  <2>2. \A k \in Groups \ {g} : fd'[k] = fd[k]
    BY <1>1, <1>6 DEF GroupSizeDirect
  <2>3. fd'[g].shared = fd[g].shared
    BY <1>1, <1>6 DEF GroupSizeDirect, Session
  <2>4. HeldByOne(fd'[g]) = 0
    BY <1>3, <2>3 DEF HeldByOne
  <2> QED
    BY <1>4, <2>1, <2>2, <2>4, PoolSame
<1>7. CASE GroupSizeBuffered(g, n)
  <2>1. \A k \in Groups \ {g} : fd'[k] = fd[k]
    BY <1>1, <1>7 DEF GroupSizeBuffered
  <2>2. fd'[g].shared /\ fd'[g].size = n
    BY <1>1, <1>7 DEF GroupSizeBuffered, Session
  <2>3. HeldByOne(fd'[g]) = n
    BY <2>2 DEF HeldByOne
  <2>4. PICK rest \in Nat : Held = rest + HeldByOne(fd[g]) /\ Held' = rest + HeldByOne(fd'[g])
    BY <2>1, HeldStep
  <2>5. Held = rest /\ Held' = rest + n
    BY <1>4, <2>3, <2>4
  <2>6. pool' = Taken(pool, n) /\ Alloc(pool, n) = n
    BY <1>7 DEF GroupSizeBuffered
  <2>7. /\ pool' \in [max : Nat, remaining : Nat]
        /\ pool'.remaining <= pool'.max
        /\ pool'.remaining + (rest + n) >= pool'.max
    BY ONLY <1>2, <1>5, <2>4, <2>5, <2>6, PoolTakes
  <2>8. pool'.max \in Nat /\ pool'.remaining \in Nat
    BY <2>7
  <2>9. pool'.remaining \in 0 .. pool'.max
    BY <2>7, <2>8
  <2> QED
    BY <2>5, <2>7, <2>9 DEF PoolInv, NothingLeaked
<1> QED
  BY <1>6, <1>7 DEF GroupSize, n

LEMMA PoolAllocated ==
  ASSUME TypeInv, PoolInv, NEW n \in PoolSizes, AllocateBuffer(n)
  PROVE  PoolInv'
<1>1. n \in Nat /\ Available \in Nat
  BY PosixWriteAssumption
<1>2. PICK max \in Nat : pool' = [max |-> max, remaining |-> max]
  BY <1>1, MinOfTwo DEF AllocateBuffer
<1>3. pool' \in [max : Nat, remaining : Nat] /\ pool'.remaining = max /\ pool'.max = max
  BY <1>2
<1>4. max \in 0 .. max
  OBVIOUS
<1>5. IsFiniteSet(Groups) /\ InMemory(fd) \in SUBSET Groups /\ fd \in [Groups -> Session]
  BY PosixWriteAssumption DEF InMemory, TypeInv
<1>6. \A g \in Groups : [k \in Groups |-> fd[k].size][g] \in Nat
  BY <1>5 DEF Session
<1>7. PICK F : Sums(F, [k \in Groups |-> fd[k].size], Groups)
  BY <1>5, <1>6, SumsExist
<1>8. HeldBy(fd) \in Nat
  <2>1. HeldBy(fd) = F[InMemory(fd)]
    BY <1>5, <1>7, HeldIsSum
  <2>2. F \in [SUBSET Groups -> Nat]
    BY <1>7 DEF Sums
  <2> QED
    BY <1>5, <2>1, <2>2
<1>9. Held' = HeldBy(fd')
  BY DEF Held, HeldBy, InMemory, MapThenSumSet, MapThenFoldSet
<1>10. Held' \in Nat
  BY <1>8, <1>9 DEF AllocateBuffer
<1>11. max + Held' >= max
  BY ONLY <1>2, <1>10, \A a, b \in Nat : a + b >= a
<1> QED
  BY <1>3, <1>4, <1>11 DEF PoolInv, NothingLeaked

(* The other steps leave the pool and what the sessions hold alone.        *)
LEMMA PoolOthers ==
  ASSUME TypeInv, TypeInv', LayoutInv, PoolInv, NEW g \in Groups,
         \/ \E mode \in Modes : Open(g, mode)
         \/ \E n \in Payloads : Write(g, n)
         \/ CloseBuffered(g) \/ CloseDirect(g) \/ FlushBuffer(g)
  PROVE  PoolInv'
<1>1. fd \in [Groups -> Session] /\ fd[g] \in Session
  BY DEF TypeInv
<1>2. ASSUME NEW mode \in Modes, Open(g, mode) PROVE PoolInv'
  <2>1. ~fd[g].shared /\ pool' = pool
    <3>1. fd[g].st = "closed" /\ pool' = pool
      BY <1>2 DEF Open
    <3>2. fd[g] = NoSession
      BY <3>1 DEF LayoutInv, Layout
    <3> QED
      BY <3>1, <3>2 DEF NoSession
  <2>2. (\A k \in Groups \ {g} : fd'[k] = fd[k]) /\ ~fd'[g].shared
    BY <1>1, <1>2 DEF Open, NoSession
  <2>3. HeldByOne(fd'[g]) = HeldByOne(fd[g])
    BY <2>1, <2>2 DEF HeldByOne
  <2> QED
    BY <2>1, <2>2, <2>3, PoolSame
<1>3. CASE CloseBuffered(g) \/ CloseDirect(g) \/ FlushBuffer(g) \/ \E n \in Payloads : Write(g, n)
  <2>1. pool' = pool /\ \A k \in Groups \ {g} : fd'[k] = fd[k]
    BY <1>1, <1>3 DEF CloseBuffered, CloseDirect, FlushBuffer, Write, WriteBuffered, WriteDirect
  <2>2. fd'[g].shared = fd[g].shared /\ fd'[g].size = fd[g].size
    <3>1. CASE CloseBuffered(g)
      BY <1>1, <3>1 DEF CloseBuffered, Session
    <3>2. CASE CloseDirect(g)
      BY <1>1, <3>2 DEF CloseDirect, Session
    <3>3. CASE FlushBuffer(g)
      BY <1>1, <3>3 DEF FlushBuffer, Session
    <3>4. ASSUME NEW n \in Payloads, WriteBuffered(g, n)
          PROVE  fd'[g].shared = fd[g].shared /\ fd'[g].size = fd[g].size
      BY <1>1, <3>4 DEF WriteBuffered, Session
    <3>5. ASSUME NEW n \in Payloads, WriteDirect(g, n)
          PROVE  fd'[g].shared = fd[g].shared /\ fd'[g].size = fd[g].size
      BY <1>1, <3>5 DEF WriteDirect, Session
    <3> QED
      BY <1>3, <3>1, <3>2, <3>3, <3>4, <3>5 DEF Write
  <2>3. HeldByOne(fd'[g]) = HeldByOne(fd[g])
    BY <2>2 DEF HeldByOne
  <2> QED
    BY <2>1, <2>3, PoolSame, SMTT(30)
<1> QED
  BY <1>2, <1>3

(* The pool is right initially and after every step.                       *)
LEMMA PoolStep ==
  TypeInv /\ TypeInv' /\ LayoutInv /\ PoolInv /\ [Next]_vars => PoolInv'
<1> SUFFICES ASSUME TypeInv, TypeInv', LayoutInv, PoolInv, [Next]_vars PROVE PoolInv'
  OBVIOUS
<1>1. CASE UNCHANGED vars
  <2>1. pool' = pool /\ fd' = fd
    BY <1>1 DEF vars
  <2>2. Held' = Held
    BY <2>1 DEF Held, MapThenSumSet, MapThenFoldSet
  <2> QED
    BY <2>1, <2>2 DEF PoolInv, NothingLeaked
<1>2. ASSUME NEW g \in Groups, Close(g) PROVE PoolInv'
  BY <1>2, PoolAfterEnd, PoolOthers DEF Close, CloseRead
<1>3. ASSUME NEW g \in Groups, WriteIndex(g) PROVE PoolInv'
  BY <1>3, PoolAfterEnd DEF WriteIndex
<1> QED
  BY <1>1, <1>2, <1>3, PoolAllocated, PoolGroupSize, PoolOthers DEF Next

LEMMA PoolInit == Init => PoolInv
<1> SUFFICES ASSUME Init PROVE PoolInv
  OBVIOUS
<1>0. TypeInv
  BY LayoutInit
<1>1. pool = [max |-> 0, remaining |-> 0] /\ fd = [g \in Groups |-> NoSession]
  BY DEF Init
<1>2. IsFiniteSet(Groups) /\ fd \in [Groups -> Session]
  BY <1>0, PosixWriteAssumption DEF TypeInv
<1>3. InMemory(fd) = {}
  BY <1>1 DEF InMemory, NoSession
<1>4. \A g \in Groups : [k \in Groups |-> fd[k].size][g] \in Nat
  BY <1>2 DEF Session
<1>5. PICK F : Sums(F, [k \in Groups |-> fd[k].size], Groups)
  BY <1>2, <1>4, SumsExist
<1>6. HeldBy(fd) = 0
  BY <1>2, <1>3, <1>5, HeldIsSum DEF Sums
<1>7. Held = HeldBy(fd)
  BY DEF Held, HeldBy, InMemory, MapThenSumSet, MapThenFoldSet
<1>8. 0 + 0 >= 0 /\ 0 \in 0 .. 0
  OBVIOUS
<1> QED
  BY <1>1, <1>6, <1>7, <1>8 DEF PoolInv, NothingLeaked

(* buffer.c: whatever files are open, opened with whatever sizes and       *)
(* closed in whatever order, and however the pool is enlarged in between,  *)
(* the free bytes and the bytes that open sessions hold make up the pool,  *)
(* and the count of free bytes does not wrap.                              *)
THEOREM PosixNothingLeaked == Spec => []NothingLeaked
<1>1. Spec => [](TypeInv /\ LayoutInv)
  BY LayoutInit, LayoutStep, PTL DEF Spec
<1>2. Spec => []PoolInv
  BY <1>1, PoolInit, PoolStep, PTL DEF Spec
<1>3. PoolInv => NothingLeaked
  BY DEF PoolInv
<1> QED
  BY <1>2, <1>3, PTL

-----------------------------------------------------------------------------
(* A stream that another program reads.                                    *)

(* Every session that writes the stream's file builds its PG in memory.    *)
StreamBuffered ==
  fd[Stream].st \in {"sized", "flushing"} /\ fd[Stream].mode # "r" => fd[Stream].shared

(* No session that creates the file anew is open once the reader has found *)
(* a valid file.                                                           *)
NotTruncated ==
  fd[Stream].st # "closed" /\ fd[Stream].mode = "w" => rpc = "open"

(* The end of the process groups that a reader may know: the index of a    *)
(* file at rest, or the place where the session that writes began.         *)
Reach(s, f) ==
  IF s.st = "closed" \/ s.mode = "r" THEN (IF Valid(f) THEN IndexOffset(f) ELSE 0)
  ELSE s.endOfPgs

(* All variables of the entries are in the file, before the end.           *)
InFile(vs, end, f) == vs \in Seq(Entry) /\ Entries(vs, end, f, <<>>)

(* Whatever cell of an index lies in the file, of the newest index or of   *)
(* one that a session has begun to overwrite, names only such variables.   *)
CellsInFile(f, end) ==
  \A i \in 1 .. Len(f) : f[i][1] = "index" => InFile(f[i][2].vars, end, f)

(* What the reader has read while it opens the file.                       *)
ReaderInv(f) ==
  /\ rpc = "open" => fh = EmptyIndex
  /\ rpc = "size" => Len(f) > 0
  /\ rpc \in {"footer", "index"} => size \in 1 .. Len(f)
  /\ rpc = "index" => footer \in Nat

(* The inductive invariant of the reader, given that of the writer.        *)
StaleInv ==
  /\ AllShared(log[Stream])
  /\ InFile(fh.vars, Reach(fd[Stream], file[Stream]), file[Stream])
  /\ CellsInFile(file[Stream], Reach(fd[Stream], file[Stream]))
  /\ ReaderInv(file[Stream])

(* A write of plain cells adds no cell of an index.                        *)
LEMMA PlainWriteCells ==
  ASSUME NEW f \in Seq(Cell), NEW pos \in Nat, NEW cells \in Seq(PlainCell),
         NEW i \in 1 .. Len(WriteAt(f, pos, cells)),
         WriteAt(f, pos, cells)[i][1] = "index"
  PROVE  i \in 1 .. Len(f) /\ WriteAt(f, pos, cells)[i] = f[i]
<1> DEFINE w == WriteAt(f, pos, cells)
<1>1. cells \in Seq(Cell)
  BY DEF Cell
<1>2. /\ w \in Seq(Cell)
      /\ \A k \in 1 .. Len(cells) : w[pos + k] = cells[k]
      /\ \A k \in 1 .. Len(w) :
           k <= pos \/ k > pos + Len(cells) =>
             w[k] = IF k <= Len(f) THEN f[k] ELSE Garbage
  BY <1>1, WriteAtResult
<1>3. i \in 1 .. Len(w) /\ w[i][1] = "index"
  OBVIOUS
<1> HIDE DEF w
<1>4. i \in Nat /\ i >= 1 /\ Len(cells) \in Nat /\ Len(f) \in Nat
  BY <1>2, <1>3
<1>5. CASE i > pos /\ i <= pos + Len(cells)
  <2>1. i - pos \in 1 .. Len(cells) /\ pos + (i - pos) = i
    BY <1>4, <1>5
  <2>2. w[i] = cells[i - pos]
    BY <1>2, <2>1
  <2>3. cells[i - pos] \in PlainCell
    BY <2>1
  <2>4. cells[i - pos][1] \in Kinds
    BY <2>3 DEF PlainCell
  <2> QED
    BY <1>3, <2>2, <2>4 DEF Kinds
<1>6. CASE ~(i > pos /\ i <= pos + Len(cells))
  <2>1. i <= pos \/ i > pos + Len(cells)
    BY <1>4, <1>6
  <2>2. w[i] = IF i <= Len(f) THEN f[i] ELSE Garbage
    BY <1>2, <1>3, <2>1
  <2>3. Garbage[1] # "index"
    BY DEF Garbage
  <2>4. i <= Len(f)
    BY <1>3, <2>2, <2>3
  <2> QED
    BY <1>4, <2>2, <2>4 DEF w
<1> QED
  BY <1>5, <1>6

(* The variables of an index stay where they are in the file while the     *)
(* cells before the place where the session began do.                      *)
LEMMA InFileKept ==
  ASSUME NEW vs, NEW s \in Session, NEW f \in Seq(Cell), NEW f2 \in Seq(Cell),
         InFile(vs, s.endOfPgs, f),
         s.endOfPgs <= Len(f2), \A i \in 1 .. s.endOfPgs : f2[i] = f[i]
  PROVE  InFile(vs, s.endOfPgs, f2)
<1>1. vs \in Seq(Entry) /\ Entries(vs, s.endOfPgs, f, <<>>)
  BY DEF InFile
<1>2. Entries(vs, s.endOfPgs, f2, <<>>)
  BY <1>1, EntriesKept
<1> QED
  BY <1>1, <1>2 DEF InFile

(* ... and count for a later end as well.                                  *)
LEMMA InFileLater ==
  ASSUME NEW vs, NEW e1 \in Nat, NEW e2 \in Nat, e1 <= e2, NEW f, InFile(vs, e1, f)
  PROVE  InFile(vs, e2, f)
<1>1. vs \in Seq(Entry) /\ Entries(vs, e1, f, <<>>)
  BY DEF InFile
<1>2. ASSUME NEW i \in 1 .. Len(vs) PROVE vs[i].off + 1 + vs[i].size <= e2
  <2>1. vs[i].off \in Nat /\ vs[i].size \in Nat /\ vs[i].off + 1 + vs[i].size <= e1
    BY <1>1, EntryType DEF Entries
  <2> QED
    BY <2>1
<1> QED
  BY <1>1, <1>2 DEF InFile, Entries

(* The log of another group's session.                                     *)
LEMMA OtherLog ==
  ASSUME TypeInv, NEW g \in Groups, NEW h \in Groups, h # g,
         \/ \E mode \in Modes : Open(h, mode)
         \/ \E n \in DataSizes : GroupSize(h, n)
         \/ \E n \in Payloads : Write(h, n)
         \/ Close(h)
         \/ FlushBuffer(h)
         \/ WriteIndex(h)
  PROVE  log'[g] = log[g]
<1> USE DEF TypeInv
<1>1. ASSUME NEW mode \in Modes, Open(h, mode) PROVE log'[g] = log[g]
  BY <1>1 DEF Open
<1>2. CASE UNCHANGED log
  BY <1>2
<1>3. CASE WriteIndex(h)
  BY <1>3 DEF WriteIndex
<1> QED
  BY <1>1, <1>2, <1>3 DEF GroupSize, Write, Close, CloseRead, CloseBuffered,
     CloseDirect, FlushBuffer

(* adios_open on the stream.                                               *)
LEMMA StreamOpen ==
  ASSUME Inv, AllShared(log[Stream]), NEW mode \in Modes, Open(Stream, mode)
  PROVE  \/ /\ UNCHANGED <<file, log>>
            /\ Reach(fd'[Stream], file'[Stream]) = Reach(fd[Stream], file[Stream])
         \/ /\ file'[Stream] = <<>> /\ log'[Stream] = <<>>
            /\ fd'[Stream].st # "closed" /\ fd'[Stream].mode = "w"
<1> DEFINE f == file[Stream]
           ap == mode \in {"a", "u"} /\ Valid(f)
           end == IF ap THEN IndexOffset(f) ELSE 0
<1>0. Stream \in Groups
  BY BpStreamAssumption
<1>1. /\ fd[Stream].st = "closed" /\ f \in Seq(Cell) /\ Rest(f, log[Stream])
  BY <1>0 DEF Inv, TypeInv, ContentInv, Quiet, Open
<1>2. /\ fd'[Stream].st = "opened" /\ fd'[Stream].mode = mode
      /\ fd'[Stream].endOfPgs = end
  BY <1>0 DEF Open, Inv, TypeInv, NoSession
<1>3. CASE mode = "w"
  <2>1. file'[Stream] = <<>> /\ log'[Stream] = <<>>
    BY <1>0, <1>3 DEF Open, Inv, TypeInv
  <2> QED
    BY <1>2, <1>3, <2>1
<1>4. CASE mode # "w"
  <2>1. UNCHANGED <<file, log>>
    BY <1>4 DEF Open
  <2>2. Reach(fd[Stream], f) = IF Valid(f) THEN IndexOffset(f) ELSE 0
    BY <1>1 DEF Reach
  <2>3. CASE mode = "r"
    BY <1>2, <2>1, <2>2, <2>3 DEF Reach
  <2>4. CASE mode # "r"
    <3>1. mode \in {"a", "u"}
      BY <1>4, <2>4, PosixWriteAssumption
    <3>2. Reach(fd'[Stream], f) = end
      BY <1>2, <2>4 DEF Reach
    <3> QED
      BY <2>1, <2>2, <3>1, <3>2
  <2> QED
    BY <2>3, <2>4
<1> QED
  BY <1>3, <1>4

(* The calls between adios_open and adios_close: the PG is in memory.      *)
LEMMA StreamCalls ==
  ASSUME Inv, StreamBuffered, StreamBuffered',
         \/ \E n \in DataSizes : GroupSize(Stream, n)
         \/ \E n \in Payloads : Write(Stream, n)
         \/ Close(Stream)
  PROVE  /\ file'[Stream] = file[Stream] /\ UNCHANGED log
         /\ Reach(fd'[Stream], file'[Stream]) = Reach(fd[Stream], file[Stream])
<1>0. Stream \in Groups /\ fd \in [Groups -> Session]
  BY BpStreamAssumption DEF Inv, TypeInv
<1>1. ASSUME NEW n \in DataSizes, GroupSize(Stream, n)
      PROVE  /\ UNCHANGED <<file, log>> /\ fd'[Stream].st = "sized"
             /\ fd[Stream].st = "opened" /\ fd'[Stream].mode = fd[Stream].mode
             /\ fd'[Stream].endOfPgs = fd[Stream].endOfPgs
  <2>1. fd[Stream].st = "opened" /\ UNCHANGED log
    BY <1>1 DEF GroupSize
  <2>2. ~fd[Stream].shared
    BY <1>0, <2>1 DEF Inv, LayoutInv, Layout
  <2>3. ASSUME NEW m, GroupSizeBuffered(Stream, m)
        PROVE  /\ UNCHANGED file /\ fd'[Stream].st = "sized"
               /\ fd'[Stream].mode = fd[Stream].mode
               /\ fd'[Stream].endOfPgs = fd[Stream].endOfPgs
    BY <1>0, <2>3 DEF GroupSizeBuffered, Session
  <2>4. ASSUME NEW m, GroupSizeDirect(Stream, m)
        PROVE  /\ UNCHANGED file /\ fd'[Stream].st = "sized"
               /\ fd'[Stream].mode = fd[Stream].mode
               /\ fd'[Stream].endOfPgs = fd[Stream].endOfPgs
    <3>1. CASE fd[Stream].mode = "r"
      BY <1>0, <2>4, <3>1 DEF GroupSizeDirect, Session
    <3>2. CASE fd[Stream].mode # "r"
      <4>1. /\ fd'[Stream].st = "sized" /\ fd'[Stream].mode = fd[Stream].mode
            /\ fd'[Stream].shared = fd[Stream].shared
        BY <1>0, <2>4, <3>2 DEF GroupSizeDirect, Session
      <4> QED
        BY <2>2, <3>2, <4>1 DEF StreamBuffered
    <3> QED
      BY <3>1, <3>2
  <2> QED
    BY <1>1, <2>1, <2>3, <2>4 DEF GroupSize
<1>2. ASSUME NEW n \in Payloads, Write(Stream, n)
      PROVE  /\ UNCHANGED <<file, log>> /\ fd'[Stream].st = "sized"
             /\ fd[Stream].st = "sized" /\ fd'[Stream].mode = fd[Stream].mode
             /\ fd'[Stream].endOfPgs = fd[Stream].endOfPgs
  <2>1. fd[Stream].st = "sized" /\ fd[Stream].mode # "r" /\ UNCHANGED log
    BY <1>2 DEF Write
  <2>2. fd[Stream].shared
    BY <2>1 DEF StreamBuffered
  <2>3. WriteBuffered(Stream, n)
    BY <1>2, <2>2 DEF Write, WriteDirect
  <2> QED
    BY <1>0, <2>1, <2>3 DEF WriteBuffered, Session
<1>3. ASSUME Close(Stream)
      PROVE  /\ UNCHANGED <<file, log>> /\ fd[Stream].st = "sized"
             /\ \/ fd[Stream].mode = "r" /\ fd'[Stream].st = "closed"
                \/ /\ fd'[Stream].st = "flushing"
                   /\ fd'[Stream].mode = fd[Stream].mode
                   /\ fd'[Stream].endOfPgs = fd[Stream].endOfPgs
  <2>1. fd[Stream].st = "sized"
    BY <1>3 DEF Close
  <2>2. CASE CloseRead(Stream)
    BY <1>0, <2>1, <2>2 DEF CloseRead, EndSession, NoSession
  <2>3. CASE CloseBuffered(Stream)
    BY <1>0, <2>1, <2>3 DEF CloseBuffered, Session
  <2>4. CASE CloseDirect(Stream)
    <3>1. fd[Stream].mode # "r" /\ ~fd[Stream].shared
      BY <2>4 DEF CloseDirect
    <3> QED
      BY <2>1, <3>1 DEF StreamBuffered
  <2> QED
    BY <1>3, <2>2, <2>3, <2>4 DEF Close
<1>4. ASSUME NEW n \in DataSizes, GroupSize(Stream, n)
      PROVE  /\ UNCHANGED <<file, log>>
             /\ Reach(fd'[Stream], file'[Stream]) = Reach(fd[Stream], file[Stream])
  BY <1>1, <1>4 DEF Reach
<1>5. ASSUME NEW n \in Payloads, Write(Stream, n)
      PROVE  /\ UNCHANGED <<file, log>>
             /\ Reach(fd'[Stream], file'[Stream]) = Reach(fd[Stream], file[Stream])
  BY <1>2, <1>5 DEF Reach
<1>6. ASSUME Close(Stream)
      PROVE  /\ UNCHANGED <<file, log>>
             /\ Reach(fd'[Stream], file'[Stream]) = Reach(fd[Stream], file[Stream])
  BY <1>3, <1>6 DEF Reach
<1> QED
  BY <1>4, <1>5, <1>6

(* A file that grows keeps what the reader has read of it usable.          *)
LEMMA ReaderLonger ==
  ASSUME NEW f \in Seq(Cell), NEW f2 \in Seq(Cell), Len(f) <= Len(f2), ReaderInv(f)
  PROVE  ReaderInv(f2)
<1>1. Len(f) \in Nat /\ Len(f2) \in Nat
  OBVIOUS
<1>2. Len(f) > 0 => Len(f2) > 0
  BY <1>1
<1>3. size \in 1 .. Len(f) => size \in 1 .. Len(f2)
  BY <1>1
<1> QED
  BY <1>2, <1>3 DEF ReaderInv

(* A round of the loop of adios_posix_do_write: some cells of the old      *)
(* index are gone, nothing that one names is.                              *)
LEMMA StreamFlush ==
  ASSUME Inv, Inv', StaleInv, FlushBuffer(Stream), UNCHANGED readerVars
  PROVE  StaleInv'
<1> DEFINE s == fd[Stream]
           f == file[Stream]
           w == WriteAt(f, s.pos, Chunk(s))
<1>0. Stream \in Groups
  BY BpStreamAssumption, Zenon
<1>1. /\ s \in Session /\ f \in Seq(Cell) /\ s.st = "flushing" /\ s.mode # "r"
      /\ s.flushed < Len(s.buffer)
  BY <1>0 DEF Inv, TypeInv, LayoutInv, Layout, FlushBuffer
<1>2. Chunk(s) \in Seq(PlainCell) /\ s.pos \in Nat /\ s.endOfPgs \in Nat
  BY <1>1, ChunkResult DEF Session
<1>3. file'[Stream] = w /\ log'[Stream] = log[Stream]
  BY <1>0 DEF FlushBuffer, Inv, TypeInv
<1>4. /\ fd'[Stream].st = "flushing" /\ fd'[Stream].mode # "r"
      /\ fd'[Stream].endOfPgs = s.endOfPgs
  BY <1>0, <1>1 DEF FlushBuffer, Inv, TypeInv, Session
<1>5. Reach(s, f) = s.endOfPgs /\ Reach(fd'[Stream], w) = s.endOfPgs
  BY <1>1, <1>4 DEF Reach
<1>6. w \in Seq(Cell) /\ Len(f) <= Len(w)
  BY <1>1, <1>2, PlainWriteLayout
<1>7. \A i \in 1 .. s.endOfPgs : w[i] = f[i]
  BY <1>0, <1>3, FlushLayout DEF Inv
<1>8. s.endOfPgs <= Len(w)
  <2>1. s.endOfPgs <= Len(f)
    BY <1>0, <1>1 DEF Inv, LayoutInv, Layout
  <2>2. Len(f) \in Nat /\ Len(w) \in Nat
    BY <1>1, <1>6
  <2> QED
    BY <1>2, <1>6, <2>1, <2>2
<1>9. \A i \in 1 .. Len(w) : w[i][1] = "index" => i \in 1 .. Len(f) /\ w[i] = f[i]
  BY <1>1, <1>2, PlainWriteCells
<1>10. /\ InFile(fh.vars, s.endOfPgs, f) /\ CellsInFile(f, s.endOfPgs)
       /\ ReaderInv(f) /\ AllShared(log[Stream])
  BY <1>5 DEF StaleInv
<1> HIDE DEF s, f, w
<1>11. InFile(fh.vars, s.endOfPgs, w)
  BY <1>1, <1>6, <1>7, <1>8, <1>10, InFileKept
<1>12. CellsInFile(w, s.endOfPgs)
  <2> SUFFICES ASSUME NEW i \in 1 .. Len(w), w[i][1] = "index"
               PROVE  InFile(w[i][2].vars, s.endOfPgs, w)
    BY DEF CellsInFile
  <2>1. i \in 1 .. Len(f) /\ w[i] = f[i]
    BY <1>9
  <2>2. InFile(f[i][2].vars, s.endOfPgs, f)
    BY <1>10, <2>1 DEF CellsInFile
  <2>3. InFile(f[i][2].vars, s.endOfPgs, w)
    BY <1>1, <1>6, <1>7, <1>8, <2>2, InFileKept
  <2> QED
    BY <2>1, <2>3
<1>13. ReaderInv(w)
  BY <1>1, <1>6, <1>10, ReaderLonger
<1>14. ReaderInv(file[Stream])'
  BY <1>3, <1>13 DEF ReaderInv, readerVars
<1>15. fh' = fh
  BY DEF readerVars
<1> QED
  BY <1>3, <1>5, <1>10, <1>11, <1>12, <1>14, <1>15 DEF StaleInv

(* Every cell of an index in the file once the new index is written is of  *)
(* that one, or was there.                                                 *)
LEMMA IndexedCells ==
  ASSUME NEW f \in Seq(Cell), NEW start \in Nat, NEW ix \in Index,
         NEW i \in 1 .. Len(WriteAt(f, start, IndexCells(ix, start))),
         WriteAt(f, start, IndexCells(ix, start))[i][1] = "index"
  PROVE  LET w == WriteAt(f, start, IndexCells(ix, start)) IN
         \/ i \in 1 .. Len(f) /\ w[i] = f[i]
         \/ w[i][2] = ix
<1> DEFINE n == Len(ix.pgs)
           cells == IndexCells(ix, start)
           w == WriteAt(f, start, cells)
<1>1. n \in Nat
  BY DEF Index
<1>2. /\ cells \in Seq(Cell) /\ Len(cells) = n + 2
      /\ \A k \in 1 .. 1 + n : cells[k] = <<"index", ix, k>>
      /\ cells[n + 2] = <<"footer", start, 0>>
  BY IndexCellsResult
<1>3. i \in 1 .. Len(w) /\ w[i][1] = "index"
  OBVIOUS
<1> HIDE DEF cells, n
<1>4. /\ w \in Seq(Cell)
      /\ \A k \in 1 .. n + 2 : w[start + k] = cells[k]
      /\ \A k \in 1 .. Len(w) :
           k <= start \/ k > start + (n + 2) =>
             w[k] = IF k <= Len(f) THEN f[k] ELSE Garbage
  BY <1>2, WriteAtResult, SMTT(30)
<1> HIDE DEF w
<1>5. i \in Nat /\ i >= 1 /\ Len(f) \in Nat
  BY <1>3, <1>4
<1>6. CASE i > start /\ i <= start + (n + 2)
  <2>1. i - start \in 1 .. n + 2 /\ start + (i - start) = i
    BY <1>1, <1>5, <1>6
  <2>2. w[i] = cells[i - start]
    BY <1>4, <2>1
  <2>3. i - start # n + 2
    <3> SUFFICES ASSUME i - start = n + 2 PROVE FALSE
      OBVIOUS
    <3>1. w[i] = <<"footer", start, 0>>
      BY <1>2, <2>2
    <3> QED
      BY <1>3, <3>1
  <2>4. i - start \in 1 .. 1 + n
    BY <1>1, <1>5, <2>1, <2>3
  <2>5. w[i] = <<"index", ix, i - start>>
    BY <1>2, <2>2, <2>4
  <2> QED
    BY <2>5 DEF w, cells
<1>7. CASE ~(i > start /\ i <= start + (n + 2))
  <2>1. i <= start \/ i > start + (n + 2)
    BY <1>1, <1>5, <1>7
  <2>2. w[i] = IF i <= Len(f) THEN f[i] ELSE Garbage
    BY <1>3, <1>4, <2>1
  <2>3. Garbage[1] # "index"
    BY DEF Garbage
  <2>4. i <= Len(f)
    BY <1>3, <2>2, <2>3
  <2>5. i \in 1 .. Len(f) /\ w[i] = f[i]
    BY <1>5, <2>2, <2>4
  <2> QED
    BY <2>5 DEF w, cells
<1> QED
  BY <1>6, <1>7

(* The new index and minifooter: what the old index names is still there,  *)
(* and so is what the session wrote.                                       *)
LEMMA StreamIndex ==
  ASSUME Inv, Inv', StaleInv, StreamBuffered, WriteIndex(Stream), UNCHANGED readerVars
  PROVE  StaleInv'
<1> DEFINE s == fd[Stream]
           f == file[Stream]
           t == group[Stream].time
           lg == log[Stream]
           w == IndexedFile(s, f, t)
           ln == Logged(s, lg)
           ix == NewIndex(s, t)
           start == IndexStart(s)
<1>0. Stream \in Groups
  BY BpStreamAssumption
<1>1. /\ s \in Session /\ f \in Seq(Cell) /\ s.st = "flushing" /\ s.mode # "r"
      /\ t \in Nat /\ lg \in Seq(LogEntry) /\ Layout(s, f, t)
  BY <1>0 DEF Inv, TypeInv, LayoutInv, Layout, WriteIndex
<1>2. s.shared
  BY <1>1 DEF StreamBuffered
<1>3. file'[Stream] = w /\ log'[Stream] = ln /\ fd'[Stream] = NoSession
  BY <1>0 DEF WriteIndex, EndSession, BuildIndex, IndexedFile, NewIndex, Logged, Inv, TypeInv
<1>4. /\ start \in Nat /\ start >= s.endOfPgs + 2 /\ GoodIndex(ix, start)
  BY <1>1, SessionIndex
<1>5. /\ w \in Seq(Cell) /\ GoodFile(w)
      /\ Valid(w) => IndexOffset(w) = start /\ IndexOf(w) = ix
  BY <1>1, SessionIndexWritten
<1>6. ix \in Index
  BY <1>4 DEF GoodIndex
<1>7. \A i \in 1 .. Len(w) : w[i][1] = "index" =>
        (i \in 1 .. Len(f) /\ w[i] = f[i]) \/ w[i][2] = ix
  BY <1>1, <1>4, <1>6, IndexedCells DEF IndexedFile
<1>8. /\ InFile(fh.vars, s.endOfPgs, f) /\ CellsInFile(f, s.endOfPgs)
      /\ ReaderInv(f) /\ AllShared(lg)
  BY <1>1 DEF StaleInv, Reach
<1>9. \A i \in 1 .. s.endOfPgs : w[i] = f[i]
  BY <1>0, <1>3, WriteIndexLayout DEF Inv
<1>10. Rest(w, ln)
  BY <1>0, <1>3 DEF Inv, ContentInv, Quiet, NoSession
<1>11. Len(f) <= Len(w) /\ w # <<>>
  <2>1. /\ IndexCells(ix, start) \in Seq(Cell)
        /\ Len(IndexCells(ix, start)) = Len(ix.pgs) + 2
    BY <1>4, <1>6, IndexCellsResult
  <2>2. Len(w) = IF Len(f) >= start + Len(IndexCells(ix, start)) THEN Len(f)
                 ELSE start + Len(IndexCells(ix, start))
    BY <1>1, <1>4, <2>1, WriteAtResult DEF IndexedFile
  <2>3. Len(ix.pgs) \in Nat /\ Len(f) \in Nat
    BY <1>1, <1>6 DEF Index
  <2> HIDE DEF w, f, start, ix
  <2>4. Len(w) > 0 /\ Len(f) <= Len(w)
    BY <1>4, <2>1, <2>2, <2>3
  <2> QED
    BY <2>4
<1>12. s.endOfPgs \in Nat /\ s.endOfPgs <= Len(f)
  BY <1>1 DEF Session, Layout
<1>13. /\ Len(ln) = Len(lg) + 1 /\ \A k \in 1 .. Len(lg) : ln[k] = lg[k]
       /\ ln[Len(lg) + 1].shared = s.shared
  BY <1>1, LoggedResult
<1> HIDE DEF s, f, t, lg, w, ln, ix, start
<1>14. AllShared(ln)
  <2>1. \A k \in 1 .. Len(ln) : k \in 1 .. Len(lg) \/ k = Len(lg) + 1
    BY <1>1, <1>13
  <2> QED
    BY <1>2, <1>8, <1>13, <2>1 DEF AllShared
<1>15. Valid(w) /\ IndexOffset(w) = start /\ IndexOf(w) = ix
  BY <1>5, <1>10, <1>11, <1>14 DEF Rest
<1>16. InFile(ix.vars, start, w)
  <2>1. ix.vars \in Seq(Entry)
    BY <1>6 DEF Index
  <2>2. Entries(ix.vars, start, w, ln)
    BY <1>10, <1>15 DEF Rest
  <2>3. \A sid : Buffered(ln, sid)
    BY <1>14 DEF AllShared, Buffered
  <2> QED
    BY <2>1, <2>2, <2>3 DEF InFile, Entries
<1>17. s.endOfPgs <= Len(w) /\ s.endOfPgs <= start
  <2>1. Len(f) \in Nat /\ Len(w) \in Nat
    BY <1>1, <1>5
  <2> QED
    BY <1>4, <1>11, <1>12, <2>1
<1>18. ASSUME NEW vs, InFile(vs, s.endOfPgs, f) PROVE InFile(vs, start, w)
  <2>1. InFile(vs, s.endOfPgs, w)
    BY <1>1, <1>5, <1>9, <1>17, <1>18, InFileKept
  <2> QED
    BY <1>4, <1>12, <1>17, <2>1, InFileLater
<1>19. CellsInFile(w, start)
  <2> SUFFICES ASSUME NEW i \in 1 .. Len(w), w[i][1] = "index"
               PROVE  InFile(w[i][2].vars, start, w)
    BY DEF CellsInFile
  <2>1. CASE i \in 1 .. Len(f) /\ w[i] = f[i]
    <3>1. InFile(f[i][2].vars, s.endOfPgs, f)
      BY <1>8, <2>1 DEF CellsInFile
    <3> QED
      BY <1>18, <2>1, <3>1
  <2>2. CASE w[i][2] = ix
    BY <1>16, <2>2
  <2> QED
    BY <1>7, <2>1, <2>2
<1>20. ReaderInv(w)
  BY <1>1, <1>5, <1>8, <1>11, ReaderLonger
<1>21. ReaderInv(file[Stream])' /\ fh' = fh
  BY <1>3, <1>20 DEF ReaderInv, readerVars
<1>22. Reach(fd'[Stream], w) = start
  BY <1>3, <1>15 DEF Reach, NoSession
<1>23. InFile(fh.vars, start, w)
  BY <1>8, <1>18
<1> QED
  BY <1>3, <1>14, <1>19, <1>21, <1>22, <1>23 DEF StaleInv

(* Where neither the file nor its end changes, everything stays.           *)
LEMMA StaleSame ==
  ASSUME StaleInv, UNCHANGED readerVars, log'[Stream] = log[Stream],
         file'[Stream] = file[Stream],
         Reach(fd'[Stream], file'[Stream]) = Reach(fd[Stream], file[Stream])
  PROVE  StaleInv'
<1>1. fh' = fh /\ rpc' = rpc /\ size' = size /\ footer' = footer
  BY DEF readerVars
<1>2. ReaderInv(file[Stream])'
  BY <1>1 DEF StaleInv, ReaderInv
<1> QED
  BY <1>1, <1>2 DEF StaleInv

(* The index of a reader that holds none.                                  *)
LEMMA NoIndexInFile ==
  ASSUME NEW end, NEW f
  PROVE  InFile(EmptyIndex.vars, end, f)
<1>1. EmptyIndex.vars = <<>>
  BY DEF EmptyIndex
<1>2. EmptyIndex.vars \in Seq(Entry) /\ 1 .. Len(EmptyIndex.vars) = {}
  BY <1>1
<1> QED
  BY <1>2 DEF InFile, Entries

(* A session creates the file anew: the reader has not begun to open it.   *)
LEMMA StreamTruncated ==
  ASSUME StaleInv, NotTruncated', UNCHANGED readerVars, log'[Stream] = <<>>,
         file'[Stream] = <<>>, fd'[Stream].st # "closed", fd'[Stream].mode = "w"
  PROVE  StaleInv'
<1>1. fh' = fh /\ rpc' = rpc /\ rpc = "open"
  BY DEF readerVars, NotTruncated
<1>2. fh' = EmptyIndex
  BY <1>1 DEF StaleInv, ReaderInv
<1>3. Len(file'[Stream]) = 0 /\ Len(log'[Stream]) = 0
  OBVIOUS
<1>4. 1 .. Len(file'[Stream]) = {} /\ 1 .. Len(log'[Stream]) = {}
  BY <1>3
<1>5. AllShared(log'[Stream])
  BY <1>4 DEF AllShared
<1>6. ReaderInv(file[Stream])'
  BY <1>1, <1>2 DEF ReaderInv
<1>7. \A end : CellsInFile(file'[Stream], end)
  BY <1>4 DEF CellsInFile
<1>8. \A end : InFile(fh'.vars, end, file'[Stream])
  BY <1>2, NoIndexInFile
<1> QED
  BY <1>5, <1>6, <1>7, <1>8 DEF StaleInv

(* The steps of the writer.                                                *)
LEMMA StaleWriter ==
  ASSUME Inv, Inv', StaleInv, StreamBuffered, StreamBuffered', NotTruncated',
         [Next]_vars, UNCHANGED readerVars
  PROVE  StaleInv'
<1>0. Stream \in Groups /\ TypeInv /\ AllShared(log[Stream])
  BY BpStreamAssumption DEF Inv, StaleInv
<1>1. CASE UNCHANGED <<fd, file, log>>
  BY <1>1, StaleSame
<1>2. ASSUME NEW h \in Groups,
             \/ \E mode \in Modes : Open(h, mode)
             \/ \E n \in DataSizes : GroupSize(h, n)
             \/ \E n \in Payloads : Write(h, n)
             \/ Close(h)
             \/ FlushBuffer(h)
             \/ WriteIndex(h)
      PROVE  StaleInv'
  <2>1. CASE h # Stream
    <3>1. fd'[Stream] = fd[Stream] /\ file'[Stream] = file[Stream]
      BY <1>0, <1>2, <2>1, OtherGroup
    <3>2. log'[Stream] = log[Stream]
      BY <1>0, <1>2, <2>1, OtherLog
    <3> QED
      BY <3>1, <3>2, StaleSame
  <2>2. CASE h = Stream
    <3>1. ASSUME NEW mode \in Modes, Open(Stream, mode) PROVE StaleInv'
      <4>1. \/ /\ UNCHANGED <<file, log>>
               /\ Reach(fd'[Stream], file'[Stream]) = Reach(fd[Stream], file[Stream])
            \/ /\ file'[Stream] = <<>> /\ log'[Stream] = <<>>
               /\ fd'[Stream].st # "closed" /\ fd'[Stream].mode = "w"
        BY <1>0, <3>1, StreamOpen
      <4> QED
        BY <4>1, StaleSame, StreamTruncated
    <3>2. ASSUME \/ \E n \in DataSizes : GroupSize(Stream, n)
                 \/ \E n \in Payloads : Write(Stream, n)
                 \/ Close(Stream)
          PROVE  StaleInv'
      <4>1. /\ file'[Stream] = file[Stream] /\ UNCHANGED log
            /\ Reach(fd'[Stream], file'[Stream]) = Reach(fd[Stream], file[Stream])
        BY <3>2, StreamCalls
      <4> QED
        BY <4>1, StaleSame
    <3> QED
      BY <1>2, <2>2, <3>1, <3>2, StreamFlush, StreamIndex
  <2> QED
    BY <2>1, <2>2
<1> QED
  BY <1>1, <1>2 DEF Next, AllocateBuffer, vars

(* The index that the reader parses is a cell of the file as it is then,   *)
(* even if the minifooter it was led by is gone.                           *)
LEMMA ParsedInFile ==
  ASSUME Inv, StaleInv, rpc = "index", Parsable
  PROVE  InFile(IndexRead[1][2].vars, Reach(fd[Stream], file[Stream]), file[Stream])
<1> DEFINE f == file[Stream]
           a == footer + 1
           b == size - 1
<1>0. Stream \in Groups
  BY BpStreamAssumption
<1>1. f \in Seq(Cell) /\ size \in 1 .. Len(f) /\ footer \in Nat
  BY <1>0 DEF Inv, TypeInv, StaleInv, ReaderInv
<1>2. IndexRead = SubSeq(f, a, b) /\ IndexRead # <<>> /\ IndexRead[1][1] = "index"
  BY DEF IndexRead, Data, Parsable, WholeIndex
<1> HIDE DEF f
<1>3. a \in Nat /\ a >= 1 /\ b \in Nat /\ b <= Len(f) /\ Len(f) \in Nat
  BY <1>1
<1> HIDE DEF a, b
<1>4. a <= b
  <2> SUFFICES ASSUME ~(a <= b) PROVE FALSE
    OBVIOUS
  <2>1. SubSeq(f, a, b) = <<>>
    BY <1>1, <1>3
  <2> QED
    BY <1>2, <2>1
<1>5. SubSeq(f, a, b)[1] = f[a] /\ a \in 1 .. Len(f)
  BY <1>1, <1>3, <1>4
<1>6. IndexRead[1] = f[a]
  BY <1>2, <1>5
<1> QED
  BY <1>2, <1>5, <1>6 DEF StaleInv, CellsInFile, f

(* The steps of the reader.                                                *)
LEMMA StaleReader ==
  ASSUME Inv, StaleInv, ReaderNext, UNCHANGED vars
  PROVE  StaleInv'
<1> DEFINE f == file[Stream]
           R == Reach(fd[Stream], f)
<1>0. Stream \in Groups
  BY BpStreamAssumption
<1>1. f \in Seq(Cell) /\ Len(f) \in Nat
  BY <1>0 DEF Inv, TypeInv
<1>2. /\ AllShared(log[Stream]) /\ InFile(fh.vars, R, f) /\ CellsInFile(f, R)
      /\ ReaderInv(f)
  BY DEF StaleInv
<1>3. fd' = fd /\ file' = file /\ log' = log
  BY DEF vars
<1>4. ASSUME InFile(fh'.vars, R, f), ReaderInv(file[Stream])' PROVE StaleInv'
  BY <1>2, <1>3, <1>4 DEF StaleInv
<1> HIDE DEF R
<1>5. CASE CheckBpValidity
  <2>1. fh' = fh /\ rpc' = "size" /\ Valid(f)
    BY <1>5 DEF CheckBpValidity, Data
  <2>2. Len(f) > 0
    <3>1. f # <<>>
      BY <2>1 DEF Valid
    <3> QED
      BY <1>1, <3>1
  <2>3. ReaderInv(file[Stream])'
    BY <1>3, <2>1, <2>2 DEF ReaderInv
  <2> QED
    BY <1>2, <1>4, <2>1, <2>3
<1>6. CASE BpReadOpen
  <2>1. fh' = fh /\ rpc' = "footer" /\ rpc = "size" /\ size' = Len(f)
    BY <1>6 DEF BpReadOpen, Data
  <2>2. Len(f) > 0
    BY <1>2, <2>1 DEF ReaderInv
  <2>3. Len(f) \in 1 .. Len(f)
    BY <1>1, <2>2
  <2>4. ReaderInv(file[Stream])'
    BY <1>3, <2>1, <2>3 DEF ReaderInv
  <2> QED
    BY <1>2, <1>4, <2>1, <2>4
<1>7. CASE BpReadMinifooter
  <2>1. /\ fh' = fh /\ rpc = "footer" /\ size' = size
        /\ \/ rpc' = "index" /\ footer' = f[size][2] /\ f[size][1] = "footer"
           \/ rpc' = "undefined"
    BY <1>7 DEF BpReadMinifooter, Data
  <2>2. size \in 1 .. Len(f)
    BY <1>2, <2>1 DEF ReaderInv
  <2>3. f[size] \in Cell
    BY <1>1, <2>2
  <2>4. f[size][1] = "footer" => f[size][2] \in Nat
    BY <2>3 DEF Cell, PlainCell, Kinds
  <2>5. ReaderInv(file[Stream])'
    BY <1>3, <2>1, <2>2, <2>4 DEF ReaderInv
  <2> QED
    BY <1>2, <1>4, <2>1, <2>5
<1>8. CASE OpenStream \/ GetNewStep
  <2>1. rpc = "index" /\ Parsable /\ fh' = IndexRead[1][2] /\ rpc' = "step"
    BY <1>8 DEF OpenStream, GetNewStep
  <2>2. InFile(fh'.vars, R, f)
    BY <2>1, ParsedInFile DEF R
  <2>3. ReaderInv(file[Stream])'
    BY <2>1 DEF ReaderInv
  <2> QED
    BY <1>4, <2>2, <2>3
<1>9. ASSUME fh' = fh \/ fh' = EmptyIndex,
             rpc' \in {"failed", "notready", "undefined", "poll", "step", "closed"}
      PROVE  StaleInv'
  <2>1. InFile(fh'.vars, R, f)
    BY <1>2, <1>9, NoIndexInFile
  <2>2. ReaderInv(file[Stream])'
    BY <1>9 DEF ReaderInv
  <2> QED
    BY <1>4, <2>1, <2>2
<1>10. CASE Expired \/ BpParseFails \/ NoNewStep
  BY <1>9, <1>10 DEF Expired, BpParseFails, NoNewStep
<1>11. CASE AdvanceInIndex \/ AfterTimeout \/ CloseStream
  BY <1>9, <1>11 DEF AdvanceInIndex, AfterTimeout, CloseStream
<1>12. ASSUME NEW newest \in Lasts, AdvanceReopen(newest) PROVE StaleInv'
  <2>1. fh' = EmptyIndex /\ rpc' \in {"poll", "undefined"}
    BY <1>12 DEF AdvanceReopen
  <2> QED
    BY <1>9, <2>1
<1> QED
  BY <1>5, <1>6, <1>7, <1>8, <1>10, <1>11, <1>12 DEF ReaderNext

(* At the start, and over every step, the invariant of the reader holds.   *)
LEMMA StaleInit == StreamInit => Inv /\ StaleInv
<1> SUFFICES ASSUME StreamInit PROVE Inv /\ StaleInv
  OBVIOUS
<1>1. Inv /\ Stream \in Groups
  BY ContentInit, BpStreamAssumption DEF StreamInit
<1>2. log[Stream] = <<>> /\ file[Stream] = <<>> /\ rpc = "open" /\ fh = EmptyIndex
  BY <1>1 DEF StreamInit, Init, ReaderInit
<1>3. Len(log[Stream]) = 0 /\ Len(file[Stream]) = 0
  BY <1>2
<1>4. 1 .. Len(log[Stream]) = {} /\ 1 .. Len(file[Stream]) = {}
  BY <1>3
<1>5. AllShared(log[Stream]) /\ \A end : CellsInFile(file[Stream], end)
  BY <1>4 DEF AllShared, CellsInFile
<1>6. ReaderInv(file[Stream]) /\ \A end : InFile(fh.vars, end, file[Stream])
  BY <1>2, NoIndexInFile DEF ReaderInv
<1> QED
  BY <1>1, <1>5, <1>6 DEF StaleInv

(* One step of the writer or of the reader.                                *)
LEMMA StaleStep ==
  /\ Inv /\ StaleInv
  /\ FitsOneWrite /\ StreamBuffered /\ StreamBuffered' /\ NotTruncated'
  /\ [StreamNext]_<<vars, readerVars>>
  => Inv' /\ StaleInv'
<1> SUFFICES ASSUME Inv, StaleInv, FitsOneWrite, StreamBuffered, StreamBuffered',
                    NotTruncated', [StreamNext]_<<vars, readerVars>>
             PROVE  Inv' /\ StaleInv'
  OBVIOUS
<1>1. \/ [Next]_vars /\ UNCHANGED readerVars
      \/ ReaderNext /\ UNCHANGED vars
  BY DEF StreamNext, WriterNext, Next
<1>2. [Next]_vars
  BY <1>1
<1>3. Inv'
  BY <1>2, ContentStep
<1> QED
  BY <1>1, <1>3, StaleWriter, StaleReader

(* read_bp.c: an index that a reader holds, however old, names variables   *)
(* that are in the file as they were written, at every moment of the       *)
(* sessions that append to the file, as long as they are buffered, fit one *)
(* write(2), and do not create the file anew.                              *)
THEOREM BpStaleIndexStillReads ==
  StreamSpec /\ []FitsOneWrite /\ []StreamBuffered /\ []NotTruncated
    => []StaleIndexStillReads
<1>1. Inv /\ StaleInv => StaleIndexStillReads
  <2> SUFFICES ASSUME Inv, StaleInv, NEW e \in ToSet(fh.vars)
               PROVE  IntactEntry(file[Stream], e)
    BY DEF StaleIndexStillReads, Data
  <2> DEFINE vs == fh.vars
             f == file[Stream]
             R == Reach(fd[Stream], f)
  <2>1. vs \in Seq(Entry) /\ Entries(vs, R, f, <<>>)
    BY DEF StaleInv, InFile
  <2>2. f \in Seq(Cell)
    BY BpStreamAssumption DEF Inv, TypeInv
  <2> HIDE DEF R
  <2>3. PICK i \in 1 .. Len(vs) : e = vs[i]
    BY <2>1 DEF ToSet
  <2>4. e \in Entry
    BY <2>1, <2>3
  <2>5. Buffered(<<>>, e.sid)
    BY DEF Buffered
  <2>6. VarAt(f, e.off, e)
    BY <2>1, <2>3, <2>5 DEF Entries
  <2> QED
    BY <2>2, <2>4, <2>6, VarAtIntact
<1> QED
  BY StaleInit, StaleStep, <1>1, PTL DEF StreamSpec
-----------------------------------------------------------------------------
(* A reader that opens the stream when the writer has finished.            *)

(* No session updates the stream's file: adios_write calls                 *)
(* adios_copy_var_written in write and append mode only, so the variables  *)
(* of an update are not in the index, and get_time misses that step.       *)
NotUpdated == fd[Stream].st # "closed" => fd[Stream].mode # "u"

(* The index of a file is that of the sessions in the log: a process group *)
(* for each, in order, with its variables, the first of which is the first *)
(* in the index.                                                           *)
Describes(ix, lg) ==
  /\ Len(ix.pgs) = Len(lg)
  /\ \A k \in 1 .. Len(lg) : ix.pgs[k].sid = lg[k].sid
  /\ \A j, k \in 1 .. Len(lg) : lg[j].sid = lg[k].sid => j = k
  /\ \A k \in 1 .. Len(lg) : lg[k].nvars > 0 =>
       \E i \in 1 .. Len(ix.vars) : ix.vars[i].sid = lg[k].sid /\ ix.vars[i].var = 1
  /\ \A i \in 1 .. Len(ix.vars) : \E k \in 1 .. Len(lg) : ix.vars[i].sid = lg[k].sid
  /\ ix.vars # <<>> => ix.vars[1].var = 1

(* The stream's file at rest, and the session that writes it.              *)
AtRest(f, lg) ==
  /\ ~Valid(f) => lg = <<>>
  /\ Valid(f) => Describes(IndexOf(f), lg)

InSession(s, t, lg) ==
  /\ Describes(s.old, lg)
  /\ t >= 1
  /\ s.nvars > 0 => s.written # <<>>
  /\ s.written # <<>> => s.written[1].var = 1

(* The cells of an index lie behind the process groups, and every index    *)
(* has a time.                                                             *)
TimedIndex(ix) == ix.pgs # <<>> /\ Last(ix.pgs).time >= 1

IndexCellsBehind(f, end) ==
  \A i \in 1 .. Len(f) : f[i][1] = "index" => i > end /\ TimedIndex(f[i][2])

(* The stream's file and its sessions; the writer's half of the invariant. *)
StreamFileInv ==
  /\ Quiet(fd[Stream]) => AtRest(file[Stream], log[Stream])
  /\ fd[Stream].st # "closed" /\ fd[Stream].mode # "r" =>
       InSession(fd[Stream], group[Stream].time, log[Stream])
  /\ IndexCellsBehind(file[Stream], Reach(fd[Stream], file[Stream]))

(* What the steps of the reader have come to; the reader's half.           *)
InOrder ==
  complete /\ rpc = "step" /\ lastTidx = 0 =>
    /\ Valid(file[Stream]) /\ fh = IndexOf(file[Stream])
    /\ lastStep = Len(log[Stream]) - 1
    /\ currentStep \in 0 .. lastStep
    /\ seen = [i \in 1 .. currentStep + 1 |-> i - 1]
    /\ shown = SeekToStep(fh, currentStep)

StepsInv ==
  /\ rpc = "step" => TimedIndex(fh)
  /\ complete => sessions = MaxSessions /\ fd[Stream].st = "closed"
  /\ rpc \in {"open", "poll", "size", "footer", "index"} /\ lastTidx = 0 => seen = <<>>
  /\ InOrder

(* The time of an entry is that of its session's process group.            *)
LEMMA TimeOfEntry ==
  ASSUME NEW ix, NEW end, GoodIndex(ix, end), NEW lg \in Seq(LogEntry),
         Describes(ix, lg), NEW e, NEW k \in 1 .. Len(lg), e.sid = lg[k].sid
  PROVE  TimeOf(ix, e) = TidxStart(ix) + (k - 1)
<1> DEFINE p == ix.pgs
           n == Len(lg)
<1>1. p \in Seq(Pg) /\ Len(p) = n /\ n \in Nat
  BY DEF GoodIndex, Index, Describes
<1>2. /\ \A j \in 1 .. n : p[j].sid = lg[j].sid
      /\ \A i, j \in 1 .. n : lg[i].sid = lg[j].sid => i = j
  BY DEF Describes
<1>3. \A i, j \in 1 .. n : i < j => p[j].time = p[i].time + (j - i)
  BY <1>1 DEF GoodIndex
<1>4. ToSet(p) = {p[i] : i \in 1 .. n}
  BY <1>1 DEF ToSet
<1> HIDE DEF p, n
<1>5. \A pg \in ToSet(p) : pg.sid = e.sid <=> pg = p[k]
  <2> SUFFICES ASSUME NEW i \in 1 .. n PROVE p[i].sid = e.sid <=> p[i] = p[k]
    BY <1>4
  <2>1. k \in 1 .. n
    BY DEF n
  <2> QED
    BY <1>2, <2>1
<1>6. p[k] \in ToSet(p) /\ k \in 1 .. n
  BY <1>4 DEF n
<1>7. (CHOOSE pg \in ToSet(p) : pg.sid = e.sid) = p[k]
  BY <1>5, <1>6
<1>8. TimeOf(ix, e) = p[k].time
  BY <1>7 DEF TimeOf, p
<1>9. p[k].time = p[1].time + (k - 1)
  <2>1. 1 \in 1 .. n /\ p[1] \in Pg
    BY <1>1, <1>6
  <2>2. p[1].time \in Nat
    BY <2>1 DEF Pg
  <2>3. CASE k = 1
    BY <2>2, <2>3
  <2>4. CASE k # 1
    BY <1>1, <1>3, <1>6, <2>1, <2>4
  <2> QED
    BY <2>3, <2>4
<1> QED
  BY <1>8, <1>9 DEF TidxStart, p

(* When every session wrote its first variable, get_time finds the time of *)
(* each step, and the step has variables.                                  *)
LEMMA StepTime ==
  ASSUME NEW ix, NEW end, GoodIndex(ix, end), NEW lg \in Seq(LogEntry),
         Describes(ix, lg), \A k \in 1 .. Len(lg) : lg[k].nvars > 0,
         NEW step \in 0 .. Len(lg) - 1
  PROVE  /\ SeekToStep(ix, step) # {}
         /\ \A e \in SeekToStep(ix, step) : TimeOf(ix, e) = TidxStart(ix) + step
<1> DEFINE n == Len(lg)
           t == TidxStart(ix)
           first == {x \in ToSet(ix.vars) : x.var = ix.vars[1].var}
           times == {TimeOf(ix, e) : e \in first}
<1>1. n \in Nat /\ n > 0 /\ step \in Nat /\ step < n
  OBVIOUS
<1>2. t \in Nat
  <2>1. ix.pgs \in Seq(Pg) /\ Len(ix.pgs) = n
    BY DEF GoodIndex, Index, Describes
  <2>2. ix.pgs[1] \in Pg
    BY <1>1, <2>1
  <2> QED
    BY <2>2 DEF TidxStart, Pg
<1>3. ix.vars \in Seq(Entry)
  BY DEF GoodIndex, Index
<1>4. ToSet(ix.vars) = {ix.vars[i] : i \in 1 .. Len(ix.vars)}
  BY <1>3 DEF ToSet
<1>5. \A e \in ToSet(ix.vars) : \E k \in 1 .. n : e.sid = lg[k].sid
  BY <1>4 DEF Describes
<1>6. \A k \in 1 .. n : \E e \in ToSet(ix.vars) : e.sid = lg[k].sid /\ e.var = 1
  BY <1>4 DEF Describes
<1>7. ix.vars[1].var = 1
  <2>1. ToSet(ix.vars) # {}
    BY <1>1, <1>6
  <2>2. ix.vars # <<>>
    <3> SUFFICES ASSUME ix.vars = <<>> PROVE FALSE
      OBVIOUS
    <3>1. 1 .. Len(ix.vars) = {}
      OBVIOUS
    <3> QED
      BY <1>4, <2>1, <3>1
  <2> QED
    BY <2>2 DEF Describes
<1>8. \A e \in ToSet(ix.vars), k \in 1 .. n : e.sid = lg[k].sid =>
        TimeOf(ix, e) = t + (k - 1)
  BY TimeOfEntry
<1> HIDE DEF t
<1>9. times = t .. t + (n - 1)
  <2>1. ASSUME NEW e \in first PROVE TimeOf(ix, e) \in t .. t + (n - 1)
    <3>1. PICK k \in 1 .. n : e.sid = lg[k].sid
      BY <1>5
    <3>2. TimeOf(ix, e) = t + (k - 1)
      BY <1>8, <3>1
    <3> HIDE DEF n
    <3>3. t + (k - 1) \in t .. t + (n - 1)
      BY <1>1, <1>2
    <3> QED
      BY <3>2, <3>3
  <2>2. ASSUME NEW u \in t .. t + (n - 1) PROVE u \in times
    <3> DEFINE k == u - t + 1
    <3>1. k \in 1 .. n /\ u = t + (k - 1)
      BY <1>1, <1>2
    <3> HIDE DEF k, n
    <3>2. PICK e \in ToSet(ix.vars) : e.sid = lg[k].sid /\ e.var = 1
      BY <1>6, <3>1
    <3>3. e \in first
      BY <1>7, <3>2
    <3>4. TimeOf(ix, e) = u
      BY <1>8, <3>1, <3>2
    <3> QED
      BY <3>3, <3>4
  <2> HIDE DEF first, n
  <2>3. times \subseteq t .. t + (n - 1)
    BY <2>1
  <2> QED
    BY <2>2, <2>3
<1>10. \A u \in times : Cardinality({v \in times : v < u}) = u - t
  <2> SUFFICES ASSUME NEW u \in times PROVE Cardinality({v \in times : v < u}) = u - t
    OBVIOUS
  <2> HIDE DEF times, n
  <2>1. u \in Int /\ t <= u /\ u <= t + (n - 1)
    BY <1>1, <1>2, <1>9
  <2>2. {v \in times : v < u} = t .. u - 1
    BY <1>1, <1>2, <1>9, <2>1
  <2>3. Cardinality(t .. u - 1) = IF t > u - 1 THEN 0 ELSE (u - 1) - t + 1
    <3>1. t \in Int /\ u - 1 \in Int
      BY <1>2, <2>1
    <3> QED
      BY <3>1, FS_Interval
  <2>4. (IF t > u - 1 THEN 0 ELSE (u - 1) - t + 1) = u - t
    BY <1>2, <2>1
  <2> QED
    BY <2>2, <2>3, <2>4
<1> DEFINE nth == {u \in times : Cardinality({v \in times : v < u}) = step}
<1>11. nth = {t + step}
  <2> HIDE DEF times
  <2>1. nth = {u \in times : u - t = step}
    BY <1>10
  <2> HIDE DEF nth, n
  <2>2. t + step \in times
    BY <1>1, <1>2, <1>9
  <2>3. \A u \in times : u - t = step <=> u = t + step
    BY <1>1, <1>2, <1>9
  <2> QED
    BY <2>1, <2>2, <2>3
<1>12. GetTime(ix, step) = t + step
  <2>1. GetTime(ix, step) = IF nth = {} THEN -1 ELSE CHOOSE u \in nth : TRUE
    BY DEF GetTime
  <2> HIDE DEF nth
  <2> QED
    BY <1>11, <2>1
<1>13. SeekToStep(ix, step) = {e \in ToSet(ix.vars) : TimeOf(ix, e) = t + step}
  BY <1>12 DEF SeekToStep
<1>14. PICK e \in ToSet(ix.vars) : TimeOf(ix, e) = t + step
  <2> HIDE DEF n
  <2>1. t + step \in t .. t + (n - 1)
    BY <1>1, <1>2
  <2>2. t + step \in times
    BY <1>9, <2>1
  <2> QED
    BY <2>2
<1> QED
  BY <1>13, <1>14 DEF t

(* The index of the sessions in the log and of one more.                   *)
LEMMA DescribesMore ==
  ASSUME NEW old \in Index, NEW lg \in Seq(LogEntry), Describes(old, lg),
         NEW pg \in Pg, NEW x \in LogEntry, pg.sid = x.sid, NEW ws \in Seq(Entry),
         \A k \in 1 .. Len(lg) : lg[k].sid # x.sid,
         \A i \in 1 .. Len(ws) : ws[i].sid = x.sid,
         x.nvars > 0 => ws # <<>>,
         ws # <<>> => ws[1].var = 1
  PROVE  Describes([pgs |-> Append(old.pgs, pg), vars |-> old.vars \o ws], Append(lg, x))
<1> DEFINE p == Append(old.pgs, pg)
           ln == Append(lg, x)
           o == old.vars
           vs == o \o ws
           n == Len(lg)
           m == Len(o)
           ix == [pgs |-> p, vars |-> vs]
<1>1. old.pgs \in Seq(Pg) /\ Len(old.pgs) = n /\ o \in Seq(Entry) /\ n \in Nat /\ m \in Nat
  BY DEF Index, Describes
<1>2. /\ Len(p) = n + 1 /\ p[n + 1] = pg /\ \A k \in 1 .. n : p[k] = old.pgs[k]
  BY <1>1
<1>3. /\ Len(ln) = n + 1 /\ ln[n + 1] = x /\ \A k \in 1 .. n : ln[k] = lg[k]
  OBVIOUS
<1>4. /\ Len(vs) = m + Len(ws) /\ Len(ws) \in Nat
      /\ \A i \in 1 .. m : vs[i] = o[i]
      /\ \A i \in 1 .. Len(ws) : vs[m + i] = ws[i]
  BY <1>1
<1>5. \A k \in 1 .. n + 1 : k \in 1 .. n \/ k = n + 1
  BY <1>1
<1>6. \A i \in 1 .. m + Len(ws) : i \in 1 .. m \/ \E j \in 1 .. Len(ws) : i = m + j
  <2> SUFFICES ASSUME NEW i \in 1 .. m + Len(ws), i \notin 1 .. m
               PROVE  \E j \in 1 .. Len(ws) : i = m + j
    OBVIOUS
  <2>1. i - m \in 1 .. Len(ws) /\ i = m + (i - m)
    BY <1>1, <1>4
  <2> QED
    BY <2>1
<1>7. /\ \A i \in 1 .. m : i \in 1 .. m + Len(ws)
      /\ \A j \in 1 .. Len(ws) : m + j \in 1 .. m + Len(ws)
      /\ n + 1 \in 1 .. n + 1 /\ \A k \in 1 .. n : k \in 1 .. n + 1
  BY <1>1, <1>4
<1>8. /\ \A k \in 1 .. n : old.pgs[k].sid = lg[k].sid
      /\ \A j, k \in 1 .. n : lg[j].sid = lg[k].sid => j = k
      /\ \A k \in 1 .. n : lg[k].nvars > 0 =>
           \E i \in 1 .. m : o[i].sid = lg[k].sid /\ o[i].var = 1
      /\ \A i \in 1 .. m : \E k \in 1 .. n : o[i].sid = lg[k].sid
      /\ o # <<>> => o[1].var = 1
  BY DEF Describes
<1>9. ws # <<>> => 1 \in 1 .. Len(ws)
  BY <1>4
<1>10. o # <<>> => 1 \in 1 .. m
  BY <1>1
<1>11. o = <<>> => m = 0
  OBVIOUS
<1>12. vs # <<>> => o # <<>> \/ ws # <<>>
  BY <1>1
<1> HIDE DEF p, ln, vs, n, m, o
<1>13. Len(p) = Len(ln) /\ \A k \in 1 .. Len(ln) : p[k].sid = ln[k].sid
  BY <1>2, <1>3, <1>5, <1>8
<1>14. \A j, k \in 1 .. Len(ln) : ln[j].sid = ln[k].sid => j = k
  <2>1. \A k \in 1 .. n : ln[k].sid # x.sid
    BY <1>3 DEF n
  <2> QED
    BY <1>3, <1>5, <1>8, <2>1
<1>15. ASSUME NEW k \in 1 .. Len(ln), ln[k].nvars > 0
       PROVE  \E i \in 1 .. Len(vs) : vs[i].sid = ln[k].sid /\ vs[i].var = 1
  <2>1. CASE k \in 1 .. n
    <3>1. lg[k].nvars > 0
      BY <1>3, <1>15, <2>1
    <3>2. PICK i \in 1 .. m : o[i].sid = lg[k].sid /\ o[i].var = 1
      BY <1>8, <2>1, <3>1
    <3> QED
      BY <1>3, <1>4, <1>7, <2>1, <3>2
  <2>2. CASE k = n + 1
    <3>1. ws # <<>> /\ ws[1].var = 1 /\ 1 \in 1 .. Len(ws)
      BY <1>3, <1>9, <1>15, <2>2
    <3>2. m + 1 \in 1 .. Len(vs) /\ vs[m + 1] = ws[1]
      BY <1>4, <1>7, <3>1
    <3> QED
      BY <1>3, <2>2, <3>1, <3>2
  <2> QED
    BY <1>3, <1>5, <2>1, <2>2
<1>16. ASSUME NEW i \in 1 .. Len(vs)
       PROVE  \E k \in 1 .. Len(ln) : vs[i].sid = ln[k].sid
  <2>1. CASE i \in 1 .. m
    <3>1. PICK k \in 1 .. n : o[i].sid = lg[k].sid
      BY <1>8, <2>1
    <3> QED
      BY <1>3, <1>4, <1>7, <2>1, <3>1
  <2>2. CASE \E j \in 1 .. Len(ws) : i = m + j
    BY <1>3, <1>4, <1>7, <2>2
  <2> QED
    BY <1>4, <1>6, <2>1, <2>2
<1>17. vs # <<>> => vs[1].var = 1
  <2>1. CASE o # <<>>
    BY <1>4, <1>8, <1>10, <2>1
  <2>2. CASE o = <<>> /\ ws # <<>>
    <3>1. vs[0 + 1] = ws[1]
      BY <1>4, <1>9, <1>11, <2>2
    <3> QED
      BY <2>2, <3>1
  <2> QED
    BY <1>12, <2>1, <2>2
<1>18. ix.pgs = p /\ ix.vars = vs
  OBVIOUS
<1>19. Describes(ix, ln)
  <2> HIDE DEF ix
  <2> QED
    BY <1>13, <1>14, <1>15, <1>16, <1>17, <1>18 DEF Describes
<1> QED
  BY <1>19 DEF ix, p, vs, ln, o

(* The empty index is that of an empty log.                                *)
LEMMA DescribesNothing == Describes(EmptyIndex, <<>>)
<1>1. EmptyIndex.pgs = <<>> /\ EmptyIndex.vars = <<>>
  BY DEF EmptyIndex
<1>2. \A q : q = <<>> => Len(q) = 0 /\ 1 .. Len(q) = {}
  OBVIOUS
<1> QED
  BY <1>1, <1>2 DEF Describes

(* A file that is not valid belongs to an empty log, and so does its       *)
(* index.                                                                  *)
LEMMA FoundDescribed ==
  ASSUME NEW f, NEW lg, AtRest(f, lg)
  PROVE  Describes(OldIndex(f), lg)
BY DescribesNothing DEF AtRest, OldIndex

(* What the invariant needs of a session besides its file.                 *)
LEMMA InSessionSame ==
  ASSUME NEW s, NEW s2, NEW t, NEW lg, InSession(s, t, lg),
         s2.old = s.old, s2.nvars = s.nvars, s2.written = s.written
  PROVE  InSession(s2, t, lg)
BY DEF InSession

(* Where the file, its log, and the session's list of variables stay.      *)
LEMMA StreamFileSame ==
  ASSUME StreamFileInv, file'[Stream] = file[Stream], log'[Stream] = log[Stream],
         group'[Stream].time = group[Stream].time, fd'[Stream] = fd[Stream]
  PROVE  StreamFileInv'
BY DEF StreamFileInv, Quiet

(* The time index belongs to its group.                                    *)
LEMMA OtherTime ==
  ASSUME TypeInv, NEW g \in Groups, NEW h \in Groups, h # g,
         \/ \E mode \in Modes : Open(h, mode)
         \/ \E n \in DataSizes : GroupSize(h, n)
         \/ \E n \in Payloads : Write(h, n)
         \/ Close(h)
         \/ FlushBuffer(h)
         \/ WriteIndex(h)
  PROVE  group'[g] = group[g]
<1> USE DEF TypeInv
<1>1. ASSUME NEW mode \in Modes, Open(h, mode) PROVE group'[g] = group[g]
  BY <1>1 DEF Open
<1>2. ASSUME NEW n \in DataSizes, GroupSize(h, n) PROVE group'[g] = group[g]
  BY <1>2 DEF GroupSize
<1>3. CASE UNCHANGED group
  BY <1>3
<1> QED
  BY <1>1, <1>2, <1>3 DEF Write, Close, CloseRead, CloseBuffered,
     CloseDirect, FlushBuffer, WriteIndex

(* adios_open on the stream finds the sessions of the log.                 *)
LEMMA OrderOpen ==
  ASSUME Inv, AllShared(log[Stream]), StreamFileInv, NEW mode \in Modes,
         Open(Stream, mode), NotUpdated'
  PROVE  StreamFileInv'
<1> DEFINE f == file[Stream]
           lg == log[Stream]
           t == group[Stream].time
           ap == mode \in {"a", "u"} /\ Valid(f)
<1>0. Stream \in Groups /\ fd \in [Groups -> Session] /\ t \in Nat
  BY BpStreamAssumption DEF Inv, TypeInv
<1>1. fd[Stream].st = "closed" /\ AtRest(f, lg) /\ GoodFile(f)
  BY <1>0 DEF Open, StreamFileInv, Quiet, Inv, LayoutInv
<1>2. /\ fd'[Stream].st = "opened" /\ fd'[Stream].mode = mode
      /\ fd'[Stream].written = <<>> /\ fd'[Stream].nvars = 0
      /\ fd'[Stream].old = IF ap THEN OldIndex(f) ELSE EmptyIndex
  BY <1>0 DEF Open, NoSession
<1>3. group'[Stream].time = IF ap THEN NextTime(OldIndex(f)) ELSE OpenTime(t, mode)
  BY <1>0 DEF Open, Inv, TypeInv
<1>4. mode \in {"w", "a", "r"}
  BY <1>2, PosixWriteAssumption DEF NotUpdated
<1>5. IndexCellsBehind(f, Reach(fd[Stream], f))
  BY DEF StreamFileInv
<1>6. mode # "r" => group'[Stream].time >= 1
  <2>1. CASE ap
    <3>1. NextTime(IndexOf(f)) = Last(IndexOf(f).pgs).time + 1
          /\ Last(IndexOf(f).pgs).time \in Nat
      <4>1. IndexOffset(f) \in Nat /\ GoodIndex(IndexOf(f), IndexOffset(f)) /\ IndexOf(f).pgs # <<>>
        BY <1>1, <2>1 DEF GoodFile
      <4>2. NextTime(IndexOf(f)) = Last(IndexOf(f).pgs).time + 1
        BY <4>1, NextTimeAfterLast
      <4>3. Last(IndexOf(f).pgs) \in Pg
        BY <4>1 DEF GoodIndex, Index, Last
      <4> QED
        BY <4>2, <4>3 DEF Pg
    <3>2. OldIndex(f) = IndexOf(f)
      BY <2>1 DEF OldIndex
    <3> HIDE DEF f
    <3> QED
      BY <1>3, <2>1, <3>1, <3>2
  <2>2. CASE ~ap /\ mode # "r"
    <3>1. OpenTime(t, mode) = t + 1
      BY <1>4, <2>2 DEF OpenTime
    <3> QED
      BY <1>0, <1>3, <2>2, <3>1
  <2> QED
    BY <2>1, <2>2
<1>7. CASE mode = "w"
  <2>1. file'[Stream] = <<>> /\ log'[Stream] = <<>>
    BY <1>0, <1>7 DEF Open, Inv, TypeInv
  <2>2. ~Valid(<<>>)
    BY DEF Valid
  <2>3. AtRest(<<>>, <<>>)
    BY <2>2 DEF AtRest
  <2>4. InSession(fd'[Stream], group'[Stream].time, <<>>)
    BY <1>2, <1>6, <1>7, DescribesNothing DEF InSession
  <2>5. \A end : IndexCellsBehind(<<>>, end)
    <3>1. 1 .. Len(<<>>) = {}
      OBVIOUS
    <3> QED
      BY <3>1 DEF IndexCellsBehind
  <2> QED
    BY <2>1, <2>3, <2>4, <2>5 DEF StreamFileInv
<1>8. CASE mode # "w"
  <2>1. UNCHANGED <<file, log>>
    BY <1>8 DEF Open
  <2>2. Reach(fd'[Stream], f) = Reach(fd[Stream], f)
    BY <1>2, <1>8, <2>1, StreamOpen
  <2>3. mode = "a" => InSession(fd'[Stream], group'[Stream].time, lg)
    <3>1. Describes(OldIndex(f), lg)
      BY <1>1, FoundDescribed
    <3>2. mode = "a" /\ ~ap => OldIndex(f) = EmptyIndex
      BY DEF OldIndex
    <3> QED
      BY <1>2, <1>6, <3>1, <3>2 DEF InSession
  <2> QED
    BY <1>1, <1>2, <1>4, <1>5, <1>8, <2>1, <2>2, <2>3 DEF StreamFileInv
<1> QED
  BY <1>7, <1>8

(* adios_group_size leaves the list of variables alone.                    *)
LEMMA OrderGroupSize ==
  ASSUME Inv, StreamBuffered, StreamBuffered', StreamFileInv, NEW n \in DataSizes,
         GroupSize(Stream, n)
  PROVE  StreamFileInv'
<1> DEFINE s == fd[Stream]
<1>0. Stream \in Groups /\ fd \in [Groups -> Session] /\ s \in Session
      /\ group \in [Groups -> [time : Nat, attrs : Nat]]
  BY BpStreamAssumption DEF Inv, TypeInv
<1>1. /\ file'[Stream] = file[Stream] /\ UNCHANGED log
      /\ Reach(fd'[Stream], file'[Stream]) = Reach(s, file[Stream])
  BY StreamCalls
<1>2. group'[Stream].time = group[Stream].time /\ s.st = "opened"
  BY <1>0 DEF GroupSize
<1>3. /\ fd'[Stream].st = "sized" /\ fd'[Stream].mode = s.mode /\ fd'[Stream].old = s.old
      /\ fd'[Stream].nvars = s.nvars /\ fd'[Stream].written = s.written
  <2>1. CASE \E m : GroupSizeBuffered(Stream, m)
    BY <1>0, <2>1 DEF GroupSizeBuffered, Session
  <2>2. ASSUME NEW m, GroupSizeDirect(Stream, m)
        PROVE  /\ fd'[Stream].st = "sized" /\ fd'[Stream].mode = s.mode
               /\ fd'[Stream].old = s.old
               /\ fd'[Stream].nvars = s.nvars /\ fd'[Stream].written = s.written
    <3>1. CASE fd[Stream].mode = "r"
      BY <1>0, <2>2, <3>1 DEF GroupSizeDirect, Session
    <3>2. CASE fd[Stream].mode # "r"
      BY <1>0, <2>2, <3>2, SMTT(30) DEF GroupSizeDirect, Session
    <3> QED
      BY <3>1, <3>2
  <2> QED
    BY <2>1, <2>2 DEF GroupSize
<1>4. s.mode # "r" => InSession(fd'[Stream], group[Stream].time, log[Stream])
  BY <1>2, <1>3, InSessionSame DEF StreamFileInv
<1> QED
  BY <1>1, <1>2, <1>3, <1>4 DEF StreamFileInv, Quiet

(* adios_write appends the variable to the list, and the first one it      *)
(* appends is the first variable.                                          *)
LEMMA OrderWrite ==
  ASSUME Inv, StreamBuffered, StreamBuffered', StreamFileInv, NotUpdated,
         NEW n \in Payloads, Write(Stream, n)
  PROVE  StreamFileInv'
<1> DEFINE s == fd[Stream]
           v == s.nvars + 1
           off == s.base + Len(s.buffer)
           e == [sid |-> s.sid, var |-> v, off |-> off, size |-> n]
<1>0. Stream \in Groups /\ fd \in [Groups -> Session] /\ s \in Session
  BY BpStreamAssumption DEF Inv, TypeInv
<1>1. /\ file'[Stream] = file[Stream] /\ UNCHANGED log
      /\ Reach(fd'[Stream], file'[Stream]) = Reach(s, file[Stream])
  BY StreamCalls
<1>2. group' = group /\ s.st = "sized" /\ s.mode # "r"
  BY DEF Write
<1>3. s.shared
  BY <1>2 DEF StreamBuffered
<1>4. WriteBuffered(Stream, n)
  BY <1>3 DEF Write, WriteDirect
<1>5. /\ fd'[Stream].st = "sized" /\ fd'[Stream].mode = s.mode /\ fd'[Stream].old = s.old
      /\ fd'[Stream].nvars = v /\ fd'[Stream].written = CopyVarWritten(s, v, off, n)
  BY <1>0, <1>2, <1>4 DEF WriteBuffered, Session
<1>6. off \in Nat /\ off # 0
  <2>1. Len(s.buffer) >= 2
    BY <1>0, <1>2, <1>3 DEF Inv, LayoutInv, Layout
  <2>2. s.base \in Nat /\ Len(s.buffer) \in Nat
    BY <1>0 DEF Session
  <2> HIDE DEF s
  <2> QED
    BY <2>1, <2>2
<1>7. s.mode \in {"w", "a"}
  BY <1>0, <1>2 DEF NotUpdated, Session
<1>8. CopyVarWritten(s, v, off, n) = Append(s.written, e)
  BY <1>6, <1>7 DEF CopyVarWritten
<1>9. s.written \in Seq(Entry) /\ e \in Entry /\ s.nvars \in Nat
  <2>1. s.written \in Seq(Entry) /\ s.nvars \in Nat /\ s.sid \in Nat
    BY <1>0 DEF Session
  <2>2. n \in Nat
    BY PosixWriteAssumption
  <2> QED
    BY <1>6, <2>1, <2>2 DEF Entry
<1>10. InSession(s, group[Stream].time, log[Stream])
  BY <1>2 DEF StreamFileInv
<1>11. e.var = v
  OBVIOUS
<1> HIDE DEF e, off
<1>12. Append(s.written, e) # <<>> /\ Append(s.written, e)[1].var = 1
  <2>0. Append(s.written, e) # <<>>
    BY ONLY <1>9
  <2>1. CASE s.written = <<>>
    <3>1. v = 1
      BY <1>9, <1>10, <2>1 DEF InSession
    <3>2. Append(s.written, e)[1] = e
      BY <1>9, <2>1
    <3> QED
      BY ONLY <1>11, <2>0, <3>1, <3>2
  <2>2. CASE s.written # <<>>
    <3>1. Append(s.written, e)[1] = s.written[1]
      BY <1>9, <2>2
    <3> QED
      BY <1>9, <1>10, <2>2, <3>1 DEF InSession
  <2> QED
    BY <2>1, <2>2
<1>13. InSession(fd'[Stream], group[Stream].time, log[Stream])
  BY <1>5, <1>8, <1>10, <1>12 DEF InSession
<1> QED
  BY <1>1, <1>2, <1>5, <1>13 DEF StreamFileInv, Quiet

(* adios_close, until the method starts to write.                          *)
LEMMA OrderClose ==
  ASSUME Inv, StreamBuffered, StreamBuffered', StreamFileInv, Close(Stream)
  PROVE  StreamFileInv'
<1> DEFINE s == fd[Stream]
<1>0. Stream \in Groups /\ fd \in [Groups -> Session] /\ s \in Session
  BY BpStreamAssumption DEF Inv, TypeInv
<1>1. /\ file'[Stream] = file[Stream] /\ UNCHANGED log
      /\ Reach(fd'[Stream], file'[Stream]) = Reach(s, file[Stream])
  BY StreamCalls
<1>2. UNCHANGED group /\ s.st = "sized"
  BY DEF Close, CloseRead, CloseBuffered, CloseDirect
<1>3. CASE CloseRead(Stream)
  <2>1. fd'[Stream].st = "closed" /\ s.mode = "r"
    BY <1>0, <1>3 DEF CloseRead, EndSession, NoSession
  <2> QED
    BY <1>1, <2>1 DEF StreamFileInv, Quiet
<1>4. CASE CloseBuffered(Stream)
  <2>1. /\ fd'[Stream].st = "flushing" /\ fd'[Stream].mode = s.mode /\ s.mode # "r"
        /\ fd'[Stream].old = s.old
        /\ fd'[Stream].nvars = s.nvars /\ fd'[Stream].written = s.written
    BY <1>0, <1>4 DEF CloseBuffered, Session
  <2>2. InSession(fd'[Stream], group[Stream].time, log[Stream])
    BY <1>2, <2>1, InSessionSame DEF StreamFileInv
  <2> QED
    BY <1>1, <1>2, <2>1, <2>2 DEF StreamFileInv, Quiet
<1>5. CASE CloseDirect(Stream)
  <2>1. s.mode # "r" /\ ~s.shared
    BY <1>5 DEF CloseDirect
  <2> QED
    BY <1>2, <2>1 DEF StreamBuffered
<1> QED
  BY <1>3, <1>4, <1>5 DEF Close

(* The index that a session writes is that of the log with its entry.      *)
LEMMA SessionDescribed ==
  ASSUME NEW s \in Session, NEW t \in Nat, NEW lg \in Seq(LogEntry),
         InSession(s, t, lg),
         \A k \in 1 .. Len(lg) : lg[k].sid < s.sid,
         \A i \in 1 .. Len(s.written) : s.written[i].sid = s.sid
  PROVE  Describes(NewIndex(s, t), Logged(s, lg)) /\ TimedIndex(NewIndex(s, t))
<1> DEFINE pg == [sid |-> s.sid, off |-> s.pgStart, time |-> t]
           x == [sid |-> s.sid, shared |-> s.shared, nvars |-> s.nvars]
<1>1. /\ s.old \in Index /\ s.written \in Seq(Entry) /\ s.sid \in Nat /\ s.nvars \in Nat
      /\ s.pgStart \in Nat /\ s.shared \in BOOLEAN
  BY DEF Session
<1>2. /\ pg \in Pg /\ pg.time = t /\ pg.sid = x.sid
      /\ x \in LogEntry /\ x.sid = s.sid /\ x.nvars = s.nvars
  BY <1>1 DEF Pg, LogEntry
<1>3. /\ NewIndex(s, t) = [pgs |-> Append(s.old.pgs, pg), vars |-> s.old.vars \o s.written]
      /\ Logged(s, lg) = Append(lg, x)
  BY DEF NewIndex, Logged
<1>4. /\ Describes(s.old, lg)
      /\ s.nvars > 0 => s.written # <<>>
      /\ s.written # <<>> => s.written[1].var = 1
      /\ t >= 1
  BY DEF InSession
<1> HIDE DEF pg, x
<1>5. \A k \in 1 .. Len(lg) : lg[k].sid # s.sid
  <2>1. \A k \in 1 .. Len(lg) : lg[k] \in LogEntry
    OBVIOUS
  <2>2. \A k \in 1 .. Len(lg) : lg[k].sid \in Nat
    BY <2>1 DEF LogEntry
  <2> QED
    BY <1>1, <2>2
<1>6. /\ \A k \in 1 .. Len(lg) : lg[k].sid # x.sid
      /\ \A i \in 1 .. Len(s.written) : s.written[i].sid = x.sid
      /\ x.nvars > 0 => s.written # <<>>
  <2>1. \A k \in 1 .. Len(lg) : lg[k].sid # x.sid
    BY <1>2, <1>5
  <2>2. \A i \in 1 .. Len(s.written) : s.written[i].sid = x.sid
    BY <1>2
  <2>3. x.nvars > 0 => s.written # <<>>
    BY <1>2, <1>4
  <2> QED
    BY <2>1, <2>2, <2>3
<1>7. PICK old \in Index, ws \in Seq(Entry) : old = s.old /\ ws = s.written
  BY <1>1
<1>8. Describes([pgs |-> Append(old.pgs, pg), vars |-> old.vars \o ws], Append(lg, x))
  <2>1. /\ Describes(old, lg)
        /\ \A i \in 1 .. Len(ws) : ws[i].sid = x.sid
        /\ x.nvars > 0 => ws # <<>>
        /\ ws # <<>> => ws[1].var = 1
    <3>1. Describes(old, lg)
      BY <1>4, <1>7
    <3>2. \A i \in 1 .. Len(ws) : ws[i].sid = x.sid
      BY <1>6, <1>7
    <3>3. (x.nvars > 0 => ws # <<>>) /\ (ws # <<>> => ws[1].var = 1)
      BY <1>4, <1>6, <1>7
    <3> QED
      BY <3>1, <3>2, <3>3
  <2> QED
    BY <1>2, <1>6, <2>1, DescribesMore
<1>9. TimedIndex(NewIndex(s, t))
  <2>1. NewIndex(s, t).pgs = Append(s.old.pgs, pg) /\ s.old.pgs \in Seq(Pg)
    BY <1>1, <1>3 DEF Index
  <2> DEFINE p == Append(s.old.pgs, pg)
  <2>2. p # <<>> /\ Last(p) = pg
    <3>1. PICK q \in Seq(Pg) : q = s.old.pgs
      BY <2>1
    <3>2. Append(q, pg) # <<>> /\ Last(Append(q, pg)) = pg
      BY <1>2 DEF Last
    <3> QED
      BY <3>1, <3>2
  <2> HIDE DEF p
  <2>3. NewIndex(s, t).pgs = p
    BY <2>1 DEF p
  <2> QED
    BY <1>2, <1>4, <2>2, <2>3 DEF TimedIndex
<1> QED
  BY <1>3, <1>7, <1>8, <1>9

(* A round of the loop of adios_posix_do_write adds no cell of an index.   *)
LEMMA OrderFlush ==
  ASSUME Inv, StreamFileInv, FlushBuffer(Stream)
  PROVE  StreamFileInv'
<1> DEFINE s == fd[Stream]
           f == file[Stream]
           w == WriteAt(f, s.pos, Chunk(s))
<1>0. Stream \in Groups
  BY BpStreamAssumption, Zenon
<1>1. /\ s \in Session /\ f \in Seq(Cell) /\ s.st = "flushing" /\ s.mode # "r"
      /\ s.flushed < Len(s.buffer)
  BY <1>0 DEF Inv, TypeInv, LayoutInv, Layout, FlushBuffer
<1>2. Chunk(s) \in Seq(PlainCell) /\ s.pos \in Nat
  BY <1>1, ChunkResult DEF Session
<1>3. file'[Stream] = w /\ log' = log /\ group' = group
  BY <1>0 DEF FlushBuffer, Inv, TypeInv
<1>4. /\ fd'[Stream].st = "flushing" /\ fd'[Stream].mode # "r"
      /\ fd'[Stream].endOfPgs = s.endOfPgs /\ fd'[Stream].old = s.old
      /\ fd'[Stream].nvars = s.nvars /\ fd'[Stream].written = s.written
  BY <1>0, <1>1 DEF FlushBuffer, Inv, TypeInv, Session
<1>5. Reach(s, f) = s.endOfPgs /\ Reach(fd'[Stream], w) = s.endOfPgs
  BY <1>1, <1>4 DEF Reach
<1>6. \A i \in 1 .. Len(w) : w[i][1] = "index" => i \in 1 .. Len(f) /\ w[i] = f[i]
  BY <1>1, <1>2, PlainWriteCells
<1>7. IndexCellsBehind(f, s.endOfPgs)
  BY <1>5 DEF StreamFileInv
<1>8. InSession(fd'[Stream], group[Stream].time, log[Stream])
  BY <1>1, <1>4, InSessionSame DEF StreamFileInv
<1> HIDE DEF s, f, w
<1>9. IndexCellsBehind(w, s.endOfPgs)
  BY <1>6, <1>7 DEF IndexCellsBehind
<1> QED
  BY <1>3, <1>4, <1>5, <1>8, <1>9 DEF StreamFileInv, Quiet

(* The new index has the session of the new entry of the log, and lies     *)
(* behind the process group, of whose cells none is of an index.           *)
LEMMA OrderIndex ==
  ASSUME Inv, Inv', AllShared(log[Stream]), StreamFileInv, StreamBuffered,
         WriteIndex(Stream)
  PROVE  StreamFileInv'
<1> DEFINE s == fd[Stream]
           f == file[Stream]
           t == group[Stream].time
           lg == log[Stream]
           w == IndexedFile(s, f, t)
           ln == Logged(s, lg)
           ix == NewIndex(s, t)
           start == IndexStart(s)
<1>0. Stream \in Groups
  BY BpStreamAssumption, Zenon
<1>1. /\ s \in Session /\ f \in Seq(Cell) /\ s.st = "flushing" /\ s.mode # "r"
      /\ t \in Nat /\ lg \in Seq(LogEntry) /\ Layout(s, f, t)
      /\ s.flushed = Len(s.buffer)
  BY <1>0 DEF Inv, TypeInv, LayoutInv, Layout, WriteIndex
<1>2. s.shared
  BY <1>1 DEF StreamBuffered
<1>3. /\ file'[Stream] = w /\ log'[Stream] = ln /\ fd'[Stream] = NoSession
  BY <1>0 DEF WriteIndex, EndSession, BuildIndex, IndexedFile, NewIndex, Logged, Inv, TypeInv
<1>4. /\ start \in Nat /\ start >= s.endOfPgs + 2 /\ GoodIndex(ix, start) /\ ix.pgs # <<>>
      /\ Len(ix.pgs) = Len(s.old.pgs) + 1
  BY <1>1, SessionIndex
<1>5. /\ w \in Seq(Cell) /\ GoodFile(w)
      /\ Valid(w) => IndexOffset(w) = start /\ IndexOf(w) = ix
      /\ \A i \in 1 .. Len(f) : i <= start => w[i] = f[i]
  BY <1>1, SessionIndexWritten
<1>6. ix \in Index
  BY <1>4 DEF GoodIndex
<1>7. \A i \in 1 .. Len(w) : w[i][1] = "index" =>
        (i \in 1 .. Len(f) /\ w[i] = f[i]) \/ w[i][2] = ix
  BY <1>1, <1>4, <1>6, IndexedCells DEF IndexedFile
<1>8. InSession(s, t, lg) /\ IndexCellsBehind(f, s.endOfPgs)
  BY <1>1 DEF StreamFileInv, Reach
<1>9. /\ Numbered(s, f, lg, sessions) /\ Writes(s, f, lg) /\ Rest(w, ln)
  BY <1>0, <1>1, <1>3 DEF Inv, ContentInv, Quiet, NoSession
<1>10. /\ s.old \in Index /\ s.written \in Seq(Entry) /\ s.sid \in Nat /\ s.nvars \in Nat
       /\ s.endOfPgs \in Nat /\ s.pgStart \in Nat /\ s.buffer \in Seq(PlainCell)
       /\ s.base \in Nat
  BY <1>1 DEF Session
<1>11. Describes(ix, ln) /\ TimedIndex(ix)
  <2>1. /\ \A k \in 1 .. Len(lg) : lg[k].sid < s.sid
        /\ \A i \in 1 .. Len(s.written) : s.written[i].sid = s.sid
    BY <1>1, <1>9 DEF Numbered
  <2> HIDE DEF s, t, lg
  <2> QED
    BY <1>1, <1>8, <2>1, SessionDescribed
<1>13. w # <<>> /\ Len(f) \in Nat /\ Len(w) \in Nat
  <2>1. /\ IndexCells(ix, start) \in Seq(Cell)
        /\ Len(IndexCells(ix, start)) = Len(ix.pgs) + 2
    BY <1>4, <1>6, IndexCellsResult
  <2>2. Len(w) = IF Len(f) >= start + Len(IndexCells(ix, start)) THEN Len(f)
                 ELSE start + Len(IndexCells(ix, start))
    BY <1>1, <1>4, <2>1, WriteAtResult DEF IndexedFile
  <2>3. Len(ix.pgs) \in Nat /\ Len(f) \in Nat
    BY <1>1, <1>6 DEF Index
  <2> HIDE DEF w, f, start, ix
  <2>4. Len(w) > 0
    <3>1. \A a, b, k \in Nat :
            (IF a >= b + (k + 2) THEN a ELSE b + (k + 2)) > 0
      OBVIOUS
    <3>2. Len(w) = IF Len(f) >= start + (Len(ix.pgs) + 2) THEN Len(f)
                   ELSE start + (Len(ix.pgs) + 2)
      BY <2>1, <2>2
    <3> QED
      BY ONLY <1>4, <2>3, <3>1, <3>2
  <2>5. Len(w) \in Nat
    BY <1>5
  <2> QED
    BY <2>3, <2>4, <2>5
<1>14. Len(ln) = Len(lg) + 1 /\ ln[Len(lg) + 1].shared = s.shared
       /\ \A k \in 1 .. Len(lg) : ln[k] = lg[k]
  BY <1>1, LoggedResult
<1>15. AllShared(ln)
  <2>1. Len(lg) \in Nat
    BY <1>1
  <2> HIDE DEF ln, lg, s
  <2>2. \A k \in 1 .. Len(ln) : k \in 1 .. Len(lg) \/ k = Len(lg) + 1
    BY <1>14, <2>1
  <2>3. \A k \in 1 .. Len(lg) : lg[k].shared
    BY DEF AllShared, lg
  <2> QED
    BY <1>2, <1>14, <2>2, <2>3 DEF AllShared
<1>16. Valid(w) /\ IndexOffset(w) = start /\ IndexOf(w) = ix
  BY <1>5, <1>9, <1>13, <1>15 DEF Rest
<1>17. \A i \in 1 .. Len(s.buffer) : f[s.endOfPgs + i] = s.buffer[i]
  <2>1. Len(s.buffer) \in Nat
    BY <1>10
  <2>2. Len(s.buffer) > 0
    BY <1>1, <1>2 DEF Layout
  <2> QED
    BY <1>1, <1>2, <1>9 DEF Writes
<1>18. start = s.endOfPgs + Len(s.buffer) /\ Len(s.buffer) \in Nat
  BY <1>1, <1>2, <1>10 DEF IndexStart, Layout
<1>19. ASSUME NEW i \in 1 .. Len(w), w[i][1] = "index"
       PROVE  i > start /\ TimedIndex(w[i][2])
  <2> HIDE DEF w, ix, start, f
  <2>1. TimedIndex(w[i][2])
    <3>1. CASE i \in 1 .. Len(f) /\ w[i] = f[i]
      BY <1>8, <1>19, <3>1 DEF IndexCellsBehind
    <3>2. CASE w[i][2] = ix
      BY <1>11, <3>2
    <3> QED
      BY <1>7, <1>19, <3>1, <3>2
  <2>2. i > start
    <3> SUFFICES ASSUME i <= start PROVE FALSE
      BY <1>4
    <3>1. i <= Len(f)
      <4>1. s.endOfPgs + Len(s.buffer) <= Len(f)
        <5>1. Len(s.buffer) > 0
          BY <1>1, <1>2 DEF Layout
        <5> QED
          BY <1>1, <1>2, <1>9 DEF Writes, f
      <4> QED
        BY <1>4, <1>13, <1>18, <4>1
    <3>2. i \in 1 .. Len(f) /\ w[i] = f[i]
      BY <1>5, <1>13, <3>1
    <3>3. i > s.endOfPgs
      BY <1>8, <1>19, <3>2 DEF IndexCellsBehind
    <3> DEFINE j == i - s.endOfPgs
    <3>4. j \in 1 .. Len(s.buffer) /\ i = s.endOfPgs + j
      <4>1. \A e, n, k \in Nat : k > e /\ k <= e + n => k - e \in 1 .. n /\ k = e + (k - e)
        OBVIOUS
      <4>2. i \in Nat
        BY <1>13
      <4> QED
        BY <1>10, <1>18, <3>3, <4>1, <4>2
    <3> HIDE DEF j
    <3>5. f[i] = s.buffer[j] /\ s.buffer[j] \in PlainCell
      BY <1>10, <1>17, <3>4
    <3>6. s.buffer[j][1] \in Kinds
      BY <3>5 DEF PlainCell
    <3> QED
      BY <1>19, <3>2, <3>5, <3>6 DEF Kinds
  <2> QED
    BY <2>1, <2>2
<1>20. IndexCellsBehind(w, start)
  BY <1>19 DEF IndexCellsBehind
<1>21. AtRest(w, ln)
  BY <1>11, <1>16 DEF AtRest
<1>22. Reach(fd'[Stream], w) = start /\ fd'[Stream].st = "closed"
  BY <1>3, <1>16 DEF Reach, NoSession
<1> HIDE DEF w, ln, start, ix
<1> QED
  BY <1>3, <1>20, <1>21, <1>22 DEF StreamFileInv

(* The steps of the writer.                                                *)
LEMMA OrderWriter ==
  ASSUME Inv, Inv', StaleInv, StreamFileInv, StreamBuffered, StreamBuffered',
         NotUpdated, NotUpdated', [Next]_vars
  PROVE  StreamFileInv'
<1>0. Stream \in Groups /\ TypeInv /\ AllShared(log[Stream])
  BY BpStreamAssumption DEF Inv, StaleInv
<1>1. CASE UNCHANGED <<group, fd, file, log>>
  BY <1>1, StreamFileSame
<1>2. ASSUME NEW h \in Groups, h # Stream,
             \/ \E mode \in Modes : Open(h, mode)
             \/ \E n \in DataSizes : GroupSize(h, n)
             \/ \E n \in Payloads : Write(h, n)
             \/ Close(h)
             \/ FlushBuffer(h)
             \/ WriteIndex(h)
      PROVE  StreamFileInv'
  <2>1. fd'[Stream] = fd[Stream] /\ file'[Stream] = file[Stream]
    BY <1>0, <1>2, OtherGroup
  <2>2. log'[Stream] = log[Stream]
    BY <1>0, <1>2, OtherLog
  <2>3. group'[Stream] = group[Stream]
    BY <1>0, <1>2, OtherTime
  <2> QED
    BY <2>1, <2>2, <2>3, StreamFileSame
<1>3. CASE \E mode \in Modes : Open(Stream, mode)
  BY <1>0, <1>3, OrderOpen
<1>4. CASE \E n \in DataSizes : GroupSize(Stream, n)
  BY <1>4, OrderGroupSize
<1>5. CASE \E n \in Payloads : Write(Stream, n)
  BY <1>5, OrderWrite
<1>6. CASE Close(Stream)
  BY <1>6, OrderClose
<1>7. CASE FlushBuffer(Stream)
  BY <1>7, OrderFlush
<1>8. CASE WriteIndex(Stream)
  BY <1>0, <1>8, OrderIndex
<1>9. CASE UNCHANGED vars
  BY <1>1, <1>9 DEF vars
<1>10. CASE \E n \in PoolSizes : AllocateBuffer(n)
  BY <1>1, <1>10 DEF AllocateBuffer
<1>11. CASE \E h \in Groups :
              \/ \E mode \in Modes : Open(h, mode)
              \/ \E n \in DataSizes : GroupSize(h, n)
              \/ \E n \in Payloads : Write(h, n)
              \/ Close(h)
              \/ FlushBuffer(h)
              \/ WriteIndex(h)
  BY <1>2, <1>3, <1>4, <1>5, <1>6, <1>7, <1>8, <1>11
<1> QED
  BY <1>9, <1>10, <1>11 DEF Next

(* The index that the reader parses has a time; once the writer is gone it *)
(* is the one the minifooter points at.                                    *)
LEMMA ParsedIndex ==
  ASSUME Inv, StaleInv, StreamFileInv, rpc = "index", Parsable
  PROVE  /\ TimedIndex(IndexRead[1][2])
         /\ fd[Stream].st = "closed" =>
              Valid(file[Stream]) /\ IndexRead[1][2] = IndexOf(file[Stream])
<1> DEFINE f == file[Stream]
           a == footer + 1
           b == size - 1
<1>0. Stream \in Groups
  BY BpStreamAssumption, Zenon
<1>1. f \in Seq(Cell) /\ size \in 1 .. Len(f) /\ footer \in Nat
  BY <1>0 DEF Inv, TypeInv, StaleInv, ReaderInv
<1>2. IndexRead = SubSeq(f, a, b) /\ IndexRead # <<>> /\ IndexRead[1][1] = "index"
  BY DEF IndexRead, Data, Parsable, WholeIndex
<1>3. IndexCellsBehind(f, Reach(fd[Stream], f)) /\ AllShared(log[Stream])
  BY DEF StreamFileInv, StaleInv
<1>4. fd[Stream].st = "closed" => GoodFile(f) /\ Rest(f, log[Stream])
  BY <1>0 DEF Inv, LayoutInv, ContentInv, Quiet
<1> HIDE DEF f
<1>5. a \in Nat /\ a >= 1 /\ b \in Nat /\ b <= Len(f) /\ Len(f) \in Nat
  BY <1>1
<1> HIDE DEF a, b
<1>6. a <= b
  <2> SUFFICES ASSUME ~(a <= b) PROVE FALSE
    OBVIOUS
  <2>1. SubSeq(f, a, b) = <<>>
    BY <1>1, <1>5
  <2> QED
    BY <1>2, <2>1
<1>7. SubSeq(f, a, b)[1] = f[a] /\ a \in 1 .. Len(f)
  BY <1>1, <1>5, <1>6
<1>8. IndexRead[1] = f[a] /\ f[a][1] = "index"
  BY <1>2, <1>7
<1>9. a > Reach(fd[Stream], f) /\ TimedIndex(f[a][2])
  BY <1>3, <1>7, <1>8 DEF IndexCellsBehind
<1>10. ASSUME fd[Stream].st = "closed" PROVE Valid(f) /\ f[a][2] = IndexOf(f)
  <2>1. f # <<>>
    <3> SUFFICES ASSUME f = <<>> PROVE FALSE
      OBVIOUS
    <3>1. Len(f) = 0
      OBVIOUS
    <3> QED
      BY <1>5, <1>7, <3>1
  <2>2. Valid(f)
    BY <1>3, <1>4, <1>10, <2>1 DEF Rest
  <2> DEFINE off == IndexOffset(f)
             n == Len(IndexOf(f).pgs)
  <2>3. Reach(fd[Stream], f) = off
    BY <1>10, <2>2 DEF Reach
  <2>4. /\ off \in Nat /\ n \in Nat /\ Len(f) = off + n + 2
        /\ \A k \in 1 .. 1 + n : f[off + k] = <<"index", IndexOf(f), k>>
    <3>1. IndexOf(f) \in Index
      BY <1>4, <1>10, <2>2 DEF GoodFile, GoodIndex
    <3>2. n \in Nat
      BY <3>1 DEF Index
    <3> QED
      BY <1>4, <1>10, <2>2, <3>2 DEF GoodFile
  <2>5. f[Len(f)][1] = "footer"
    BY <2>2 DEF Valid, Last
  <2>6. a # Len(f)
    BY <1>8, <2>5
  <2> HIDE DEF off, n
  <2> DEFINE k == a - off
  <2>7. k \in 1 .. 1 + n /\ off + k = a
    BY <1>5, <1>7, <1>9, <2>3, <2>4, <2>6
  <2> HIDE DEF k
  <2>8. f[a] = <<"index", IndexOf(f), k>>
    BY <2>4, <2>7
  <2> QED
    BY <2>2, <2>8
<1> QED
  BY <1>8, <1>9, <1>10 DEF f

(* Nothing of the stream changes when the last session is closed.          *)
LEMMA CompleteStays ==
  ASSUME TypeInv, sessions = MaxSessions, fd[Stream].st = "closed", [Next]_vars
  PROVE  /\ sessions' = sessions /\ fd'[Stream] = fd[Stream]
         /\ file'[Stream] = file[Stream] /\ log'[Stream] = log[Stream]
<1>0. Stream \in Groups
  BY BpStreamAssumption, Zenon
<1>1. CASE UNCHANGED <<sessions, fd, file, log>>
  BY <1>1
<1>2. ASSUME NEW h \in Groups,
             \/ \E mode \in Modes : Open(h, mode)
             \/ \E n \in DataSizes : GroupSize(h, n)
             \/ \E n \in Payloads : Write(h, n)
             \/ Close(h)
             \/ FlushBuffer(h)
             \/ WriteIndex(h)
      PROVE  /\ sessions' = sessions /\ fd'[Stream] = fd[Stream]
             /\ file'[Stream] = file[Stream] /\ log'[Stream] = log[Stream]
  <2>1. ~\E mode \in Modes : Open(h, mode)
    <3> SUFFICES ASSUME NEW mode \in Modes, Open(h, mode) PROVE FALSE
      OBVIOUS
    <3>1. sessions < MaxSessions
      BY DEF Open
    <3>2. MaxSessions \in Nat
      BY PosixWriteAssumption
    <3> QED
      BY ONLY <3>1, <3>2, sessions = MaxSessions
  <2>2. h # Stream
    BY <1>2, <2>1 DEF GroupSize, Write, Close, FlushBuffer, WriteIndex
  <2>3. sessions' = sessions
    BY <1>2, <2>1 DEF GroupSize, Write, Close, CloseRead, CloseBuffered, CloseDirect,
       FlushBuffer, WriteIndex
  <2> QED
    BY <1>0, <1>2, <2>2, <2>3, OtherGroup, OtherLog
<1> QED
  BY <1>1, <1>2 DEF Next, AllocateBuffer, vars

(* The steps of the writer leave the reader's half.                        *)
LEMMA StepsWriter ==
  ASSUME Inv, StepsInv, [Next]_vars, UNCHANGED readerVars
  PROVE  StepsInv'
<1>1. /\ rpc' = rpc /\ fh' = fh /\ lastTidx' = lastTidx /\ seen' = seen
      /\ complete' = complete /\ currentStep' = currentStep /\ lastStep' = lastStep
      /\ shown' = shown
  BY DEF readerVars
<1>2. CASE ~complete
  BY <1>1, <1>2 DEF StepsInv, InOrder
<1>3. CASE complete
  <2>1. /\ sessions' = sessions /\ fd'[Stream] = fd[Stream]
        /\ file'[Stream] = file[Stream] /\ log'[Stream] = log[Stream]
    BY <1>3, CompleteStays DEF Inv, StepsInv
  <2>2. InOrder'
    BY <1>1, <2>1 DEF StepsInv, InOrder
  <2> QED
    BY <1>1, <2>1, <2>2 DEF StepsInv
<1> QED
  BY <1>2, <1>3

(* The steps a reader has been at, one after the other.                    *)
LEMMA OneStepMore ==
  ASSUME NEW c \in Nat
  PROVE  Append([i \in 1 .. c + 1 |-> i - 1], c + 1) = [i \in 1 .. (c + 1) + 1 |-> i - 1]
<1> DEFINE q == [i \in 1 .. c + 1 |-> i - 1]
           r == [i \in 1 .. (c + 1) + 1 |-> i - 1]
<1>1. q \in Seq(Int) /\ Len(q) = c + 1
  OBVIOUS
<1>2. r \in Seq(Int) /\ Len(r) = (c + 1) + 1
  OBVIOUS
<1>3. /\ Append(q, c + 1) \in Seq(Int) /\ Len(Append(q, c + 1)) = (c + 1) + 1
      /\ Append(q, c + 1)[(c + 1) + 1] = c + 1
      /\ \A i \in 1 .. c + 1 : Append(q, c + 1)[i] = i - 1
  BY <1>1
<1>4. \A i \in 1 .. (c + 1) + 1 : Append(q, c + 1)[i] = i - 1
  <2>1. \A i \in 1 .. (c + 1) + 1 : i \in 1 .. c + 1 \/ i = (c + 1) + 1
    OBVIOUS
  <2>2. ((c + 1) + 1) - 1 = c + 1
    OBVIOUS
  <2> HIDE DEF q
  <2> QED
    BY <1>3, <2>1, <2>2
<1>5. \A i \in 1 .. (c + 1) + 1 : r[i] = i - 1
  OBVIOUS
<1> HIDE DEF q, r
<1>6. Append(q, c + 1) = r
  BY <1>2, <1>3, <1>4, <1>5
<1> QED
  BY <1>6 DEF q, r

(* The number of steps that open_stream computes from the times.           *)
LEMMA StepsCounted ==
  ASSUME NEW ix, NEW end, GoodIndex(ix, end), ix.pgs # <<>>, NEW lg \in Seq(LogEntry),
         Describes(ix, lg)
  PROVE  TidxStop(ix) - TidxStart(ix) = Len(lg) - 1 /\ Len(lg) > 0
<1> DEFINE p == ix.pgs
           n == Len(p)
<1>1. p \in Seq(Pg) /\ n = Len(lg) /\ n \in Nat /\ n > 0
  BY DEF GoodIndex, Index, Describes
<1>2. p[1] \in Pg /\ p[n] \in Pg
  BY <1>1
<1>3. p[1].time \in Nat /\ p[n].time \in Nat
  BY <1>2 DEF Pg
<1>4. p[n].time = p[1].time + (n - 1)
  <2>1. CASE n = 1
    BY <1>3, <2>1
  <2>2. CASE n # 1
    <3>1. 1 \in 1 .. n /\ n \in 1 .. n /\ 1 < n
      <4>1. \A m \in Nat : m > 0 /\ m # 1 => 1 \in 1 .. m /\ m \in 1 .. m /\ 1 < m
        OBVIOUS
      <4> HIDE DEF n
      <4> QED
        BY <1>1, <2>2, <4>1
    <3> QED
      BY <3>1 DEF GoodIndex
  <2> QED
    BY <2>1, <2>2
<1>5. TidxStop(ix) = p[n].time /\ TidxStart(ix) = p[1].time
  BY DEF TidxStop, TidxStart, Last
<1> HIDE DEF p, n
<1> QED
  BY <1>1, <1>3, <1>4, <1>5

(* open_stream: the reader is at the first of the steps in the log.        *)
LEMMA OpenSteps ==
  ASSUME Inv, StaleInv, StreamFileInv, StepsInv, OpenStream, UNCHANGED vars
  PROVE  StepsInv'
<1> DEFINE f == file[Stream]
           lg == log[Stream]
           ix == IndexRead[1][2]
<1>0. Stream \in Groups
  BY BpStreamAssumption, Zenon
<1>1. /\ rpc = "index" /\ lastTidx = 0 /\ Parsable /\ rpc' = "step" /\ lastTidx' = lastTidx
      /\ fh' = ix /\ lastStep' = TidxStop(ix) - TidxStart(ix)
      /\ currentStep' = 0 /\ shown' = SeekToStep(ix, 0) /\ seen' = Append(seen, 0)
      /\ complete' = (sessions = MaxSessions /\ fd[Stream].st = "closed")
  BY DEF OpenStream, AtStep
<1>2. seen = <<>>
  BY <1>1 DEF StepsInv
<1>3. fd' = fd /\ file' = file /\ log' = log /\ sessions' = sessions
  BY DEF vars
<1>4. TimedIndex(ix) /\ (fd[Stream].st = "closed" => Valid(f) /\ ix = IndexOf(f))
  BY <1>1, ParsedIndex
<1>5. lg \in Seq(LogEntry)
  BY <1>0 DEF Inv, TypeInv
<1>6. fd[Stream].st = "closed" => GoodFile(f) /\ AtRest(f, lg)
  BY <1>0 DEF Inv, LayoutInv, StreamFileInv, Quiet
<1> HIDE DEF ix
<1>7. seen' = [i \in 1 .. 0 + 1 |-> i - 1]
  <2>1. seen' = <<0>>
    BY <1>1, <1>2
  <2>2. <<0>> = [i \in 1 .. 0 + 1 |-> i - 1]
    OBVIOUS
  <2> QED
    BY <2>1, <2>2
<1>8. ASSUME complete'
      PROVE  /\ Valid(f) /\ fh' = IndexOf(f) /\ lastStep' = Len(lg) - 1
             /\ currentStep' \in 0 .. lastStep'
  <2>1. fd[Stream].st = "closed"
    BY <1>1, <1>8
  <2>2. Valid(f) /\ ix = IndexOf(f) /\ GoodIndex(ix, IndexOffset(f)) /\ Describes(ix, lg)
    BY <1>4, <1>6, <2>1 DEF GoodFile, AtRest
  <2>3. ix.pgs # <<>>
    BY <1>4 DEF TimedIndex
  <2>4. TidxStop(ix) - TidxStart(ix) = Len(lg) - 1 /\ Len(lg) > 0
    BY <1>5, <2>2, <2>3, StepsCounted
  <2>5. Len(lg) \in Nat
    BY <1>5
  <2> HIDE DEF f, lg
  <2>6. 0 \in 0 .. Len(lg) - 1
    BY <2>4, <2>5
  <2> QED
    BY <1>1, <2>2, <2>4, <2>6
<1>9. InOrder'
  <2> SUFFICES ASSUME complete'
               PROVE  /\ Valid(f) /\ fh' = IndexOf(f)
                      /\ lastStep' = Len(lg) - 1
                      /\ currentStep' \in 0 .. lastStep'
                      /\ seen' = [i \in 1 .. currentStep' + 1 |-> i - 1]
                      /\ shown' = SeekToStep(fh', currentStep')
    BY <1>3 DEF InOrder
  <2>1. seen' = [i \in 1 .. currentStep' + 1 |-> i - 1]
    BY <1>1, <1>7
  <2>2. shown' = SeekToStep(fh', currentStep')
    BY <1>1
  <2> QED
    BY <1>8, <2>1, <2>2
<1>10. rpc' = "step" => TimedIndex(fh')
  BY <1>1, <1>4
<1>11. complete' => sessions' = MaxSessions /\ fd'[Stream].st = "closed"
  BY <1>1, <1>3
<1> QED
  BY <1>1, <1>9, <1>10, <1>11 DEF StepsInv

(* adios_read_bp_advance_step in the index: the next one.                  *)
LEMMA AdvanceSteps ==
  ASSUME Inv, StepsInv, AdvanceInIndex, UNCHANGED vars
  PROVE  StepsInv'
<1>1. /\ rpc = "step" /\ rpc' = rpc /\ fh' = fh /\ lastTidx' = lastTidx
      /\ complete' = complete /\ lastStep' = lastStep /\ currentStep < lastStep
      /\ currentStep' = currentStep + 1 /\ seen' = Append(seen, currentStep + 1)
      /\ shown' = SeekToStep(fh, currentStep + 1)
  BY DEF AdvanceInIndex, AtStep
<1>2. fd' = fd /\ file' = file /\ log' = log /\ sessions' = sessions
  BY DEF vars
<1>3. ASSUME complete, lastTidx = 0
      PROVE  /\ Valid(file[Stream]) /\ fh = IndexOf(file[Stream])
             /\ lastStep = Len(log[Stream]) - 1
             /\ currentStep' \in 0 .. lastStep
             /\ seen' = [i \in 1 .. currentStep' + 1 |-> i - 1]
             /\ shown' = SeekToStep(fh, currentStep')
  <2>1. /\ Valid(file[Stream]) /\ fh = IndexOf(file[Stream])
        /\ lastStep = Len(log[Stream]) - 1 /\ currentStep \in 0 .. lastStep
        /\ seen = [i \in 1 .. currentStep + 1 |-> i - 1]
    BY <1>1, <1>3 DEF StepsInv, InOrder
  <2>2. log[Stream] \in Seq(LogEntry)
    BY BpStreamAssumption DEF Inv, TypeInv
  <2>3. lastStep \in Int /\ currentStep \in Nat
    BY <2>1, <2>2
  <2>4. currentStep + 1 \in 0 .. lastStep
    BY <1>1, <2>3
  <2>5. PICK c \in Nat : c = currentStep
    BY <2>3
  <2>6. seen' = [i \in 1 .. (c + 1) + 1 |-> i - 1]
    BY <1>1, <2>1, <2>5, OneStepMore
  <2>7. seen' = [i \in 1 .. currentStep' + 1 |-> i - 1]
    BY <1>1, <2>5, <2>6
  <2> QED
    BY <1>1, <2>1, <2>4, <2>7
<1>4. InOrder'
  BY <1>1, <1>2, <1>3 DEF InOrder
<1> QED
  BY <1>1, <1>2, <1>4 DEF StepsInv

(* The other steps of the reader.                                          *)
LEMMA StepsReader ==
  ASSUME Inv, StaleInv, StreamFileInv, StepsInv, ReaderNext, UNCHANGED vars
  PROVE  StepsInv'
<1>1. fd' = fd /\ sessions' = sessions
  BY DEF vars
<1>2. ASSUME complete' = complete, rpc' # "step",
             rpc' \in {"open", "poll", "size", "footer", "index"} /\ lastTidx' = 0
               => seen' = <<>>
      PROVE  StepsInv'
  BY <1>1, <1>2 DEF StepsInv, InOrder
<1>3. CASE \/ CheckBpValidity \/ Expired \/ BpReadOpen \/ BpReadMinifooter
           \/ BpParseFails \/ NoNewStep
  <2>1. /\ complete' = complete /\ seen' = seen /\ lastTidx' = lastTidx
        /\ rpc \in {"open", "poll", "size", "footer", "index"} /\ rpc' # "step"
    BY <1>3 DEF CheckBpValidity, Expired, BpReadOpen, BpReadMinifooter, BpParseFails, NoNewStep
  <2> QED
    BY <1>2, <2>1 DEF StepsInv
<1>4. CASE GetNewStep
  <2>1. /\ rpc = "index" /\ Parsable /\ fh' = IndexRead[1][2] /\ rpc' = "step"
        /\ lastTidx # 0 /\ lastTidx' = lastTidx /\ complete' = complete
    BY <1>4 DEF GetNewStep
  <2>2. TimedIndex(fh')
    BY <2>1, ParsedIndex
  <2> QED
    BY <1>1, <2>1, <2>2 DEF StepsInv, InOrder
<1>5. ASSUME NEW newest \in Lasts, AdvanceReopen(newest) PROVE StepsInv'
  <2>1. /\ rpc = "step" /\ lastTidx' = TidxStop(fh) /\ complete' = complete
        /\ rpc' \in {"poll", "undefined"}
    BY <1>5 DEF AdvanceReopen
  <2>2. TidxStop(fh) >= 1
    BY <2>1 DEF StepsInv, TimedIndex, TidxStop
  <2>3. lastTidx' # 0
    BY <2>1, <2>2
  <2> QED
    BY <1>2, <2>1, <2>3
<1>6. CASE AfterTimeout \/ CloseStream
  <2>1. complete' = complete /\ rpc' \in {"undefined", "closed"}
    BY <1>6 DEF AfterTimeout, CloseStream
  <2> QED
    BY <1>2, <2>1
<1> QED
  BY <1>3, <1>4, <1>5, <1>6, OpenSteps, AdvanceSteps DEF ReaderNext

(* read_bp.c: a reader that opens the stream once the last session is      *)
(* closed is at every step once and in order, and is shown the variables   *)
(* of that step, as long as no session was an update; the other conditions *)
(* are those of BpStaleIndexStillReads.                                    *)
THEOREM BpCompleteStreamInOrder ==
  StreamSpec /\ []FitsOneWrite /\ []StreamBuffered /\ []NotTruncated /\ []NotUpdated
    => []CompleteStreamInOrder
<1> DEFINE All == Inv /\ StaleInv /\ StreamFileInv /\ StepsInv
<1>1. StreamInit => StreamFileInv /\ StepsInv
  <2> SUFFICES ASSUME StreamInit PROVE StreamFileInv /\ StepsInv
    OBVIOUS
  <2>1. Stream \in Groups
    BY BpStreamAssumption
  <2>2. /\ log[Stream] = <<>> /\ file[Stream] = <<>> /\ fd[Stream].st = "closed"
        /\ rpc = "open" /\ seen = <<>> /\ complete = FALSE
    BY <2>1 DEF StreamInit, Init, ReaderInit, NoSession
  <2>3. ~Valid(<<>>)
    BY DEF Valid
  <2>4. 1 .. Len(<<>>) = {}
    OBVIOUS
  <2>5. \A end : IndexCellsBehind(<<>>, end)
    BY <2>4 DEF IndexCellsBehind
  <2>6. StreamFileInv
    BY <2>2, <2>3, <2>5 DEF StreamFileInv, AtRest
  <2>7. StepsInv
    BY <2>2 DEF StepsInv, InOrder
  <2> QED
    BY <2>6, <2>7
<1>2. /\ Inv /\ Inv' /\ StaleInv /\ StreamFileInv /\ StepsInv
      /\ StreamBuffered /\ StreamBuffered' /\ NotUpdated /\ NotUpdated'
      /\ [StreamNext]_<<vars, readerVars>>
      => StreamFileInv' /\ StepsInv'
  <2> SUFFICES ASSUME Inv, Inv', StaleInv, StreamFileInv, StepsInv, StreamBuffered,
                      StreamBuffered', NotUpdated, NotUpdated',
                      [StreamNext]_<<vars, readerVars>>
               PROVE  StreamFileInv' /\ StepsInv'
    OBVIOUS
  <2>1. \/ [Next]_vars /\ UNCHANGED readerVars
        \/ ReaderNext /\ UNCHANGED vars
    BY DEF StreamNext, WriterNext, Next
  <2>2. [Next]_vars
    BY <2>1
  <2> QED
    BY <2>1, <2>2, OrderWriter, StepsWriter, StepsReader
<1>3. Inv /\ StreamFileInv /\ StepsInv => CompleteStreamInOrder
  <2> SUFFICES ASSUME Inv, StreamFileInv, StepsInv, complete, rpc = "step", lastTidx = 0,
                      \A i \in DOMAIN log[Stream] : log[Stream][i].nvars > 0
               PROVE  /\ seen = [i \in 1 .. currentStep + 1 |-> i - 1]
                      /\ shown # {}
                      /\ \A e \in shown : TimeOf(fh, e) = TidxStart(fh) + currentStep
    BY DEF CompleteStreamInOrder
  <2> DEFINE f == file[Stream]
             lg == log[Stream]
  <2>0. Stream \in Groups
    BY BpStreamAssumption
  <2>1. /\ Valid(f) /\ fh = IndexOf(f) /\ lastStep = Len(lg) - 1
        /\ currentStep \in 0 .. lastStep
        /\ seen = [i \in 1 .. currentStep + 1 |-> i - 1]
        /\ shown = SeekToStep(fh, currentStep) /\ fd[Stream].st = "closed"
    BY DEF StepsInv, InOrder
  <2>2. lg \in Seq(LogEntry) /\ GoodIndex(fh, IndexOffset(f)) /\ Describes(fh, lg)
    BY <2>0, <2>1 DEF Inv, TypeInv, LayoutInv, GoodFile, StreamFileInv, AtRest, Quiet
  <2>3. \A k \in 1 .. Len(lg) : lg[k].nvars > 0
    BY <2>2
  <2>4. currentStep \in 0 .. Len(lg) - 1
    BY <2>1
  <2> HIDE DEF lg
  <2>5. /\ SeekToStep(fh, currentStep) # {}
        /\ \A e \in SeekToStep(fh, currentStep) :
             TimeOf(fh, e) = TidxStart(fh) + currentStep
    BY <2>2, <2>3, <2>4, StepTime
  <2> QED
    BY <2>1, <2>5
<1>4. StreamInit => Inv /\ StaleInv
  BY StaleInit
<1>5. /\ Inv /\ StaleInv
      /\ FitsOneWrite /\ StreamBuffered /\ StreamBuffered' /\ NotTruncated'
      /\ [StreamNext]_<<vars, readerVars>>
      => Inv' /\ StaleInv'
  BY StaleStep
<1> QED
  BY <1>1, <1>2, <1>3, <1>4, <1>5, PTL DEF StreamSpec
=============================================================================

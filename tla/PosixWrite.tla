------------------------------ MODULE PosixWrite ------------------------------
(***************************************************************************)
(* Writing and appending BP files: the write API (core/common_adios.c),    *)
(* the buffer pool it draws from (core/buffer.c) and the POSIX method      *)
(* (write/adios_posix.c), in one process that opens files on its own       *)
(* communicator.                                                           *)
(*                                                                         *)
(* Every group has its own method and its own file; all groups share the   *)
(* pool.  A file is a sequence of cells.  A cell stands for the bytes of   *)
(* one item: a process group (PG) header, a section header, the header of  *)
(* a variable, one unit of its payload, an attribute, one entry of the     *)
(* index, the minifooter.  Offsets and sizes count cells from 0, and a     *)
(* cell names the session (open ... close) that wrote it, so overwritten   *)
(* data can be told from data that is intact.                              *)
(*                                                                         *)
(* The program calls open, group_size, write and close in that order for   *)
(* a group, and may interleave the groups.  A write(2) that close issues   *)
(* is a step of its own: another program may read the file in between.     *)
(***************************************************************************)
EXTENDS Integers, Sequences, FiniteSets, SequencesExt, FiniteSetsExt

CONSTANTS
  Groups,       \* the groups the program declares
  Modes,        \* the file modes it opens with
  NVars,        \* the variables of a group
  Payloads,     \* payload sizes of a variable
  DataSizes,    \* sizes the program passes to adios_group_size
  PoolSizes,    \* sizes it passes to adios_allocate_buffer
  Available,    \* physical memory (adios_get_avphys_pages)
  MaxWrite,     \* MAX_MPIWRITE_SIZE
  MaxSessions   \* bound: number of adios_open calls

ASSUME PosixWriteAssumption ==
  /\ Modes \subseteq {"w", "a", "u", "r"}
  /\ {NVars, Available, MaxWrite, MaxSessions} \subseteq Nat
  /\ MaxWrite > 0
  /\ Payloads \subseteq Nat \ {0}
  /\ DataSizes \cup PoolSizes \subseteq Nat
  /\ IsFiniteSet(Groups)

VARIABLES
  pool,       \* the counters of the buffer pool
  group,      \* time_index and number of attributes of each group
  fd,         \* the session of each group
  file,       \* the file of each group, <<>> if there is none
  readback,   \* the variables that the last "r" session of a group got
  sessions,   \* number of adios_open calls so far
  log         \* history: closed sessions since the file was created

vars == <<pool, group, fd, file, readback, sessions, log>>

-----------------------------------------------------------------------------
(* Cells.  All have three components, the first tells their kind.          *)

PgHeader(s) == <<"pg", s, 0>>
VarsHeader(s) == <<"vars", s, 0>>
VarHeader(s, v) == <<"var", s, v>>
Payload(s, v) == <<"data", s, v>>
AttrsHeader(s) == <<"attrs", s, 0>>
Attribute(s, k) == <<"attr", s, k>>
Garbage == <<"garbage", 0, 0>>

Repeat(cell, n) == [i \in 1 .. n |-> cell]

(* write(2) of cells at offset pos.                                        *)
WriteAt(f, pos, cells) ==
  [i \in 1 .. Max({Len(f), pos + Len(cells)}) |->
     CASE i \in pos + 1 .. pos + Len(cells) -> cells[i - pos]
       [] i \notin pos + 1 .. pos + Len(cells) /\ i <= Len(f) -> f[i]
       [] OTHER -> Garbage]

(* The index and the minifooter that holds its offset, as                  *)
(* adios_write_index_v1 and adios_write_version_v1 lay them out: the index *)
(* has an entry per PG.                                                    *)
EmptyIndex == [pgs |-> <<>>, vars |-> <<>>]
IndexEntries(ix) == [k \in 1 .. 1 + Len(ix.pgs) |-> <<"index", ix, k>>]
IndexCells(ix, start) == Append(IndexEntries(ix), <<"footer", start, 0>>)
WholeIndex(cells) ==
  cells # <<>> /\ cells[1][1] = "index" /\ cells = IndexEntries(cells[1][2])

(* check_bp_validity, and the version test of adios_parse_version: the     *)
(* file ends in a minifooter.                                              *)
Valid(f) == f # <<>> /\ Last(f)[1] = "footer"
IndexOffset(f) == Last(f)[2]

(* The index at the offset of the minifooter is there and is whole.        *)
Indexed(f) ==
  Valid(f) /\ WholeIndex(SubSeq(f, IndexOffset(f) + 1, Len(f) - 1))

IndexOf(f) == f[IndexOffset(f) + 1][2]

(* Mutant: the first PG of the index is read.                              *)
FirstPgVars(f) ==
  LET pg == SubSeq(f, Head(IndexOf(f).pgs).off + 1, IndexOffset(f)) IN
  {<<pg[i][2], pg[i][3]>> : i \in {j \in 1 .. Len(pg) : pg[j][1] = "var"}}

(* adios_posix_do_read: the variables of the last PG of the index.         *)
LastPgVars(f) ==
  LET pg == SubSeq(f, Last(IndexOf(f).pgs).off + 1, IndexOffset(f)) IN
  {<<pg[i][2], pg[i][3]>> : i \in {j \in 1 .. Len(pg) : pg[j][1] = "var"}}

-----------------------------------------------------------------------------
NoSession ==
  [st |-> "closed", mode |-> "w", sid |-> 0, base |-> 0, pgStart |-> 0,
   endOfPgs |-> 0, old |-> EmptyIndex, size |-> 0, shared |-> FALSE,
   buffer |-> <<>>, pos |-> 0, varsStart |-> 0, varsHeaderSize |-> 0,
   written |-> <<>>, nvars |-> 0, flushed |-> 0]

Init ==
  /\ pool = [max |-> 0, remaining |-> 0]
  /\ group = [g \in Groups |-> [time |-> 0, attrs |-> 0]]
  /\ fd = [g \in Groups |-> NoSession]
  /\ file = [g \in Groups |-> <<>>]
  /\ readback = [g \in Groups |-> {}]
  /\ sessions = 0
  /\ log = [g \in Groups |-> <<>>]

(* The program is not inside adios_close.                                  *)
Idle == \A g \in Groups : fd[g].st # "flushing"

(* The pool.  The bytes a request takes, and the pool after bytes return.  *)
Alloc(p, n) == IF p.remaining >= n THEN n ELSE p.remaining
Taken(p, n) == [p EXCEPT !.remaining = @ - Alloc(p, n)]
Freed(p, n) ==
  [p EXCEPT !.remaining = IF n + p.remaining > p.max THEN p.max ELSE @ + n]

AllocateBuffer(n) ==
  /\ Idle
  /\ pool.max < n
  /\ LET max == Min({n, Available}) IN pool' = [max |-> max, remaining |-> max]
  /\ UNCHANGED <<group, fd, file, readback, sessions, log>>

(* The time index common_adios_open gives the group.                       *)
OpenTime(t, mode) ==
  CASE mode \in {"w", "a"} -> t + 1
    [] mode = "u" /\ t > 1 -> t - 1
    [] OTHER -> Max({t, 1})

(* The index that append and update read, and the time index they          *)
(* continue from.                                                          *)
OldIndex(f) == IF Valid(f) THEN IndexOf(f) ELSE EmptyIndex

(* Mutant: the time index of the last PG is used again.                    *)
SameTime(ix) == Max({ix.pgs[i].time : i \in DOMAIN ix.pgs})

NextTime(ix) == Max({ix.pgs[i].time : i \in DOMAIN ix.pgs}) + 1

(* A minifooter of an unknown version, or no file: the method starts at 0  *)
(* without an index, and the return value of its open is not looked at.    *)
Open(g, mode) ==
  /\ Idle
  /\ fd[g].st = "closed"
  /\ sessions < MaxSessions
  /\ mode = "r" => file[g] # <<>>
  /\ LET appends == mode \in {"a", "u"} /\ Valid(file[g])
         old == IF appends THEN OldIndex(file[g]) ELSE EmptyIndex
         end == IF appends THEN IndexOffset(file[g]) ELSE 0
     IN /\ fd' = [fd EXCEPT ![g] =
                    [NoSession EXCEPT !.st = "opened", !.mode = mode,
                       !.sid = sessions + 1, !.base = end, !.pgStart = end,
                       !.endOfPgs = end, !.old = old]]
        /\ group' = [group EXCEPT ![g].time =
                       IF appends THEN NextTime(old) ELSE OpenTime(@, mode)]
  /\ file' = IF mode = "w" THEN [file EXCEPT ![g] = <<>>] ELSE file
  /\ log' = IF mode = "w" THEN [log EXCEPT ![g] = <<>>] ELSE log
  /\ sessions' = sessions + 1
  /\ UNCHANGED <<pool, readback>>

(* The internal attributes are defined in a new file and at the first      *)
(* step.                                                                   *)
DefinesAttributes(g) ==
  /\ fd[g].mode # "r"
  /\ fd[g].mode = "w" \/ group[g].time <= 1

Attrs(g) == group[g].attrs + (IF DefinesAttributes(g) THEN 1 ELSE 0)

(* adios_calc_overhead_v1: the headers of the PG, of its two sections and  *)
(* of all variables, and the attributes.                                   *)
Overhead(g) == 1 + 1 + NVars + 1 + Attrs(g)

(* The pool grants the size: the PG is built in memory.                    *)
GroupSizeBuffered(g, n) ==
  /\ Alloc(pool, n) = n
  /\ pool' = Taken(pool, n)
  /\ fd' = [fd EXCEPT ![g].st = "sized", ![g].size = n, ![g].shared = TRUE,
              ![g].buffer = <<PgHeader(fd[g].sid), Garbage>>,
              ![g].varsStart = 1]
  /\ UNCHANGED file

(* Mutant: what was granted of the size is not returned.                   *)
GroupSizeDirectKeeps(g, n) ==
  /\ Alloc(pool, n) # n
  /\ pool' = Taken(pool, n)
  /\ fd' = [fd EXCEPT ![g].st = "sized", ![g].size = n]
  /\ UNCHANGED file

(* It does not: adios_posix_should_buffer writes the PG header to the file *)
(* and skips the header of the variables, and what was granted returns.    *)
GroupSizeDirect(g, n) ==
  /\ Alloc(pool, n) # n
  /\ pool' = Freed(Taken(pool, n), Alloc(pool, n))
  /\ IF fd[g].mode = "r"
       THEN /\ fd' = [fd EXCEPT ![g].st = "sized", ![g].size = n]
            /\ UNCHANGED file
       ELSE LET base == fd[g].base IN
            /\ fd' = [fd EXCEPT ![g].st = "sized", ![g].size = n,
                        ![g].pos = base + 2, ![g].varsStart = base + 1,
                        ![g].varsHeaderSize = 1, ![g].base = base + 2]
            /\ file' = [file EXCEPT ![g] = WriteAt(@, base, <<PgHeader(fd[g].sid)>>)]

GroupSize(g, dataSize) ==
  /\ Idle
  /\ fd[g].st = "opened"
  /\ group' = [group EXCEPT ![g].attrs = Attrs(g)]
  /\ \/ GroupSizeBuffered(g, dataSize + Overhead(g))
     \/ GroupSizeDirect(g, dataSize + Overhead(g))
  /\ UNCHANGED <<readback, sessions, log>>

(* adios_copy_var_written: the variable enters the list that close turns   *)
(* into index entries.  Nothing else reads that list, so the test of       *)
(* adios_build_index_v1 for a nonzero offset is made here.                 *)
CopyVarWritten(s, v, off, n) ==
  IF s.mode \in {"w", "a"} /\ off # 0
  THEN Append(s.written, [sid |-> s.sid, var |-> v, off |-> off, size |-> n])
  ELSE s.written

(* Mutant: the offset in the buffer is recorded, not the one in the file.  *)
WriteBufferedNoBase(g, n) ==
  LET s == fd[g]  v == s.nvars + 1 IN
  /\ s.shared
  /\ fd' = [fd EXCEPT ![g].nvars = v,
              ![g].written = CopyVarWritten(s, v, Len(s.buffer), n),
              ![g].buffer = @ \o <<VarHeader(s.sid, v)>> \o Repeat(Payload(s.sid, v), n)]
  /\ UNCHANGED file

WriteBuffered(g, n) ==
  LET s == fd[g]  v == s.nvars + 1 IN
  /\ s.shared
  /\ fd' = [fd EXCEPT ![g].nvars = v,
              ![g].written = CopyVarWritten(s, v, s.base + Len(s.buffer), n),
              ![g].buffer = @ \o <<VarHeader(s.sid, v)>> \o Repeat(Payload(s.sid, v), n)]
  /\ UNCHANGED file

(* The payload cells adios_posix_write sends to the descriptor: the loop   *)
(* writes all of them, and the write after the loop writes them again.     *)
DirectPayload(s, v, n) == Repeat(Payload(s.sid, v), n) \o Repeat(Payload(s.sid, v), n)

WriteDirect(g, n) ==
  LET s == fd[g]  v == s.nvars + 1
      cells == <<VarHeader(s.sid, v)>> \o DirectPayload(s, v, n)
  IN /\ ~s.shared
     /\ file' = [file EXCEPT ![g] = WriteAt(@, s.pos, cells)]
     /\ fd' = [fd EXCEPT ![g].nvars = v,
                 ![g].written = CopyVarWritten(s, v, s.base, n),
                 ![g].pos = @ + Len(cells), ![g].base = @ + 1 + n]

Write(g, n) ==
  /\ Idle
  /\ fd[g].st = "sized"
  /\ fd[g].mode # "r"
  /\ fd[g].nvars < NVars
  /\ WriteBuffered(g, n) \/ WriteDirect(g, n)
  /\ UNCHANGED <<pool, group, readback, sessions, log>>

-----------------------------------------------------------------------------
(* adios_close.                                                            *)

AttrCells(g) == [k \in 1 .. group[g].attrs |-> Attribute(fd[g].sid, k)]

(* The end of the session, whatever its mode.                              *)
EndSession(g) ==
  /\ fd' = [fd EXCEPT ![g] = NoSession]
  /\ pool' = IF fd[g].shared THEN Freed(pool, fd[g].size) ELSE pool

CloseRead(g) ==
  /\ fd[g].mode = "r"
  /\ readback' = [readback EXCEPT ![g] =
                    IF Valid(file[g]) THEN LastPgVars(file[g]) ELSE {}]
  /\ EndSession(g)
  /\ UNCHANGED <<group, file, sessions, log>>

(* Mutant: the buffer is written at the start of the file.                 *)
CloseBufferedAtStart(g) ==
  /\ fd[g].mode # "r"
  /\ fd[g].shared
  /\ fd' = [fd EXCEPT ![g].st = "flushing", ![g].pos = 0,
              ![g].buffer = [@ EXCEPT ![fd[g].varsStart + 1] = VarsHeader(fd[g].sid)]
                              \o <<AttrsHeader(fd[g].sid)>> \o AttrCells(g)]
  /\ UNCHANGED <<pool, group, file, readback, sessions, log>>

(* Buffered: the header of the variables is filled in, the attributes are  *)
(* added, and the method starts to write the buffer at the old index.      *)
CloseBuffered(g) ==
  /\ fd[g].mode # "r"
  /\ fd[g].shared
  /\ fd' = [fd EXCEPT ![g].st = "flushing", ![g].pos = fd[g].endOfPgs,
              ![g].buffer = [@ EXCEPT ![fd[g].varsStart + 1] = VarsHeader(fd[g].sid)]
                              \o <<AttrsHeader(fd[g].sid)>> \o AttrCells(g)]
  /\ UNCHANGED <<pool, group, file, readback, sessions, log>>

(* Not buffered: the header of the variables is written over its gap, the  *)
(* attributes follow behind a gap of their own, and their header is then   *)
(* written over that gap with the size the method computes from base.      *)
CloseDirect(g) ==
  LET s == fd[g]
      headerSize == s.pos + 1 - s.base
      f1 == WriteAt(file[g], s.varsStart, <<VarsHeader(s.sid)>>)
      f2 == WriteAt(f1, s.pos + 1, AttrCells(g))
      f3 == WriteAt(f2, s.pos, <<AttrsHeader(s.sid)>> \o Repeat(Garbage, headerSize - 1))
  IN /\ s.mode # "r"
     /\ ~s.shared
     /\ file' = [file EXCEPT ![g] = f3]
     /\ fd' = [fd EXCEPT ![g].st = "flushing", ![g].varsStart = s.pos,
                 ![g].varsHeaderSize = headerSize, ![g].pos = s.pos + headerSize,
                 ![g].base = @ + 1 + group[g].attrs]
     /\ UNCHANGED <<pool, group, readback, sessions, log>>

Close(g) ==
  /\ Idle
  /\ fd[g].st = "sized"
  /\ CloseRead(g) \/ CloseBuffered(g) \/ CloseDirect(g)

(* One write(2) of adios_posix_do_write: MAX_MPIWRITE_SIZE bytes at most,  *)
(* always from the start of the buffer.                                    *)
Chunk(s) == SubSeq(s.buffer, 1, Min({MaxWrite, Len(s.buffer) - s.flushed}))

FlushBuffer(g) ==
  LET s == fd[g] IN
  /\ s.st = "flushing"
  /\ s.flushed < Len(s.buffer)
  /\ file' = [file EXCEPT ![g] = WriteAt(@, s.pos, Chunk(s))]
  /\ fd' = [fd EXCEPT ![g].pos = @ + Len(Chunk(s)),
              ![g].flushed = @ + Len(Chunk(s))]
  /\ UNCHANGED <<pool, group, readback, sessions, log>>

(* adios_build_index_v1: the old index, the new PG and the variables that  *)
(* were written.                                                           *)
BuildIndex(g) ==
  LET s == fd[g] IN
  [pgs |-> Append(s.old.pgs, [sid |-> s.sid, off |-> s.pgStart, time |-> group[g].time]),
   vars |-> s.old.vars \o s.written]

IndexStart(s) == s.base + Len(s.buffer)

WriteIndex(g) ==
  LET s == fd[g] IN
  /\ s.st = "flushing"
  /\ s.flushed = Len(s.buffer)
  /\ file' = [file EXCEPT ![g] =
                WriteAt(@, IndexStart(s), IndexCells(BuildIndex(g), IndexStart(s)))]
  /\ log' = [log EXCEPT ![g] =
               Append(@, [sid |-> s.sid, shared |-> s.shared, nvars |-> s.nvars])]
  /\ EndSession(g)
  /\ UNCHANGED <<group, readback, sessions>>

Next ==
  \/ \E n \in PoolSizes : AllocateBuffer(n)
  \/ \E g \in Groups :
       \/ \E mode \in Modes : Open(g, mode)
       \/ \E n \in DataSizes : GroupSize(g, n)
       \/ \E n \in Payloads : Write(g, n)
       \/ Close(g)
       \/ FlushBuffer(g)
       \/ WriteIndex(g)

Spec == Init /\ [][Next]_vars

-----------------------------------------------------------------------------
(* Properties.                                                             *)

Held == LET buffered == {g \in Groups : fd[g].shared}
        IN  MapThenSumSet(LAMBDA g : fd[g].size, buffered)

(* buffer.c never loses bytes: what is left in the pool and what the open  *)
(* sessions hold make up the whole pool, so that a program that has closed *)
(* its files has all of it again, also when it enlarged the pool while     *)
(* files were open.  The unsigned count of what is left does not wrap.     *)
NothingLeaked ==
  /\ pool.remaining + Held >= pool.max
  /\ pool.remaining \in 0 .. pool.max

SessionLog(g, sid) == {i \in DOMAIN log[g] : log[g][i].sid = sid}
WasBuffered(g, sid) == \A i \in SessionLog(g, sid) : log[g][i].shared

IntactEntry(f, e) ==
  SubSeq(f, e.off + 1, e.off + 1 + e.size) =
    <<VarHeader(e.sid, e.var)>> \o Repeat(Payload(e.sid, e.var), e.size)

(* A closed file that only buffered sessions wrote ends in a minifooter.   *)
(* If a closed file ends in one, the index it points at is whole, and each *)
(* entry of it made by a buffered session points at the variable that      *)
(* session wrote, whatever sessions followed.                              *)
IndexedIntact ==
  \A g \in Groups : fd[g].st \in {"closed", "opened"} /\ file[g] # <<>> =>
    /\ (\A i \in DOMAIN log[g] : log[g][i].shared) => Valid(file[g])
    /\ Valid(file[g]) =>
         /\ Indexed(file[g])
         /\ \A e \in ToSet(IndexOf(file[g]).vars) :
              WasBuffered(g, e.sid) => IntactEntry(file[g], e)

(* The PGs of an index follow each other in the file with consecutive time *)
(* indices: the readers take the last one minus the first one for the      *)
(* number of steps.                                                        *)
TimesIncrease ==
  \A g \in Groups : fd[g].st = "closed" /\ Indexed(file[g]) =>
    LET pgs == IndexOf(file[g]).pgs IN
    \A i \in 1 .. Len(pgs) - 1 :
      /\ pgs[i + 1].time = pgs[i].time + 1
      /\ pgs[i + 1].off > pgs[i].off

(* A file opened with mode "r" by the write API gives back the variables   *)
(* of the last session that wrote it, if that session was buffered, in     *)
(* whichever mode it was opened.                                           *)
ReadReturnsLast ==
  [][\A g \in Groups :
       fd[g].st = "sized" /\ fd[g].mode = "r" /\ fd'[g].st = "closed"
         /\ Last(log[g]).shared /\ Valid(file[g])
       => readback'[g] = {<<Last(log[g]).sid, v>> : v \in 1 .. Last(log[g]).nvars}]_vars

(* A session that appends to a file or updates it never changes what lies  *)
(* below the index it found, neither through the buffer nor directly.      *)
AppendKeepsOld ==
  [][\A g \in Groups : fd[g].st # "closed" /\ fd[g].endOfPgs > 0 =>
       SubSeq(file'[g], 1, fd[g].endOfPgs) = SubSeq(file[g], 1, fd[g].endOfPgs)]_vars

=============================================================================

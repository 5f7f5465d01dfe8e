---------------------------- MODULE TransformReads ----------------------------
(***************************************************************************)
(* Scheduled reads on their way through the read API (core/common_read.c), *)
(* the transform layer (core/transforms) and the BP method                 *)
(* (read/read_bp.c), with the cache of variable infos                      *)
(* (core/adios_infocache.c).                                               *)
(*                                                                         *)
(* A read of a transformed variable becomes a request group: a raw         *)
(* subrequest for each segment of each block (PG) that the selection       *)
(* meets, with a buffer of its own.  BP serves subrequests and the reads   *)
(* of other variables from one list.  A blocking adios_perform_reads       *)
(* serves all of them.  adios_check_reads serves one after the other, and  *)
(* the transform layer finds out from the variable and the selection of    *)
(* the chunk which subrequest it answers.                                  *)
(*                                                                         *)
(* Selections are of global arrays.                                        *)
(*                                                                         *)
(* The program is sequential: a call is one step, and so is an iteration   *)
(* of the loop in adios_check_reads.  Where the code reads an              *)
(* uninitialised value or freed memory, or fails an assertion, the reader  *)
(* may end in the state "undefined" and is followed no further.            *)
(*                                                                         *)
(* A read may fail inside BP: read_var returns NULL when a subfile cannot  *)
(* be opened (MPI_FILE_READ_OPS2).                                         *)
(***************************************************************************)
EXTENDS Integers, Sequences, FiniteSets, SequencesExt, FiniteSetsExt

CONSTANTS
  Present,       \* Present[s][g + 1]: the variables of group g in step s, by id
  Transformed,   \* the transformed variables
  NBlocks,       \* blocks of a variable in a step
  NSubs,         \* subrequests the transform plugin makes for a block
  NPieces,       \* bound: chunks that a read without memory is split into
  Subfiles,      \* whether the file has subfiles, any of which may be missing
  Corruptions,   \* sets of blocks that the plugin may fail to decode
  Views,         \* the groups the program may select, -1 for the full view
  MaxReads       \* bound: reads scheduled

ASSUME TransformAssumption ==
  /\ Present \in Seq(Seq(Seq(Nat))) /\ Present # <<>>
  /\ {NBlocks, NSubs, NPieces, MaxReads} \subseteq Nat \ {0}
  /\ Subfiles \in BOOLEAN
  /\ \A c \in Corruptions : c \subseteq 1 .. NBlocks
  /\ \A s \in DOMAIN Present : Views \subseteq -1 .. Len(Present[s]) - 1

VARIABLES
  corrupt,     \* the blocks that cannot be decoded
  step,        \* fp->current_step
  view,        \* group_in_view
  nvars,       \* fp->nvars
  full,        \* full_nvars, and the step it was saved in; 0 if in none
  dataView,    \* data_view
  infocache,   \* the infos of the ids asked about
  reqgroups,   \* transform_reqgroups
  bplist,      \* local_read_request_list
  chunk,       \* the pointer the program passes to adios_check_reads
  rpc,         \* the call in progress
  reads,       \* history: the reads scheduled
  lost,        \* history: those pending at an advance or given up unread
  got,         \* history: the blocks decoded for a read, and from what
  returned     \* history: number of chunks a read has returned

viewVars == <<view, nvars, full, dataView>>
vars == <<corrupt, step, viewVars, infocache, reqgroups, bplist, chunk,
          rpc, reads, lost, got, returned>>
history == <<reads, lost, got, returned>>

Init ==
  /\ corrupt \in Corruptions
  /\ step = 1 /\ view = -1
  /\ nvars = Len(FlattenSeq(Present[1]))
  /\ full = [step |-> 0, nvars |-> 0]
  /\ dataView = "logical"
  /\ infocache = [id \in {} |-> 0]
  /\ reqgroups = <<>> /\ bplist = <<>>
  /\ chunk = "null"
  /\ rpc = "idle"
  /\ reads = <<>> /\ lost = {} /\ got = {}
  /\ returned = [rid \in 1 .. MaxReads |-> 0]

Steps == 1 .. Len(Present)

(* The number of variables presented in view g of step s.                  *)
Presented(s, g) ==
  IF g = -1 THEN Len(FlattenSeq(Present[s])) ELSE Len(Present[s][g + 1])

(* group_varid_offset: the variables of the groups before the one in view. *)
Offset == Len(FlattenSeq(SubSeq(Present[step], 1, view)))

(* varid_mapping: from the ids of the full view to those of the file.      *)
VaridMapping(id) == FlattenSeq(Present[step])[id + 1]

-----------------------------------------------------------------------------
(* The infos of a presented id: the raw varinfo is that of the variable,   *)
(* the transinfo is looked up under the id without the group's offset.     *)
InqInfo(id) ==
  [phys |-> VaridMapping(id + Offset), trans |-> VaridMapping(id), step |-> step]

Info(id) == IF id \in DOMAIN infocache THEN infocache[id] ELSE InqInfo(id)

SetDataView(v) ==
  /\ rpc = "idle"
  /\ dataView' = v
  /\ UNCHANGED <<corrupt, step, view, nvars, full, infocache, reqgroups, bplist,
                 chunk, rpc, history>>

(* adios_group_view, to a group or back to the full view.  The way back    *)
(* takes the list that was saved when the first group was selected: there  *)
(* may be none, which is a list of no variables, or that of an earlier     *)
(* step, which is freed.                                                   *)
GroupView(g) ==
  /\ rpc = "idle"
  /\ view' = g
  /\ nvars' = IF g = -1 THEN full.nvars ELSE Presented(step, g)
  /\ full' = IF g # -1 /\ view = -1 THEN [step |-> step, nvars |-> nvars] ELSE full
  /\ rpc' = IF g = -1 /\ full.step \notin {0, step} THEN "undefined" ELSE "idle"
  /\ UNCHANGED <<corrupt, step, dataView, infocache, reqgroups, bplist, chunk,
                 history>>

-----------------------------------------------------------------------------
(* adios_schedule_read_byid.                                               *)

Segments(b) == {<<b, k>> : k \in 1 .. NSubs}
Subrequests(g) == UNION {Segments(b) : b \in g.blocks}
UserSelection == <<0, 0>>

(* Mutant of Registered: behind the groups of earlier reads.               *)
RegisteredLast(g) == Append(reqgroups, g)

(* adios_transform_read_request_append: in front of the earlier ones.      *)
Registered(g) == <<g>> \o reqgroups

(* The numbers of a finite set in ascending order (SetToSortSeq with the   *)
(* places spelt out, as the proofs need them).                             *)
Ascending(S) ==
  [k \in 1 .. Cardinality(S) |->
     CHOOSE n \in S : Cardinality({m \in S : m <= n}) = k]

(* The subrequests of a group as BP's list has them: each list on the way  *)
(* there is built from its end, and so is BP's own.                        *)
RawReads(rid, var, blocks) ==
  LET order == Ascending(blocks) IN
  [i \in 1 .. Len(order) * NSubs |->
     [rid |-> rid, varid |-> var, mem |-> TRUE, left |-> 1,
      sel |-> <<order[((i - 1) \div NSubs) + 1], ((i - 1) % NSubs) + 1>>]]

Schedule(id, delegated, mem, blocks, pieces) ==
  /\ rpc = "idle"
  /\ Len(reads) < MaxReads
  /\ id < nvars
  /\ delegated <=> dataView = "logical" /\ Info(id).trans \in Transformed
  /\ infocache' = [i \in DOMAIN infocache \cup {id} |-> Info(i)]
  /\ reads' = Append(reads, [id |-> id, var |-> VaridMapping(id + Offset),
                             step |-> step, info |-> Info(id),
                             delegated |-> delegated, mem |-> mem,
                             blocks |-> blocks, pieces |-> pieces])
  /\ UNCHANGED <<corrupt, step, viewVars, chunk, rpc, lost, got, returned>>

(* The blocks are those the selection meets.  If it meets none there is no *)
(* request group, and the value the call returns is not set.               *)
ScheduleTransformed(id, mem, blocks) ==
  /\ Schedule(id, TRUE, mem, blocks, 1)
  /\ LET rid == Len(reads) + 1 IN
       /\ reqgroups' = IF blocks = {} THEN reqgroups
                       ELSE Registered([rid |-> rid, varid |-> id, mem |-> mem,
                                        blocks |-> blocks, done |-> {},
                                        filled |-> {}, stale |-> FALSE])
       /\ bplist' = RawReads(rid, VaridMapping(id + Offset), blocks) \o bplist

ScheduleRaw(id, mem, pieces) ==
  /\ mem => pieces = 1
  /\ Schedule(id, FALSE, mem, {}, pieces)
  /\ bplist' = <<[rid |-> Len(reads) + 1, varid |-> VaridMapping(id + Offset),
                  mem |-> mem, left |-> pieces, sel |-> UserSelection]>> \o bplist
  /\ UNCHANGED reqgroups

-----------------------------------------------------------------------------
(* adios_perform_reads, blocking.                                          *)

Completed(g) == g.done = Subrequests(g)
PgCompleted(g, b) == Segments(b) \subseteq g.done
Pending == {g \in ToSet(reqgroups) : ~Completed(g)}

(* What a subrequest's buffer holds once BP has read it.                   *)
Content(e) == [sel |-> e.sel, var |-> e.varid, step |-> step]

(* The decoded block, as the plugin makes it from the buffers.             *)
Decoded(g, b) ==
  [rid |-> g.rid, block |-> b, data |-> {c \in g.filled : c.sel[1] = b}]

(* Only the first piece of a read that is split may have got memory.       *)
WithoutMemory ==
  \E i \in DOMAIN bplist : ~bplist[i].mem \/ bplist[i].left > 1

(* BP refuses, and the transform layer still processes all of its groups:  *)
(* from buffers nobody filled, which it frees and BP will fill later.      *)
PerformRefused ==
  /\ rpc = "idle"
  /\ WithoutMemory
  /\ rpc' = IF Pending = {} THEN "idle" ELSE "undefined"
  /\ reqgroups' = <<>>
  /\ UNCHANGED <<corrupt, step, viewVars, infocache, bplist, chunk,
                 history>>

(* The blocks that are decoded when the whole group is completed.          *)
Missing(g) == {b \in g.blocks \ corrupt : ~PgCompleted(g, b)}

(* BP reads its whole list and drops what it cannot read, and what it had  *)
(* got memory of its own for.  The call succeeds all the same.             *)
(* adios_transform_process_all_reads then takes all buffers for filled; it *)
(* needs the infos the group was made with, and the program's memory for   *)
(* what it decodes.  The failed reads are those with a part in a subfile   *)
(* that cannot be opened.                                                  *)
PerformReads(failed) ==
  /\ rpc = "idle"
  /\ ~WithoutMemory
  /\ failed \subseteq {bplist[i].rid : i \in DOMAIN bplist}
  /\ failed # {} => Subfiles
  /\ LET served(g) == [g EXCEPT !.filled = @ \cup
               {Content(e) : e \in {x \in ToSet(bplist) : x.rid = g.rid}}]
         all == {served(g) : g \in Pending}
         raw == {e.rid : e \in {x \in ToSet(bplist) : x.sel = UserSelection}}
         answered == {rid \in raw \ failed : reads[rid].mem}
     IN /\ rpc' = IF \E g \in all : \/ g.stale \/ g.rid \in failed
                                    \/ ~g.mem /\ Missing(g) # {}
                  THEN "undefined" ELSE "idle"
        /\ got' = got \cup UNION {{Decoded(g, b) : b \in Missing(g)} : g \in all}
        /\ returned' = [rid \in DOMAIN returned |-> returned[rid] +
             IF rid \in answered \cup {g.rid : g \in {h \in all : h.mem}}
             THEN 1 ELSE 0]
        /\ lost' = lost \cup (raw \ answered)
  /\ bplist' = <<>>
  /\ reqgroups' = <<>>
  /\ UNCHANGED <<corrupt, step, viewVars, infocache, chunk, reads>>

-----------------------------------------------------------------------------
(* adios_check_reads.  The program has freed the chunk it got before, and  *)
(* may have set its pointer to NULL again.                                 *)
CheckReads(reset) ==
  /\ rpc = "idle"
  /\ rpc' = "checking"
  /\ chunk' = IF reset THEN "null" ELSE chunk
  /\ UNCHANGED <<corrupt, step, viewVars, infocache, reqgroups, bplist,
                 history>>

(* adios_transform_cleanup_from_previous_check_reads.                      *)
Live ==
  LET kept == Ascending({i \in DOMAIN reqgroups : ~Completed(reqgroups[i])})
  IN [k \in DOMAIN kept |-> reqgroups[kept[k]]]

(* adios_transform_read_request_list_match_chunk for a chunk of a variable *)
(* that is not transformed.  It looks at every group; without any, it      *)
(* returns an uninitialised value.                                         *)
NoMatch ==
  IF \E i \in DOMAIN Live : Live[i].stale THEN {"undefined"}
  ELSE IF Live = <<>> THEN {"idle", "undefined"}
  ELSE {"idle"}

(* BP returns 0 and does not set the chunk: the transform layer takes the  *)
(* chunk the program has freed for a new one.                              *)
NoChunk ==
  CASE chunk = "null" -> {"idle"}
    [] chunk # "null" /\ Live = <<>> -> {"idle", "undefined"}
    [] OTHER -> {"undefined"}

CheckNothingLeft ==
  /\ rpc = "checking"
  /\ bplist = <<>>
  /\ rpc' \in NoChunk
  /\ reqgroups' = Live
  /\ UNCHANGED <<corrupt, step, viewVars, infocache, bplist, chunk,
                 history>>

(* The read at the head fails and stays there.  BP returns adios_errno,    *)
(* which nothing has set: 0 as well.  A read without memory, or its first  *)
(* piece, has been given BP's own.                                         *)
CheckFailed ==
  /\ rpc = "checking"
  /\ bplist # <<>> /\ Subfiles
  /\ rpc' \in NoChunk
  /\ bplist' = [bplist EXCEPT ![1].mem = TRUE]
  /\ reqgroups' = Live
  /\ UNCHANGED <<corrupt, step, viewVars, infocache, chunk, history>>

(* A read of the program: the chunk goes to it.  A read without memory     *)
(* that exceeds the chunk buffer has been split, its next piece is served. *)
CheckRaw ==
  LET e == Head(bplist) IN
  /\ rpc = "checking"
  /\ bplist # <<>> /\ e.sel = UserSelection
  /\ rpc' \in NoMatch
  /\ bplist' = IF e.left > 1
               THEN [bplist EXCEPT ![1].left = @ - 1, ![1].mem = FALSE]
               ELSE Tail(bplist)
  /\ returned' = [returned EXCEPT ![e.rid] = @ + 1]
  /\ chunk' = "freed"
  /\ reqgroups' = Live
  /\ UNCHANGED <<corrupt, step, viewVars, infocache, reads, lost, got>>

(* The groups once BP has read the subrequest at the head of its list.     *)
Served ==
  LET e == Head(bplist) IN
  [i \in DOMAIN Live |-> IF Live[i].rid = e.rid
                         THEN [Live[i] EXCEPT !.filled = @ \cup {Content(e)}]
                         ELSE Live[i]]

(* The groups that the chunk matches: same variable, equal selection.      *)
Matches ==
  LET e == Head(bplist) IN
  {i \in DOMAIN Live : /\ Live[i].varid = e.varid
                       /\ e.sel \in Subrequests(Live[i]) \ Live[i].done}

(* Mutant of Returns: also when blocks are missing.                        *)
ReturnsEarly(g, b) == PgCompleted(g, b) /\ b \notin corrupt

(* A decoded block is returned at once if the program gave no memory, else *)
(* the whole read when its last block is there.                            *)
Returns(g, b) ==
  /\ PgCompleted(g, b) /\ b \notin corrupt
  /\ g.mem => Completed(g)

(* adios_transform_process_read_chunk: the first group that matches.  The  *)
(* chunk of a block is filled in from the datablock after that is freed.   *)
CheckSubrequest ==
  LET e == Head(bplist)
      first == Min(Matches)
      g == [Served[first] EXCEPT !.done = @ \cup {e.sel}]
      b == e.sel[1]
  IN /\ rpc = "checking"
     /\ bplist # <<>> /\ e.sel # UserSelection
     /\ Matches # {}
     /\ bplist' = Tail(bplist)
     /\ reqgroups' = [Served EXCEPT ![first] = g]
     /\ got' = IF PgCompleted(g, b) /\ b \notin corrupt
               THEN got \cup {Decoded(g, b)} ELSE got
     /\ returned' = [returned EXCEPT ![g.rid] = @ + IF Returns(g, b) THEN 1 ELSE 0]
     /\ chunk' = IF Returns(g, b) THEN "freed" ELSE "null"
     /\ rpc' \in IF \E i \in 1 .. first : Live[i].stale THEN {"undefined"}
                 ELSE IF ~Returns(g, b) THEN {"checking"}
                 ELSE IF g.mem THEN {"idle"} ELSE {"idle", "undefined"}
     /\ UNCHANGED <<corrupt, step, viewVars, infocache, reads, lost>>

(* No group matches a chunk of transformed data: it is taken for a chunk   *)
(* of a variable that is not transformed.                                  *)
CheckUnmatched ==
  LET e == Head(bplist) IN
  /\ rpc = "checking"
  /\ bplist # <<>> /\ e.sel # UserSelection
  /\ Matches = {}
  /\ rpc' \in NoMatch
  /\ bplist' = Tail(bplist)
  /\ reqgroups' = Served
  /\ returned' = [returned EXCEPT ![e.rid] = @ + 1]
  /\ chunk' = "freed"
  /\ UNCHANGED <<corrupt, step, viewVars, infocache, reads, lost, got>>

-----------------------------------------------------------------------------
(* Mutant of Invalidated: the infos of the last step stay.                 *)
InvalidatedNever == infocache

(* adios_infocache_invalidate.                                             *)
Invalidated == [id \in {} |-> 0]

(* adios_advance_step.  BP keeps its list if the step is in the index it   *)
(* has, and loses it with the BP_PROC if the file is opened again.  The    *)
(* request groups stay, the infos they point to are freed.  A group in     *)
(* view is selected again; release_step has then freed the list of names   *)
(* at the place where the group begins in it.                              *)
AdvanceStep(inIndex) ==
  /\ rpc = "idle"
  /\ step + 1 \in Steps
  /\ step' = step + 1
  /\ nvars' = Presented(step + 1, view)
  /\ full' = IF view = -1 THEN full
             ELSE [step |-> step + 1, nvars |-> Presented(step + 1, -1)]
  /\ infocache' = Invalidated
  /\ reqgroups' = [i \in DOMAIN reqgroups |-> [reqgroups[i] EXCEPT !.stale = TRUE]]
  /\ bplist' = IF inIndex THEN bplist ELSE <<>>
  /\ lost' = lost \cup {bplist[i].rid : i \in DOMAIN bplist}
  /\ rpc' = IF Offset > 0 THEN "undefined" ELSE "idle"
  /\ UNCHANGED <<corrupt, view, dataView, chunk, reads, got, returned>>

ReadClose ==
  /\ rpc = "idle"
  /\ rpc' = "closed"
  /\ reqgroups' = <<>> /\ bplist' = <<>>
  /\ infocache' = Invalidated
  /\ UNCHANGED <<corrupt, step, viewVars, chunk, history>>

Next ==
  \/ \E v \in {"logical", "physical"} : SetDataView(v)
  \/ \E g \in Views : GroupView(g)
  \/ \E id \in 0 .. nvars - 1, mem \in BOOLEAN :
       \/ \E blocks \in SUBSET (1 .. NBlocks) : ScheduleTransformed(id, mem, blocks)
       \/ \E pieces \in 1 .. NPieces : ScheduleRaw(id, mem, pieces)
  \/ \E failed \in SUBSET (1 .. MaxReads) : PerformReads(failed)
  \/ PerformRefused
  \/ \E reset \in BOOLEAN : CheckReads(reset)
  \/ CheckNothingLeft \/ CheckFailed \/ CheckRaw \/ CheckSubrequest \/ CheckUnmatched
  \/ \E inIndex \in BOOLEAN : AdvanceStep(inIndex)
  \/ ReadClose

Spec == Init /\ [][Next]_vars

-----------------------------------------------------------------------------
(* Properties.                                                             *)

(* The reader has not met undefined behaviour.                             *)
Defined == rpc # "undefined"

(* BP names the variable of a chunk by its id in the file, a request group *)
(* by the id the program used.  They differ behind a variable that the     *)
(* step does not have.                                                     *)
SameId(r) == r.id = r.var

(* A block is decoded from buffers that BP has filled, all of them, with   *)
(* that block of the variable and the step the program asked for.  The     *)
(* chunks do not say which read they belong to: reads of the same blocks   *)
(* are kept apart by the order of three lists only.                        *)
OwnDataDecoded ==
  Defined => \A x \in got : SameId(reads[x.rid]) => x.data =
    {[sel |-> s, var |-> reads[x.rid].var, step |-> reads[x.rid].step] :
       s \in Segments(x.block)}

GotBlocks(rid) == {x.block : x \in {y \in got : y.rid = rid}}

(* The chunks a read without undecodable blocks returns in the end.        *)
Chunks(r) ==
  CASE ~r.delegated -> r.pieces
    [] r.delegated /\ r.mem -> IF r.blocks = {} THEN 0 ELSE 1
    [] OTHER -> Cardinality(r.blocks)

(* When BP has no request left, every read has been answered once and in   *)
(* full, whatever mix of blocking and chunked calls the program has used,  *)
(* and no read with the program's own memory is returned before it is      *)
(* whole.  Blocks that cannot be decoded are missing, and the program is   *)
(* not told; nor is it of reads that a blocking call could not serve.      *)
(* These are excepted, and the reads that were pending at an advance.      *)
ReadsDelivered ==
  Defined => \A rid \in DOMAIN reads : LET r == reads[rid] IN
    SameId(r) =>
      /\ r.delegated /\ r.mem /\ returned[rid] > 0 =>
           GotBlocks(rid) = r.blocks \ corrupt
      /\ rpc = "idle" /\ bplist = <<>> /\ rid \notin lost =>
           /\ r.delegated => GotBlocks(rid) = r.blocks \ corrupt
           /\ r.blocks \cap corrupt = {} => returned[rid] = Chunks(r)

(* A read is planned with the infos of its own variable in its own step:   *)
(* they say whether the data is transformed and where its blocks are.      *)
InfoOfVariable ==
  \A rid \in DOMAIN reads : LET r == reads[rid] IN
    r.info = [phys |-> r.var, trans |-> r.var, step |-> r.step]
=============================================================================

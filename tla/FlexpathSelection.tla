-------------------------- MODULE FlexpathSelection --------------------------
(***************************************************************************)
(* The reads of one global array in one step of a Flexpath stream          *)
(* (read/read_flexpath.c): schedule_read_byid decides from the group       *)
(* message which writers hold a part of the selection, perform_reads asks  *)
(* them one after the other, and raw_handler copies what each one sends    *)
(* into the user's buffer.                                                 *)
(*                                                                         *)
(* An index, an offset or a size is a function of the dimensions.  The     *)
(* elements of the array are their own values: an element is the pair of   *)
(* the writer that sent it and its place in the global array.              *)
(***************************************************************************)
EXTENDS Integers, Sequences, FiniteSets, FiniteSetsExt

CONSTANTS
  NDims,        \* number of dimensions of the array
  GlobalDims,   \* its size in every dimension
  NumBridges,   \* number of writers
  Layouts,      \* the ways the writers may divide the array among them
  Requests,     \* the selections the application may ask for
  Fortran,      \* reader and writer are Fortran programs
  MaxReads,     \* bound: reads scheduled before perform_reads
  ElementSize,  \* bytes of an element
  Word,         \* uint64_t counts modulo Word
  IntWord       \* an int keeps IntWord values, half of them negative

Dims == 1 .. NDims
Bridges == 0 .. NumBridges - 1
Index == [Dims -> Nat]
Zero == [d \in Dims |-> 0]

(* The number of elements of a box, and the most there can be of them.     *)
Elements(count) ==
  LET upto[d \in 0 .. NDims] == IF d = 0 THEN 1 ELSE count[d] * upto[d - 1]
  IN  upto[NDims]
MaxElements == Elements(GlobalDims)

(* What an int keeps of a number, and what uint64_t makes of the int.      *)
ToInt(x) ==
  IF x % IntWord < IntWord \div 2 THEN x % IntWord ELSE (x % IntWord) - IntWord
Narrowed(x) == ToInt(x) % Word

(* A null selection.                                                       *)
NoSel == [type |-> "none", start |-> Zero, count |-> Zero, index |-> 0]

(* An element of a writer's array; what the memory of a read holds before  *)
(* anything is copied to it; what lies behind the end of a message.        *)
Element(w, place) == [from |-> w, place |-> place]
Untouched == Element(-1, Zero)
Garbage == Element(-2, Zero)

ASSUME SelectionAssumption ==
  /\ NDims \in Nat \ {0}
  /\ GlobalDims \in [Dims -> Nat \ {0}]
  /\ NumBridges \in Nat \ {0}
  /\ MaxReads \in Nat \ {0}
  /\ Word \in Nat \ {0}
  /\ IntWord \in Nat \ {0}
  /\ IntWord % 2 = 0 /\ IntWord <= Word /\ Word % IntWord = 0
  /\ ElementSize \in Nat \ {0}
  /\ IntWord % ElementSize = 0
  /\ ElementSize * MaxElements < Word
  /\ Fortran \in BOOLEAN
  /\ \A d \in Dims : GlobalDims[d] < Word
  /\ Layouts \subseteq [Bridges -> [offset : Index, count : Index]]
  /\ Requests \subseteq [type : {"box", "whole", "block", "points"},
                         start : Index, count : Index, index : Nat]
  /\ \A l \in Layouts, w \in Bridges, d \in Dims : l[w].offset[d] + l[w].count[d] < Word
  /\ \A r \in Requests, d \in Dims : r.count[d] > 0 /\ r.start[d] + r.count[d] < Word

VARIABLES
  layout,    \* offsets and sizes of the writers' blocks, in the group message
  pc,        \* "schedule" or "perform"
  reads,     \* the calls of schedule_read_byid, oldest first
  sel,       \* fpvar->sel
  userBuf,   \* which read's memory chunk->user_buf points to
  displ,     \* fpvar->displ: the part of the selection each writer holds
  sendees,   \* the writers to ask, in order
  mem,       \* the memory of each read
  flipped    \* the application's selections that reverse_dims has reversed

vars == <<layout, pc, reads, sel, userBuf, displ, sendees, mem, flipped>>

Init ==
  /\ layout \in Layouts
  /\ pc = "schedule"
  /\ reads = <<>>
  /\ sel = NoSel
  /\ userBuf = 0
  /\ displ = <<>>
  /\ sendees = <<>>
  /\ mem = [i \in 1 .. MaxReads |-> [o \in 0 .. MaxElements |-> Untouched]]
  /\ flipped = {}

-----------------------------------------------------------------------------
(***************************************************************************)
(* schedule_read_byid                                                      *)
(***************************************************************************)
(* Mutant of need_writer: the third kind of overlap is not recognised.     *)
need_writer_two(w, s) ==
  \A d \in Dims :
    LET sel_offset == s.start[d]
        sel_last == (s.start[d] + s.count[d] - 1) % Word
        rank_offset == layout[w].offset[d]
        rank_size == layout[w].count[d]
    IN  \/ rank_offset <= sel_offset /\ (rank_offset + rank_size - 1) % Word >= sel_offset
        \/ rank_offset <= sel_last /\ (rank_offset + rank_size) % Word >= sel_last

(* Whether writer w holds a part of the box s: three kinds of overlap, in  *)
(* uint64_t arithmetic.                                                    *)
need_writer(w, s) ==
  \A d \in Dims :
    LET sel_offset == s.start[d]
        sel_last == (s.start[d] + s.count[d] - 1) % Word
        rank_offset == layout[w].offset[d]
        rank_size == layout[w].count[d]
    IN  \/ rank_offset <= sel_offset /\ (rank_offset + rank_size - 1) % Word >= sel_offset
        \/ rank_offset <= sel_last /\ (rank_offset + rank_size) % Word >= sel_last
        \/ sel_offset <= rank_offset /\ (rank_offset + rank_size) % Word <= sel_last

(* Mutant of get_writer_displacements: the last element is left out.       *)
get_writer_displacements_short(w, s) ==
  LET start == [d \in Dims |-> IF s.start[d] >= layout[w].offset[d]
                               THEN Narrowed(s.start[d] - layout[w].offset[d]) ELSE 0]
  IN  [start |-> start,
       count |-> [d \in Dims |-> Narrowed(layout[w].count[d] - 1 - start[d])]]

(* Where in writer w's block the box s lies.  Starts and counts go through *)
(* an int before they are stored.                                          *)
get_writer_displacements(w, s) ==
  LET start == [d \in Dims |-> IF s.start[d] >= layout[w].offset[d]
                               THEN Narrowed(s.start[d] - layout[w].offset[d]) ELSE 0]
      sel_last == [d \in Dims |-> (s.start[d] + s.count[d] - 1) % Word]
      rank_last == [d \in Dims |-> (layout[w].offset[d] + layout[w].count[d] - 1) % Word]
  IN  [start |-> start,
       count |-> [d \in Dims |->
         IF sel_last[d] <= rank_last[d]
         THEN Narrowed((sel_last[d] - layout[w].offset[d]) - start[d] + 1)
         ELSE Narrowed((layout[w].count[d] - 1) - start[d] + 1)]]

reverse_dims(x) == [d \in Dims |-> x[NDims + 1 - d]]
Reversed(s) == [s EXCEPT !.start = reverse_dims(@), !.count = reverse_dims(@)]

(* The application's selection as it stands, and fpvar's copy of it.       *)
UserSel(req) == IF req \in flipped THEN Reversed(req) ELSE req
copy_selection(req) ==
  IF req.type = "whole"
  THEN [req EXCEPT !.type = "box", !.start = Zero, !.count = GlobalDims]
  ELSE UserSel(req)

(* send_var_message to the writers ws, lowest first: each is asked once.   *)
AddSendees(ws) ==
  LET asked == {sendees[i] : i \in 1 .. Len(sendees)}
      add[n \in 0 .. NumBridges + 1] ==
        IF n = 0 THEN sendees
        ELSE IF n - 1 \in ws \ asked THEN Append(add[n - 1], n - 1) ELSE add[n - 1]
  IN  sendees' = add[NumBridges + 1]

(* A bounding box, or the whole array.  In Fortran the dimensions of the   *)
(* application's selection are reversed, after the copy has been taken;    *)
(* there a null selection, which has none, is dereferenced: no call of a   *)
(* Fortran program makes one.                                              *)
ScheduleBox(req) ==
  /\ req.type \in {"box", "whole"}
  /\ Fortran => req.type = "box"
  /\ LET s == copy_selection(req)
         needed == {w \in Bridges : need_writer(w, s)}
     IN  /\ sel' = s
         /\ displ' = [w \in needed |-> get_writer_displacements(w, s)]
         /\ AddSendees(needed)
  /\ flipped' = IF ~Fortran THEN flipped
                ELSE IF req \in flipped THEN flipped \ {req} ELSE flipped \cup {req}
  /\ userBuf' = Len(reads) + 1

(* The calls that only set an error.                                       *)
Refused(req) == req.type = "points" \/ (req.type = "block" /\ req.index > NumBridges)

(* What one writer wrote, named by the writer's index.  The selection and  *)
(* the buffer are stored before the index is looked at.                    *)
ScheduleBlock(req) ==
  /\ req.type = "block"
  /\ sel' = copy_selection(req)
  /\ userBuf' = Len(reads) + 1
  /\ IF Refused(req) THEN UNCHANGED sendees ELSE AddSendees({req.index})
  /\ UNCHANGED <<displ, flipped>>

(* Selections of points and AUTO are refused after they have been stored.  *)
SchedulePoints(req) ==
  /\ req.type = "points"
  /\ sel' = copy_selection(req)
  /\ UNCHANGED <<displ, flipped, sendees, userBuf>>

ScheduleRead(req) ==
  /\ pc = "schedule"
  /\ Len(reads) < MaxReads
  /\ ScheduleBox(req) \/ ScheduleBlock(req) \/ SchedulePoints(req)
  /\ reads' = Append(reads, req)
  /\ UNCHANGED <<layout, pc, mem>>

-----------------------------------------------------------------------------
(***************************************************************************)
(* raw_handler and extract_selection_from_partial                          *)
(***************************************************************************)
(* Mutant of find_offset: column-major.                                    *)
find_offset_columns(size, index) ==
  LET offset[d \in 0 .. NDims] ==
        IF d = 0 THEN 0
        ELSE ToInt(index[NDims + 1 - d] + size[NDims + 1 - d] * offset[d - 1])
  IN  offset[NDims]

(* Row-major; the offset is an int.                                        *)
find_offset(size, index) ==
  LET offset[d \in 0 .. NDims] ==
        IF d = 0 THEN 0 ELSE ToInt(index[d] + size[d] * offset[d - 1])
  IN  offset[NDims]

(* The last dimension that is not exhausted advances, those behind it      *)
(* start again.                                                            *)
increment_index(dimen, index) ==
  LET free == {d \in Dims : index[d] + 1 < dimen[d]} IN
  IF free = {} THEN [more |-> FALSE, index |-> Zero]
  ELSE [more |-> TRUE,
        index |-> [d \in Dims |-> IF d < Max(free) THEN index[d]
                                  ELSE IF d = Max(free) THEN index[d] + 1 ELSE 0]]

map_local_to_global_index(local, offsets) == [d \in Dims |-> local[d] + offsets[d]]
map_global_to_local_index(global, offsets) == [d \in Dims |-> global[d] - offsets[d]]

index_in_selection(global, s) ==
  \A d \in Dims : global[d] >= s.start[d] /\ global[d] < s.start[d] + s.count[d]

(* The place in the global array of the k-th element of a writer's array,  *)
(* which is stored row by row.                                             *)
ElementAt(block, k) ==
  LET stride[d \in 0 .. NDims] ==
        IF d = 0 THEN 1 ELSE stride[d - 1] * block.count[NDims + 1 - d]
  IN  [d \in Dims |->
        block.offset[d] + ((k \div stride[NDims - d]) % block.count[d])]

(* The message of writer w: its array, and whatever lies behind it.        *)
Data(w, k) ==
  IF k < Elements(layout[w].count)
  THEN Element(w, ElementAt(layout[w], k)) ELSE Garbage

(* The do-while loop over the writer's array: the index it has when it     *)
(* looks at element k, and the elements it gets to.                        *)
PartialIndex(w) ==
  LET at[k \in 0 .. MaxElements] ==
        IF k = 0 THEN [more |-> TRUE, index |-> Zero]
        ELSE increment_index(layout[w].count, at[k - 1].index)
  IN  at
Walked(w) == {k \in 0 .. MaxElements : \A j \in 0 .. k : PartialIndex(w)[j].more}

(* The place in bytes is the product of two ints.  Where it overflows,     *)
(* which is undefined, it wraps around or is computed in a wider register. *)
extract_selection_from_partial(w, s, wraps, old) ==
  LET global == [k \in Walked(w) |->
        map_local_to_global_index(PartialIndex(w)[k].index, layout[w].offset)]
      copied == {k \in Walked(w) : index_in_selection(global[k], s)}
      to == [k \in copied |->
        LET offset == find_offset(s.count, map_global_to_local_index(global[k], s.start))
        IN  IF wraps THEN ToInt(offset * ElementSize) ELSE offset * ElementSize]
      there(o) == {k \in copied : to[k] = o * ElementSize}
  IN  [o \in DOMAIN old |-> IF there(o) # {} THEN Data(w, Max(there(o))) ELSE old[o]]

(* A write-block selection is copied as it is.  Its dimensions are read    *)
(* from the message as ints.                                               *)
CopyBlock(w, old) ==
  LET dims == [d \in Dims |-> Narrowed(layout[w].count[d])]
      array_size == (ElementSize * Elements(dims)) % Word
  IN  [o \in DOMAIN old |->
        IF (o + 1) * ElementSize <= array_size THEN Data(w, o) ELSE old[o]]

Received(w, wraps, old) ==
  IF sel.type = "box" /\ w \in DOMAIN displ
  THEN extract_selection_from_partial(w, sel, wraps, old)
  ELSE IF sel.type = "block" /\ sel.index = w THEN CopyBlock(w, old) ELSE old

PerformReads ==
  /\ pc = "schedule"
  /\ reads # <<>>
  /\ pc' = "perform"
  /\ UNCHANGED <<layout, reads, sel, userBuf, displ, sendees, mem, flipped>>

(* perform_reads asks the next writer and waits for raw_handler.           *)
RawHandler ==
  /\ pc = "perform"
  /\ sendees # <<>>
  /\ Head(sendees) \in Bridges
  /\ \E wraps \in BOOLEAN :
       mem' = [mem EXCEPT ![userBuf] = Received(Head(sendees), wraps, @)]
  /\ sendees' = Tail(sendees)
  /\ UNCHANGED <<layout, pc, reads, sel, userBuf, displ, flipped>>

PerformReturn ==
  /\ pc = "perform"
  /\ sendees = <<>>
  /\ pc' = "returned"
  /\ sel' = NoSel
  /\ displ' = <<>>
  /\ UNCHANGED <<layout, reads, userBuf, sendees, mem, flipped>>

(* The application has its data and starts the next round of reads.        *)
NextRound ==
  /\ pc = "returned"
  /\ pc' = "schedule"
  /\ reads' = <<>>
  /\ mem' = [i \in 1 .. MaxReads |-> [o \in 0 .. MaxElements |-> Untouched]]
  /\ UNCHANGED <<layout, sel, userBuf, displ, sendees, flipped>>

Next ==
  \/ \E req \in Requests : ScheduleRead(req)
  \/ PerformReads \/ RawHandler \/ PerformReturn \/ NextRound

Spec == Init /\ [][Next]_vars

-----------------------------------------------------------------------------
InBox(x, start, count) == \A d \in Dims : x[d] >= start[d] /\ x[d] < start[d] + count[d]

(* The box the application asked for, in the order of the writers' arrays: *)
(* Fortran lists the dimensions the other way round.                       *)
Wanted(req) ==
  IF req.type = "whole" THEN [start |-> Zero, count |-> GlobalDims]
  ELSE IF Fortran THEN [start |-> reverse_dims(req.start), count |-> reverse_dims(req.count)]
  ELSE [start |-> req.start, count |-> req.count]

(* What the memory of a read has to hold at offset o: an element of some   *)
(* writer that holds the place there, and nothing where nobody does.       *)
Expected(req, o) ==
  LET b == Wanted(req)
      place == ElementAt([offset |-> b.start, count |-> b.count], o)
      holders == {w \in Bridges : InBox(place, layout[w].offset, layout[w].count)}
  IN  IF o < Elements(b.count) /\ holders # {}
      THEN {Element(w, place) : w \in holders} ELSE {Untouched}

Filled(i) ==
  LET req == reads[i] IN
  IF Refused(req) THEN TRUE
  ELSE IF req.type = "block"
  THEN \A o \in 0 .. MaxElements :
         mem[i][o] = IF o < Elements(layout[req.index].count)
                     THEN Data(req.index, o) ELSE Untouched
  ELSE \A o \in 0 .. MaxElements : mem[i][o] \in Expected(req, o)

(* extract_selection_from_partial: "selection is the output, to be filled  *)
(* with the selection array" (read_flexpath.c:841).  When perform_reads    *)
(* returns, the memory of the read scheduled last holds the selection,     *)
(* put together from the parts of the writers, and nothing beside it.      *)
LastReadFilled == pc = "returned" => Filled(Len(reads))

(* need_writer leaves out no writer that holds a part of the selection.    *)
NoHolderMissed ==
  sel.type = "box" =>
    \A w \in Bridges, x \in [Dims -> 0 .. MaxElements] :
      InBox(x, sel.start, sel.count) /\ InBox(x, layout[w].offset, layout[w].count)
        => w \in DOMAIN displ

(* get_writer_displacements describes exactly the elements of the writer's *)
(* block that lie in the selection.                                        *)
DisplacementsExact ==
  sel.type = "box" => \A w \in DOMAIN displ :
    \A k \in 0 .. Elements(layout[w].count) - 1 :
      LET place == ElementAt(layout[w], k) IN
      InBox(place, sel.start, sel.count) <=>
        InBox(map_global_to_local_index(place, layout[w].offset),
              displ[w].start, displ[w].count)
=============================================================================

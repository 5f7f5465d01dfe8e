------------------------- MODULE TransformReadsProofs -------------------------
(* For any stream and any number of reads:                                 *)
(*  - the infos a read is planned with are those of the variable the       *)
(*    program names, through any sequence of views, reads and advances, as *)
(*    long as the group in view begins with the first variable;            *)
(*  - the program gets every read's own data, each chunk once, as long as  *)
(*    the ids of a step name one variable each (OneName).                  *)
(* The second rests on an invariant of three lists that the code keeps in  *)
(* step: BP's list, the request groups and what has been given so far.     *)
EXTENDS TransformReads, FiniteSums

(* The info of the variable that the program calls id.                     *)
VarInfo(id) ==
  [phys |-> VaridMapping(id), trans |-> VaridMapping(id), step |-> step]

(* The cache holds infos of the step the reader is at.                     *)
CacheInv == \A id \in DOMAIN infocache : infocache[id] = VarInfo(id)

OwnInfo(r) == r.info = [phys |-> r.var, trans |-> r.var, step |-> r.step]

InfoInv ==
  /\ CacheInv
  /\ \E S : reads \in Seq(S)
  /\ \A i \in 1 .. Len(reads) : OwnInfo(reads[i])

(* A sequence over S is one over any larger set.                           *)
LEMMA SeqWider ==
  ASSUME NEW S, NEW T, S \subseteq T, NEW q \in Seq(S)
  PROVE  q \in Seq(T)
  OBVIOUS

(* One more read planned with its own infos.                               *)
LEMMA AppendedInfos ==
  ASSUME NEW S, NEW q \in Seq(S), NEW e, OwnInfo(e),
         \A i \in 1 .. Len(q) : OwnInfo(q[i])
  PROVE  /\ \E T : Append(q, e) \in Seq(T)
         /\ \A i \in 1 .. Len(Append(q, e)) : OwnInfo(Append(q, e)[i])
<1> DEFINE T == S \cup {e}
<1>1. q \in Seq(T)
  BY SeqWider
<1>2. e \in T
  OBVIOUS
<1> HIDE DEF T
<1>3. Append(q, e) \in Seq(T)
  BY <1>1, <1>2
<1>4. ASSUME NEW i \in 1 .. Len(Append(q, e))
      PROVE  OwnInfo(Append(q, e)[i])
  <2>1. i \in 1 .. Len(q) \/ i = Len(q) + 1
    BY <1>1, <1>2
  <2>2. CASE i \in 1 .. Len(q)
    <3>1. Append(q, e)[i] = q[i]
      BY <1>1, <1>2, <2>2
    <3> QED
      BY <2>2, <3>1
  <2>3. CASE i = Len(q) + 1
    <3>1. Append(q, e)[i] = e
      BY <1>1, <1>2, <2>3
    <3> QED
      BY <3>1
  <2> QED
    BY <2>1, <2>2, <2>3
<1> QED
  BY <1>3, <1>4

(* With the first group or all of them in view an id is not shifted.       *)
LEMMA InfoOfId ==
  ASSUME CacheInv, Offset = 0, NEW id \in Int
  PROVE  Info(id) = VarInfo(id) /\ VaridMapping(id + Offset) = VaridMapping(id)
<1>1. id + Offset = id
  OBVIOUS
<1>2. VaridMapping(id + Offset) = VaridMapping(id)
  BY <1>1
<1>3. InqInfo(id) = VarInfo(id)
  BY <1>2 DEF InqInfo, VarInfo
<1> QED
  BY <1>2, <1>3 DEF Info, CacheInv

(* The cache after a read: it has one more info, of the same step.         *)
LEMMA ScheduleKeepsInfos ==
  ASSUME InfoInv, Offset = 0, NEW id \in Int, NEW delegated, NEW mem,
         NEW blocks, NEW pieces, Schedule(id, delegated, mem, blocks, pieces)
  PROVE  InfoInv'
<1>1. CacheInv /\ step' = step
  BY DEF InfoInv, Schedule
<1>2. infocache' = [i \in DOMAIN infocache \cup {id} |-> Info(i)]
  BY DEF Schedule
<1>3. \A i \in DOMAIN infocache \cup {id} : Info(i) = VarInfo(i)
  <2>1. \A i \in DOMAIN infocache : Info(i) = VarInfo(i)
    BY <1>1 DEF Info, CacheInv
  <2> QED
    BY <1>1, <2>1, InfoOfId
<1>4. \A i : VarInfo(i)' = VarInfo(i)
  BY <1>1 DEF VarInfo, VaridMapping
<1>5. CacheInv'
  BY <1>2, <1>3, <1>4 DEF CacheInv
<1>6. PICK r : /\ reads' = Append(reads, r)
               /\ r = [id |-> id, var |-> VaridMapping(id + Offset),
                       step |-> step, info |-> Info(id),
                       delegated |-> delegated, mem |-> mem,
                       blocks |-> blocks, pieces |-> pieces]
  BY DEF Schedule
<1>7. r.info = VarInfo(id) /\ r.var = VaridMapping(id) /\ r.step = step
  BY <1>1, <1>6, InfoOfId
<1>8. OwnInfo(r)
  BY <1>7 DEF OwnInfo, VarInfo
<1>9. PICK S : reads \in Seq(S)
  BY DEF InfoInv
<1>10. \A i \in 1 .. Len(reads) : OwnInfo(reads[i])
  BY DEF InfoInv
<1>11. /\ \E T : Append(reads, r) \in Seq(T)
       /\ \A i \in 1 .. Len(Append(reads, r)) : OwnInfo(Append(reads, r)[i])
  BY <1>8, <1>9, <1>10, AppendedInfos
<1> QED
  BY <1>5, <1>6, <1>11 DEF InfoInv

(* Every step keeps the infos right as long as ids are not shifted.        *)
LEMMA InfoStep ==
  ASSUME InfoInv, Offset = 0, [Next]_vars
  PROVE  InfoInv'
<1>0. \A i, j : i \in 0 .. j => i \in Int
  OBVIOUS
<1>1. ASSUME NEW id \in 0 .. nvars - 1, NEW mem \in BOOLEAN,
             \/ \E blocks \in SUBSET (1 .. NBlocks) : ScheduleTransformed(id, mem, blocks)
             \/ \E pieces \in 1 .. NPieces : ScheduleRaw(id, mem, pieces)
      PROVE  InfoInv'
  <2>1. id \in Int
    BY <1>0
  <2>2. \/ \E blocks : Schedule(id, TRUE, mem, blocks, 1)
        \/ \E pieces : Schedule(id, FALSE, mem, {}, pieces)
    BY <1>1 DEF ScheduleTransformed, ScheduleRaw
  <2> QED
    BY <2>1, <2>2, ScheduleKeepsInfos
<1>2. CASE infocache' = Invalidated /\ reads' = reads
  <2>1. CacheInv'
    BY <1>2 DEF CacheInv, Invalidated
  <2> QED
    BY <1>2, <2>1 DEF InfoInv
<1>3. CASE UNCHANGED <<step, infocache, reads>>
  <2>1. \A i : VarInfo(i)' = VarInfo(i)
    BY <1>3 DEF VarInfo, VaridMapping
  <2>2. CacheInv'
    BY <1>3, <2>1 DEF CacheInv, InfoInv
  <2> QED
    BY <1>3, <2>2 DEF InfoInv
<1>4. ASSUME NEW inIndex \in BOOLEAN, AdvanceStep(inIndex)
      PROVE  infocache' = Invalidated /\ reads' = reads
  BY <1>4 DEF AdvanceStep
<1>5. ReadClose => infocache' = Invalidated /\ reads' = reads
  BY DEF ReadClose, history
<1>6. ASSUME NEW v, SetDataView(v) PROVE UNCHANGED <<step, infocache, reads>>
  BY <1>6 DEF SetDataView, history
<1>7. ASSUME NEW g, GroupView(g) PROVE UNCHANGED <<step, infocache, reads>>
  BY <1>7 DEF GroupView, history
<1>8. ASSUME NEW reset, CheckReads(reset) PROVE UNCHANGED <<step, infocache, reads>>
  BY <1>8 DEF CheckReads, history
<1>9. ASSUME (\E failed : PerformReads(failed)) \/ PerformRefused
      PROVE  UNCHANGED <<step, infocache, reads>>
  BY <1>9 DEF PerformReads, PerformRefused, history
<1>10. CheckNothingLeft \/ CheckFailed \/ CheckRaw => UNCHANGED <<step, infocache, reads>>
  BY DEF CheckNothingLeft, CheckFailed, CheckRaw, history
<1>11. CheckSubrequest \/ CheckUnmatched => UNCHANGED <<step, infocache, reads>>
  BY DEF CheckSubrequest, CheckUnmatched, history
<1>12. UNCHANGED vars => UNCHANGED <<step, infocache, reads>>
  BY DEF vars
<1> QED
  BY <1>1, <1>2, <1>3, <1>4, <1>5, <1>6, <1>7, <1>8, <1>9, <1>10, <1>11, <1>12
  DEF Next

(* Before the first read nothing is cached.                                *)
LEMMA InfoInit == Init => InfoInv
<1> SUFFICES ASSUME Init PROVE InfoInv
  OBVIOUS
<1>1. CacheInv
  BY DEF Init, CacheInv
<1>2. reads = <<>>
  BY DEF Init
<1>3. reads \in Seq({}) /\ 1 .. Len(reads) = {}
  BY <1>2
<1> QED
  BY <1>1, <1>3 DEF InfoInv

(* A read is planned with the infos of its own variable in its own step,   *)
(* for any stream, any views and any number of reads, while the group in   *)
(* view begins with the first variable.                                    *)
THEOREM TransformInfoOfVariable == Spec /\ [](Offset = 0) => []InfoOfVariable
<1>1. InfoInv /\ Offset = 0 /\ [Next]_vars => InfoInv'
  BY InfoStep
<1>2. InfoInv => InfoOfVariable
  <2> SUFFICES ASSUME InfoInv PROVE InfoOfVariable
    OBVIOUS
  <2>1. DOMAIN reads = 1 .. Len(reads)
    BY DEF InfoInv
  <2> QED
    BY <2>1 DEF InfoInv, InfoOfVariable, OwnInfo
<1> QED
  BY <1>1, <1>2, InfoInit, PTL DEF Spec

(* Of the full view, and of the first group, no ids are shifted.           *)
LEMMA FirstGroup ==
  ASSUME view \in {-1, 0}
  PROVE  Offset = 0
<1>1. PICK q : q = SubSeq(Present[step], 1, view)
  OBVIOUS
<1>2. Len(q) = 0
  <2>1. 1 .. view = {}
    OBVIOUS
  <2> QED
    BY <1>1, <2>1
<1>3. FlattenSeq(q) = q
  BY <1>2 DEF FlattenSeq
<1> QED
  BY <1>1, <1>2, <1>3 DEF Offset

(* In particular a program that selects no group but the first.            *)
COROLLARY TransformInfoInFirstGroup ==
  ASSUME Views \subseteq {-1, 0}
  PROVE  Spec => []InfoOfVariable
<1>1. Init => view \in {-1, 0}
  BY DEF Init
<1>2. view \in {-1, 0} /\ [Next]_vars => (view \in {-1, 0})'
  <2> SUFFICES ASSUME view \in {-1, 0}, [Next]_vars PROVE view' \in {-1, 0}
    OBVIOUS
  <2>1. ASSUME NEW g \in Views, GroupView(g) PROVE view' \in {-1, 0}
    BY <2>1 DEF GroupView
  <2> QED
    BY <2>1, ZenonT(60) DEF Next, vars, viewVars, history, SetDataView, ScheduleTransformed,
       ScheduleRaw, Schedule, PerformReads, PerformRefused, CheckReads,
       CheckNothingLeft, CheckFailed, CheckRaw, CheckSubrequest, CheckUnmatched,
       AdvanceStep, ReadClose
<1>3. view \in {-1, 0} => Offset = 0
  BY FirstGroup
<1> QED
  BY <1>1, <1>2, <1>3, TransformInfoOfVariable, PTL DEF Spec

-----------------------------------------------------------------------------
(* Sequences in the order of their places.                                 *)

(* What Ascending lists.                                                   *)
LEMMA AscendingLists ==
  ASSUME NEW N \in Nat, NEW S \in SUBSET (1 .. N)
  PROVE  /\ Cardinality(S) \in Nat
         /\ DOMAIN Ascending(S) = 1 .. Cardinality(S)
         /\ \A i \in 1 .. Cardinality(S) : Ascending(S)[i] \in S
         /\ \A i, j \in 1 .. Cardinality(S) : i < j => Ascending(S)[i] < Ascending(S)[j]
         /\ \A x \in S : \E i \in 1 .. Cardinality(S) : Ascending(S)[i] = x
<1> DEFINE c == Cardinality(S)
           upto(x) == {m \in S : m <= x}
           rank == [x \in S |-> Cardinality(upto(x))]
           T == {rank[x] : x \in S}
<1>0. \A x \in S : x \in Nat
  OBVIOUS
<1>1. IsFiniteSet(S) /\ c \in Nat
  <2>1. IsFiniteSet(1 .. N)
    BY FS_Interval
  <2> QED
    BY <2>1, FS_Subset, FS_CardinalityType
<1>2. \A x \in S : IsFiniteSet(upto(x)) /\ rank[x] \in Nat /\ rank[x] <= c
  BY <1>1, FS_Subset, FS_CardinalityType
<1>3. \A x \in S : rank[x] # 0
  <2> SUFFICES ASSUME NEW x \in S PROVE Cardinality(upto(x)) # 0
    OBVIOUS
  <2>1. x \in upto(x)
    OBVIOUS
  <2> QED
    BY <1>2, <2>1, FS_EmptySet
<1>4. \A x, y \in S : x < y => rank[x] < rank[y]
  <2> SUFFICES ASSUME NEW x \in S, NEW y \in S, x < y
               PROVE  Cardinality(upto(x)) < Cardinality(upto(y))
    OBVIOUS
  <2>1. upto(x) \subseteq upto(y) /\ y \in upto(y) /\ y \notin upto(x)
    <3>1. x \in Nat /\ y \in Nat
      BY <1>0
    <3>2. \A m \in Nat : m <= x => m <= y
      BY <3>1
    <3>3. x <= x /\ y <= y /\ ~(y <= x)
      BY <3>1
    <3> QED
      BY <1>0, <3>2, <3>3
  <2>2. upto(x) # upto(y)
    BY <2>1
  <2> QED
    BY <1>2, <2>1, <2>2, FS_Subset
<1>5. \A x, y \in S : rank[x] = rank[y] => x = y
  BY <1>2, <1>4
<1> HIDE DEF rank
<1>6. IsFiniteSet(T) /\ Cardinality(T) = c
  BY <1>1, <1>5, ImageSize
<1>7. T \subseteq 1 .. c
  <2>1. \A n \in Nat : n <= c /\ n # 0 => n \in 1 .. c
    BY <1>1
  <2> QED
    BY <1>2, <1>3, <2>1
<1>8. IsFiniteSet(1 .. c) /\ Cardinality(1 .. c) = c
  BY <1>1, FS_Interval
<1>9. T = 1 .. c
  BY <1>6, <1>7, <1>8, FS_Subset
<1>10. \A x \in S : rank[x] = Cardinality({m \in S : m <= x})
  BY DEF rank
<1>11. \A i \in 1 .. c : /\ Ascending(S)[i] \in S
                         /\ rank[Ascending(S)[i]] = i
  <2> SUFFICES ASSUME NEW i \in 1 .. c
               PROVE  Ascending(S)[i] \in S /\ rank[Ascending(S)[i]] = i
    OBVIOUS
  <2>1. \E x \in S : rank[x] = i
    BY <1>9
  <2>2. Ascending(S)[i] = CHOOSE x \in S : Cardinality({m \in S : m <= x}) = i
    BY DEF Ascending
  <2> QED
    BY <1>10, <2>1, <2>2
<1>12. ASSUME NEW i \in 1 .. c, NEW j \in 1 .. c, i < j
       PROVE  Ascending(S)[i] < Ascending(S)[j]
  <2> DEFINE a == Ascending(S)[i]
             b == Ascending(S)[j]
  <2>1. a \in S /\ b \in S /\ rank[a] = i /\ rank[b] = j
    BY <1>11
  <2> HIDE DEF a, b
  <2>2. a \in Nat /\ b \in Nat
    BY <1>0, <2>1
  <2>3. ~(b < a) /\ a # b
    BY <1>4, <1>12, <2>1
  <2>4. a < b
    BY <2>2, <2>3
  <2> QED
    BY <2>4 DEF a, b
<1>13. \A x \in S : rank[x] \in 1 .. c /\ Ascending(S)[rank[x]] = x
  BY <1>5, <1>7, <1>11
<1> QED
  BY <1>1, <1>11, <1>12, <1>13 DEF Ascending

(* The elements of a sequence at some of its places, in their order.       *)
At(q, a) == [k \in DOMAIN a |-> q[a[k]]]

(* Picking the elements at some places keeps their order and loses none.   *)
LEMMA KeptInOrder ==
  ASSUME NEW S, NEW q \in Seq(S), NEW places \in SUBSET (1 .. Len(q)),
         NEW a, a = Ascending(places), NEW p, p = At(q, a)
  PROVE  /\ p \in Seq(S)
         /\ \A k \in 1 .. Len(p) : a[k] \in places /\ p[k] = q[a[k]]
         /\ \A j, k \in 1 .. Len(p) : j < k => a[j] < a[k]
         /\ \A i \in places : \E k \in 1 .. Len(p) : a[k] = i
<1>1. PICK c : c = Cardinality(places)
  OBVIOUS
<1>2. Len(q) \in Nat
  OBVIOUS
<1>3. /\ c \in Nat /\ DOMAIN a = 1 .. c
      /\ \A k \in 1 .. c : a[k] \in places
      /\ \A j, k \in 1 .. c : j < k => a[j] < a[k]
      /\ \A i \in places : \E k \in 1 .. c : a[k] = i
  BY <1>1, <1>2, AscendingLists
<1>4. p = [k \in 1 .. c |-> q[a[k]]] /\ \A i \in places : q[i] \in S
  BY <1>3 DEF At
<1>5. p \in [1 .. c -> S]
  BY ONLY <1>3, <1>4
<1>6. p \in Seq(S) /\ Len(p) = c
  BY ONLY <1>3, <1>5
<1>7. \A k \in 1 .. c : p[k] = q[a[k]]
  BY ONLY <1>4
<1> QED
  BY ONLY <1>3, <1>6, <1>7

(* The place i of a list of n blocks of m segments each.                   *)
LEMMA Quotient ==
  ASSUME NEW m \in Nat \ {0}, NEW n \in Nat, NEW i \in 1 .. n * m
  PROVE  ((i - 1) \div m) + 1 \in 1 .. n /\ ((i - 1) % m) + 1 \in 1 .. m
         /\ i = ((i - 1) \div m) * m + ((i - 1) % m) + 1
<1>1. i - 1 \in Nat /\ i - 1 < n * m
  OBVIOUS
<1> QED
  BY <1>1
(* And the place of segment b of block a.                                  *)
LEMMA QuotientOf ==
  ASSUME NEW m \in Nat \ {0}, NEW n \in Nat, NEW a \in 1 .. n, NEW b \in 1 .. m,
         NEW i, i = (a - 1) * m + b
  PROVE  i \in 1 .. n * m /\ ((i - 1) \div m) + 1 = a /\ ((i - 1) % m) + 1 = b
<1> QED
  OBVIOUS

(* Among the reads R, those of one step use one id for one variable. This  *)
(* is what matching a chunk by variable id and selection rests on: a       *)
(* program that reads a variable through a group's view and through the    *)
(* full view, under two ids, is not covered.                               *)
OneNameIn(R) ==
  \A i, j \in DOMAIN R :
    R[i].step = R[j].step => (R[i].id = R[j].id <=> R[i].var = R[j].var)

OneName == OneNameIn(reads)

(* The fields of a recorded read.                                          *)
ReadOk(r) ==
  /\ r.delegated \in BOOLEAN /\ r.mem \in BOOLEAN
  /\ r.blocks \subseteq 1 .. NBlocks
  /\ r.pieces \in 1 .. NPieces
  /\ r.mem => r.pieces = 1

(* The reads R up to step st, in the order of their steps.                 *)
ReadsOk(R, st) ==
  /\ \E S : R \in Seq(S)
  /\ st \in Nat
  /\ \A i \in 1 .. Len(R) : ReadOk(R[i]) /\ R[i].step \in 1 .. st
  /\ \A i, j \in 1 .. Len(R) : i <= j => R[i].step <= R[j].step

(* Transformed reads that were pending at an advance are of earlier steps. *)
LostOk(R, st, L) ==
  \A n \in L : n \in 1 .. Len(R) /\ (R[n].delegated => R[n].step < st)

(* An entry of BP's list belongs to a recorded read: a subrequest of it if *)
(* the transform layer delegated it, else the read itself.  The read is of *)
(* this step, or lost.                                                     *)
EntryOk(R, st, L, e) ==
  /\ e = [rid |-> e.rid, varid |-> e.varid, mem |-> e.mem, left |-> e.left,
          sel |-> e.sel]
  /\ e.rid \in 1 .. Len(R)
  /\ e.varid = R[e.rid].var
  /\ R[e.rid].delegated =>
       e.mem = TRUE /\ e.sel \in Subrequests(R[e.rid])
  /\ ~R[e.rid].delegated =>
       e.sel = UserSelection /\ (R[e.rid].mem => e.mem) /\ e.left \in 1 .. R[e.rid].pieces
  /\ R[e.rid].step = st \/ e.rid \in L

(* BP's list B has the latest read in front, and an entry only once.       *)
EntriesOk(R, st, L, B) ==
  /\ \E S : B \in Seq(S)
  /\ \A k \in 1 .. Len(B) : EntryOk(R, st, L, B[k])
  /\ \A j, k \in 1 .. Len(B) : j < k =>
       B[k].rid <= B[j].rid /\ (B[k].rid = B[j].rid => B[k].sel # B[j].sel)

(* A request group belongs to a delegated read, and is stale when that is  *)
(* of an earlier step.                                                     *)
GroupOk(R, st, g) ==
  /\ g = [rid |-> g.rid, varid |-> g.varid, mem |-> g.mem, blocks |-> g.blocks,
          done |-> g.done, filled |-> g.filled, stale |-> g.stale]
  /\ g.rid \in 1 .. Len(R)
  /\ R[g.rid].delegated
  /\ g.varid = R[g.rid].id /\ g.mem = R[g.rid].mem
  /\ g.blocks = R[g.rid].blocks /\ g.blocks # {}
  /\ g.done \subseteq Subrequests(g)
  /\ g.stale \in BOOLEAN /\ (g.stale <=> R[g.rid].step # st)

(* The request groups G, the latest read's in front.                       *)
GroupsOk(R, st, G) ==
  /\ \E S : G \in Seq(S)
  /\ \A i \in 1 .. Len(G) : GroupOk(R, st, G[i])
  /\ \A i, j \in 1 .. Len(G) : i < j => G[j].rid < G[i].rid

(* The selections that BP's list B still has of read n.                    *)
Pend(B, n) == {B[k].sel : k \in {j \in 1 .. Len(B) : B[j].rid = n}}

(* What a buffer of read r holds when segment s was read into it.          *)
Data(r, s) == [sel |-> s, var |-> r.var, step |-> r.step]
Filled(r, S) == {Data(r, s) : s \in S}

(* BP's list and the groups agree: a live group whose ids coincide waits   *)
(* for exactly the entries its read has in the list and has filled the     *)
(* others, and every such entry has a group waiting for it.                *)
MatchOk(R, G, B) ==
  /\ \A i \in 1 .. Len(G) : SameId(R[G[i].rid]) /\ ~G[i].stale =>
       /\ Pend(B, G[i].rid) = Subrequests(G[i]) \ G[i].done
       /\ G[i].filled = Filled(R[G[i].rid], G[i].done)
  /\ \A k \in 1 .. Len(B) : R[B[k].rid].delegated /\ SameId(R[B[k].rid]) =>
       \E i \in 1 .. Len(G) : G[i].rid = B[k].rid /\ B[k].sel \notin G[i].done

(* Every block in T was made from its own read's buffers.                  *)
GotOk(R, T) ==
  \A x \in T :
    /\ x.rid \in 1 .. Len(R) /\ R[x.rid].delegated
    /\ SameId(R[x.rid]) => x.data = Filled(R[x.rid], Segments(x.block))

(* The blocks of T that were decoded for read n.                           *)
BlocksIn(T, n) == {x.block : x \in {y \in T : y.rid = n}}

(* A read with memory that has been returned is whole.                     *)
WholeOk(R, T, D, C) ==
  /\ D \in [1 .. MaxReads -> Nat]
  /\ \A n \in 1 .. Len(R) :
       R[n].delegated /\ SameId(R[n]) /\ R[n].mem /\ D[n] > 0 =>
         BlocksIn(T, n) = R[n].blocks \ C

(* What has been returned and decoded so far is what BP's list no longer   *)
(* has of each read.                                                       *)
AnsweredOk(R, L, B, T, D, C) ==
  /\ \A n \in 1 .. MaxReads : n > Len(R) => D[n] = 0
  /\ \A n \in 1 .. Len(R) : R[n].delegated /\ SameId(R[n]) /\ n \notin L =>
       /\ BlocksIn(T, n) = {b \in R[n].blocks \ C : Segments(b) \cap Pend(B, n) = {}}
       /\ R[n].blocks \cap C = {} =>
            D[n] = IF R[n].mem
                   THEN IF Pend(B, n) = {} /\ R[n].blocks # {} THEN 1 ELSE 0
                   ELSE Cardinality(BlocksIn(T, n))
  /\ \A k \in 1 .. Len(B) : ~R[B[k].rid].delegated =>
       D[B[k].rid] = R[B[k].rid].pieces - B[k].left
  /\ \A n \in 1 .. Len(R) : ~R[n].delegated /\ n \notin L /\ Pend(B, n) = {} =>
       D[n] = R[n].pieces

(* The bounds are positive numbers.                                        *)
LEMMA Bounds ==
  /\ NBlocks \in Nat \ {0} /\ NSubs \in Nat \ {0}
  /\ NPieces \in Nat \ {0} /\ MaxReads \in Nat \ {0}
  BY TransformAssumption

(* The segments of the blocks of a read.                                   *)
LEMMA SubrequestsAre ==
  ASSUME NEW r
  PROVE  \A s : s \in Subrequests(r) <=>
           \E b \in r.blocks, k \in 1 .. NSubs : s = <<b, k>>
  BY DEF Subrequests, Segments

(* The list q has each segment of read r once.                             *)
RawList(rid, v, r, q) ==
  /\ \E S : q \in Seq(S)
  /\ \A k \in 1 .. Len(q) :
       /\ q[k] = [rid |-> rid, varid |-> v, mem |-> TRUE, left |-> 1,
                  sel |-> q[k].sel]
       /\ q[k].sel \in Subrequests(r)
  /\ \A j, k \in 1 .. Len(q) : j < k => q[k].sel # q[j].sel
  /\ \A s \in Subrequests(r) : \E k \in 1 .. Len(q) : q[k].sel = s

(* RawReads makes such a list.                                             *)
LEMMA RawReadsList ==
  ASSUME NEW rid, NEW v, NEW r, r.blocks \subseteq 1 .. NBlocks,
         NEW q, q = RawReads(rid, v, r.blocks)
  PROVE  RawList(rid, v, r, q)
<1> DEFINE order == Ascending(r.blocks)
           c == Cardinality(r.blocks)
           n == c * NSubs
           bl(i) == ((i - 1) \div NSubs) + 1
           sg(i) == ((i - 1) % NSubs) + 1
           e(i) == [rid |-> rid, varid |-> v, mem |-> TRUE, left |-> 1,
                    sel |-> <<order[bl(i)], sg(i)>>]
<1>1. /\ c \in Nat /\ DOMAIN order = 1 .. c
      /\ \A i \in 1 .. c : order[i] \in r.blocks
      /\ \A i, j \in 1 .. c : i < j => order[i] < order[j]
      /\ \A x \in r.blocks : \E i \in 1 .. c : order[i] = x
  BY Bounds, AscendingLists
<1>2. \A b \in r.blocks : b \in Nat
  BY Bounds
<1>3. Len(order) = c
  <2>1. order \in [1 .. c -> r.blocks]
    BY <1>1 DEF Ascending
  <2> QED
    BY <1>1, <2>1
<1>4. q = [i \in 1 .. n |-> e(i)]
  BY <1>3 DEF RawReads
<1>5. n \in Nat
  BY <1>1, Bounds
<1>6. \A i \in 1 .. n : /\ bl(i) \in 1 .. c /\ sg(i) \in 1 .. NSubs
                        /\ i = (bl(i) - 1) * NSubs + sg(i)
  <2> SUFFICES ASSUME NEW i \in 1 .. n
               PROVE  /\ bl(i) \in 1 .. c /\ sg(i) \in 1 .. NSubs
                      /\ i = (bl(i) - 1) * NSubs + sg(i)
    OBVIOUS
  <2>1. /\ bl(i) \in 1 .. c /\ sg(i) \in 1 .. NSubs
        /\ i = ((i - 1) \div NSubs) * NSubs + ((i - 1) % NSubs) + 1
    BY <1>1, Bounds, Quotient
  <2>2. (i - 1) \div NSubs \in Int /\ (i - 1) % NSubs \in Int
    BY Bounds
  <2> QED
    BY <2>1, <2>2, Bounds
<1>7. \A a \in 1 .. c, k \in 1 .. NSubs :
        \E i \in 1 .. n : bl(i) = a /\ sg(i) = k
  <2> SUFFICES ASSUME NEW a \in 1 .. c, NEW k \in 1 .. NSubs
               PROVE  \E i \in 1 .. n : bl(i) = a /\ sg(i) = k
    OBVIOUS
  <2>1. PICK i : i = (a - 1) * NSubs + k
    OBVIOUS
  <2>2. /\ i \in 1 .. c * NSubs
        /\ ((i - 1) \div NSubs) + 1 = a /\ ((i - 1) % NSubs) + 1 = k
    <3>1. c \in Nat /\ NSubs \in Nat \ {0}
      BY <1>1, Bounds
    <3> HIDE DEF c
    <3> QED
      BY ONLY <2>1, <3>1, QuotientOf, a \in 1 .. c, k \in 1 .. NSubs
  <2> QED
    BY <2>2
<1> HIDE DEF order, c, n, bl, sg
<1>8. (\E S : q \in Seq(S)) /\ Len(q) = n
  <2>1. PICK T : T = {e(i) : i \in 1 .. n}
    OBVIOUS
  <2>2. q \in [1 .. n -> T]
    BY <1>4, <2>1
  <2> HIDE DEF e
  <2>3. q \in Seq(T) /\ Len(q) = n
    BY <1>5, <2>2
  <2> QED
    BY <2>3
<1>9. \A i \in 1 .. n : q[i] = e(i) /\ q[i].sel = <<order[bl(i)], sg(i)>>
  BY <1>4
<1>10. \A i \in 1 .. n : order[bl(i)] \in r.blocks /\ sg(i) \in 1 .. NSubs
  BY <1>1, <1>6
<1>11. \A i \in 1 .. n : q[i].sel \in Subrequests(r)
  BY <1>9, <1>10, SubrequestsAre
<1>12. ASSUME NEW j \in 1 .. n, NEW k \in 1 .. n, j < k, q[k].sel = q[j].sel
       PROVE  FALSE
  <2>1. order[bl(j)] = order[bl(k)] /\ sg(j) = sg(k)
    <3>1. <<order[bl(j)], sg(j)>> = <<order[bl(k)], sg(k)>>
      BY <1>9, <1>12
    <3> QED
      BY ONLY <3>1
  <2>2. bl(j) = bl(k)
    <3>1. bl(j) \in 1 .. c /\ bl(k) \in 1 .. c
      BY <1>6
    <3>2. order[bl(j)] \in Nat /\ order[bl(k)] \in Nat
      BY <1>1, <1>2, <3>1
    <3>3. ~(bl(j) < bl(k)) /\ ~(bl(k) < bl(j))
      BY <1>1, <2>1, <3>1, <3>2
    <3> QED
      BY <3>1, <3>3, <1>1
  <2>3. j = k
    BY <1>6, <2>1, <2>2
  <2> QED
    BY <1>5, <1>12, <2>3
<1>13. ASSUME NEW s \in Subrequests(r)
       PROVE  \E k \in 1 .. n : q[k].sel = s
  <2>1. PICK b \in r.blocks, k \in 1 .. NSubs : s = <<b, k>>
    BY <1>13, SubrequestsAre
  <2>2. PICK a \in 1 .. c : order[a] = b
    BY <1>1
  <2>3. PICK i \in 1 .. n : bl(i) = a /\ sg(i) = k
    BY <1>7
  <2> QED
    BY <1>9, <2>1, <2>2, <2>3
<1>14. \A k \in 1 .. n :
         q[k] = [rid |-> rid, varid |-> v, mem |-> TRUE, left |-> 1,
                 sel |-> q[k].sel]
  BY <1>9
<1> HIDE DEF e
<1> QED
  BY <1>8, <1>11, <1>12, <1>13, <1>14 DEF RawList

-----------------------------------------------------------------------------
(* BP's list.                                                              *)

(* Membership in Pend, as the proofs use it.                               *)
LEMMA PendIs ==
  ASSUME NEW B, NEW n, NEW s
  PROVE  s \in Pend(B, n) <=> \E k \in 1 .. Len(B) : B[k].rid = n /\ B[k].sel = s
  BY DEF Pend

(* Types of the recorded reads.                                            *)
LEMMA ReadsAre ==
  ASSUME NEW R, NEW st, ReadsOk(R, st)
  PROVE  /\ Len(R) \in Nat /\ DOMAIN R = 1 .. Len(R)
         /\ \A n \in 1 .. Len(R) : n \in Nat /\ ReadOk(R[n])
         /\ \A n \in 1 .. Len(R) : R[n].pieces \in Nat /\ R[n].step \in Nat
         /\ \A n \in 1 .. Len(R) : R[n].step <= st
         /\ st \in Nat
<1>1. Len(R) \in Nat /\ DOMAIN R = 1 .. Len(R) /\ st \in Nat
  BY DEF ReadsOk
<1>2. \A n \in 1 .. Len(R) : n \in Nat /\ ReadOk(R[n])
  BY <1>1 DEF ReadsOk
<1>3. \A n \in 1 .. Len(R) : R[n].pieces \in Nat
  BY <1>2, Bounds DEF ReadOk
<1>4. \A n \in 1 .. Len(R) : R[n].step \in Nat /\ R[n].step <= st
  <2>1. \A k \in 1 .. st : k \in Nat /\ k <= st
    BY <1>1
  <2> QED
    BY <2>1 DEF ReadsOk
<1> QED
  BY <1>1, <1>2, <1>3, <1>4

(* The empty list.                                                         *)
LEMMA NoEntries ==
  ASSUME NEW R, NEW st, NEW L
  PROVE  EntriesOk(R, st, L, <<>>) /\ \A n : Pend(<<>>, n) = {}
<1>1. <<>> \in Seq({}) /\ 1 .. Len(<<>>) = {}
  OBVIOUS
<1>2. (\E S : <<>> \in Seq(S)) /\ \A k \in 1 .. Len(<<>>) : FALSE
  BY <1>1
<1> QED
  BY <1>2 DEF EntriesOk, Pend

(* BP's list B without its head h.                                         *)
PendBut(B, C, m) == \A n : n # m => Pend(C, n) = Pend(B, n)

HeadIs(R, st, L, B, h, C) ==
  /\ Len(B) \in Nat /\ 1 \in 1 .. Len(B) /\ h = B[1]
  /\ EntryOk(R, st, L, h)
  /\ EntriesOk(R, st, L, C)
  /\ \A k \in 1 .. Len(B) : B[k].rid <= h.rid
  /\ \A k \in 1 .. Len(C) : k + 1 \in 1 .. Len(B) /\ C[k] = B[k + 1]
  /\ PendBut(B, C, h.rid)
  /\ h.sel \in Pend(B, h.rid)
  /\ Pend(C, h.rid) = Pend(B, h.rid) \ {h.sel}

(* The head of the list is the last of the reads that are left in it.      *)
LEMMA HeadServed ==
  ASSUME NEW R, NEW st, NEW L, NEW B, EntriesOk(R, st, L, B), B # <<>>,
         ReadsOk(R, st), NEW h, h = Head(B), NEW C, C = Tail(B)
  PROVE  HeadIs(R, st, L, B, h, C)
<1>1. PICK S : B \in Seq(S)
  BY DEF EntriesOk
<1>2. /\ Len(B) \in Nat /\ 1 \in 1 .. Len(B) /\ h = B[1]
      /\ C \in Seq(S) /\ Len(C) = Len(B) - 1
  BY <1>1
<1>3. \A k \in 1 .. Len(C) : k + 1 \in 1 .. Len(B) /\ C[k] = B[k + 1]
  BY <1>1, <1>2
<1>4. \A k \in 1 .. Len(B) : EntryOk(R, st, L, B[k])
  BY DEF EntriesOk
<1>5. \A j, k \in 1 .. Len(B) : j < k =>
        B[k].rid <= B[j].rid /\ (B[k].rid = B[j].rid => B[k].sel # B[j].sel)
  BY DEF EntriesOk
<1>6. EntriesOk(R, st, L, C)
  <2>1. \A k \in 1 .. Len(C) : EntryOk(R, st, L, C[k])
    BY <1>3, <1>4
  <2>2. ASSUME NEW j \in 1 .. Len(C), NEW k \in 1 .. Len(C), j < k
        PROVE  /\ C[k].rid <= C[j].rid
               /\ C[k].rid = C[j].rid => C[k].sel # C[j].sel
    <3>1. j + 1 < k + 1 /\ j + 1 \in 1 .. Len(B) /\ k + 1 \in 1 .. Len(B)
      BY <1>3, <2>2
    <3> QED
      BY <1>3, <1>5, <3>1
  <2> QED
    BY <1>2, <2>1, <2>2 DEF EntriesOk
<1>7. \A k \in 1 .. Len(B) : B[k].rid <= B[1].rid
  <2> SUFFICES ASSUME NEW k \in 1 .. Len(B) PROVE B[k].rid <= B[1].rid
    OBVIOUS
  <2>1. CASE k = 1
    <3>1. B[k].rid \in Nat
      BY <1>4, ReadsAre DEF EntryOk
    <3> QED
      BY <2>1, <3>1
  <2>2. CASE k # 1
    BY <1>2, <1>5, <2>2
  <2> QED
    BY <2>1, <2>2
<1>8. \A k \in 1 .. Len(B) : k = 1 \/ \E j \in 1 .. Len(C) : k = j + 1
  <2> SUFFICES ASSUME NEW k \in 1 .. Len(B), k # 1
               PROVE  \E j \in 1 .. Len(C) : k = j + 1
    OBVIOUS
  <2>1. k - 1 \in 1 .. Len(C) /\ k = (k - 1) + 1
    BY <1>2
  <2> QED
    BY <2>1
<1>9. ASSUME NEW n, NEW s
      PROVE  s \in Pend(B, n) <=>
               \/ n = B[1].rid /\ s = B[1].sel
               \/ s \in Pend(C, n)
  <2>1. s \in Pend(B, n) <=> \E k \in 1 .. Len(B) : B[k].rid = n /\ B[k].sel = s
    BY ONLY PendIs
  <2>2. s \in Pend(C, n) <=>
          \E k \in 1 .. Len(C) : C[k].rid = n /\ C[k].sel = s
    BY ONLY PendIs
  <2> HIDE DEF Pend
  <2>3. ASSUME s \in Pend(B, n)
        PROVE  (n = B[1].rid /\ s = B[1].sel) \/ s \in Pend(C, n)
    BY <1>3, <1>8, <2>1, <2>2, <2>3
  <2>4. ASSUME (n = B[1].rid /\ s = B[1].sel) \/ s \in Pend(C, n)
        PROVE  s \in Pend(B, n)
    BY <1>2, <1>3, <2>1, <2>2, <2>4
  <2> QED
    BY <2>3, <2>4
<1>10. B[1].sel \notin Pend(C, B[1].rid)
  <2>1. \A k \in 1 .. Len(C) : 1 < k + 1
    OBVIOUS
  <2>2. \A k \in 1 .. Len(C) :
          C[k].rid = B[1].rid => C[k].sel # B[1].sel
    BY <1>2, <1>3, <1>5, <2>1
  <2>3. B[1].sel \in Pend(C, B[1].rid) =>
          \E k \in 1 .. Len(C) :
            C[k].rid = B[1].rid /\ C[k].sel = B[1].sel
    BY ONLY PendIs
  <2> QED
    BY <2>2, <2>3
<1>11. \A n : n # B[1].rid => Pend(C, n) = Pend(B, n)
  <2> SUFFICES ASSUME NEW n, n # B[1].rid PROVE Pend(C, n) = Pend(B, n)
    OBVIOUS
  <2>1. \A s : s \in Pend(B, n) <=> s \in Pend(C, n)
    BY <1>9
  <2> QED
    BY <2>1
<1>12. /\ B[1].sel \in Pend(B, B[1].rid)
       /\ Pend(C, B[1].rid) = Pend(B, B[1].rid) \ {B[1].sel}
  BY <1>9, <1>10
<1> QED
  BY <1>2, <1>3, <1>4, <1>6, <1>7, <1>11, <1>12 DEF HeadIs, PendBut

(* BP's list B with another entry of the same read at its head.            *)
WithHead(B, d) == [k \in 1 .. Len(B) |-> IF k = 1 THEN d ELSE B[k]]

(* What that changes.                                                      *)
HeadChanged(R, st, L, B, d, C) ==
  /\ EntriesOk(R, st, L, C)
  /\ Len(C) = Len(B) /\ C[1] = d
  /\ \A k \in 1 .. Len(B) : k # 1 => C[k] = B[k]
  /\ \A k \in 1 .. Len(B) : C[k].rid = B[k].rid /\ C[k].sel = B[k].sel
  /\ \A n : Pend(C, n) = Pend(B, n)

(* It leaves the list in order.                                            *)
LEMMA HeadReplaced ==
  ASSUME NEW R, NEW st, NEW L, NEW B, EntriesOk(R, st, L, B), B # <<>>,
         NEW d, EntryOk(R, st, L, d), d.rid = B[1].rid, d.sel = B[1].sel,
         NEW C, C = WithHead(B, d)
  PROVE  HeadChanged(R, st, L, B, d, C)
<1>1. PICK S : B \in Seq(S)
  BY DEF EntriesOk
<1>2. Len(B) \in Nat /\ 1 \in 1 .. Len(B)
  BY <1>1
<1>3. \A k \in 1 .. Len(B) : EntryOk(R, st, L, B[k])
  BY DEF EntriesOk
<1>4. C[1] = d /\ \A k \in 1 .. Len(B) : k # 1 => C[k] = B[k]
  BY <1>2 DEF WithHead
<1>5. \E T : C \in Seq(T) /\ Len(C) = Len(B)
  <2>1. \A k \in 1 .. Len(B) : B[k] \in S
    BY <1>1
  <2>2. PICK T : T = S \cup {d}
    OBVIOUS
  <2>3. C \in [1 .. Len(B) -> T]
    BY <2>1, <2>2 DEF WithHead
  <2>4. C \in Seq(T) /\ Len(C) = Len(B)
    BY ONLY <1>2, <2>3
  <2> QED
    BY <2>4
<1>6. \A k \in 1 .. Len(B) : C[k].rid = B[k].rid /\ C[k].sel = B[k].sel
  BY <1>4
<1>7. EntriesOk(R, st, L, C)
  <2>1. \A k \in 1 .. Len(B) : EntryOk(R, st, L, C[k])
    BY <1>3, <1>4
  <2> QED
    BY <1>5, <1>6, <2>1 DEF EntriesOk
<1>8. ASSUME NEW n PROVE Pend(C, n) = Pend(B, n)
  <2>1. ASSUME NEW s PROVE s \in Pend(C, n) <=> s \in Pend(B, n)
    <3>1. s \in Pend(B, n) <=> \E k \in 1 .. Len(B) : B[k].rid = n /\ B[k].sel = s
      BY ONLY PendIs
    <3>2. s \in Pend(C, n) <=> \E k \in 1 .. Len(C) : C[k].rid = n /\ C[k].sel = s
      BY ONLY PendIs
    <3> QED
      BY <1>5, <1>6, <3>1, <3>2
  <2> QED
    BY <2>1
<1> QED
  BY <1>4, <1>5, <1>6, <1>7, <1>8 DEF HeadChanged

(* Records with the same fields are equal when their fields are.           *)
LEMMA RecordSame ==
  ASSUME NEW F, NEW x, NEW y, x = [k \in F |-> x[k]], y = [k \in F |-> y[k]],
         \A k \in F : x[k] = y[k]
  PROVE  x = y
  OBVIOUS

(* An entry of BP's list with another field, spelt out.                    *)
LEMMA EntryUpdated ==
  ASSUME NEW a, NEW b, NEW c, NEW n, NEW s, NEW h, NEW v,
         h = [rid |-> a, varid |-> b, mem |-> c, left |-> n, sel |-> s]
  PROVE  /\ [h EXCEPT !.mem = v] =
              [rid |-> a, varid |-> b, mem |-> v, left |-> n, sel |-> s]
         /\ [h EXCEPT !.left = v] =
              [rid |-> a, varid |-> b, mem |-> c, left |-> v, sel |-> s]
<1>1. PICK F : F = {"rid", "varid", "mem", "left", "sel"}
  OBVIOUS
<1>2. h = [k \in F |-> h[k]] /\ DOMAIN h = F
  BY <1>1
<1>3. [h EXCEPT !.mem = v] =
        [rid |-> a, varid |-> b, mem |-> v, left |-> n, sel |-> s]
  <2>1. PICK x, y : /\ x = [h EXCEPT !.mem = v]
                    /\ y = [rid |-> a, varid |-> b, mem |-> v, left |-> n, sel |-> s]
    OBVIOUS
  <2>2. x = [k \in F |-> x[k]] /\ y = [k \in F |-> y[k]]
    BY <1>1, <1>2, <2>1
  <2>3. \A k \in F : x[k] = y[k]
    BY <1>1, <1>2, <2>1
  <2> QED
    BY <2>1, <2>2, <2>3, RecordSame
<1>4. [h EXCEPT !.left = v] =
        [rid |-> a, varid |-> b, mem |-> c, left |-> v, sel |-> s]
  <2>1. PICK x, y : /\ x = [h EXCEPT !.left = v]
                    /\ y = [rid |-> a, varid |-> b, mem |-> c, left |-> v, sel |-> s]
    OBVIOUS
  <2>2. x = [k \in F |-> x[k]] /\ y = [k \in F |-> y[k]]
    BY <1>1, <1>2, <2>1
  <2>3. \A k \in F : x[k] = y[k]
    BY <1>1, <1>2, <2>1
  <2> QED
    BY <2>1, <2>2, <2>3, RecordSame
<1> QED
  BY <1>3, <1>4

(* A read that is split stays at the head until its last piece, each of    *)
(* which is without memory at first.                                       *)
OnePieceLess(B) == [B EXCEPT ![1].left = @ - 1, ![1].mem = FALSE]

(* What serving one piece of a split read changes.                         *)
PieceIs(R, st, L, B, C) ==
  /\ EntriesOk(R, st, L, C)
  /\ Len(C) = Len(B)
  /\ \A k \in 1 .. Len(B) : C[k].rid = B[k].rid /\ C[k].sel = B[k].sel
  /\ \A k \in 1 .. Len(B) : k # 1 => C[k] = B[k]
  /\ C[1].left = B[1].left - 1
  /\ \A n : Pend(C, n) = Pend(B, n)

(* It leaves the list in order.                                            *)
LEMMA PieceServed ==
  ASSUME NEW R, NEW st, NEW L, NEW B, EntriesOk(R, st, L, B), B # <<>>,
         ReadsOk(R, st), NEW h, h = Head(B), ~R[h.rid].delegated, h.left > 1,
         NEW C, C = OnePieceLess(B)
  PROVE  PieceIs(R, st, L, B, C)
<1>1. PICK S : B \in Seq(S)
  BY DEF EntriesOk
<1>2. Len(B) \in Nat /\ 1 \in 1 .. Len(B) /\ h = B[1] /\ DOMAIN B = 1 .. Len(B)
  BY <1>1
<1>3. EntryOk(R, st, L, h)
  BY <1>2 DEF EntriesOk
<1>4. PICK d : d = [rid |-> h.rid, varid |-> h.varid, mem |-> FALSE,
                    left |-> h.left - 1, sel |-> h.sel]
  OBVIOUS
<1>5. h = [rid |-> h.rid, varid |-> h.varid, mem |-> h.mem, left |-> h.left,
           sel |-> h.sel]
  BY <1>3 DEF EntryOk
<1>6. [[h EXCEPT !.left = @ - 1] EXCEPT !.mem = FALSE] = d
  <2>1. PICK l : l = h.left - 1
    OBVIOUS
  <2>2. PICK x : x = [h EXCEPT !.left = l]
    OBVIOUS
  <2>3. x = [rid |-> h.rid, varid |-> h.varid, mem |-> h.mem, left |-> l, sel |-> h.sel]
    BY ONLY <1>5, <2>2, EntryUpdated
  <2>4. PICK v : v = FALSE
    OBVIOUS
  <2>5. [x EXCEPT !.mem = v] = [rid |-> h.rid, varid |-> h.varid, mem |-> v, left |-> l,
                                sel |-> h.sel]
    BY ONLY <2>3, EntryUpdated
  <2>6. [x EXCEPT !.mem = FALSE] = d
    BY ONLY <1>4, <2>1, <2>4, <2>5
  <2> QED
    BY <2>1, <2>2, <2>6
<1>7. C = WithHead(B, d)
  BY <1>2, <1>6 DEF OnePieceLess, WithHead
<1>8. /\ h.left \in 1 .. R[h.rid].pieces /\ R[h.rid].pieces \in Nat
      /\ ~R[h.rid].mem
  <2>1. h.left \in 1 .. R[h.rid].pieces /\ h.rid \in 1 .. Len(R)
    BY <1>3 DEF EntryOk
  <2>2. ReadOk(R[h.rid]) /\ R[h.rid].pieces \in Nat
    BY <2>1, ReadsAre DEF ReadOk
  <2>3. R[h.rid].pieces # 1
    BY <2>1, <2>2
  <2> QED
    BY <2>1, <2>2, <2>3 DEF ReadOk
<1>9. d.rid = h.rid /\ d.varid = h.varid /\ d.sel = h.sel /\ d.left = h.left - 1
  BY <1>4
<1>10. EntryOk(R, st, L, d)
  <2>1. d.left \in 1 .. R[h.rid].pieces
    BY <1>8, <1>9
  <2>2. d = [rid |-> d.rid, varid |-> d.varid, mem |-> d.mem, left |-> d.left,
             sel |-> d.sel]
    BY <1>4
  <2> QED
    BY <1>3, <1>8, <1>9, <2>1, <2>2 DEF EntryOk
<1>11. HeadChanged(R, st, L, B, d, C)
  BY <1>2, <1>7, <1>9, <1>10, HeadReplaced
<1> QED
  BY <1>2, <1>9, <1>11 DEF HeadChanged, PieceIs

(* A read that fails stays at the head, and has memory from then on.       *)
GivenMemory(B) == [B EXCEPT ![1].mem = TRUE]

(* What BP's list C has of each read is what B has of it.                  *)
SameLists(R, st, L, B, C) ==
  /\ EntriesOk(R, st, L, C)
  /\ Len(C) = Len(B)
  /\ \A k \in 1 .. Len(B) :
       C[k].rid = B[k].rid /\ C[k].sel = B[k].sel /\ C[k].left = B[k].left
  /\ \A n : Pend(C, n) = Pend(B, n)

(* Nothing else changes.                                                   *)
LEMMA MemoryGiven ==
  ASSUME NEW R, NEW st, NEW L, NEW B, EntriesOk(R, st, L, B), B # <<>>,
         NEW C, C = GivenMemory(B)
  PROVE  SameLists(R, st, L, B, C)
<1>1. PICK S : B \in Seq(S)
  BY DEF EntriesOk
<1>2. Len(B) \in Nat /\ 1 \in 1 .. Len(B) /\ DOMAIN B = 1 .. Len(B)
  BY <1>1
<1>3. PICK h : h = B[1]
  OBVIOUS
<1>4. EntryOk(R, st, L, h)
  BY <1>2, <1>3 DEF EntriesOk
<1>5. PICK d : d = [rid |-> h.rid, varid |-> h.varid, mem |-> TRUE,
                    left |-> h.left, sel |-> h.sel]
  OBVIOUS
<1>6. h = [rid |-> h.rid, varid |-> h.varid, mem |-> h.mem, left |-> h.left,
           sel |-> h.sel]
  BY <1>4 DEF EntryOk
<1>7. [h EXCEPT !.mem = TRUE] = d
  <2>1. PICK v : v = TRUE
    OBVIOUS
  <2>2. [h EXCEPT !.mem = v] = [rid |-> h.rid, varid |-> h.varid, mem |-> v,
                                left |-> h.left, sel |-> h.sel]
    BY ONLY <1>6, EntryUpdated
  <2> QED
    BY ONLY <1>5, <2>1, <2>2
<1>8. C = WithHead(B, d)
  BY <1>2, <1>3, <1>7 DEF GivenMemory, WithHead
<1>9. /\ d.rid = h.rid /\ d.varid = h.varid /\ d.sel = h.sel /\ d.left = h.left
      /\ d.mem = TRUE
      /\ d = [rid |-> d.rid, varid |-> d.varid, mem |-> d.mem, left |-> d.left,
              sel |-> d.sel]
  BY <1>5
<1>10. EntryOk(R, st, L, d)
  BY <1>4, <1>9 DEF EntryOk
<1>11. HeadChanged(R, st, L, B, d, C)
  BY <1>3, <1>8, <1>9, <1>10, HeadReplaced
<1> QED
  BY <1>2, <1>3, <1>9, <1>11 DEF HeadChanged, SameLists

(* A read more: those before it stay what they were.                       *)
OneMore(R, Q, st) ==
  /\ ReadsOk(Q, st) /\ Len(Q) = Len(R) + 1
  /\ \A n \in 1 .. Len(R) : n \in 1 .. Len(Q) /\ Q[n] = R[n]
  /\ \A n \in 1 .. Len(Q) : n \in 1 .. Len(R) \/ n = Len(Q)

Appended(R, r, Q) == Q = Append(R, r)
LastIs(Q, r) == Q[Len(Q)] = r

(* Scheduling appends one read of the current step.                        *)
LEMMA ReadAdded ==
  ASSUME NEW R, NEW st, ReadsOk(R, st), NEW r, ReadOk(r), r.step = st, st # 0,
         NEW Q, Appended(R, r, Q)
  PROVE  OneMore(R, Q, st) /\ LastIs(Q, r)
<1>0. Q = Append(R, r)
  BY DEF Appended
<1>1. PICK S : R \in Seq(S)
  BY DEF ReadsOk
<1>2. PICK T : T = S \cup {r}
  OBVIOUS
<1>3. R \in Seq(T) /\ r \in T
  BY <1>1, <1>2, SeqWider
<1>4. /\ Q \in Seq(T) /\ Len(R) \in Nat /\ Len(Q) = Len(R) + 1 /\ Q[Len(Q)] = r
      /\ \A n \in 1 .. Len(R) : Q[n] = R[n]
  BY <1>0, <1>3
<1>5. /\ \A n \in 1 .. Len(R) : n \in 1 .. Len(Q)
      /\ \A n \in 1 .. Len(Q) : n \in 1 .. Len(R) \/ n = Len(Q)
  BY <1>4
<1>6. /\ \A n \in 1 .. Len(R) : R[n].step \in Nat /\ R[n].step <= st
      /\ \A n \in 1 .. Len(R) : ReadOk(R[n]) /\ R[n].step \in 1 .. st
      /\ st \in Nat
  BY ReadsAre DEF ReadsOk
<1>7. \A n \in 1 .. Len(Q) : ReadOk(Q[n]) /\ Q[n].step \in 1 .. st
  <2>1. st \in 1 .. st
    BY <1>6
  <2> QED
    BY <1>4, <1>5, <1>6, <2>1
<1>8. ASSUME NEW i \in 1 .. Len(Q), NEW j \in 1 .. Len(Q), i <= j
      PROVE  Q[i].step <= Q[j].step
  <2>1. CASE j = Len(Q)
    <3>1. Q[j].step = st /\ Q[i].step \in 1 .. st
      BY <1>4, <1>7, <2>1
    <3> QED
      BY <1>6, <3>1
  <2>2. CASE j # Len(Q)
    <3>1. i \in 1 .. Len(R) /\ j \in 1 .. Len(R)
      BY <1>4, <1>8, <2>2
    <3> QED
      BY <1>4, <1>8, <3>1 DEF ReadsOk
  <2> QED
    BY <2>1, <2>2
<1> QED
  BY <1>4, <1>5, <1>6, <1>7, <1>8 DEF ReadsOk, OneMore, LastIs

(* The entries q that a new read, the last of Q, puts into BP's list.      *)
NewEntries(Q, st, L, q) ==
  /\ \E S : q \in Seq(S)
  /\ \A k \in 1 .. Len(q) : q[k].rid = Len(Q) /\ EntryOk(Q, st, L, q[k])
  /\ \A j, k \in 1 .. Len(q) : j < k => q[k].sel # q[j].sel
  /\ Q[Len(Q)].delegated =>
       \A s \in Subrequests(Q[Len(Q)]) : \E k \in 1 .. Len(q) : q[k].sel = s
  /\ ~Q[Len(Q)].delegated =>
       1 \in 1 .. Len(q) /\ \A k \in 1 .. Len(q) : q[k].left = Q[Len(Q)].pieces

(* The list C is q in front of B.                                          *)
AddedEntries(Q, st, L, B, q, C) ==
  /\ EntriesOk(Q, st, L, C)
  /\ \A k \in 1 .. Len(C) : \/ /\ k \in 1 .. Len(q)
                               /\ C[k] = q[k]
                            \/ \E j \in 1 .. Len(B) : C[k] = B[j]
  /\ \A k \in 1 .. Len(q) : k \in 1 .. Len(C) /\ C[k] = q[k]
  /\ \A j \in 1 .. Len(B) : \E k \in 1 .. Len(C) : C[k] = B[j]
  /\ \A n : n # Len(Q) => Pend(C, n) = Pend(B, n)
  /\ Pend(C, Len(Q)) = {q[k].sel : k \in 1 .. Len(q)}

(* The entries of a new read are in front of the others.                   *)
LEMMA EntriesAdded ==
  ASSUME NEW R, NEW st, ReadsOk(R, st), NEW L, NEW B, EntriesOk(R, st, L, B),
         NEW Q, OneMore(R, Q, st), NEW q, NewEntries(Q, st, L, q),
         NEW C, C = q \o B
  PROVE  AddedEntries(Q, st, L, B, q, C)
<1>0. /\ ReadsOk(Q, st) /\ Len(Q) = Len(R) + 1
      /\ \A n \in 1 .. Len(R) : n \in 1 .. Len(Q) /\ Q[n] = R[n]
      /\ \E S : q \in Seq(S)
      /\ \A k \in 1 .. Len(q) : q[k].rid = Len(Q) /\ EntryOk(Q, st, L, q[k])
      /\ \A j, k \in 1 .. Len(q) : j < k => q[k].sel # q[j].sel
  BY DEF OneMore, NewEntries
<1> USE <1>0
<1>1. PICK S : B \in Seq(S)
  BY DEF EntriesOk
<1>2. PICK T : q \in Seq(T)
  OBVIOUS
<1>3. PICK U : U = S \cup T
  OBVIOUS
<1>4. B \in Seq(U) /\ q \in Seq(U)
  BY <1>1, <1>2, <1>3, SeqWider
<1>5. /\ Len(B) \in Nat /\ Len(q) \in Nat /\ C \in Seq(U)
      /\ Len(C) = Len(q) + Len(B)
      /\ \A k \in 1 .. Len(q) : C[k] = q[k]
      /\ \A k \in 1 .. Len(C) : k > Len(q) => C[k] = B[k - Len(q)]
  BY ONLY <1>4, C = q \o B
<1>6. \A k \in 1 .. Len(C) : \/ k \in 1 .. Len(q)
                             \/ k > Len(q) /\ k - Len(q) \in 1 .. Len(B)
  BY ONLY <1>5
<1>7. \A j \in 1 .. Len(B) : j + Len(q) \in 1 .. Len(C) /\ j + Len(q) > Len(q)
                             /\ (j + Len(q)) - Len(q) = j
  BY ONLY <1>5
<1>8. \A k \in 1 .. Len(C) : \/ k \in 1 .. Len(q) /\ C[k] = q[k]
                             \/ \E j \in 1 .. Len(B) : C[k] = B[j]
  BY ONLY <1>5, <1>6
<1>9. \A j \in 1 .. Len(B) : \E k \in 1 .. Len(C) : C[k] = B[j]
  BY ONLY <1>5, <1>7
<1>10. \A k \in 1 .. Len(q) : k \in 1 .. Len(C) /\ C[k] = q[k]
  BY ONLY <1>5
<1>11. \A j \in 1 .. Len(B) : EntryOk(R, st, L, B[j]) /\ B[j].rid \in 1 .. Len(R)
  BY DEF EntriesOk, EntryOk
<1>12. \A j \in 1 .. Len(B) : EntryOk(Q, st, L, B[j])
  BY <1>11, SMTT(30) DEF EntryOk
<1>13. \A k \in 1 .. Len(C) : EntryOk(Q, st, L, C[k])
  BY <1>8, <1>12
<1>14. Len(R) \in Nat
  BY ReadsAre
<1>15. ASSUME NEW j \in 1 .. Len(C), NEW k \in 1 .. Len(C), j < k
       PROVE  C[k].rid <= C[j].rid /\ (C[k].rid = C[j].rid => C[k].sel # C[j].sel)
  <2>1. CASE k \in 1 .. Len(q)
    <3>1. j \in 1 .. Len(q)
      BY <1>5, <1>15, <2>1
    <3> QED
      BY <1>5, <1>14, <1>15, <2>1, <3>1
  <2>2. CASE j \in 1 .. Len(q) /\ k \notin 1 .. Len(q)
    <3>1. C[j].rid = Len(R) + 1
      BY <1>5, <2>2
    <3>2. C[k].rid \in 1 .. Len(R)
      BY <1>8, <1>11, <2>2
    <3> QED
      BY <1>14, <3>1, <3>2
  <2>3. CASE j \notin 1 .. Len(q) /\ k \notin 1 .. Len(q)
    <3>1. /\ j - Len(q) \in 1 .. Len(B) /\ k - Len(q) \in 1 .. Len(B)
          /\ j - Len(q) < k - Len(q)
          /\ C[j] = B[j - Len(q)] /\ C[k] = B[k - Len(q)]
      BY <1>5, <1>6, <1>15, <2>3
    <3>2. \A a, b \in 1 .. Len(B) : a < b =>
            B[b].rid <= B[a].rid /\ (B[b].rid = B[a].rid => B[b].sel # B[a].sel)
      BY DEF EntriesOk
    <3> QED
      BY ONLY <3>1, <3>2
  <2> QED
    BY <2>1, <2>2, <2>3
<1>16. EntriesOk(Q, st, L, C)
  <2>1. \E V : C \in Seq(V)
    BY <1>5
  <2> QED
    BY <1>13, <1>15, <2>1 DEF EntriesOk
<1>17. \A n : n # Len(Q) => Pend(C, n) = Pend(B, n)
  <2> SUFFICES ASSUME NEW n, n # Len(Q) PROVE Pend(C, n) = Pend(B, n)
    OBVIOUS
  <2>1. ASSUME NEW s PROVE s \in Pend(C, n) <=> s \in Pend(B, n)
    <3>1. s \in Pend(C, n) <=> \E k \in 1 .. Len(C) : C[k].rid = n /\ C[k].sel = s
      BY ONLY PendIs
    <3>2. s \in Pend(B, n) <=> \E k \in 1 .. Len(B) : B[k].rid = n /\ B[k].sel = s
      BY ONLY PendIs
    <3>3. \A k \in 1 .. Len(q) : q[k].rid # n
      BY <2>1
    <3> QED
      BY ONLY <1>8, <1>9, <3>1, <3>2, <3>3
  <2> QED
    BY <2>1
<1>18. Pend(C, Len(Q)) = {q[k].sel : k \in 1 .. Len(q)}
  <2>0. \A j \in 1 .. Len(B) : B[j].rid # Len(Q)
    BY <1>11, <1>14
  <2>1. ASSUME NEW s
        PROVE  s \in Pend(C, Len(Q)) <=> \E k \in 1 .. Len(q) : q[k].sel = s
    <3>1. s \in Pend(C, Len(Q)) <=>
            \E k \in 1 .. Len(C) : C[k].rid = Len(Q) /\ C[k].sel = s
      BY ONLY PendIs
    <3>2. \A k \in 1 .. Len(q) : q[k].rid = Len(Q)
      OBVIOUS
    <3> QED
      BY ONLY <1>8, <1>10, <2>0, <3>1, <3>2
  <2> QED
    BY <2>1
<1> QED
  BY <1>8, <1>9, <1>10, <1>16, <1>17, <1>18 DEF AddedEntries

(* At an advance the reads that are left become lost.                      *)
LEMMA EntriesLost ==
  ASSUME NEW R, NEW st, NEW L, NEW B, EntriesOk(R, st, L, B), NEW tt,
         NEW K, K = L \cup {B[i].rid : i \in DOMAIN B}
  PROVE  EntriesOk(R, tt, K, B)
<1>1. PICK S : B \in Seq(S)
  BY DEF EntriesOk
<1>2. DOMAIN B = 1 .. Len(B)
  BY <1>1
<1>3. \A k \in 1 .. Len(B) : EntryOk(R, tt, K, B[k])
  BY <1>2 DEF EntriesOk, EntryOk
<1> QED
  BY <1>3 DEF EntriesOk

-----------------------------------------------------------------------------
(* The request groups.                                                     *)

(* No groups at all.                                                       *)
LEMMA NoGroups ==
  ASSUME NEW R, NEW st
  PROVE  GroupsOk(R, st, <<>>)
<1>1. <<>> \in Seq({}) /\ 1 .. Len(<<>>) = {}
  OBVIOUS
<1>2. (\E S : <<>> \in Seq(S)) /\ \A k \in 1 .. Len(<<>>) : FALSE
  BY <1>1
<1> QED
  BY <1>2 DEF GroupsOk

(* What is left of the list after the completed groups are removed.        *)
Kept(G) ==
  LET kept == Ascending({i \in DOMAIN G : ~Completed(G[i])})
  IN [k \in DOMAIN kept |-> G[kept[k]]]

(* The groups p are those of G that are not completed.                     *)
KeptIs(R, st, G, p) ==
  /\ GroupsOk(R, st, p)
  /\ \A k \in 1 .. Len(p) : \E i \in 1 .. Len(G) : p[k] = G[i]
  /\ \A i \in 1 .. Len(G) : ~Completed(G[i]) => \E k \in 1 .. Len(p) : p[k] = G[i]
  /\ \A k \in 1 .. Len(p) : ~Completed(p[k])

(* The cleanup keeps just them, in their order.                            *)
LEMMA GroupsKept ==
  ASSUME NEW R, NEW st, NEW G, GroupsOk(R, st, G), NEW p, p = Kept(G)
  PROVE  KeptIs(R, st, G, p)
<1>1. PICK S : G \in Seq(S)
  BY DEF GroupsOk
<1>2. DOMAIN G = 1 .. Len(G) /\ Len(G) \in Nat
  BY <1>1
<1>3. PICK places \in SUBSET (1 .. Len(G)) :
        places = {i \in 1 .. Len(G) : ~Completed(G[i])}
  OBVIOUS
<1>4. PICK f : f = Ascending(places)
  OBVIOUS
<1>5. p = At(G, f)
  BY <1>2, <1>3, <1>4 DEF At, Kept
<1>6. /\ p \in Seq(S)
      /\ \A k \in 1 .. Len(p) : f[k] \in places /\ p[k] = G[f[k]]
      /\ \A j, k \in 1 .. Len(p) : j < k => f[j] < f[k]
      /\ \A i \in places : \E k \in 1 .. Len(p) : f[k] = i
  <2>1. p \in Seq(S)
    BY ONLY <1>1, <1>4, <1>5, places \in SUBSET (1 .. Len(G)), KeptInOrder
  <2>2. \A k \in 1 .. Len(p) : f[k] \in places /\ p[k] = G[f[k]]
    BY ONLY <1>1, <1>4, <1>5, places \in SUBSET (1 .. Len(G)), KeptInOrder
  <2>3. \A j, k \in 1 .. Len(p) : j < k => f[j] < f[k]
    BY ONLY <1>1, <1>4, <1>5, places \in SUBSET (1 .. Len(G)), KeptInOrder
  <2>4. \A i \in places : \E k \in 1 .. Len(p) : f[k] = i
    BY ONLY <1>1, <1>4, <1>5, places \in SUBSET (1 .. Len(G)), KeptInOrder
  <2> QED
    BY ONLY <2>1, <2>2, <2>3, <2>4
<1>7. \A k \in 1 .. Len(p) : f[k] \in 1 .. Len(G) /\ ~Completed(G[f[k]])
  BY <1>3, <1>6
<1>8. GroupsOk(R, st, p)
  <2>1. \A k \in 1 .. Len(p) : GroupOk(R, st, p[k])
    BY <1>6, <1>7 DEF GroupsOk
  <2>2. \A i, j \in 1 .. Len(G) : i < j => G[j].rid < G[i].rid
    BY DEF GroupsOk
  <2>3. \A j, k \in 1 .. Len(p) : j < k => p[k].rid < p[j].rid
    BY ONLY <1>6, <1>7, <2>2
  <2> QED
    BY <1>6, <2>1, <2>3 DEF GroupsOk
<1>9. \A k \in 1 .. Len(p) : ~Completed(p[k]) /\ \E i \in 1 .. Len(G) : p[k] = G[i]
  BY <1>6, <1>7
<1>10. \A i \in 1 .. Len(G) : ~Completed(G[i]) => \E k \in 1 .. Len(p) : p[k] = G[i]
  <2>1. \A i \in 1 .. Len(G) : ~Completed(G[i]) => i \in places
    BY <1>3
  <2> QED
    BY ONLY <1>6, <2>1
<1> QED
  BY <1>8, <1>9, <1>10 DEF KeptIs

(* Every entry still has its group, and only the groups that are gone have *)
(* none.                                                                   *)
LEMMA MatchKept ==
  ASSUME NEW R, NEW st, NEW L, NEW G, GroupsOk(R, st, G),
         NEW p, KeptIs(R, st, G, p), NEW B, EntriesOk(R, st, L, B), MatchOk(R, G, B)
  PROVE  MatchOk(R, p, B)
<1>1. \A k \in 1 .. Len(p) : \E i \in 1 .. Len(G) : p[k] = G[i]
  BY DEF KeptIs
<1>2. \A i \in 1 .. Len(G) : ~Completed(G[i]) => \E k \in 1 .. Len(p) : p[k] = G[i]
  BY DEF KeptIs
<1>3. ASSUME NEW k \in 1 .. Len(p), SameId(R[p[k].rid]), ~p[k].stale
      PROVE  /\ Pend(B, p[k].rid) = Subrequests(p[k]) \ p[k].done
             /\ p[k].filled = Filled(R[p[k].rid], p[k].done)
  <2>1. PICK i \in 1 .. Len(G) : p[k] = G[i]
    BY <1>1
  <2>2. PICK g : g = G[i]
    OBVIOUS
  <2>3. SameId(R[g.rid]) /\ ~g.stale
    BY <1>3, <2>1, <2>2
  <2>4. Pend(B, g.rid) = Subrequests(g) \ g.done
        /\ g.filled = Filled(R[g.rid], g.done)
    BY <2>2, <2>3 DEF MatchOk
  <2>5. g = p[k]
    BY <2>1, <2>2
  <2> QED
    BY <2>4, <2>5, Zenon
<1>4. ASSUME NEW k \in 1 .. Len(B), R[B[k].rid].delegated, SameId(R[B[k].rid])
      PROVE  \E i \in 1 .. Len(p) : p[i].rid = B[k].rid /\ B[k].sel \notin p[i].done
  <2>1. PICK i \in 1 .. Len(G) : G[i].rid = B[k].rid /\ B[k].sel \notin G[i].done
    BY <1>4 DEF MatchOk
  <2>2. B[k].sel \in Subrequests(R[B[k].rid])
    BY <1>4 DEF EntriesOk, EntryOk
  <2>3. Subrequests(G[i]) = Subrequests(R[B[k].rid])
    <3>0. GroupOk(R, st, G[i])
      BY DEF GroupsOk
    <3>1. G[i].blocks = R[B[k].rid].blocks
      BY <2>1, <3>0 DEF GroupOk
    <3> QED
      BY <3>1 DEF Subrequests
  <2>4. ~Completed(G[i])
    BY <2>1, <2>2, <2>3 DEF Completed
  <2> QED
    BY <1>2, <2>1, <2>4
<1> QED
  BY <1>3, <1>4 DEF MatchOk

(* A field of a group changes and the others stay.                         *)
GroupShape(g) ==
  g = [rid |-> g.rid, varid |-> g.varid, mem |-> g.mem, blocks |-> g.blocks,
       done |-> g.done, filled |-> g.filled, stale |-> g.stale]

(* A group with one field changed, spelt out.                              *)
LEMMA GroupUpdated ==
  ASSUME NEW g, GroupShape(g), NEW v
  PROVE  /\ [g EXCEPT !.done = v] =
              [rid |-> g.rid, varid |-> g.varid, mem |-> g.mem, blocks |-> g.blocks,
               done |-> v, filled |-> g.filled, stale |-> g.stale]
         /\ [g EXCEPT !.filled = v] =
              [rid |-> g.rid, varid |-> g.varid, mem |-> g.mem, blocks |-> g.blocks,
               done |-> g.done, filled |-> v, stale |-> g.stale]
         /\ [g EXCEPT !.stale = v] =
              [rid |-> g.rid, varid |-> g.varid, mem |-> g.mem, blocks |-> g.blocks,
               done |-> g.done, filled |-> g.filled, stale |-> v]
<1>1. PICK F : F = {"rid", "varid", "mem", "blocks", "done", "filled", "stale"}
  OBVIOUS
<1>2. g = [k \in F |-> g[k]]
  BY <1>1 DEF GroupShape
<1>3. [g EXCEPT !.done = v] =
       [rid |-> g.rid, varid |-> g.varid, mem |-> g.mem, blocks |-> g.blocks,
        done |-> v, filled |-> g.filled, stale |-> g.stale]
  <2>1. PICK y : y = [g EXCEPT !.done = v]
    OBVIOUS
  <2>2. PICK z : z = [rid |-> g.rid, varid |-> g.varid, mem |-> g.mem,
                      blocks |-> g.blocks, done |-> v, filled |-> g.filled,
                      stale |-> g.stale]
    OBVIOUS
  <2>3. z = [k \in F |-> z[k]]
    BY <1>1, <2>2
  <2>4. y = [k \in F |-> y[k]]
    BY <1>2, <2>1
  <2>5. \A k \in F : y[k] = z[k]
    BY <1>1, <1>2, <2>1, <2>2
  <2>6. y = z
    BY ONLY <2>3, <2>4, <2>5, RecordSame
  <2> QED
    BY <2>1, <2>2, <2>6, Zenon
<1>4. [g EXCEPT !.filled = v] =
       [rid |-> g.rid, varid |-> g.varid, mem |-> g.mem, blocks |-> g.blocks,
        done |-> g.done, filled |-> v, stale |-> g.stale]
  <2>1. PICK y : y = [g EXCEPT !.filled = v]
    OBVIOUS
  <2>2. PICK z : z = [rid |-> g.rid, varid |-> g.varid, mem |-> g.mem,
                      blocks |-> g.blocks, done |-> g.done, filled |-> v,
                      stale |-> g.stale]
    OBVIOUS
  <2>3. z = [k \in F |-> z[k]]
    BY <1>1, <2>2
  <2>4. y = [k \in F |-> y[k]]
    BY <1>2, <2>1
  <2>5. \A k \in F : y[k] = z[k]
    BY <1>1, <1>2, <2>1, <2>2
  <2>6. y = z
    BY ONLY <2>3, <2>4, <2>5, RecordSame
  <2> QED
    BY <2>1, <2>2, <2>6, Zenon
<1>5. [g EXCEPT !.stale = v] =
       [rid |-> g.rid, varid |-> g.varid, mem |-> g.mem, blocks |-> g.blocks,
        done |-> g.done, filled |-> g.filled, stale |-> v]
  <2>1. PICK y : y = [g EXCEPT !.stale = v]
    OBVIOUS
  <2>2. PICK z : z = [rid |-> g.rid, varid |-> g.varid, mem |-> g.mem,
                      blocks |-> g.blocks, done |-> g.done, filled |-> g.filled,
                      stale |-> v]
    OBVIOUS
  <2>3. z = [k \in F |-> z[k]]
    BY <1>1, <2>2
  <2>4. y = [k \in F |-> y[k]]
    BY <1>2, <2>1
  <2>5. \A k \in F : y[k] = z[k]
    BY <1>1, <1>2, <2>1, <2>2
  <2>6. y = z
    BY ONLY <2>3, <2>4, <2>5, RecordSame
  <2> QED
    BY <2>1, <2>2, <2>6, Zenon
<1> QED
  BY <1>3, <1>4, <1>5

(* Groups that change but stay those of the same reads.                    *)
SamePlaces(G, H) == H = [i \in DOMAIN G |-> H[i]]

(* Groups changed in their places stay in order.                           *)
LEMMA GroupsChanged ==
  ASSUME NEW R, NEW st, NEW tt, NEW G, GroupsOk(R, st, G),
         NEW H, SamePlaces(G, H),
         \A i \in 1 .. Len(G) : GroupOk(R, tt, H[i]) /\ H[i].rid = G[i].rid
  PROVE  GroupsOk(R, tt, H) /\ Len(H) = Len(G)
<1>1. PICK S : G \in Seq(S)
  BY DEF GroupsOk
<1>2. DOMAIN G = 1 .. Len(G) /\ Len(G) \in Nat
  BY <1>1
<1>3. PICK T : T = {H[i] : i \in 1 .. Len(G)}
  OBVIOUS
<1>4. H \in [1 .. Len(G) -> T]
  BY <1>2, <1>3 DEF SamePlaces
<1>5. H \in Seq(T) /\ Len(H) = Len(G)
  BY ONLY <1>2, <1>4
<1>6. \E V : H \in Seq(V)
  BY <1>5
<1>7. \A i, j \in 1 .. Len(H) : i < j => H[j].rid < H[i].rid
  BY <1>5 DEF GroupsOk
<1> QED
  BY <1>5, <1>6, <1>7 DEF GroupsOk

(* A new group in front.                                                   *)
InFront(g, G, H) ==
  /\ \A i \in 1 .. Len(H) : H[i] = g \/ \E j \in 1 .. Len(G) : H[i] = G[j]
  /\ \E i \in 1 .. Len(H) : H[i] = g
  /\ \A j \in 1 .. Len(G) : \E i \in 1 .. Len(H) : H[i] = G[j]

(* The group of a new read comes in front.                                 *)
LEMMA GroupAdded ==
  ASSUME NEW R, NEW st, ReadsOk(R, st), NEW G, GroupsOk(R, st, G),
         NEW Q, OneMore(R, Q, st), NEW g, GroupOk(Q, st, g), g.rid = Len(Q),
         NEW H, H = <<g>> \o G
  PROVE  GroupsOk(Q, st, H) /\ InFront(g, G, H)
<1>0. Len(Q) = Len(R) + 1 /\ \A n \in 1 .. Len(R) : n \in 1 .. Len(Q) /\ Q[n] = R[n]
  BY DEF OneMore
<1> USE <1>0
<1>1. PICK S : G \in Seq(S)
  BY DEF GroupsOk
<1>2. PICK T : T = S \cup {g}
  OBVIOUS
<1>3. G \in Seq(T) /\ g \in T
  BY <1>1, <1>2, SeqWider
<1>4. /\ Len(G) \in Nat /\ H \in Seq(T) /\ Len(H) = Len(G) + 1 /\ H[1] = g
      /\ \A i \in 1 .. Len(H) : i # 1 => H[i] = G[i - 1]
  BY ONLY <1>3, H = <<g>> \o G
<1>5. \A i \in 1 .. Len(H) : i # 1 => i - 1 \in 1 .. Len(G)
  BY ONLY <1>4
<1>6. \A j \in 1 .. Len(G) : j + 1 \in 1 .. Len(H) /\ j + 1 # 1 /\ (j + 1) - 1 = j
  BY ONLY <1>4
<1>7. \A i \in 1 .. Len(H) : H[i] = g \/ \E j \in 1 .. Len(G) : H[i] = G[j]
  BY ONLY <1>4, <1>5
<1>8. \A j \in 1 .. Len(G) : \E i \in 1 .. Len(H) : H[i] = G[j]
  BY ONLY <1>4, <1>6
<1>9. \E i \in 1 .. Len(H) : H[i] = g
  BY ONLY <1>4
<1>10. \A j \in 1 .. Len(G) : GroupOk(Q, st, G[j]) /\ G[j].rid \in 1 .. Len(R)
  BY SMTT(30) DEF GroupsOk, GroupOk
<1>11. Len(R) \in Nat
  BY ReadsAre
<1>12. ASSUME NEW i \in 1 .. Len(H), NEW j \in 1 .. Len(H), i < j
       PROVE  H[j].rid < H[i].rid
  <2>0. j # 1 /\ j - 1 \in 1 .. Len(G) /\ H[j] = G[j - 1]
    BY <1>4, <1>5, <1>12
  <2>1. CASE i = 1
    <3>1. H[i].rid = Len(R) + 1 /\ H[j].rid \in 1 .. Len(R)
      BY <1>4, <1>10, <2>0, <2>1
    <3> QED
      BY <1>11, <3>1
  <2>2. CASE i # 1
    <3>1. i - 1 \in 1 .. Len(G) /\ H[i] = G[i - 1] /\ i - 1 < j - 1
      BY <1>4, <1>5, <1>12, <2>2
    <3> QED
      BY <2>0, <3>1 DEF GroupsOk
  <2> QED
    BY <2>1, <2>2
<1>13. \E V : H \in Seq(V)
  BY <1>4
<1>14. \A i \in 1 .. Len(H) : GroupOk(Q, st, H[i])
  BY <1>7, <1>10
<1> QED
  BY <1>7, <1>8, <1>9, <1>12, <1>13, <1>14 DEF GroupsOk, InFront

(* At an advance the groups lose their infos.                              *)
LEMMA GroupsStale ==
  ASSUME NEW R, NEW st, ReadsOk(R, st), NEW G, GroupsOk(R, st, G),
         NEW H, H = [i \in DOMAIN G |-> [G[i] EXCEPT !.stale = TRUE]]
  PROVE  /\ GroupsOk(R, st + 1, H) /\ Len(H) = Len(G)
         /\ \A i \in 1 .. Len(G) : /\ H[i].rid = G[i].rid /\ H[i].stale
                                   /\ H[i].done = G[i].done
<1>1. DOMAIN G = 1 .. Len(G)
  BY DEF GroupsOk
<1>2. ASSUME NEW i \in 1 .. Len(G)
      PROVE  /\ GroupOk(R, st + 1, H[i]) /\ H[i].rid = G[i].rid
             /\ H[i].stale /\ H[i].done = G[i].done
  <2>1. PICK g : g = G[i]
    OBVIOUS
  <2>2. GroupOk(R, st, g)
    BY <2>1 DEF GroupsOk
  <2>3. PICK h : h = [rid |-> g.rid, varid |-> g.varid, mem |-> g.mem,
                      blocks |-> g.blocks, done |-> g.done, filled |-> g.filled,
                      stale |-> TRUE]
    OBVIOUS
  <2>4. g = [rid |-> g.rid, varid |-> g.varid, mem |-> g.mem, blocks |-> g.blocks,
             done |-> g.done, filled |-> g.filled, stale |-> g.stale]
    BY <2>2 DEF GroupOk
  <2>5. [g EXCEPT !.stale = TRUE] = h
    BY ONLY <2>3, <2>4, GroupUpdated DEF GroupShape
  <2>6. H[i] = h
    BY <1>1, <2>1, <2>5
  <2>7. /\ h.rid = g.rid /\ h.varid = g.varid /\ h.mem = g.mem /\ h.blocks = g.blocks
        /\ h.done = g.done /\ h.filled = g.filled /\ h.stale = TRUE
        /\ h = [rid |-> h.rid, varid |-> h.varid, mem |-> h.mem,
                blocks |-> h.blocks, done |-> h.done, filled |-> h.filled,
                stale |-> h.stale]
    BY ONLY <2>3
  <2>8. Subrequests(h) = Subrequests(g)
    BY <2>7 DEF Subrequests
  <2>9. R[g.rid].step # st + 1
    <3>1. R[g.rid].step \in Nat /\ R[g.rid].step <= st /\ st \in Nat
      BY <2>2, ReadsAre DEF GroupOk
    <3> QED
      BY <3>1
  <2>10. GroupOk(R, st + 1, h)
    BY <2>2, <2>7, <2>8, <2>9 DEF GroupOk
  <2> QED
    BY <2>1, <2>6, <2>7, <2>10
<1>3. SamePlaces(G, H)
  BY DEF SamePlaces
<1>4. GroupsOk(R, st + 1, H) /\ Len(H) = Len(G)
  <2>1. PICK tt : tt = st + 1
    OBVIOUS
  <2>2. \A i \in 1 .. Len(G) : GroupOk(R, tt, H[i]) /\ H[i].rid = G[i].rid
    BY <1>2, <2>1
  <2>3. GroupsOk(R, tt, H) /\ Len(H) = Len(G)
    BY ONLY <1>3, <2>2, GroupsOk(R, st, G), GroupsChanged
  <2> QED
    BY <2>1, <2>3
<1> QED
  BY <1>2, <1>4

(* Place f has the first group that the chunk of entry e matches.          *)
FirstOf(G, e, f) ==
  /\ f \in 1 .. Len(G)
  /\ G[f].varid = e.varid /\ e.sel \in Subrequests(G[f]) \ G[f].done
  /\ \A i \in 1 .. Len(G) :
       G[i].varid = e.varid /\ e.sel \in Subrequests(G[i]) \ G[i].done => f <= i

(* A chunk goes to the read it was made for: the first group that matches  *)
(* is that of the entry, if either of them has the same id everywhere.     *)
LEMMA FirstMatch ==
  ASSUME NEW R, NEW st, ReadsOk(R, st), OneNameIn(R), NEW G, GroupsOk(R, st, G),
         NEW L, LostOk(R, st, L), NEW B, EntriesOk(R, st, L, B), B # <<>>,
         MatchOk(R, G, B), NEW e, e = Head(B), R[e.rid].delegated,
         NEW f, FirstOf(G, e, f), ~G[f].stale
  PROVE  /\ SameId(R[e.rid]) /\ R[e.rid].step = st => G[f].rid = e.rid
         /\ SameId(R[G[f].rid]) => G[f].rid = e.rid
<1> DEFINE g == G[f]
<1>0. /\ f \in 1 .. Len(G)
      /\ G[f].varid = e.varid /\ e.sel \in Subrequests(G[f]) \ G[f].done
      /\ \A i \in 1 .. Len(G) :
           G[i].varid = e.varid /\ e.sel \in Subrequests(G[i]) \ G[i].done => f <= i
  BY DEF FirstOf
<1>1. /\ EntryOk(R, st, L, e)
      /\ 1 \in 1 .. Len(B) /\ e = B[1]
      /\ \A k \in 1 .. Len(B) : B[k].rid <= e.rid
  <2>1. PICK C : C = Tail(B)
    OBVIOUS
  <2>2. HeadIs(R, st, L, B, e, C)
    BY <2>1, HeadServed
  <2> QED
    BY <2>2 DEF HeadIs
<1>2. e.rid \in 1 .. Len(R) /\ e.varid = R[e.rid].var
  BY <1>1 DEF EntryOk
<1>3. \A i \in 1 .. Len(G) : GroupOk(R, st, G[i])
  BY <1>0 DEF GroupsOk
<1>4. /\ g.rid \in 1 .. Len(R) /\ g.varid = R[g.rid].id
      /\ R[g.rid].step = st
  BY <1>0, <1>3 DEF GroupOk
<1>5. Len(R) \in Nat /\ DOMAIN R = 1 .. Len(R)
  BY <1>0, ReadsAre
<1>6. ASSUME SameId(R[e.rid]), R[e.rid].step = st
      PROVE  g.rid = e.rid
  <2>1. PICK i \in 1 .. Len(G) : G[i].rid = e.rid /\ e.sel \notin G[i].done
    BY <1>0, <1>1, <1>6 DEF MatchOk
  <2>2. /\ G[i].varid = R[e.rid].id /\ G[i].blocks = R[e.rid].blocks
    BY <1>0, <1>3, <2>1 DEF GroupOk
  <2>3. Subrequests(G[i]) = Subrequests(R[e.rid])
    BY <1>0, <2>2 DEF Subrequests
  <2>4. e.sel \in Subrequests(R[e.rid])
    BY <1>0, <1>1 DEF EntryOk
  <2>5. G[i].varid = e.varid
    BY <1>0, <1>2, <1>6, <2>2 DEF SameId
  <2>6. f <= i
    BY <1>0, <2>1, <2>3, <2>4, <2>5
  <2>7. g.rid >= e.rid
    <3>1. CASE f = i
      <4>1. g.rid = e.rid
        BY <1>0, <2>1, <3>1
      <4> QED
        BY <1>0, <1>2, <1>5, <4>1
    <3>2. CASE f < i
      <4>1. e.rid < g.rid
        BY <1>0, <2>1, <3>2 DEF GroupsOk
      <4> QED
        BY <1>0, <1>2, <1>4, <1>5, <4>1
    <3>3. f = i \/ f < i
      <4>1. f \in Int /\ i \in Int
        BY <1>0
      <4> QED
        BY ONLY <2>6, <4>1
    <3> QED
      BY <1>0, <3>1, <3>2, <3>3
  <2>8. SameId(R[g.rid])
    <3>1. R[g.rid].id = R[e.rid].id
      BY <1>0, <1>2, <1>4, <1>6 DEF SameId
    <3>2. R[g.rid].var = R[e.rid].var
      BY <1>0, <1>2, <1>4, <1>5, <1>6, <3>1 DEF OneNameIn
    <3> QED
      BY <1>0, <1>6, <3>1, <3>2 DEF SameId
  <2>9. Pend(B, g.rid) = Subrequests(g) \ g.done
    BY <1>0, <2>8 DEF MatchOk
  <2>10. e.sel \in Pend(B, g.rid)
    BY <1>0, <2>9
  <2>11. PICK k \in 1 .. Len(B) : B[k].rid = g.rid
    BY ONLY <2>10, PendIs
  <2>12. g.rid <= e.rid
    BY <1>0, <1>1, <2>11
  <2> QED
    BY <1>0, <1>2, <1>4, <1>5, <2>7, <2>12
<1>7. ASSUME SameId(R[g.rid])
      PROVE  g.rid = e.rid
  <2>1. Pend(B, g.rid) = Subrequests(g) \ g.done
    BY <1>0, <1>7 DEF MatchOk
  <2>2. e.sel \in Pend(B, g.rid)
    BY <1>0, <2>1
  <2>3. PICK k \in 1 .. Len(B) : B[k].rid = g.rid
    BY ONLY <2>2, PendIs
  <2>4. g.rid <= e.rid
    BY <1>0, <1>1, <2>3
  <2>5. R[e.rid].step = st
    <3>1. R[g.rid].step <= R[e.rid].step
      BY <1>0, <1>2, <1>4, <2>4 DEF ReadsOk
    <3>2. R[e.rid].step <= st /\ R[e.rid].step \in Nat /\ st \in Nat
      BY <1>0, <1>2, ReadsAre
    <3> QED
      BY <1>0, <1>4, <3>1, <3>2
  <2>6. SameId(R[e.rid])
    <3>1. R[g.rid].var = R[e.rid].var
      BY <1>0, <1>2, <1>4, <1>7 DEF SameId
    <3>2. R[g.rid].id = R[e.rid].id
      BY <1>0, <1>2, <1>4, <1>5, <2>5, <3>1 DEF OneNameIn
    <3> QED
      BY <1>0, <1>7, <3>1, <3>2 DEF SameId
  <2> QED
    BY <1>0, <1>6, <2>5, <2>6
<1> QED
  BY <1>0, <1>6, <1>7

-----------------------------------------------------------------------------
(* What the reads have been given.                                         *)

(* Membership in BlocksIn, as the proofs use it.                           *)
LEMMA BlocksAre ==
  ASSUME NEW T, NEW n, NEW b
  PROVE  b \in BlocksIn(T, n) <=> \E x \in T : x.rid = n /\ x.block = b
  BY DEF BlocksIn

(* The segments of a block.                                                *)
LEMMA SegmentsAre ==
  ASSUME NEW b
  PROVE  /\ \A s : s \in Segments(b) <=> \E k \in 1 .. NSubs : s = <<b, k>>
         /\ \A s \in Segments(b) : s[1] = b
         /\ Segments(b) # {}
<1>1. 1 \in 1 .. NSubs
  BY Bounds
<1>2. <<b, 1>> \in Segments(b)
  BY <1>1 DEF Segments
<1>3. \A s : s \in Segments(b) <=> \E k \in 1 .. NSubs : s = <<b, k>>
  BY DEF Segments
<1>4. \A s \in Segments(b) : s[1] = b
  BY <1>3
<1> QED
  BY <1>2, <1>3, <1>4, Zenon

(* A subrequest is a segment of one of the read's blocks.                  *)
LEMMA SegmentsOfRead ==
  ASSUME NEW r, NEW s
  PROVE  /\ s \in Subrequests(r) <=> s[1] \in r.blocks /\ s \in Segments(s[1])
         /\ \A b \in r.blocks : Segments(b) \subseteq Subrequests(r)
<1>1. s \in Subrequests(r) <=> \E b \in r.blocks : s \in Segments(b)
  BY DEF Subrequests
<1>2. \A b \in r.blocks : Segments(b) \subseteq Subrequests(r)
  BY DEF Subrequests
<1>3. \A b : s \in Segments(b) => s[1] = b
  BY SegmentsAre
<1> QED
  BY <1>1, <1>2, <1>3

(* A read whose chunks are not looked at: its ids differ, or it was lost.  *)
Aside(R, L, n) == n \in 1 .. Len(R) /\ R[n].delegated /\ (~SameId(R[n]) \/ n \in L)

(* Every entry of C is one of B.                                           *)
FromList(C, B) == \A k \in 1 .. Len(C) : \E j \in 1 .. Len(B) : C[k] = B[j]

(* The blocks U are those of T and some of read n.                         *)
BlocksBut(T, U, n) == T \subseteq U /\ \A x \in U : x \in T \/ x.rid = n

(* The counts D and E differ for read n at most.                           *)
CountsBut(D, E, n) ==
  E \in [1 .. MaxReads -> Nat] /\ \A i \in 1 .. MaxReads : i # n => E[i] = D[i]

(* One more chunk returned for read n, if ret.                             *)
Returned(D, n, ret) == [D EXCEPT ![n] = @ + IF ret THEN 1 ELSE 0]

(* Nothing that concerns reads whose ids differ, or that were lost, and    *)
(* nothing that is only about BP's list, changes what the others are given.*)
LEMMA OtherServed ==
  ASSUME NEW R, NEW st, ReadsOk(R, st), NEW L, NEW B, EntriesOk(R, st, L, B),
         NEW C, NEW T, NEW U,
         NEW D, NEW E, NEW K,
         GotOk(R, T), WholeOk(R, T, D, K), AnsweredOk(R, L, B, T, D, K),
         NEW m, PendBut(B, C, m),
         Aside(R, L, m), FromList(C, B),
         NEW q \in 1 .. Len(R), R[q].delegated, ~SameId(R[q]),
         BlocksBut(T, U, q), CountsBut(D, E, q),
         Len(R) <= MaxReads
  PROVE  GotOk(R, U) /\ WholeOk(R, U, E, K) /\ AnsweredOk(R, L, C, U, E, K)
<1>0. /\ m \in 1 .. Len(R) /\ R[m].delegated /\ (~SameId(R[m]) \/ m \in L)
      /\ \A k \in 1 .. Len(C) : \E j \in 1 .. Len(B) : C[k] = B[j]
      /\ \A x \in U : x \in T \/ x.rid = q
      /\ T \subseteq U
      /\ E \in [1 .. MaxReads -> Nat]
      /\ \A n \in 1 .. MaxReads : n # q => E[n] = D[n]
  BY DEF Aside, FromList, BlocksBut, CountsBut
<1>1. \A n : n # q => BlocksIn(U, n) = BlocksIn(T, n)
  <2> SUFFICES ASSUME NEW n, n # q PROVE BlocksIn(U, n) = BlocksIn(T, n)
    OBVIOUS
  <2>1. ASSUME NEW b PROVE b \in BlocksIn(U, n) <=> b \in BlocksIn(T, n)
    BY <1>0, BlocksAre
  <2> QED
    BY <2>1
<1>2. GotOk(R, U)
  BY <1>0 DEF GotOk
<1>3. Len(R) \in Nat /\ \A n \in 1 .. Len(R) : n \in 1 .. MaxReads
  BY ReadsAre, Bounds
<1>4. \A n \in 1 .. Len(R) : n # q => E[n] = D[n]
  BY <1>0, <1>3
<1>5. WholeOk(R, U, E, K)
  <2>1. ASSUME NEW n \in 1 .. Len(R), R[n].delegated, SameId(R[n]), R[n].mem, E[n] > 0
        PROVE  BlocksIn(U, n) = R[n].blocks \ K
    <3>1. n # q /\ D[n] > 0
      BY <1>4, <2>1
    <3> QED
      BY <1>1, <2>1, <3>1 DEF WholeOk
  <2> QED
    BY <1>0, <2>1 DEF WholeOk
<1>6. \A n \in 1 .. MaxReads : n > Len(R) => E[n] = 0
  <2> SUFFICES ASSUME NEW n \in 1 .. MaxReads, n > Len(R) PROVE E[n] = 0
    OBVIOUS
  <2>1. n # q
    BY <1>3
  <2> QED
    BY <1>0, <2>1 DEF AnsweredOk
<1>7. ASSUME NEW n \in 1 .. Len(R), R[n].delegated, SameId(R[n]), n \notin L
      PROVE  /\ BlocksIn(U, n) =
                  {b \in R[n].blocks \ K : Segments(b) \cap Pend(C, n) = {}}
             /\ R[n].blocks \cap K = {} =>
                  E[n] = IF R[n].mem
                         THEN IF Pend(C, n) = {} /\ R[n].blocks # {} THEN 1 ELSE 0
                         ELSE Cardinality(BlocksIn(U, n))
  <2>1. n # q /\ n # m
    BY <1>0, <1>7
  <2>2. BlocksIn(U, n) = BlocksIn(T, n) /\ Pend(C, n) = Pend(B, n) /\ E[n] = D[n]
    BY <1>1, <1>4, <2>1 DEF PendBut
  <2>3. /\ BlocksIn(T, n) = {b \in R[n].blocks \ K : Segments(b) \cap Pend(B, n) = {}}
        /\ R[n].blocks \cap K = {} =>
             D[n] = IF R[n].mem
                    THEN IF Pend(B, n) = {} /\ R[n].blocks # {} THEN 1 ELSE 0
                    ELSE Cardinality(BlocksIn(T, n))
    BY <1>7 DEF AnsweredOk
  <2> QED
    BY ONLY <2>2, <2>3
<1>8. ASSUME NEW k \in 1 .. Len(C), ~R[C[k].rid].delegated
      PROVE  E[C[k].rid] = R[C[k].rid].pieces - C[k].left
  <2>1. PICK j \in 1 .. Len(B) : C[k] = B[j]
    BY <1>0
  <2>2. D[B[j].rid] = R[B[j].rid].pieces - B[j].left
    BY <1>8, <2>1 DEF AnsweredOk
  <2>3. B[j].rid \in 1 .. Len(R)
    BY DEF EntriesOk, EntryOk
  <2>4. B[j].rid # q
    BY <1>8, <2>1
  <2> QED
    BY <1>4, <2>1, <2>2, <2>3, <2>4
<1>9. ASSUME NEW n \in 1 .. Len(R), ~R[n].delegated, n \notin L, Pend(C, n) = {}
      PROVE  E[n] = R[n].pieces
  <2>1. n # q /\ n # m
    BY <1>0, <1>9
  <2>2. Pend(B, n) = {}
    BY <1>9, <2>1 DEF PendBut
  <2>3. D[n] = R[n].pieces
    BY <1>9, <2>2 DEF AnsweredOk
  <2> QED
    BY <1>4, <2>1, <2>3
<1>10. AnsweredOk(R, L, C, U, E, K)
  BY <1>6, <1>7, <1>8, <1>9 DEF AnsweredOk
<1> QED
  BY <1>2, <1>5, <1>10

(* A chunk of transformed data that goes to its own read.                  *)
OwnGroup(R, st, B, m, g) ==
  /\ GroupOk(R, st, g) /\ g.rid = m
  /\ Pend(B, m) = Subrequests(g) \ g.done
  /\ g.filled = Filled(R[m], g.done)

(* Group g of read m has got segment s and become h.                       *)
GroupServed(r, m, g, h, s) ==
  /\ h.rid = m /\ h.mem = g.mem /\ h.blocks = g.blocks
  /\ h.done = g.done \cup {s} /\ h.filled = g.filled \cup {Data(r, s)}

(* Whether the chunk that completed block b is returned.                   *)
Complete(h, b, K, ret) ==
  ret <=> PgCompleted(h, b) /\ b \notin K /\ (h.mem => Completed(h))

(* The block is decoded when its segments are there.                       *)
BlockAdded(T, h, b, K, U) ==
  U = IF PgCompleted(h, b) /\ b \notin K THEN T \cup {Decoded(h, b)} ELSE T

(* The list has lost segment s of read m and nothing else.                 *)
OwnPiece(B, C, m, s) ==
  s \in Pend(B, m) /\ Pend(C, m) = Pend(B, m) \ {s} /\ PendBut(B, C, m) /\ FromList(C, B)

(* All that the answer to segment s changes for its own read.              *)
OwnAnswer(R, m, g, h, s, b, ret, K, T, U, D, E) ==
  /\ b = s[1] /\ GroupServed(R[m], m, g, h, s)
  /\ Complete(h, b, K, ret) /\ BlockAdded(T, h, b, K, U) /\ E = Returned(D, m, ret)

(* Group h of read m waits for what the list C has.                        *)
OwnNow(C, r, m, h) ==
  Pend(C, m) = Subrequests(h) \ h.done /\ h.filled = Filled(r, h.done)

(* An answer that reaches its own read keeps the histories right.          *)
LEMMA OwnServed ==
  ASSUME NEW R, NEW st, ReadsOk(R, st), Len(R) <= MaxReads,
         NEW L, NEW B, EntriesOk(R, st, L, B), NEW C, NEW T, NEW D, NEW K,
         GotOk(R, T), WholeOk(R, T, D, K), AnsweredOk(R, L, B, T, D, K),
         NEW m \in 1 .. Len(R), R[m].delegated, SameId(R[m]), m \notin L,
         NEW s, OwnPiece(B, C, m, s), NEW g, OwnGroup(R, st, B, m, g), NEW h,
         NEW b, NEW ret,
         NEW U, NEW E, OwnAnswer(R, m, g, h, s, b, ret, K, T, U, D, E)
  PROVE  /\ GotOk(R, U) /\ WholeOk(R, U, E, K) /\ AnsweredOk(R, L, C, U, E, K)
         /\ OwnNow(C, R[m], m, h)
<1> DEFINE r == R[m]
           P == Pend(B, m)
           N == Pend(C, m)
<1>0. /\ GroupOk(R, st, g) /\ g.rid = m
      /\ b = s[1] /\ E = Returned(D, m, ret)
      /\ s \in Pend(B, m) /\ Pend(C, m) = Pend(B, m) \ {s}
      /\ PendBut(B, C, m) /\ FromList(C, B)
      /\ Pend(B, m) = Subrequests(g) \ g.done
      /\ g.filled = Filled(R[m], g.done)
      /\ h.rid = m /\ h.mem = g.mem /\ h.blocks = g.blocks
      /\ h.done = g.done \cup {s} /\ h.filled = g.filled \cup {Data(R[m], s)}
      /\ (ret <=> PgCompleted(h, b) /\ b \notin K /\ (h.mem => Completed(h)))
      /\ U = IF PgCompleted(h, b) /\ b \notin K THEN T \cup {Decoded(h, b)} ELSE T
  BY DEF OwnGroup, OwnPiece, OwnAnswer, GroupServed, Complete, BlockAdded
<1>1. /\ g.blocks = r.blocks /\ g.mem = r.mem /\ g.done \subseteq Subrequests(g)
      /\ h.blocks = r.blocks /\ h.mem = r.mem /\ r.blocks # {}
  BY <1>0 DEF GroupOk
<1>2. Subrequests(g) = Subrequests(r) /\ Subrequests(h) = Subrequests(r)
  BY <1>0, <1>1 DEF Subrequests
<1>3. N = Subrequests(h) \ h.done
  BY <1>0, <1>2
<1>4. h.filled = Filled(r, h.done)
  BY <1>0 DEF Filled
<1>5. h.done \subseteq Subrequests(r)
  BY <1>0, <1>1, <1>2
<1>6. Completed(h) <=> N = {}
  BY <1>0, <1>2, <1>3, <1>5 DEF Completed
<1>7. \A x \in r.blocks : PgCompleted(h, x) <=> Segments(x) \cap N = {}
  <2>1. \A x \in r.blocks : Segments(x) \subseteq Subrequests(h)
    BY <1>0, <1>2, SegmentsOfRead
  <2> QED
    BY <1>0, <1>3, <2>1 DEF PgCompleted
<1>8. b \in r.blocks /\ s \in Segments(b) /\ s \in P
  <2>1. s \in Subrequests(r)
    BY <1>0, <1>2
  <2> QED
    BY <1>0, <2>1, SegmentsOfRead
<1>9. \A x \in r.blocks : x # b => Segments(x) \cap N = Segments(x) \cap P
  <2>1. \A x : x # b => s \notin Segments(x)
    BY <1>0, SegmentsAre
  <2> QED
    BY <1>0, <2>1
<1>10. m \in 1 .. MaxReads /\ Len(R) \in Nat /\ \A n \in 1 .. Len(R) : n \in 1 .. MaxReads
  BY <1>0, ReadsAre, Bounds
<1>11. D \in [1 .. MaxReads -> Nat]
  BY <1>0 DEF WholeOk
<1>12. /\ E \in [1 .. MaxReads -> Nat]
       /\ E[m] = D[m] + (IF ret THEN 1 ELSE 0)
       /\ \A n \in 1 .. MaxReads : n # m => E[n] = D[n]
  BY <1>0, <1>10, <1>11 DEF Returned
<1> DEFINE add == PgCompleted(h, b) /\ b \notin K
           d == Decoded(h, b)
<1>13. d.rid = m /\ d.block = b /\ d.data = {c \in h.filled : c.sel[1] = b}
  BY <1>0 DEF Decoded
<1>14. PgCompleted(h, b) => d.data = Filled(r, Segments(b))
  <2> SUFFICES ASSUME PgCompleted(h, b)
               PROVE  {c \in h.filled : c.sel[1] = b} = Filled(r, Segments(b))
    BY <1>0, <1>13
  <2>1. \A x : Data(r, x).sel = x
    BY <1>0 DEF Data
  <2>2. \A x \in h.done : x[1] = b => x \in Segments(b)
    BY <1>0, <1>5, SegmentsOfRead
  <2>3. \A x \in Segments(b) : x[1] = b /\ x \in h.done
    BY <1>0, SegmentsAre DEF PgCompleted
  <2> QED
    BY <1>0, <1>4, <2>1, <2>2, <2>3 DEF Filled
<1>15. GotOk(R, U)
  <2>1. CASE add
    <3>1. \A x \in U : x \in T \/ x = d
      BY <1>0, <2>1
    <3>2. \A x \in T : /\ x.rid \in 1 .. Len(R) /\ R[x.rid].delegated
                       /\ SameId(R[x.rid]) =>
                            x.data = Filled(R[x.rid], Segments(x.block))
      BY <1>0 DEF GotOk
    <3>3. /\ d.rid \in 1 .. Len(R) /\ R[d.rid].delegated
          /\ SameId(R[d.rid]) => d.data = Filled(R[d.rid], Segments(d.block))
      BY <1>0, <1>13, <1>14, <2>1
    <3> QED
      BY ONLY <3>1, <3>2, <3>3 DEF GotOk
  <2>2. CASE ~add
    BY <1>0, <2>2
  <2> QED
    BY <1>0, <2>1, <2>2
<1>16. \A n : n # m => BlocksIn(U, n) = BlocksIn(T, n)
  <2> SUFFICES ASSUME NEW n, n # m PROVE BlocksIn(U, n) = BlocksIn(T, n)
    BY <1>0
  <2>0. \A x \in U : x \in T \/ x = d
    BY <1>0
  <2>2. T \subseteq U
    BY <1>0
  <2>1. ASSUME NEW x PROVE x \in BlocksIn(U, n) <=> x \in BlocksIn(T, n)
    BY ONLY <1>13, <2>0, <2>2, n # m, BlocksAre
  <2> QED
    BY <1>0, <2>1
<1>17. BlocksIn(U, m) = BlocksIn(T, m) \cup (IF add THEN {b} ELSE {})
  <2>1. CASE add
    <3>0. \A x : x \in U <=> x \in T \/ x = d
      BY <1>0, <2>1
    <3>1. ASSUME NEW x PROVE x \in BlocksIn(U, m) <=> x \in BlocksIn(T, m) \/ x = b
      BY ONLY <1>13, <3>0, BlocksAre
    <3> QED
      BY <1>0, <2>1, <3>1
  <2>2. CASE ~add
    BY <1>0, <2>2
  <2> QED
    BY <1>0, <2>1, <2>2
<1>18. BlocksIn(T, m) = {x \in r.blocks \ K : Segments(x) \cap P = {}}
  BY <1>0 DEF AnsweredOk
<1>19. b \notin BlocksIn(T, m)
  BY <1>0, <1>8, <1>18
<1> HIDE DEF N, P, d, r
<1>20. BlocksIn(U, m) = {x \in r.blocks \ K : Segments(x) \cap N = {}}
  <2>1. Segments(b) \cap P # {}
    BY <1>0, <1>8
  <2>2. ASSUME NEW x
        PROVE  x \in BlocksIn(U, m) <=> x \in r.blocks \ K /\ Segments(x) \cap N = {}
    <3>1. CASE x = b
      BY <1>0, <1>7, <1>8, <1>17, <1>19, <3>1
    <3>2. CASE x # b
      <4>1. x \in BlocksIn(U, m) <=> x \in BlocksIn(T, m)
        BY <1>0, <1>17, <3>2
      <4> QED
        BY <1>0, <1>9, <1>18, <3>2, <4>1
    <3> QED
      BY <1>0, <3>1, <3>2
  <2> QED
    BY <1>0, <2>2
<1>21. WholeOk(R, U, E, K)
  <2>1. ASSUME NEW n \in 1 .. Len(R), R[n].delegated, SameId(R[n]), R[n].mem, E[n] > 0
        PROVE  BlocksIn(U, n) = R[n].blocks \ K
    <3>1. CASE n # m
      <4>1. D[n] > 0
        BY <1>0, <1>10, <1>12, <2>1, <3>1
      <4>2. BlocksIn(T, n) = R[n].blocks \ K
        BY <1>0, <2>1, <4>1 DEF WholeOk
      <4> QED
        BY <1>0, <1>16, <3>1, <4>2
    <3>2. CASE n = m /\ ret
      <4>1. N = {}
        BY <1>0, <1>1, <1>6, <2>1, <3>2 DEF r
      <4> QED
        BY <1>0, <1>20, <3>2, <4>1 DEF r
    <3>3. CASE n = m /\ ~ret
      <4>1. D[m] > 0
        BY <1>0, <1>10, <1>11, <1>12, <2>1, <3>3
      <4>2. BlocksIn(T, m) = R[m].blocks \ K
        BY <1>0, <2>1, <3>3, <4>1 DEF WholeOk
      <4> QED
        BY <1>0, <1>8, <1>17, <3>3, <4>2 DEF r
    <3> QED
      BY <1>0, <3>1, <3>2, <3>3
  <2> QED
    BY <1>0, <1>12, <2>1 DEF WholeOk
<1>22. ASSUME r.blocks \cap K = {}
       PROVE  E[m] = IF r.mem THEN IF N = {} /\ r.blocks # {} THEN 1 ELSE 0
                     ELSE Cardinality(BlocksIn(U, m))
  <2>0. D[m] = IF r.mem THEN IF P = {} /\ r.blocks # {} THEN 1 ELSE 0
               ELSE Cardinality(BlocksIn(T, m))
    BY <1>0, <1>22 DEF AnsweredOk, r, P
  <2>1. b \notin K
    BY <1>0, <1>8, <1>22
  <2>2. CASE r.mem
    <3>1. D[m] = 0
      BY <1>0, <1>8, <2>0, <2>2
    <3>2. Completed(h) => PgCompleted(h, b)
      BY <1>0, <1>6, <1>7, <1>8
    <3>3. ret <=> N = {}
      BY <1>0, <1>1, <1>6, <2>1, <2>2, <3>2
    <3> QED
      BY <1>0, <1>1, <1>12, <2>2, <3>1, <3>3
  <2>3. CASE ~r.mem
    <3>1. ret <=> add
      BY <1>0, <1>1, <2>3
    <3>2. IsFiniteSet(BlocksIn(T, m))
      <4>1. IsFiniteSet(1 .. NBlocks) /\ r.blocks \subseteq 1 .. NBlocks
        <5>1. IsFiniteSet(1 .. NBlocks)
          BY <1>0, FS_Interval, Bounds
        <5>2. ReadOk(r)
          BY <1>0, ReadsAre DEF r
        <5> QED
          BY <1>0, <5>1, <5>2 DEF ReadOk
      <4>2. BlocksIn(T, m) \subseteq 1 .. NBlocks
        BY <1>0, <1>18, <4>1
      <4> QED
        BY <1>0, <4>1, <4>2, FS_Subset
    <3>3. Cardinality(BlocksIn(T, m)) \in Nat
          /\ Cardinality(BlocksIn(T, m) \cup {b}) = Cardinality(BlocksIn(T, m)) + 1
      BY <1>0, <1>19, <3>2, FS_AddElement, FS_CardinalityType
    <3>4. D[m] = Cardinality(BlocksIn(T, m))
      BY <1>0, <2>0, <2>3
    <3>5. CASE add
      BY <1>0, <1>12, <1>17, <2>3, <3>1, <3>3, <3>4, <3>5
    <3>6. CASE ~add
      <4>1. BlocksIn(U, m) = BlocksIn(T, m)
        BY <1>0, <1>17, <3>6
      <4>2. E[m] = D[m]
        BY <1>0, <1>10, <1>11, <1>12, <3>1, <3>6
      <4> QED
        BY <1>0, <2>3, <3>4, <4>1, <4>2
    <3> QED
      BY <1>0, <3>5, <3>6
  <2> QED
    BY <1>0, <2>2, <2>3
<1>23. \A n \in 1 .. MaxReads : n > Len(R) => E[n] = 0
  <2> SUFFICES ASSUME NEW n \in 1 .. MaxReads, n > Len(R) PROVE E[n] = 0
    BY <1>0
  <2>1. n # m
    BY <1>0, <1>10
  <2> QED
    BY <1>0, <1>12, <2>1 DEF AnsweredOk
<1>24. ASSUME NEW n \in 1 .. Len(R), R[n].delegated, SameId(R[n]), n \notin L
       PROVE  /\ BlocksIn(U, n) =
                   {x \in R[n].blocks \ K : Segments(x) \cap Pend(C, n) = {}}
              /\ R[n].blocks \cap K = {} =>
                   E[n] = IF R[n].mem
                          THEN IF Pend(C, n) = {} /\ R[n].blocks # {} THEN 1 ELSE 0
                          ELSE Cardinality(BlocksIn(U, n))
  <2>1. CASE n = m
    BY <1>0, <1>20, <1>22, <2>1 DEF r, N
  <2>2. CASE n # m
    <3>1. BlocksIn(U, n) = BlocksIn(T, n) /\ Pend(C, n) = Pend(B, n) /\ E[n] = D[n]
      BY <1>0, <1>10, <1>12, <1>16, <2>2 DEF PendBut
    <3>2. /\ BlocksIn(T, n) = {x \in R[n].blocks \ K : Segments(x) \cap Pend(B, n) = {}}
          /\ R[n].blocks \cap K = {} =>
               D[n] = IF R[n].mem
                      THEN IF Pend(B, n) = {} /\ R[n].blocks # {} THEN 1 ELSE 0
                      ELSE Cardinality(BlocksIn(T, n))
      BY <1>0, <1>24 DEF AnsweredOk
    <3> QED
      BY ONLY <3>1, <3>2
  <2> QED
    BY <1>0, <2>1, <2>2
<1>25. ASSUME NEW k \in 1 .. Len(C), ~R[C[k].rid].delegated
       PROVE  E[C[k].rid] = R[C[k].rid].pieces - C[k].left
  <2>1. PICK j \in 1 .. Len(B) : C[k] = B[j]
    BY <1>0 DEF FromList
  <2>2. D[B[j].rid] = R[B[j].rid].pieces - B[j].left
    BY <1>0, <1>25, <2>1 DEF AnsweredOk
  <2>3. B[j].rid \in 1 .. Len(R)
    BY <1>0 DEF EntriesOk, EntryOk
  <2>4. B[j].rid # m
    BY <1>0, <1>25, <2>1
  <2> QED
    BY <1>0, <1>10, <1>12, <2>1, <2>2, <2>3, <2>4
<1>26. ASSUME NEW n \in 1 .. Len(R), ~R[n].delegated, n \notin L, Pend(C, n) = {}
       PROVE  E[n] = R[n].pieces
  <2>1. n # m
    BY <1>0, <1>26
  <2>2. Pend(B, n) = {}
    BY <1>0, <1>26, <2>1 DEF PendBut
  <2>3. D[n] = R[n].pieces
    BY <1>0, <1>26, <2>2 DEF AnsweredOk
  <2> QED
    BY <1>0, <1>10, <1>12, <2>1, <2>3
<1>27. AnsweredOk(R, L, C, U, E, K)
  BY <1>0, <1>23, <1>24, <1>25, <1>26 DEF AnsweredOk
<1> QED
  BY <1>0, <1>3, <1>4, <1>15, <1>21, <1>27 DEF N, r, OwnNow

(* Which group each entry has stays true while BP's list only changes for  *)
(* reads that have no group.                                               *)
LEMMA MatchAside ==
  ASSUME NEW R, NEW G, NEW B, MatchOk(R, G, B), NEW C, NEW m, PendBut(B, C, m),
         \A i \in 1 .. Len(G) : SameId(R[G[i].rid]) /\ ~G[i].stale => G[i].rid # m,
         \A k \in 1 .. Len(C) :
           \/ ~R[C[k].rid].delegated
           \/ \E j \in 1 .. Len(B) : C[k] = B[j]
  PROVE  MatchOk(R, G, C)
<1>1. ASSUME NEW i \in 1 .. Len(G), SameId(R[G[i].rid]), ~G[i].stale
      PROVE  /\ Pend(C, G[i].rid) = Subrequests(G[i]) \ G[i].done
             /\ G[i].filled = Filled(R[G[i].rid], G[i].done)
  <2>1. G[i].rid # m
    BY <1>1
  <2>2. Pend(C, G[i].rid) = Pend(B, G[i].rid)
    BY <2>1 DEF PendBut
  <2>3. Pend(B, G[i].rid) = Subrequests(G[i]) \ G[i].done
    BY <1>1 DEF MatchOk
  <2>4. G[i].filled = Filled(R[G[i].rid], G[i].done)
    BY <1>1 DEF MatchOk
  <2> QED
    BY <2>2, <2>3, <2>4, Zenon
<1>2. ASSUME NEW k \in 1 .. Len(C), R[C[k].rid].delegated, SameId(R[C[k].rid])
      PROVE  \E i \in 1 .. Len(G) : G[i].rid = C[k].rid /\ C[k].sel \notin G[i].done
  <2>1. PICK j \in 1 .. Len(B) : C[k] = B[j]
    BY <1>2
  <2> QED
    BY <1>2, <2>1 DEF MatchOk
<1> QED
  BY <1>1, <1>2 DEF MatchOk

(* A chunk of a read that is not transformed.                              *)
PieceGone(e, B, C) ==
  C = IF e.left > 1 THEN [B EXCEPT ![1].left = @ - 1, ![1].mem = FALSE] ELSE Tail(B)

(* One more chunk returned for read n.                                     *)
OneChunk(D, n, E) == E = [D EXCEPT ![n] = @ + 1]

(* An answer to a read that is not transformed does, too.                  *)
LEMMA RawServed ==
  ASSUME NEW R, NEW st, ReadsOk(R, st), Len(R) <= MaxReads,
         NEW L, NEW B, EntriesOk(R, st, L, B), B # <<>>,
         NEW G, GroupsOk(R, st, G), MatchOk(R, G, B),
         NEW T, NEW D, NEW K, WholeOk(R, T, D, K), AnsweredOk(R, L, B, T, D, K),
         NEW e, e = Head(B), ~R[e.rid].delegated,
         NEW C, PieceGone(e, B, C), NEW E, OneChunk(D, e.rid, E)
  PROVE  /\ EntriesOk(R, st, L, C) /\ MatchOk(R, G, C)
         /\ WholeOk(R, T, E, K) /\ AnsweredOk(R, L, C, T, E, K)
<1> USE DEF PieceGone, OneChunk
<1> DEFINE m == e.rid
<1>0. PICK Z : Z = Tail(B)
  OBVIOUS
<1>1. /\ EntryOk(R, st, L, e) /\ 1 \in 1 .. Len(B) /\ e = B[1]
      /\ Len(B) \in Nat /\ e.sel \in Pend(B, m)
      /\ HeadIs(R, st, L, B, e, Z)
  <2>1. HeadIs(R, st, L, B, e, Z)
    BY <1>0, HeadServed
  <2> QED
    BY <2>1 DEF HeadIs
<1>2. /\ m \in 1 .. Len(R) /\ e.sel = UserSelection /\ e.left \in 1 .. R[m].pieces
      /\ R[m].pieces \in Nat
  BY <1>1, ReadsAre DEF EntryOk
<1>3. /\ Len(R) \in Nat /\ \A n \in 1 .. Len(R) : n \in 1 .. MaxReads
      /\ MaxReads \in Nat
  BY ReadsAre, Bounds
<1>4. D \in [1 .. MaxReads -> Nat] /\ D[m] = R[m].pieces - e.left
  BY <1>1 DEF WholeOk, AnsweredOk
<1>5. /\ E \in [1 .. MaxReads -> Nat] /\ E[m] = R[m].pieces - e.left + 1
      /\ \A n \in 1 .. MaxReads : n # m => E[n] = D[n]
  <2>1. m \in 1 .. MaxReads
    BY <1>2, <1>3
  <2>2. E \in [1 .. MaxReads -> Nat] /\ E[m] = D[m] + 1
        /\ \A n \in 1 .. MaxReads : n # m => E[n] = D[n]
    BY <1>4, <2>1
  <2> QED
    BY <1>4, <2>2
(* No other entry is of this read.                                         *)
<1>6. \A k \in 1 .. Len(B) : k # 1 => B[k].rid # m
  <2> SUFFICES ASSUME NEW k \in 1 .. Len(B), k # 1, B[k].rid = m PROVE FALSE
    OBVIOUS
  <2>1. 1 < k
    BY <1>1
  <2>2. B[k].sel # B[1].sel
    BY <1>1, <2>1 DEF EntriesOk
  <2>3. B[k].sel = UserSelection
    BY DEF EntriesOk, EntryOk
  <2> QED
    BY <1>1, <1>2, <2>2, <2>3
<1>7. /\ EntriesOk(R, st, L, C)
      /\ PendBut(B, C, m)
      /\ \A k \in 1 .. Len(C) :
           \/ C[k].rid = m /\ C[k].left = e.left - 1
           \/ C[k].rid # m /\ \E j \in 1 .. Len(B) : C[k] = B[j]
      /\ Pend(C, m) = {} => e.left = 1
  <2>1. CASE e.left > 1
    <3>0. PICK Y : Y = OnePieceLess(B)
      OBVIOUS
    <3>1. /\ EntriesOk(R, st, L, Y) /\ Len(Y) = Len(B)
          /\ \A k \in 1 .. Len(B) : Y[k].rid = B[k].rid /\ Y[k].sel = B[k].sel
          /\ Y[1].left = B[1].left - 1
          /\ \A n : Pend(Y, n) = Pend(B, n)
      <4>1. PieceIs(R, st, L, B, Y)
        BY <2>1, <3>0, PieceServed
      <4> QED
        BY <4>1 DEF PieceIs
    <3>2. \A k \in 1 .. Len(B) : k # 1 => Y[k] = B[k]
      <4>1. PieceIs(R, st, L, B, Y)
        BY <2>1, <3>0, PieceServed
      <4> QED
        BY <4>1 DEF PieceIs
    <3>3. C = Y
      BY <2>1, <3>0 DEF OnePieceLess
    <3>4. Pend(C, m) # {}
      BY <1>1, <3>1, <3>3
    <3>5. ASSUME NEW k \in 1 .. Len(C)
          PROVE  \/ C[k].rid = m /\ C[k].left = e.left - 1
                 \/ C[k].rid # m /\ \E j \in 1 .. Len(B) : C[k] = B[j]
      <4>1. CASE k = 1
        BY <1>1, <3>1, <3>3, <4>1
      <4>2. CASE k # 1
        BY <1>6, <3>1, <3>2, <3>3, <4>2
      <4> QED
        BY <4>1, <4>2
    <3> QED
      BY <3>1, <3>3, <3>4, <3>5 DEF PendBut
  <2>2. CASE ~(e.left > 1)
    <3>1. C = Z /\ e.left = 1
      <4>1. e.left \in Nat /\ e.left >= 1
        BY <1>2
      <4> QED
        BY <1>0, <2>2, <4>1
    <3>2. EntriesOk(R, st, L, Z)
      BY <1>1 DEF HeadIs
    <3>3. \A k \in 1 .. Len(Z) : k + 1 \in 1 .. Len(B) /\ Z[k] = B[k + 1]
      BY <1>1 DEF HeadIs
    <3>4. PendBut(B, Z, m)
      BY <1>1 DEF HeadIs
    <3>5. \A k \in 1 .. Len(Z) : Z[k].rid # m /\ \E j \in 1 .. Len(B) : Z[k] = B[j]
      <4>1. \A k \in 1 .. Len(Z) : k + 1 # 1
        OBVIOUS
      <4> QED
        BY <1>6, <3>3, <4>1
    <3> QED
      BY <3>1, <3>2, <3>4, <3>5
  <2> QED
    BY <2>1, <2>2
<1>8. MatchOk(R, G, C)
  <2>1. \A i \in 1 .. Len(G) : G[i].rid # m
    BY DEF GroupsOk, GroupOk
  <2>2. \A k \in 1 .. Len(C) :
          \/ ~R[C[k].rid].delegated
          \/ \E j \in 1 .. Len(B) : C[k] = B[j]
    BY <1>7
  <2> QED
    BY ONLY MatchOk(R, G, B), <1>7, <2>1, <2>2, MatchAside
<1>9. WholeOk(R, T, E, K)
  <2>1. ASSUME NEW n \in 1 .. Len(R), R[n].delegated, SameId(R[n]), R[n].mem, E[n] > 0
        PROVE  BlocksIn(T, n) = R[n].blocks \ K
    <3>1. n # m /\ E[n] = D[n]
      BY <1>3, <1>5, <2>1
    <3> QED
      BY <2>1, <3>1 DEF WholeOk
  <2> QED
    BY <1>5, <2>1 DEF WholeOk
<1>10. \A n \in 1 .. MaxReads : n > Len(R) => E[n] = 0
  <2> SUFFICES ASSUME NEW n \in 1 .. MaxReads, n > Len(R) PROVE E[n] = 0
    OBVIOUS
  <2>1. n # m
    BY <1>2, <1>3
  <2> QED
    BY <1>5, <2>1 DEF AnsweredOk
<1>11. ASSUME NEW n \in 1 .. Len(R), R[n].delegated, SameId(R[n]), n \notin L
       PROVE  /\ BlocksIn(T, n) =
                   {x \in R[n].blocks \ K : Segments(x) \cap Pend(C, n) = {}}
              /\ R[n].blocks \cap K = {} =>
                   E[n] = IF R[n].mem
                          THEN IF Pend(C, n) = {} /\ R[n].blocks # {} THEN 1 ELSE 0
                          ELSE Cardinality(BlocksIn(T, n))
  <2>1. n # m /\ Pend(C, n) = Pend(B, n) /\ E[n] = D[n]
    BY <1>3, <1>5, <1>7, <1>11 DEF PendBut
  <2>2. /\ BlocksIn(T, n) = {x \in R[n].blocks \ K : Segments(x) \cap Pend(B, n) = {}}
        /\ R[n].blocks \cap K = {} =>
             D[n] = IF R[n].mem
                    THEN IF Pend(B, n) = {} /\ R[n].blocks # {} THEN 1 ELSE 0
                    ELSE Cardinality(BlocksIn(T, n))
    BY <1>11 DEF AnsweredOk
  <2> QED
    BY ONLY <2>1, <2>2
<1>12. ASSUME NEW k \in 1 .. Len(C), ~R[C[k].rid].delegated
       PROVE  E[C[k].rid] = R[C[k].rid].pieces - C[k].left
  <2>1. CASE C[k].rid = m /\ C[k].left = e.left - 1
    <3>1. \A a, b \in Nat : a - b + 1 = a - (b - 1)
      OBVIOUS
    <3>2. e.left \in Nat
      BY <1>2
    <3> DEFINE a == R[m].pieces
               b == e.left
    <3>3. a - b + 1 = a - (b - 1)
      BY ONLY <1>2, <3>1, <3>2
    <3> QED
      BY <1>5, <2>1, <3>3
  <2>2. ASSUME NEW j \in 1 .. Len(B), C[k] = B[j], C[k].rid # m
        PROVE  E[C[k].rid] = R[C[k].rid].pieces - C[k].left
    <3>1. D[B[j].rid] = R[B[j].rid].pieces - B[j].left
      BY <1>12, <2>2 DEF AnsweredOk
    <3>2. B[j].rid \in 1 .. Len(R)
      BY DEF EntriesOk, EntryOk
    <3> QED
      BY <1>3, <1>5, <2>2, <3>1, <3>2
  <2> QED
    BY <1>7, <2>1, <2>2
<1>13. ASSUME NEW n \in 1 .. Len(R), ~R[n].delegated, n \notin L, Pend(C, n) = {}
       PROVE  E[n] = R[n].pieces
  <2>1. CASE n = m
    <3>1. e.left = 1
      BY <1>7, <1>13, <2>1
    <3>2. E[m] = R[m].pieces - 1 + 1
      BY ONLY <1>5, <3>1
    <3> QED
      BY ONLY <1>2, <2>1, <3>2
  <2>2. CASE n # m
    <3>1. Pend(B, n) = {} /\ E[n] = D[n]
      BY <1>3, <1>5, <1>7, <1>13, <2>2 DEF PendBut
    <3> QED
      BY <1>13, <3>1 DEF AnsweredOk
  <2> QED
    BY <2>1, <2>2
<1>14. AnsweredOk(R, L, C, T, E, K)
  BY <1>10, <1>11, <1>12, <1>13 DEF AnsweredOk
<1> QED
  BY <1>7, <1>8, <1>9, <1>14

(* BP fills the buffer of a subrequest: of the groups G, the one of read n *)
(* has the content x as well.                                              *)
FieldsKept(g, h) ==
  /\ h.rid = g.rid /\ h.varid = g.varid /\ h.mem = g.mem /\ h.blocks = g.blocks
  /\ h.stale = g.stale

(* The groups H are those of G after BP filled a buffer of read n.         *)
FilledIs(R, st, G, n, x, H) ==
  /\ GroupsOk(R, st, H) /\ Len(H) = Len(G)
  /\ \A i \in 1 .. Len(G) :
       /\ FieldsKept(G[i], H[i]) /\ H[i].done = G[i].done
       /\ G[i].rid = n => H[i].filled = G[i].filled \cup {x}
       /\ G[i].rid # n => H[i] = G[i]

(* A filled buffer leaves the rest of its group alone.                     *)
LEMMA GroupFilled ==
  ASSUME NEW R, NEW st, NEW g, GroupOk(R, st, g), NEW v,
         NEW h, h = [g EXCEPT !.filled = v]
  PROVE  GroupOk(R, st, h) /\ FieldsKept(g, h) /\ h.done = g.done /\ h.filled = v
<1>1. GroupShape(g)
  BY DEF GroupOk, GroupShape
<1>2. h = [rid |-> g.rid, varid |-> g.varid, mem |-> g.mem, blocks |-> g.blocks,
           done |-> g.done, filled |-> v, stale |-> g.stale]
  BY <1>1, GroupUpdated
<1>3. /\ FieldsKept(g, h) /\ h.done = g.done /\ h.filled = v
      /\ h = [rid |-> h.rid, varid |-> h.varid, mem |-> h.mem, blocks |-> h.blocks,
              done |-> h.done, filled |-> h.filled, stale |-> h.stale]
  BY ONLY <1>2 DEF FieldsKept
<1>4. Subrequests(h) = Subrequests(g)
  BY <1>3 DEF Subrequests, FieldsKept
<1> QED
  BY <1>3, <1>4 DEF GroupOk, FieldsKept

(* And the other groups.                                                   *)
LEMMA GroupsFilled ==
  ASSUME NEW R, NEW st, NEW G, GroupsOk(R, st, G), NEW n, NEW x,
         NEW H, H = [i \in DOMAIN G |-> IF G[i].rid = n
                                        THEN [G[i] EXCEPT !.filled = @ \cup {x}]
                                        ELSE G[i]]
  PROVE  FilledIs(R, st, G, n, x, H)
<1>1. DOMAIN G = 1 .. Len(G) /\ \A i \in 1 .. Len(G) : GroupOk(R, st, G[i])
  BY DEF GroupsOk
<1>2. ASSUME NEW i \in 1 .. Len(G)
      PROVE  /\ GroupOk(R, st, H[i]) /\ FieldsKept(G[i], H[i])
             /\ H[i].done = G[i].done
             /\ G[i].rid = n => H[i].filled = G[i].filled \cup {x}
             /\ G[i].rid # n => H[i] = G[i]
  <2>1. CASE G[i].rid = n
    <3>1. PICK v : v = G[i].filled \cup {x}
      OBVIOUS
    <3>2. H[i] = [G[i] EXCEPT !.filled = v]
      BY <1>1, <2>1, <3>1
    <3>3. GroupOk(R, st, G[i])
      BY <1>1
    <3>4. /\ GroupOk(R, st, H[i]) /\ FieldsKept(G[i], H[i])
          /\ H[i].done = G[i].done /\ H[i].filled = v
      <4>1. PICK g, h : g = G[i] /\ h = H[i]
        OBVIOUS
      <4>2. GroupOk(R, st, g) /\ h = [g EXCEPT !.filled = v]
        BY <3>2, <3>3, <4>1
      <4>3. GroupOk(R, st, h) /\ FieldsKept(g, h) /\ h.done = g.done /\ h.filled = v
        BY ONLY <4>2, GroupFilled, SMTT(30)
      <4> QED
        BY <4>1, <4>3
    <3> QED
      BY <2>1, <3>1, <3>4
  <2>2. CASE G[i].rid # n
    <3>1. H[i] = G[i]
      BY <1>1, <2>2
    <3> QED
      BY <1>1, <2>2, <3>1 DEF FieldsKept
  <2> QED
    BY <2>1, <2>2
<1>3. SamePlaces(G, H)
  BY DEF SamePlaces
<1>4. GroupsOk(R, st, H) /\ Len(H) = Len(G)
  <2>1. \A i \in 1 .. Len(G) : GroupOk(R, st, H[i]) /\ H[i].rid = G[i].rid
    BY <1>2 DEF FieldsKept
  <2> QED
    BY ONLY <1>3, <2>1, GroupsOk(R, st, G), GroupsChanged
<1> QED
  BY <1>2, <1>4 DEF FilledIs

(* A subrequest of the group f is done.                                    *)
DoneIs(R, st, G, f, s, H) ==
  /\ GroupsOk(R, st, H) /\ Len(H) = Len(G)
  /\ \A i \in 1 .. Len(G) : i # f => H[i] = G[i]
  /\ FieldsKept(G[f], H[f]) /\ H[f].done = G[f].done \cup {s}
  /\ H[f].filled = G[f].filled

(* A segment that is done leaves the rest of its group alone.              *)
LEMMA GroupDone ==
  ASSUME NEW R, NEW st, NEW g, GroupOk(R, st, g), NEW s \in Subrequests(g),
         NEW h, h = [g EXCEPT !.done = @ \cup {s}]
  PROVE  /\ GroupOk(R, st, h) /\ FieldsKept(g, h)
         /\ h.done = g.done \cup {s} /\ h.filled = g.filled
<1>1. GroupShape(g)
  BY DEF GroupOk, GroupShape
<1>2. PICK v : v = g.done \cup {s}
  OBVIOUS
<1>3. h = [g EXCEPT !.done = v]
  BY <1>1, <1>2 DEF GroupShape
<1>4. h = [rid |-> g.rid, varid |-> g.varid, mem |-> g.mem, blocks |-> g.blocks,
           done |-> v, filled |-> g.filled, stale |-> g.stale]
  BY <1>1, <1>3, GroupUpdated
<1>5. /\ FieldsKept(g, h) /\ h.done = v /\ h.filled = g.filled
      /\ h = [rid |-> h.rid, varid |-> h.varid, mem |-> h.mem, blocks |-> h.blocks,
              done |-> h.done, filled |-> h.filled, stale |-> h.stale]
  BY ONLY <1>4 DEF FieldsKept
<1>6. Subrequests(h) = Subrequests(g)
  BY <1>5 DEF Subrequests, FieldsKept
<1>7. v \subseteq Subrequests(h)
  BY <1>2, <1>6 DEF GroupOk
<1> QED
  BY <1>2, <1>5, <1>7 DEF GroupOk, FieldsKept

(* The group at place f has segment s done and becomes h.                  *)
DoneNow(G, f, s, h, H) ==
  h = [G[f] EXCEPT !.done = @ \cup {s}] /\ H = [G EXCEPT ![f] = h]

(* The other groups stay as they are.                                      *)
LEMMA GroupsDone ==
  ASSUME NEW R, NEW st, NEW G, GroupsOk(R, st, G), NEW f \in 1 .. Len(G),
         NEW s \in Subrequests(G[f]),
         NEW h, NEW H, DoneNow(G, f, s, h, H)
  PROVE  DoneIs(R, st, G, f, s, H) /\ H[f] = h
<1>0. h = [G[f] EXCEPT !.done = @ \cup {s}] /\ H = [G EXCEPT ![f] = h]
  BY DEF DoneNow
<1> USE <1>0
<1>1. DOMAIN G = 1 .. Len(G) /\ \A i \in 1 .. Len(G) : GroupOk(R, st, G[i])
  BY DEF GroupsOk
<1>2. H[f] = h /\ \A i \in 1 .. Len(G) : i # f => H[i] = G[i]
  BY <1>1
<1>3. /\ GroupOk(R, st, h) /\ FieldsKept(G[f], h)
      /\ h.done = G[f].done \cup {s} /\ h.filled = G[f].filled
  <2>1. PICK g : g = G[f]
    OBVIOUS
  <2>2. GroupOk(R, st, g) /\ s \in Subrequests(g) /\ h = [g EXCEPT !.done = @ \cup {s}]
    BY <1>1, <2>1
  <2>3. /\ GroupOk(R, st, h) /\ FieldsKept(g, h)
        /\ h.done = g.done \cup {s} /\ h.filled = g.filled
    BY ONLY <2>2, GroupDone
  <2> QED
    BY <2>1, <2>3
<1>4. SamePlaces(G, H)
  BY DEF SamePlaces
<1>5. GroupsOk(R, st, H) /\ Len(H) = Len(G)
  <2>1. \A i \in 1 .. Len(G) : GroupOk(R, st, H[i]) /\ H[i].rid = G[i].rid
    BY <1>1, <1>2, <1>3 DEF FieldsKept
  <2> QED
    BY ONLY <1>4, <2>1, GroupsOk(R, st, G), GroupsChanged
<1> QED
  BY <1>2, <1>3, <1>5 DEF DoneIs

-----------------------------------------------------------------------------
(* adios_check_reads.                                                      *)

(* A subrequest that matches a group: its own, or one of a read whose ids  *)
(* differ.                                                                 *)
ContentOf(e, st, x) == x = [sel |-> e.sel, var |-> e.varid, step |-> st]

(* The parts of the invariant that an answer disturbs.                     *)
AllOk(R, st, L, C, H, U, E, K) ==
  /\ EntriesOk(R, st, L, C) /\ GroupsOk(R, st, H) /\ MatchOk(R, H, C)
  /\ GotOk(R, U) /\ WholeOk(R, U, E, K) /\ AnsweredOk(R, L, C, U, E, K)

(* The heart of the argument.  The chunk is for the latest read in the     *)
(* list; all groups in front of its group are completed or of other        *)
(* variables, so the first group that matches is its own.                  *)
LEMMA MatchedServed ==
  ASSUME NEW R, NEW st, ReadsOk(R, st), Len(R) <= MaxReads, OneNameIn(R),
         NEW L, LostOk(R, st, L), NEW B, EntriesOk(R, st, L, B), B # <<>>,
         NEW G, GroupsOk(R, st, G), MatchOk(R, G, B), NEW T, NEW D, NEW K,
         GotOk(R, T), WholeOk(R, T, D, K), AnsweredOk(R, L, B, T, D, K),
         NEW e, e = Head(B), R[e.rid].delegated,
         NEW f, FirstOf(G, e, f), ~G[f].stale,
         NEW x, ContentOf(e, st, x),
         NEW V, FilledIs(R, st, G, e.rid, x, V),
         NEW H, DoneIs(R, st, V, f, e.sel, H), NEW h, h = H[f],
         NEW C, C = Tail(B), NEW b, b = e.sel[1], NEW ret, Complete(h, b, K, ret),
         NEW U, BlockAdded(T, h, b, K, U),
         NEW E, E = Returned(D, h.rid, ret)
  PROVE  AllOk(R, st, L, C, H, U, E, K)
<1> DEFINE g == G[f]
           m == e.rid
<1>0. f \in 1 .. Len(G) /\ e.sel \in Subrequests(G[f]) \ G[f].done
  BY DEF FirstOf
<1>1. HeadIs(R, st, L, B, e, C)
  BY HeadServed
<1>2. /\ EntriesOk(R, st, L, C) /\ PendBut(B, C, m) /\ e.sel \in Pend(B, m)
      /\ Pend(C, m) = Pend(B, m) \ {e.sel} /\ EntryOk(R, st, L, e)
      /\ \A k \in 1 .. Len(C) : k + 1 \in 1 .. Len(B) /\ C[k] = B[k + 1]
  BY <1>1 DEF HeadIs
<1>3. m \in 1 .. Len(R) /\ e.varid = R[m].var /\ (R[m].step = st \/ m \in L)
  BY <1>2 DEF EntryOk
<1>4. FromList(C, B)
  BY <1>2 DEF FromList
<1>5. /\ SameId(R[m]) /\ R[m].step = st => g.rid = m
      /\ SameId(R[g.rid]) => g.rid = m
  BY FirstMatch
<1>6. GroupOk(R, st, g) /\ g.rid \in 1 .. Len(R) /\ R[g.rid].delegated /\ R[g.rid].step = st
  <2>1. GroupOk(R, st, g)
    BY <1>0 DEF GroupsOk
  <2> QED
    BY <2>1 DEF GroupOk
<1>7. /\ GroupsOk(R, st, H) /\ Len(H) = Len(G) /\ GroupOk(R, st, h)
      /\ \A i \in 1 .. Len(G) : FieldsKept(G[i], H[i])
      /\ \A i \in 1 .. Len(G) : i # f => H[i].done = G[i].done
      /\ \A i \in 1 .. Len(G) : i # f /\ G[i].rid # m => H[i] = G[i]
      /\ h.done = g.done \cup {e.sel}
      /\ g.rid = m => h.filled = g.filled \cup {x}
  <2>0. f \in 1 .. Len(G)
    BY <1>0
  <2>1. /\ Len(V) = Len(G)
        /\ \A i \in 1 .. Len(G) :
             /\ FieldsKept(G[i], V[i]) /\ V[i].done = G[i].done
             /\ G[i].rid = m => V[i].filled = G[i].filled \cup {x}
             /\ G[i].rid # m => V[i] = G[i]
    BY DEF FilledIs
  <2>2. /\ GroupsOk(R, st, H) /\ Len(H) = Len(V)
        /\ \A i \in 1 .. Len(V) : i # f => H[i] = V[i]
        /\ FieldsKept(V[f], H[f]) /\ H[f].done = V[f].done \cup {e.sel}
        /\ H[f].filled = V[f].filled
    BY DEF DoneIs
  <2>3. \A i \in 1 .. Len(G) : FieldsKept(G[i], H[i])
    BY <2>0, <2>1, <2>2 DEF FieldsKept
  <2>4. GroupOk(R, st, h)
    BY <2>0, <2>1, <2>2 DEF GroupsOk
  <2> QED
    BY <2>0, <2>1, <2>2, <2>3, <2>4
<1>8. h.rid = g.rid /\ h.mem = g.mem /\ h.blocks = g.blocks /\ h.stale = g.stale
  BY <1>0, <1>7 DEF FieldsKept
(* The entries that are left have their groups.                            *)
<1>9. ASSUME NEW k \in 1 .. Len(C), R[C[k].rid].delegated, SameId(R[C[k].rid])
      PROVE  \E i \in 1 .. Len(H) : H[i].rid = C[k].rid /\ C[k].sel \notin H[i].done
  <2>1. PICK j \in 1 .. Len(B) : C[k] = B[j]
    BY <1>4 DEF FromList
  <2>2. PICK i \in 1 .. Len(G) : G[i].rid = C[k].rid /\ C[k].sel \notin G[i].done
    BY <1>9, <2>1 DEF MatchOk
  <2>3. H[i].rid = C[k].rid
    BY <1>7, <2>2 DEF FieldsKept
  <2>4. CASE i # f
    BY <1>7, <2>2, <2>3, <2>4
  <2>5. CASE i = f
    <3>1. C[k].rid = m
      BY <1>5, <1>9, <2>2, <2>5
    <3>2. C[k].sel \in Pend(C, m)
      BY ONLY <3>1, PendIs, k \in 1 .. Len(C)
    <3>3. C[k].sel # e.sel
      BY <1>2, <3>2
    <3> QED
      BY <1>7, <2>2, <2>3, <2>5, <3>3
  <2> QED
    BY <2>4, <2>5
<1>10. CASE g.rid = m /\ SameId(R[m])
  <2>1. R[m].step = st /\ x = Data(R[m], e.sel)
    BY <1>3, <1>6, <1>10 DEF Data, ContentOf
  <2>2. m \notin L
    <3>1. R[m].step \in Nat
      BY <1>3, ReadsAre
    <3> QED
      BY <2>1, <3>1 DEF LostOk
  <2>3. Pend(B, m) = Subrequests(g) \ g.done /\ g.filled = Filled(R[m], g.done)
    <3>1. /\ Pend(B, g.rid) = Subrequests(g) \ g.done
          /\ g.filled = Filled(R[g.rid], g.done)
      BY <1>0, <1>10 DEF MatchOk
    <3> QED
      BY <1>10, <3>1
  <2>5. h.filled = g.filled \cup {Data(R[m], e.sel)}
    BY <1>7, <1>10, <2>1
  <2>6. E = Returned(D, m, ret)
    BY <1>8, <1>10
  <2>7. /\ GotOk(R, U) /\ WholeOk(R, U, E, K) /\ AnsweredOk(R, L, C, U, E, K)
        /\ Pend(C, m) = Subrequests(h) \ h.done
        /\ h.filled = Filled(R[m], h.done)
    <3>1. PICK s, gg : s = e.sel /\ gg = g
      OBVIOUS
    <3>0. PICK q : q = m
      OBVIOUS
    <3>2. OwnGroup(R, st, B, m, gg)
      BY <1>6, <1>10, <2>3, <3>1 DEF OwnGroup
    <3>3. GroupServed(R[m], m, gg, h, s)
      BY <1>7, <1>8, <1>10, <2>5, <3>1 DEF GroupServed
    <3>4. s \in Pend(B, m) /\ Pend(C, m) = Pend(B, m) \ {s} /\ b = s[1]
      BY <1>2, <3>1
    <3>5. /\ q \in 1 .. Len(R) /\ R[q].delegated /\ SameId(R[q]) /\ q \notin L
          /\ OwnGroup(R, st, B, q, gg) /\ OwnPiece(B, C, q, s)
      BY <1>2, <1>3, <1>4, <1>10, <2>2, <3>0, <3>2, <3>4 DEF OwnPiece
    <3>7. OwnAnswer(R, q, gg, h, s, b, ret, K, T, U, D, E)
      BY <2>6, <3>0, <3>3, <3>4 DEF OwnAnswer
    <3>6. /\ GotOk(R, U) /\ WholeOk(R, U, E, K) /\ AnsweredOk(R, L, C, U, E, K)
          /\ OwnNow(C, R[q], q, h)
      <4> HIDE DEF g, m
      <4> QED
        BY <3>5, <3>7, OwnServed
    <3> QED
      BY <3>0, <3>6 DEF OwnNow
  <2>8. ASSUME NEW i \in 1 .. Len(H), SameId(R[H[i].rid]), ~H[i].stale
        PROVE  /\ Pend(C, H[i].rid) = Subrequests(H[i]) \ H[i].done
               /\ H[i].filled = Filled(R[H[i].rid], H[i].done)
    <3>1. CASE i = f
      <4>1. H[i] = h /\ h.rid = m
        BY <1>8, <1>10, <3>1
      <4> QED
        BY <2>7, <4>1
    <3>2. CASE i # f
      <4>1. G[i].rid # G[f].rid
        <5>1. \A j \in 1 .. Len(G) : G[j].rid \in Nat
        BY ReadsAre DEF GroupsOk, GroupOk
      <5>2. i \in 1 .. Len(G) /\ (i < f \/ f < i)
        BY <1>0, <1>7, <3>2
      <5>3. G[f].rid < G[i].rid \/ G[i].rid < G[f].rid
        BY <1>0, <5>2 DEF GroupsOk
      <5> QED
        BY <5>1, <5>2, <5>3
      <4>2. H[i] = G[i] /\ G[i].rid # m
        BY <1>7, <1>10, <3>2, <4>1
      <4>3. Pend(C, G[i].rid) = Pend(B, G[i].rid)
        BY <1>2, <4>2 DEF PendBut
      <4>4. SameId(R[G[i].rid]) /\ ~G[i].stale
        BY <2>8, <4>2
      <4>5. Pend(B, G[i].rid) = Subrequests(G[i]) \ G[i].done
        BY <1>7, <4>4 DEF MatchOk
      <4>6. G[i].filled = Filled(R[G[i].rid], G[i].done)
        BY <1>7, <4>4 DEF MatchOk
      <4> QED
        BY <4>2, <4>3, <4>5, <4>6
    <3> QED
      BY <3>1, <3>2
  <2>9. MatchOk(R, H, C)
    BY <1>9, <2>8 DEF MatchOk
  <2> QED
    BY <1>2, <1>7, <2>7, <2>9 DEF AllOk
<1>11. CASE ~(g.rid = m /\ SameId(R[m]))
  <2>1. ~SameId(R[g.rid])
    BY <1>5, <1>11
  <2>2. ~SameId(R[m]) \/ R[m].step # st
    BY <1>5, <1>11
  <2>3. ASSUME NEW i \in 1 .. Len(H), SameId(R[H[i].rid]), ~H[i].stale
        PROVE  /\ Pend(C, H[i].rid) = Subrequests(H[i]) \ H[i].done
               /\ H[i].filled = Filled(R[H[i].rid], H[i].done)
    <3>1. H[i].rid = G[i].rid /\ ~G[i].stale
      BY <1>7, <2>3 DEF FieldsKept
    <3>2. i # f
      BY <2>1, <2>3, <3>1
    <3>3. GroupOk(R, st, G[i])
      BY <1>7 DEF GroupsOk
    <3>4. R[G[i].rid].step = st
      BY <3>1, <3>3 DEF GroupOk
    <3>5. G[i].rid # m
      BY <2>2, <2>3, <3>1, <3>4
    <3>6. H[i] = G[i]
      BY <1>7, <3>2, <3>5
    <3>7. Pend(C, G[i].rid) = Pend(B, G[i].rid)
      BY <1>2, <3>5 DEF PendBut
    <3>8. Pend(B, G[i].rid) = Subrequests(G[i]) \ G[i].done
      BY <1>7, <2>3, <3>1 DEF MatchOk
    <3>9. G[i].filled = Filled(R[G[i].rid], G[i].done)
      BY <1>7, <2>3, <3>1 DEF MatchOk
    <3> QED
      BY <3>6, <3>7, <3>8, <3>9
  <2>4. MatchOk(R, H, C)
    BY <1>9, <2>3 DEF MatchOk
  <2>5. BlocksBut(T, U, g.rid)
    BY <1>8 DEF Decoded, BlocksBut, BlockAdded
  <2>6. g.rid \in 1 .. MaxReads
    BY <1>6, ReadsAre, Bounds
  <2>7. CountsBut(D, E, g.rid)
    <3>1. D \in [1 .. MaxReads -> Nat]
      BY DEF WholeOk
    <3>3. PICK d \in Nat : d = IF ret THEN 1 ELSE 0
      OBVIOUS
    <3>4. E = [D EXCEPT ![g.rid] = @ + d]
      BY <1>8, <3>3 DEF Returned
    <3> QED
      BY ONLY <2>6, <3>1, <3>3, <3>4 DEF CountsBut
  <2>8. GotOk(R, U) /\ WholeOk(R, U, E, K) /\ AnsweredOk(R, L, C, U, E, K)
    <3>1. PICK q : q = g.rid
      OBVIOUS
    <3>2. /\ q \in 1 .. Len(R) /\ R[q].delegated /\ ~SameId(R[q])
          /\ BlocksBut(T, U, q) /\ CountsBut(D, E, q)
      BY <1>6, <2>1, <2>5, <2>7, <3>1
    <3>3. Aside(R, L, m)
      BY <1>3, <2>2 DEF Aside
    <3> QED
      BY <1>2, <1>4, <3>2, <3>3, OtherServed
  <2> QED
    BY <1>2, <1>7, <2>4, <2>8 DEF AllOk
<1> QED
  BY <1>10, <1>11

-----------------------------------------------------------------------------
(* adios_schedule_read_byid.                                               *)

(* A new read has been given nothing, and all of it is in BP's list.       *)
LEMMA NothingGiven ==
  ASSUME NEW R, NEW st, ReadsOk(R, st), NEW L, LostOk(R, st, L),
         NEW B, EntriesOk(R, st, L, B), NEW T, GotOk(R, T), NEW D, NEW K,
         WholeOk(R, T, D, K), AnsweredOk(R, L, B, T, D, K),
         NEW Q, OneMore(R, Q, st), Len(Q) <= MaxReads,
         NEW q, NewEntries(Q, st, L, q), NEW C, C = q \o B
  PROVE  /\ EntriesOk(Q, st, L, C) /\ LostOk(Q, st, L) /\ GotOk(Q, T)
         /\ WholeOk(Q, T, D, K) /\ AnsweredOk(Q, L, C, T, D, K)
<1> DEFINE m == Len(Q)
           r == Q[m]
<1>1. /\ ReadsOk(Q, st) /\ Len(Q) = Len(R) + 1
      /\ \A n \in 1 .. Len(R) : n \in 1 .. Len(Q) /\ Q[n] = R[n]
      /\ \A n \in 1 .. Len(Q) : n \in 1 .. Len(R) \/ n = Len(Q)
  BY DEF OneMore
<1>2. /\ \E S : q \in Seq(S)
      /\ \A k \in 1 .. Len(q) : q[k].rid = Len(Q) /\ EntryOk(Q, st, L, q[k])
      /\ \A j, k \in 1 .. Len(q) : j < k => q[k].sel # q[j].sel
      /\ r.delegated => \A s \in Subrequests(r) : \E k \in 1 .. Len(q) : q[k].sel = s
      /\ ~r.delegated =>
           1 \in 1 .. Len(q) /\ \A k \in 1 .. Len(q) : q[k].left = r.pieces
  BY DEF NewEntries
<1>0. AddedEntries(Q, st, L, B, q, C)
  BY EntriesAdded
<1>3. /\ EntriesOk(Q, st, L, C)
      /\ \A k \in 1 .. Len(C) : \/ /\ k \in 1 .. Len(q)
                                   /\ C[k] = q[k]
                                \/ \E j \in 1 .. Len(B) : C[k] = B[j]
      /\ \A k \in 1 .. Len(q) : k \in 1 .. Len(C) /\ C[k] = q[k]
      /\ \A j \in 1 .. Len(B) : \E k \in 1 .. Len(C) : C[k] = B[j]
      /\ \A n : n # Len(Q) => Pend(C, n) = Pend(B, n)
      /\ Pend(C, Len(Q)) = {q[k].sel : k \in 1 .. Len(q)}
  BY <1>0 DEF AddedEntries
<1>4. /\ Len(R) \in Nat /\ m \in Nat /\ m = Len(R) + 1 /\ m \in 1 .. MaxReads
      /\ \A n \in 1 .. Len(R) : n # m
      /\ \A n \in 1 .. m : n \in 1 .. MaxReads
      /\ st \in Nat /\ r.pieces \in Nat /\ r.blocks = r.blocks
  <2>1. Len(R) \in Nat
    BY ReadsAre
  <2>2. m \in Nat /\ m \in 1 .. m
    BY ONLY <2>1, <1>1
  <2>3. st \in Nat /\ r.pieces \in Nat
    BY <1>1, <2>2, ReadsAre
  <2> QED
    BY <1>1, <2>1, <2>2, <2>3, Bounds
<1>5. LostOk(Q, st, L)
  BY <1>1, <1>4 DEF LostOk
<1>6. \A x \in T : x.rid \in 1 .. Len(R)
  BY DEF GotOk
<1>7. GotOk(Q, T)
  BY <1>1, <1>4 DEF GotOk
<1>8. BlocksIn(T, m) = {}
  BY <1>4, <1>6 DEF BlocksIn
<1>9. D[m] = 0 /\ m \notin L
  <2>1. D[m] = 0
    BY <1>4 DEF AnsweredOk
  <2>2. m \notin L
    BY <1>4 DEF LostOk
  <2> QED
    BY <2>1, <2>2
<1>10. WholeOk(Q, T, D, K)
  <2>1. D \in [1 .. MaxReads -> Nat]
    BY DEF WholeOk
  <2>2. ASSUME NEW n \in 1 .. Len(Q), Q[n].delegated, SameId(Q[n]), Q[n].mem, D[n] > 0
        PROVE  BlocksIn(T, n) = Q[n].blocks \ K
    <3>1. n \in 1 .. Len(R) /\ Q[n] = R[n]
      <4>1. n # m
        BY <1>9, <2>2
      <4> QED
        BY <1>1, <4>1
    <3> QED
      BY <2>2, <3>1 DEF WholeOk
  <2> QED
    BY <2>1, <2>2 DEF WholeOk
<1>11. \A n \in 1 .. Len(R) : Pend(C, n) = Pend(B, n)
  BY <1>3, <1>4
<1>12. \A s : s \in Pend(C, m) <=> \E k \in 1 .. Len(q) : q[k].sel = s
  BY <1>3
<1>13. ASSUME NEW n \in 1 .. MaxReads, n > Len(Q)
       PROVE  D[n] = 0
  <2>1. n > Len(R)
    BY <1>4, <1>13
  <2> QED
    BY <2>1 DEF AnsweredOk
<1>14. ASSUME NEW n \in 1 .. Len(Q), Q[n].delegated, SameId(Q[n]), n \notin L
       PROVE  /\ BlocksIn(T, n) = {b \in Q[n].blocks \ K : Segments(b) \cap Pend(C, n) = {}}
              /\ Q[n].blocks \cap K = {} =>
                   D[n] = IF Q[n].mem
                          THEN IF Pend(C, n) = {} /\ Q[n].blocks # {} THEN 1 ELSE 0
                          ELSE Cardinality(BlocksIn(T, n))
  <2>1. CASE n \in 1 .. Len(R)
    <3>1. Q[n] = R[n] /\ Pend(C, n) = Pend(B, n)
      BY <1>1, <1>11, <2>1
    <3>2. /\ BlocksIn(T, n) = {b \in R[n].blocks \ K : Segments(b) \cap Pend(B, n) = {}}
          /\ R[n].blocks \cap K = {} =>
               D[n] = IF R[n].mem
                      THEN IF Pend(B, n) = {} /\ R[n].blocks # {} THEN 1 ELSE 0
                      ELSE Cardinality(BlocksIn(T, n))
      BY <1>14, <2>1, <3>1 DEF AnsweredOk
    <3> QED
      BY <3>1, <3>2
  <2>2. CASE n = m
    <3>1. r.delegated
      BY <1>14, <2>2
    <3>2. \A b \in r.blocks : Segments(b) \cap Pend(C, m) # {}
      <4> SUFFICES ASSUME NEW b \in r.blocks PROVE Segments(b) \cap Pend(C, m) # {}
        OBVIOUS
      <4>1. PICK s : s \in Segments(b)
        BY SegmentsAre
      <4>2. s \in Subrequests(r)
        BY <4>1, SegmentsOfRead
      <4>3. s \in Pend(C, m)
        BY <1>2, <1>12, <3>1, <4>2
      <4> QED
        BY <4>1, <4>3
    <3>3. {b \in r.blocks \ K : Segments(b) \cap Pend(C, m) = {}} = {}
      BY <3>2
    <3>4. Pend(C, m) = {} => r.blocks = {}
      BY <3>2
    <3>5. Cardinality({}) = 0
      BY FS_EmptySet
    <3>6. r.mem \in BOOLEAN
      BY <1>1, <2>2, ReadsAre DEF ReadOk
    <3> QED
      BY <1>8, <1>9, <2>2, <3>3, <3>4, <3>5, <3>6
  <2> QED
    BY <1>1, <2>1, <2>2
<1>15. ASSUME NEW k \in 1 .. Len(C), ~Q[C[k].rid].delegated
       PROVE  D[C[k].rid] = Q[C[k].rid].pieces - C[k].left
  <2>1. CASE k \in 1 .. Len(q) /\ C[k] = q[k]
    BY <1>2, <1>4, <1>9, <1>15, <2>1
  <2>2. CASE \E j \in 1 .. Len(B) : C[k] = B[j]
    <3>1. PICK j \in 1 .. Len(B) : C[k] = B[j]
      BY <2>2
    <3>2. B[j].rid \in 1 .. Len(R)
      BY DEF EntriesOk, EntryOk
    <3>3. Q[B[j].rid] = R[B[j].rid]
      BY <1>1, <3>2
    <3>4. D[B[j].rid] = R[B[j].rid].pieces - B[j].left
      BY <1>15, <3>1, <3>3 DEF AnsweredOk
    <3> QED
      BY <3>1, <3>3, <3>4
  <2> QED
    BY <1>3, <2>1, <2>2
<1>16. ASSUME NEW n \in 1 .. Len(Q), ~Q[n].delegated, n \notin L, Pend(C, n) = {}
       PROVE  D[n] = Q[n].pieces
  <2>1. n # m
    <3>1. CASE n = m
      <4>1. 1 \in 1 .. Len(q)
        BY <1>2, <1>16, <3>1
      <4>2. q[1].sel \in Pend(C, m)
        BY <1>12, <4>1
      <4> QED
        BY <1>16, <3>1, <4>2
    <3> QED
      BY <3>1
  <2>2. n \in 1 .. Len(R) /\ Q[n] = R[n] /\ Pend(B, n) = {}
    BY <1>1, <1>11, <1>16, <2>1
  <2> QED
    BY <1>16, <2>2 DEF AnsweredOk
<1>17. AnsweredOk(Q, L, C, T, D, K)
  BY <1>13, <1>14, <1>15, <1>16 DEF AnsweredOk
<1> QED
  BY <1>3, <1>5, <1>7, <1>10, <1>17

(* The invariant: BP's list, the request groups and what has been given to *)
(* the program agree.                                                      *)
Sound(R, st, L, B, G, T, D, K) ==
  /\ ReadsOk(R, st) /\ Len(R) <= MaxReads /\ st # 0
  /\ LostOk(R, st, L) /\ EntriesOk(R, st, L, B)
  /\ GroupsOk(R, st, G) /\ MatchOk(R, G, B)
  /\ GotOk(R, T) /\ WholeOk(R, T, D, K) /\ AnsweredOk(R, L, B, T, D, K)

(* Which entry belongs to which group, when the new read has no group.     *)
LEMMA MatchSame ==
  ASSUME NEW R, NEW st, ReadsOk(R, st), NEW L, NEW B, EntriesOk(R, st, L, B),
         NEW G, GroupsOk(R, st, G), MatchOk(R, G, B), NEW Q, OneMore(R, Q, st),
         Q[Len(Q)].delegated => Q[Len(Q)].blocks = {},
         NEW q, NewEntries(Q, st, L, q), NEW C, C = q \o B
  PROVE  GroupsOk(Q, st, G) /\ MatchOk(Q, G, C)
<1> DEFINE m == Len(Q)
<1>1. /\ Len(Q) = Len(R) + 1
      /\ \A n \in 1 .. Len(R) : n \in 1 .. Len(Q) /\ Q[n] = R[n]
  BY DEF OneMore
<1>2. Len(R) \in Nat /\ \A n \in 1 .. Len(R) : n # m
  <2>1. Len(R) \in Nat
    BY ReadsAre
  <2> QED
    BY ONLY <1>1, <2>1
<1>0. AddedEntries(Q, st, L, B, q, C)
  BY EntriesAdded
<1>3. /\ \A k \in 1 .. Len(C) : \/ k \in 1 .. Len(q) /\ C[k] = q[k]
                                \/ \E j \in 1 .. Len(B) : C[k] = B[j]
      /\ \A n : n # m => Pend(C, n) = Pend(B, n)
  BY <1>0 DEF AddedEntries
<1>4. \A i \in 1 .. Len(G) : GroupOk(R, st, G[i]) /\ G[i].rid \in 1 .. Len(R)
  BY DEF GroupsOk, GroupOk
<1>5. \A i \in 1 .. Len(G) : /\ GroupOk(Q, st, G[i]) /\ Q[G[i].rid] = R[G[i].rid]
                             /\ Pend(C, G[i].rid) = Pend(B, G[i].rid)
  <2> SUFFICES ASSUME NEW i \in 1 .. Len(G)
               PROVE  /\ GroupOk(Q, st, G[i]) /\ Q[G[i].rid] = R[G[i].rid]
                      /\ Pend(C, G[i].rid) = Pend(B, G[i].rid)
    OBVIOUS
  <2>1. GroupOk(R, st, G[i]) /\ G[i].rid \in 1 .. Len(R)
    BY <1>4
  <2>2. /\ G[i].rid \in 1 .. Len(Q) /\ Q[G[i].rid] = R[G[i].rid]
        /\ Pend(C, G[i].rid) = Pend(B, G[i].rid)
    BY <1>1, <1>2, <1>3, <2>1
  <2>3. GroupOk(Q, st, G[i])
    BY <2>1, <2>2 DEF GroupOk
  <2> QED
    BY <2>2, <2>3
<1>6. GroupsOk(Q, st, G)
  BY <1>5 DEF GroupsOk
<1>7. \A i \in 1 .. Len(G) : SameId(Q[G[i].rid]) /\ ~G[i].stale =>
        /\ Pend(C, G[i].rid) = Subrequests(G[i]) \ G[i].done
        /\ G[i].filled = Filled(Q[G[i].rid], G[i].done)
  BY <1>5 DEF MatchOk
<1>8. ASSUME NEW k \in 1 .. Len(C), Q[C[k].rid].delegated, SameId(Q[C[k].rid])
      PROVE  \E i \in 1 .. Len(G) : G[i].rid = C[k].rid /\ C[k].sel \notin G[i].done
  <2>1. CASE k \in 1 .. Len(q) /\ C[k] = q[k]
    <3>1. EntryOk(Q, st, L, q[k]) /\ q[k].rid = m
      BY <2>1 DEF NewEntries
    <3>2. q[k].sel \in Subrequests(Q[m]) /\ Q[m].blocks = {}
      BY <1>8, <2>1, <3>1 DEF EntryOk
    <3> QED
      BY <3>2, SegmentsOfRead
  <2>2. CASE \E j \in 1 .. Len(B) : C[k] = B[j]
    <3>1. PICK j \in 1 .. Len(B) : C[k] = B[j]
      BY <2>2
    <3>2. B[j].rid \in 1 .. Len(R)
      BY DEF EntriesOk, EntryOk
    <3>3. Q[B[j].rid] = R[B[j].rid]
      BY <1>1, <3>2
    <3>4. \E i \in 1 .. Len(G) : G[i].rid = B[j].rid /\ B[j].sel \notin G[i].done
      BY <1>8, <3>1, <3>3 DEF MatchOk
    <3> QED
      BY <3>1, <3>4
  <2> QED
    BY <1>3, <2>1, <2>2
<1> QED
  BY <1>6, <1>7, <1>8 DEF MatchOk

(* ... and when it has one.                                                *)
NewGroup(Q, g) ==
  g = [rid |-> Len(Q), varid |-> Q[Len(Q)].id, mem |-> Q[Len(Q)].mem,
       blocks |-> Q[Len(Q)].blocks, done |-> {}, filled |-> {}, stale |-> FALSE]

(* A new group waits for all of its new entries.                           *)
LEMMA MatchNew ==
  ASSUME NEW R, NEW st, ReadsOk(R, st), NEW L, NEW B, EntriesOk(R, st, L, B),
         NEW G, GroupsOk(R, st, G), MatchOk(R, G, B), NEW Q, OneMore(R, Q, st),
         Q[Len(Q)].delegated, Q[Len(Q)].blocks # {}, Q[Len(Q)].step = st,
         NEW q, NewEntries(Q, st, L, q), NEW C, C = q \o B,
         NEW g, NewGroup(Q, g), NEW H, H = <<g>> \o G
  PROVE  GroupsOk(Q, st, H) /\ MatchOk(Q, H, C)
<1> DEFINE m == Len(Q)
<1>1. /\ Len(Q) = Len(R) + 1
      /\ \A n \in 1 .. Len(R) : n \in 1 .. Len(Q) /\ Q[n] = R[n]
  BY DEF OneMore
<1>2. Len(R) \in Nat /\ m \in 1 .. Len(Q) /\ \A n \in 1 .. Len(R) : n # m
  <2>1. Len(R) \in Nat
    BY ReadsAre
  <2> QED
    BY ONLY <1>1, <2>1
<1>0. AddedEntries(Q, st, L, B, q, C)
  BY EntriesAdded
<1>3. /\ \A k \in 1 .. Len(C) : \/ k \in 1 .. Len(q) /\ C[k] = q[k]
                                \/ \E j \in 1 .. Len(B) : C[k] = B[j]
      /\ \A n : n # m => Pend(C, n) = Pend(B, n)
      /\ Pend(C, m) = {q[k].sel : k \in 1 .. Len(q)}
  BY <1>0 DEF AddedEntries
<1>4. /\ g.rid = m /\ g.varid = Q[m].id /\ g.mem = Q[m].mem /\ g.blocks = Q[m].blocks
      /\ g.done = {} /\ g.filled = {} /\ g.stale = FALSE
      /\ g = [rid |-> g.rid, varid |-> g.varid, mem |-> g.mem, blocks |-> g.blocks,
              done |-> g.done, filled |-> g.filled, stale |-> g.stale]
  BY DEF NewGroup
<1>5. GroupOk(Q, st, g)
  BY <1>2, <1>4 DEF GroupOk
<1>6. GroupsOk(Q, st, H) /\ InFront(g, G, H)
  BY <1>4, <1>5, GroupAdded
<1>7. /\ \A i \in 1 .. Len(H) : H[i] = g \/ \E j \in 1 .. Len(G) : H[i] = G[j]
      /\ \E i \in 1 .. Len(H) : H[i] = g
      /\ \A j \in 1 .. Len(G) : \E i \in 1 .. Len(H) : H[i] = G[j]
  BY <1>6 DEF InFront
<1>8. Pend(C, m) = Subrequests(g) \ g.done
  <2>1. \A k \in 1 .. Len(q) : q[k].sel \in Subrequests(Q[m])
    <3> SUFFICES ASSUME NEW k \in 1 .. Len(q) PROVE q[k].sel \in Subrequests(Q[m])
      OBVIOUS
    <3>1. q[k].rid = m /\ EntryOk(Q, st, L, q[k])
      BY DEF NewEntries
    <3> QED
      BY <3>1 DEF EntryOk
  <2>2. \A s \in Subrequests(Q[m]) : \E k \in 1 .. Len(q) : q[k].sel = s
    BY DEF NewEntries
  <2>3. Subrequests(g) = Subrequests(Q[m])
    BY <1>4 DEF Subrequests
  <2> QED
    BY <1>3, <1>4, <2>1, <2>2, <2>3
<1>9. g.filled = Filled(Q[m], g.done)
  BY <1>4 DEF Filled
<1>10. \A j \in 1 .. Len(G) : /\ Q[G[j].rid] = R[G[j].rid]
                              /\ Pend(C, G[j].rid) = Pend(B, G[j].rid)
  <2> SUFFICES ASSUME NEW j \in 1 .. Len(G)
               PROVE  /\ Q[G[j].rid] = R[G[j].rid]
                      /\ Pend(C, G[j].rid) = Pend(B, G[j].rid)
    OBVIOUS
  <2>1. G[j].rid \in 1 .. Len(R)
    BY DEF GroupsOk, GroupOk
  <2> QED
    BY <1>1, <1>2, <1>3, <2>1
<1>11. ASSUME NEW i \in 1 .. Len(H), SameId(Q[H[i].rid]), ~H[i].stale
       PROVE  /\ Pend(C, H[i].rid) = Subrequests(H[i]) \ H[i].done
              /\ H[i].filled = Filled(Q[H[i].rid], H[i].done)
  <2>1. CASE H[i] = g
    BY <1>4, <1>8, <1>9, <2>1
  <2>2. CASE \E j \in 1 .. Len(G) : H[i] = G[j]
    <3>1. PICK j \in 1 .. Len(G) : H[i] = G[j]
      BY <2>2
    <3>2. /\ Pend(B, G[j].rid) = Subrequests(G[j]) \ G[j].done
          /\ G[j].filled = Filled(R[G[j].rid], G[j].done)
      BY <1>10, <1>11, <3>1 DEF MatchOk
    <3> QED
      BY <1>10, <3>1, <3>2
  <2> QED
    BY <1>7, <2>1, <2>2
<1>12. ASSUME NEW k \in 1 .. Len(C), Q[C[k].rid].delegated, SameId(Q[C[k].rid])
       PROVE  \E i \in 1 .. Len(H) : H[i].rid = C[k].rid /\ C[k].sel \notin H[i].done
  <2>1. CASE k \in 1 .. Len(q) /\ C[k] = q[k]
    <3>1. q[k].rid = m
      BY <2>1 DEF NewEntries
    <3> QED
      BY <1>4, <1>7, <2>1, <3>1
  <2>2. CASE \E j \in 1 .. Len(B) : C[k] = B[j]
    <3>1. PICK j \in 1 .. Len(B) : C[k] = B[j]
      BY <2>2
    <3>2. B[j].rid \in 1 .. Len(R)
      BY DEF EntriesOk, EntryOk
    <3>3. Q[B[j].rid] = R[B[j].rid]
      BY <1>1, <3>2
    <3>4. \E i \in 1 .. Len(G) : G[i].rid = B[j].rid /\ B[j].sel \notin G[i].done
      BY <1>12, <3>1, <3>3 DEF MatchOk
    <3>5. PICK n \in 1 .. Len(G) : G[n].rid = B[j].rid /\ B[j].sel \notin G[n].done
      BY <3>4
    <3>6. PICK i \in 1 .. Len(H) : H[i] = G[n]
      BY <1>7
    <3> QED
      BY <3>1, <3>5, <3>6
  <2> QED
    BY <1>3, <2>1, <2>2
<1>13. MatchOk(Q, H, C)
  BY <1>11, <1>12 DEF MatchOk
<1> QED
  BY <1>6, <1>13

(* A new read leaves the others as they are.                               *)
LEMMA ReadScheduled ==
  ASSUME NEW R, NEW st, NEW L, NEW B, NEW G, NEW T, NEW D, NEW K,
         Sound(R, st, L, B, G, T, D, K), Len(R) < MaxReads,
         NEW Q, OneMore(R, Q, st), NEW q, NewEntries(Q, st, L, q),
         NEW C, C = q \o B, NEW H, GroupsOk(Q, st, H), MatchOk(Q, H, C)
  PROVE  Sound(Q, st, L, C, H, T, D, K)
<1>1. /\ ReadsOk(R, st) /\ st # 0
      /\ LostOk(R, st, L) /\ EntriesOk(R, st, L, B)
      /\ GotOk(R, T) /\ WholeOk(R, T, D, K) /\ AnsweredOk(R, L, B, T, D, K)
  BY DEF Sound
<1>2. ReadsOk(Q, st) /\ Len(Q) = Len(R) + 1
  BY DEF OneMore
<1>3. Len(Q) <= MaxReads
  BY <1>1, <1>2, ReadsAre, Bounds
<1>4. /\ EntriesOk(Q, st, L, C) /\ LostOk(Q, st, L) /\ GotOk(Q, T)
      /\ WholeOk(Q, T, D, K) /\ AnsweredOk(Q, L, C, T, D, K)
  BY <1>1, <1>3, NothingGiven, ZenonT(40)
<1> QED
  BY <1>1, <1>2, <1>3, <1>4 DEF Sound

(* The entries of a transformed read.                                      *)
LEMMA TransformedEntries ==
  ASSUME NEW Q, Len(Q) \in 1 .. Len(Q), NEW st, NEW L, NEW r, r = Q[Len(Q)],
         r.delegated, r.step = st, r.blocks \subseteq 1 .. NBlocks,
         NEW q, q = RawReads(Len(Q), r.var, r.blocks)
  PROVE  NewEntries(Q, st, L, q)
<1>0. RawList(Len(Q), r.var, r, q)
  BY RawReadsList
<1>1. /\ \E S : q \in Seq(S)
      /\ \A k \in 1 .. Len(q) :
           /\ q[k] = [rid |-> Len(Q), varid |-> r.var, mem |-> TRUE, left |-> 1,
                      sel |-> q[k].sel]
           /\ q[k].sel \in Subrequests(r)
      /\ \A j, k \in 1 .. Len(q) : j < k => q[k].sel # q[j].sel
      /\ \A s \in Subrequests(r) : \E k \in 1 .. Len(q) : q[k].sel = s
  BY <1>0 DEF RawList
<1>2. ASSUME NEW k \in 1 .. Len(q)
      PROVE  q[k].rid = Len(Q) /\ EntryOk(Q, st, L, q[k])
  <2>1. PICK x : x = q[k]
    OBVIOUS
  <2>2. /\ x = [rid |-> Len(Q), varid |-> r.var, mem |-> TRUE, left |-> 1,
                sel |-> x.sel]
        /\ x.sel \in Subrequests(r)
    BY <1>1, <2>1
  <2>3. x.rid = Len(Q) /\ x.varid = r.var /\ x.mem = TRUE /\ x.left = 1
    BY <2>2
  <2>4. x = [rid |-> x.rid, varid |-> x.varid, mem |-> x.mem, left |-> x.left,
             sel |-> x.sel]
    BY <2>2, <2>3
  <2>5. EntryOk(Q, st, L, x)
    BY <2>2, <2>3, <2>4 DEF EntryOk
  <2> QED
    BY <2>1, <2>3, <2>5
<1> QED
  BY <1>1, <1>2 DEF NewEntries

(* The entry of a read that is not transformed.                            *)
LEMMA RawEntries ==
  ASSUME NEW Q, Len(Q) \in 1 .. Len(Q), NEW st, NEW L, NEW r, r = Q[Len(Q)],
         r.delegated = FALSE, r.step = st, r.pieces \in Nat \ {0},
         NEW x, x = [rid |-> Len(Q), varid |-> r.var, mem |-> r.mem,
                     left |-> r.pieces, sel |-> UserSelection],
         NEW q, q = <<x>>
  PROVE  NewEntries(Q, st, L, q)
<1>1. /\ x.rid = Len(Q) /\ x.varid = r.var /\ x.mem = r.mem /\ x.left = r.pieces
      /\ x.sel = UserSelection
      /\ x = [rid |-> x.rid, varid |-> x.varid, mem |-> x.mem, left |-> x.left,
              sel |-> x.sel]
  OBVIOUS
<1>2. x.left \in 1 .. r.pieces
  BY <1>1
<1>3. EntryOk(Q, st, L, x)
  BY <1>1, <1>2 DEF EntryOk
<1>4. q \in Seq({x}) /\ Len(q) = 1 /\ q[1] = x
  OBVIOUS
<1>5. \A k \in 1 .. Len(q) : k = 1
  BY <1>4
<1>6. ASSUME NEW j \in 1 .. Len(q), NEW k \in 1 .. Len(q), j < k
      PROVE  q[k].sel # q[j].sel
  BY <1>5, <1>6
<1>7. 1 \in 1 .. Len(q) /\ \A k \in 1 .. Len(q) : q[k] = x
  BY <1>4, <1>5
<1>8. \A k \in 1 .. Len(q) : q[k].rid = Len(Q) /\ EntryOk(Q, st, L, q[k])
  BY <1>1, <1>3, <1>7
<1>9. \A k \in 1 .. Len(q) : q[k].left = r.pieces
  BY <1>1, <1>7
<1>10. \E S : q \in Seq(S)
  BY <1>4
<1> QED
  BY <1>6, <1>7, <1>8, <1>9, <1>10 DEF NewEntries

(* The invariant of the reader while the file is open.                     *)
OpenSound ==
  Sound(reads, step, lost, bplist, reqgroups, got, returned, corrupt)

(* Scheduling a transformed read keeps it.                                 *)
LEMMA TransformedStep ==
  ASSUME OpenSound, NEW id, NEW mem \in BOOLEAN, NEW blocks \in SUBSET (1 .. NBlocks),
         ScheduleTransformed(id, mem, blocks)
  PROVE  OpenSound'
<1>1. PICK v : v = VaridMapping(id + Offset)
  OBVIOUS
<1>2. PICK r : r = [id |-> id, var |-> v, step |-> step, info |-> Info(id),
                    delegated |-> TRUE, mem |-> mem, blocks |-> blocks, pieces |-> 1]
  OBVIOUS
<1>3. /\ Len(reads) < MaxReads /\ reads' = Append(reads, r)
      /\ reqgroups' = IF blocks = {} THEN reqgroups
                      ELSE <<[rid |-> Len(reads) + 1, varid |-> id, mem |-> mem,
                              blocks |-> blocks, done |-> {}, filled |-> {},
                              stale |-> FALSE]>> \o reqgroups
      /\ bplist' = RawReads(Len(reads) + 1, v, blocks) \o bplist
      /\ UNCHANGED <<step, lost, got, returned, corrupt>>
  BY <1>1, <1>2 DEF ScheduleTransformed, Schedule, Registered
<1>4. PICK Q : Q = Append(reads, r)
  OBVIOUS
<1>5. /\ ReadsOk(reads, step) /\ step # 0 /\ EntriesOk(reads, step, lost, bplist)
      /\ GroupsOk(reads, step, reqgroups) /\ MatchOk(reads, reqgroups, bplist)
      /\ Sound(reads, step, lost, bplist, reqgroups, got, returned, corrupt)
  BY DEF OpenSound, Sound
<1>6. /\ r.id = id /\ r.var = v /\ r.step = step /\ r.delegated = TRUE /\ r.mem = mem
      /\ r.blocks = blocks /\ r.pieces = 1
  BY <1>2
<1>7. ReadOk(r)
  <2>1. 1 \in 1 .. NPieces
    BY Bounds
  <2>2. r.mem \in BOOLEAN
    BY <1>6
  <2> QED
    BY ONLY <1>6, <2>1, <2>2, blocks \in SUBSET (1 .. NBlocks) DEF ReadOk
<1>8. OneMore(reads, Q, step) /\ Q[Len(Q)] = r
  <2>1. Appended(reads, r, Q)
    BY <1>4 DEF Appended
  <2>2. OneMore(reads, Q, step) /\ LastIs(Q, r)
    BY ONLY <1>5, <1>6, <1>7, <2>1, ReadAdded
  <2> QED
    BY <2>2 DEF LastIs
<1>9. Len(Q) = Len(reads) + 1 /\ Len(Q) \in 1 .. Len(Q)
  BY <1>5, <1>8, ReadsAre DEF OneMore
<1>10. PICK q : q = RawReads(Len(Q), r.var, r.blocks)
  OBVIOUS
<1>11. NewEntries(Q, step, lost, q)
  BY <1>6, <1>8, <1>9, <1>10, TransformedEntries
<1>12. PICK C : C = q \o bplist
  OBVIOUS
<1>13. bplist' = C /\ reads' = Q
  BY <1>3, <1>4, <1>6, <1>9, <1>10, <1>12
<1>14. GroupsOk(Q, step, reqgroups') /\ MatchOk(Q, reqgroups', C)
  <2>1. CASE blocks = {}
    <3>1. GroupsOk(Q, step, reqgroups) /\ MatchOk(Q, reqgroups, C)
      BY <1>5, <1>6, <1>8, <1>11, <1>12, <2>1, MatchSame
    <3> QED
      BY <1>3, <2>1, <3>1
  <2>2. CASE blocks # {}
    <3>1. PICK g : g = [rid |-> Len(Q), varid |-> r.id, mem |-> r.mem,
                        blocks |-> r.blocks, done |-> {}, filled |-> {},
                        stale |-> FALSE]
      OBVIOUS
    <3>2. PICK H : H = <<g>> \o reqgroups
      OBVIOUS
    <3>3. NewGroup(Q, g)
      BY <1>8, <3>1 DEF NewGroup
    <3>4. GroupsOk(Q, step, H) /\ MatchOk(Q, H, C)
      BY <1>5, <1>6, <1>8, <1>11, <1>12, <2>2, <3>2, <3>3, MatchNew
    <3>5. reqgroups' = H
      BY <1>3, <1>6, <1>9, <2>2, <3>1, <3>2
    <3> QED
      BY <3>4, <3>5
  <2> QED
    BY <2>1, <2>2
<1>15. PICK H : H = reqgroups'
  OBVIOUS
<1>16. Sound(Q, step, lost, C, H, got, returned, corrupt)
  <2>1. GroupsOk(Q, step, H) /\ MatchOk(Q, H, C)
    BY <1>14, <1>15
  <2>2. Len(reads) < MaxReads
    BY <1>3
  <2> QED
    BY ONLY <1>5, <1>8, <1>11, <1>12, <2>1, <2>2, ReadScheduled
<1> QED
  BY <1>3, <1>13, <1>15, <1>16 DEF OpenSound

(* Scheduling another read keeps it.                                       *)
LEMMA RawStep ==
  ASSUME OpenSound, NEW id, NEW mem \in BOOLEAN, NEW pieces \in 1 .. NPieces,
         ScheduleRaw(id, mem, pieces)
  PROVE  OpenSound'
<1>1. PICK v : v = VaridMapping(id + Offset)
  OBVIOUS
<1>2. PICK r : r = [id |-> id, var |-> v, step |-> step, info |-> Info(id),
                    delegated |-> FALSE, mem |-> mem, blocks |-> {}, pieces |-> pieces]
  OBVIOUS
<1>3. /\ Len(reads) < MaxReads /\ reads' = Append(reads, r) /\ (mem => pieces = 1)
      /\ bplist' = <<[rid |-> Len(reads) + 1, varid |-> v, mem |-> mem,
                      left |-> pieces, sel |-> UserSelection]>> \o bplist
      /\ UNCHANGED <<step, lost, got, returned, corrupt, reqgroups>>
  BY <1>1, <1>2 DEF ScheduleRaw, Schedule
<1>4. PICK Q : Q = Append(reads, r)
  OBVIOUS
<1>5. /\ ReadsOk(reads, step) /\ step # 0 /\ EntriesOk(reads, step, lost, bplist)
      /\ GroupsOk(reads, step, reqgroups) /\ MatchOk(reads, reqgroups, bplist)
      /\ Sound(reads, step, lost, bplist, reqgroups, got, returned, corrupt)
  BY DEF OpenSound, Sound
<1>6. /\ r.id = id /\ r.var = v /\ r.step = step /\ r.delegated = FALSE /\ r.mem = mem
      /\ r.blocks = {} /\ r.pieces = pieces
  BY <1>2
<1>7. ReadOk(r)
  BY <1>3, <1>6 DEF ReadOk
<1>8. OneMore(reads, Q, step) /\ Q[Len(Q)] = r
  <2>1. Appended(reads, r, Q)
    BY <1>4 DEF Appended
  <2>2. OneMore(reads, Q, step) /\ LastIs(Q, r)
    BY ONLY <1>5, <1>6, <1>7, <2>1, ReadAdded
  <2> QED
    BY <2>2 DEF LastIs
<1>9. Len(Q) = Len(reads) + 1 /\ Len(Q) \in 1 .. Len(Q)
  BY <1>5, <1>8, ReadsAre DEF OneMore
<1>10. PICK x : x = [rid |-> Len(Q), varid |-> r.var, mem |-> r.mem,
                     left |-> r.pieces, sel |-> UserSelection]
  OBVIOUS
<1>11. PICK q : q = <<x>>
  OBVIOUS
<1>12. NewEntries(Q, step, lost, q)
  <2>1. r.pieces \in Nat \ {0}
    BY <1>6, Bounds
  <2>2. r = Q[Len(Q)] /\ r.delegated = FALSE /\ r.step = step
    BY <1>6, <1>8
  <2> QED
    BY ONLY <1>9, <1>10, <1>11, <2>1, <2>2, RawEntries
<1>13. PICK C : C = q \o bplist
  OBVIOUS
<1>14. bplist' = C /\ reads' = Q
  BY <1>3, <1>4, <1>6, <1>9, <1>10, <1>11, <1>13
<1>15. GroupsOk(Q, step, reqgroups) /\ MatchOk(Q, reqgroups, C)
  BY <1>5, <1>6, <1>8, <1>12, <1>13, MatchSame
<1>16. Sound(Q, step, lost, C, reqgroups, got, returned, corrupt)
  BY <1>3, <1>5, <1>8, <1>12, <1>13, <1>15, ReadScheduled
<1> QED
  BY <1>3, <1>14, <1>16 DEF OpenSound

-----------------------------------------------------------------------------
(* adios_check_reads, one chunk at a time.                                 *)

(* A chunk of transformed data that matches no group belongs to a read     *)
(* whose ids differ.                                                       *)
Unmatched(G, e) ==
  \A i \in 1 .. Len(G) :
    ~(G[i].varid = e.varid /\ e.sel \in Subrequests(G[i]) \ G[i].done)

(* A chunk that no group matches is of a read whose ids differ.            *)
LEMMA UnmatchedServed ==
  ASSUME NEW R, NEW st, ReadsOk(R, st), Len(R) <= MaxReads,
         NEW L, NEW B, EntriesOk(R, st, L, B), B # <<>>,
         NEW G, GroupsOk(R, st, G), MatchOk(R, G, B),
         NEW T, NEW D, NEW K, GotOk(R, T), WholeOk(R, T, D, K),
         AnsweredOk(R, L, B, T, D, K),
         NEW e, e = Head(B), R[e.rid].delegated,
         Unmatched(G, e),
         NEW x, NEW V, FilledIs(R, st, G, e.rid, x, V),
         NEW C, C = Tail(B), NEW E, OneChunk(D, e.rid, E)
  PROVE  /\ EntriesOk(R, st, L, C) /\ GroupsOk(R, st, V) /\ MatchOk(R, V, C)
         /\ GotOk(R, T) /\ WholeOk(R, T, E, K) /\ AnsweredOk(R, L, C, T, E, K)
<1> DEFINE m == e.rid
<1>1. HeadIs(R, st, L, B, e, C)
  BY HeadServed
<1>2. /\ EntriesOk(R, st, L, C) /\ PendBut(B, C, m) /\ EntryOk(R, st, L, e)
      /\ e.sel \in Pend(B, m) /\ 1 \in 1 .. Len(B) /\ e = B[1]
      /\ \A k \in 1 .. Len(C) : k + 1 \in 1 .. Len(B) /\ C[k] = B[k + 1]
  BY <1>1 DEF HeadIs
<1>3. m \in 1 .. Len(R) /\ e.varid = R[m].var /\ e.sel \in Subrequests(R[m])
  BY <1>2 DEF EntryOk
<1>4. FromList(C, B)
  BY <1>2 DEF FromList
<1>5. ~SameId(R[m])
  <2> SUFFICES ASSUME SameId(R[m]) PROVE FALSE
    OBVIOUS
  <2>1. PICK i \in 1 .. Len(G) : G[i].rid = m /\ e.sel \notin G[i].done
    BY <1>2 DEF MatchOk
  <2>2. GroupOk(R, st, G[i])
    BY DEF GroupsOk
  <2>3. G[i].varid = R[m].id /\ G[i].blocks = R[m].blocks
    BY <2>1, <2>2 DEF GroupOk
  <2>4. G[i].varid = e.varid
    BY <1>3, <2>3 DEF SameId
  <2>5. e.sel \in Subrequests(G[i])
    BY <1>3, <2>3 DEF Subrequests
  <2> QED
    BY <2>1, <2>4, <2>5 DEF Unmatched
<1>6. /\ GroupsOk(R, st, V) /\ Len(V) = Len(G)
      /\ \A i \in 1 .. Len(G) : /\ FieldsKept(G[i], V[i]) /\ V[i].done = G[i].done
                                /\ G[i].rid # m => V[i] = G[i]
  BY DEF FilledIs
<1>7. ASSUME NEW i \in 1 .. Len(V), SameId(R[V[i].rid]), ~V[i].stale
      PROVE  /\ Pend(C, V[i].rid) = Subrequests(V[i]) \ V[i].done
             /\ V[i].filled = Filled(R[V[i].rid], V[i].done)
  <2>1. V[i].rid = G[i].rid
    BY <1>6 DEF FieldsKept
  <2>2. G[i].rid # m
    BY <1>5, <1>7, <2>1
  <2>3. V[i] = G[i] /\ Pend(C, G[i].rid) = Pend(B, G[i].rid)
    BY <1>2, <1>6, <2>2 DEF PendBut
  <2>4. /\ Pend(B, G[i].rid) = Subrequests(G[i]) \ G[i].done
        /\ G[i].filled = Filled(R[G[i].rid], G[i].done)
    BY <1>6, <1>7, <2>3 DEF MatchOk
  <2> QED
    BY <2>3, <2>4
<1>8. ASSUME NEW k \in 1 .. Len(C), R[C[k].rid].delegated, SameId(R[C[k].rid])
      PROVE  \E i \in 1 .. Len(V) : V[i].rid = C[k].rid /\ C[k].sel \notin V[i].done
  <2>1. PICK j \in 1 .. Len(B) : C[k] = B[j]
    BY <1>4 DEF FromList
  <2>2. PICK i \in 1 .. Len(G) : G[i].rid = C[k].rid /\ C[k].sel \notin G[i].done
    BY <1>8, <2>1 DEF MatchOk
  <2>3. V[i].rid = G[i].rid /\ V[i].done = G[i].done
    BY <1>6 DEF FieldsKept
  <2> QED
    BY <1>6, <2>2, <2>3
<1>9. MatchOk(R, V, C)
  BY <1>7, <1>8 DEF MatchOk
<1>10. BlocksBut(T, T, m)
  BY DEF BlocksBut
<1>11. CountsBut(D, E, m)
  <2>1. m \in 1 .. MaxReads
    BY <1>3, ReadsAre, Bounds
  <2>2. D \in [1 .. MaxReads -> Nat]
    BY DEF WholeOk
  <2> QED
    BY ONLY <2>1, <2>2, OneChunk(D, e.rid, E) DEF OneChunk, CountsBut
<1>12. Aside(R, L, m)
  BY <1>3, <1>5 DEF Aside
<1>13. GotOk(R, T) /\ WholeOk(R, T, E, K) /\ AnsweredOk(R, L, C, T, E, K)
  BY <1>2, <1>3, <1>4, <1>5, <1>10, <1>11, <1>12, OtherServed
<1> QED
  BY <1>2, <1>6, <1>9, <1>13

(* An entry of the list is of a transformed variable or it is not.         *)
LEMMA UserEntry ==
  ASSUME NEW R, NEW st, ReadsOk(R, st), NEW L, NEW e, EntryOk(R, st, L, e)
  PROVE  R[e.rid].delegated <=> e.sel # UserSelection
<1>1. e.rid \in 1 .. Len(R)
  BY DEF EntryOk
<1>2. ReadOk(R[e.rid])
  BY <1>1 DEF ReadsOk
<1>3. CASE R[e.rid].delegated
  <2>1. e.sel \in Subrequests(R[e.rid])
    BY <1>3 DEF EntryOk
  <2>2. PICK b \in R[e.rid].blocks, k \in 1 .. NSubs : e.sel = <<b, k>>
    BY <2>1, SubrequestsAre
  <2>3. b \in 1 .. NBlocks
    BY <1>2 DEF ReadOk
  <2>4. b # 0
    BY <2>3, Bounds
  <2>5. <<b, k>> # <<0, 0>>
    BY <2>4
  <2> QED
    BY <1>3, <2>2, <2>5 DEF UserSelection
<1>4. CASE ~R[e.rid].delegated
  BY <1>4 DEF EntryOk
<1> QED
  BY <1>3, <1>4

(* The groups that are left, and the entry at the head of BP's list.       *)
LEMMA LiveGroups ==
  ASSUME OpenSound
  PROVE  GroupsOk(reads, step, Live) /\ MatchOk(reads, Live, bplist)
<1>1. PICK p : p = Live
  OBVIOUS
<1>2. p = Kept(reqgroups)
  BY <1>1 DEF Live, Kept
<1>3. /\ GroupsOk(reads, step, reqgroups) /\ EntriesOk(reads, step, lost, bplist)
      /\ MatchOk(reads, reqgroups, bplist)
  BY DEF OpenSound, Sound
<1>4. KeptIs(reads, step, reqgroups, p)
  BY <1>2, <1>3, GroupsKept
<1>5. GroupsOk(reads, step, p)
  BY <1>4 DEF KeptIs
<1>6. MatchOk(reads, p, bplist)
  BY <1>3, <1>4, MatchKept
<1> QED
  BY <1>1, <1>5, <1>6

(* The head of BP's list tells delegated reads from others.                *)
LEMMA HeadEntry ==
  ASSUME OpenSound, bplist # <<>>, NEW e, e = Head(bplist)
  PROVE  /\ EntryOk(reads, step, lost, e)
         /\ reads[e.rid].delegated <=> e.sel # UserSelection
<1>1. PICK C : C = Tail(bplist)
  OBVIOUS
<1>2. ReadsOk(reads, step) /\ EntriesOk(reads, step, lost, bplist)
  BY DEF OpenSound, Sound
<1>3. HeadIs(reads, step, lost, bplist, e, C)
  BY <1>1, <1>2, HeadServed
<1>4. EntryOk(reads, step, lost, e)
  BY <1>3 DEF HeadIs
<1> QED
  BY <1>2, <1>4, UserEntry

(* The cleanup alone keeps the invariant.                                  *)
LEMMA NothingLeftStep ==
  ASSUME OpenSound, CheckNothingLeft
  PROVE  OpenSound'
<1>1. UNCHANGED <<step, reads, lost, bplist, got, returned, corrupt>> /\ reqgroups' = Live
  BY DEF CheckNothingLeft, history
<1>2. GroupsOk(reads, step, Live) /\ MatchOk(reads, Live, bplist)
  BY LiveGroups
<1> QED
  BY <1>1, <1>2 DEF OpenSound, Sound

(* Groups and answers do not depend on who gave the memory.                *)
LEMMA SameListsAgree ==
  ASSUME NEW R, NEW st, NEW L, NEW B, NEW C, SameLists(R, st, L, B, C),
         NEW G, MatchOk(R, G, B), NEW T, NEW D, NEW K, AnsweredOk(R, L, B, T, D, K)
  PROVE  MatchOk(R, G, C) /\ AnsweredOk(R, L, C, T, D, K)
<1>1. /\ Len(C) = Len(B)
      /\ \A k \in 1 .. Len(B) :
           C[k].rid = B[k].rid /\ C[k].sel = B[k].sel /\ C[k].left = B[k].left
      /\ \A n : Pend(C, n) = Pend(B, n)
  BY DEF SameLists
<1>2. MatchOk(R, G, C)
  <2>1. ASSUME NEW k \in 1 .. Len(C), R[C[k].rid].delegated, SameId(R[C[k].rid])
        PROVE  \E i \in 1 .. Len(G) : G[i].rid = C[k].rid /\ C[k].sel \notin G[i].done
    <3>1. k \in 1 .. Len(B) /\ C[k].rid = B[k].rid /\ C[k].sel = B[k].sel
      BY <1>1
    <3>2. PICK i \in 1 .. Len(G) : G[i].rid = B[k].rid /\ B[k].sel \notin G[i].done
      BY <2>1, <3>1 DEF MatchOk
    <3> QED
      BY <3>1, <3>2
  <2>2. ASSUME NEW i \in 1 .. Len(G), SameId(R[G[i].rid]), ~G[i].stale
        PROVE  /\ Pend(C, G[i].rid) = Subrequests(G[i]) \ G[i].done
               /\ G[i].filled = Filled(R[G[i].rid], G[i].done)
    <3>1. Pend(C, G[i].rid) = Pend(B, G[i].rid)
      BY <1>1
    <3>2. Pend(B, G[i].rid) = Subrequests(G[i]) \ G[i].done
      BY <2>2 DEF MatchOk
    <3>3. G[i].filled = Filled(R[G[i].rid], G[i].done)
      BY <2>2 DEF MatchOk
    <3> QED
      BY <3>1, <3>2, <3>3, Zenon
  <2> QED
    BY <2>1, <2>2 DEF MatchOk
<1>3. AnsweredOk(R, L, C, T, D, K)
  <2>1. \A n \in 1 .. MaxReads : n > Len(R) => D[n] = 0
    BY DEF AnsweredOk
  <2>2. ASSUME NEW n \in 1 .. Len(R), R[n].delegated, SameId(R[n]), n \notin L
        PROVE  /\ BlocksIn(T, n) = {b \in R[n].blocks \ K : Segments(b) \cap Pend(C, n) = {}}
               /\ R[n].blocks \cap K = {} =>
                    D[n] = IF R[n].mem
                           THEN IF Pend(C, n) = {} /\ R[n].blocks # {} THEN 1 ELSE 0
                           ELSE Cardinality(BlocksIn(T, n))
    <3>1. Pend(C, n) = Pend(B, n)
      BY <1>1
    <3>2. /\ BlocksIn(T, n) = {b \in R[n].blocks \ K : Segments(b) \cap Pend(B, n) = {}}
          /\ R[n].blocks \cap K = {} =>
               D[n] = IF R[n].mem
                      THEN IF Pend(B, n) = {} /\ R[n].blocks # {} THEN 1 ELSE 0
                      ELSE Cardinality(BlocksIn(T, n))
      BY <2>2 DEF AnsweredOk
    <3> QED
      BY ONLY <3>1, <3>2
  <2>3. ASSUME NEW k \in 1 .. Len(C), ~R[C[k].rid].delegated
        PROVE  D[C[k].rid] = R[C[k].rid].pieces - C[k].left
    <3>1. k \in 1 .. Len(B) /\ C[k].rid = B[k].rid /\ C[k].left = B[k].left
      BY <1>1
    <3> QED
      BY <2>3, <3>1 DEF AnsweredOk
  <2>4. ASSUME NEW n \in 1 .. Len(R), ~R[n].delegated, n \notin L, Pend(C, n) = {}
        PROVE  D[n] = R[n].pieces
    <3>1. Pend(B, n) = {}
      BY <1>1, <2>4
    <3> QED
      BY <2>4, <3>1 DEF AnsweredOk
  <2> QED
    BY <2>1, <2>2, <2>3, <2>4 DEF AnsweredOk
<1> QED
  BY <1>2, <1>3

(* A read that fails keeps it: it is still the next one.                   *)
LEMMA FailedStep ==
  ASSUME OpenSound, CheckFailed
  PROVE  OpenSound'
<1>1. /\ UNCHANGED <<step, reads, lost, got, returned, corrupt>> /\ reqgroups' = Live
      /\ bplist # <<>> /\ bplist' = GivenMemory(bplist)
  BY DEF CheckFailed, GivenMemory, history
<1>2. PICK G, C : G = Live /\ C = bplist'
  OBVIOUS
<1>3. GroupsOk(reads, step, G) /\ MatchOk(reads, G, bplist)
  BY <1>2, LiveGroups
<1>4. EntriesOk(reads, step, lost, bplist) /\ AnsweredOk(reads, lost, bplist, got, returned, corrupt)
  BY DEF OpenSound, Sound
<1>5. C = GivenMemory(bplist)
  BY <1>1, <1>2
<1>6. SameLists(reads, step, lost, bplist, C)
  BY ONLY <1>1, <1>4, <1>5, MemoryGiven
<1>7. MatchOk(reads, G, C) /\ AnsweredOk(reads, lost, C, got, returned, corrupt)
  BY ONLY <1>3, <1>4, <1>6, SameListsAgree
<1>8. EntriesOk(reads, step, lost, C)
  BY <1>6 DEF SameLists
<1>9. Sound(reads, step, lost, C, G, got, returned, corrupt)
  BY <1>3, <1>7, <1>8 DEF OpenSound, Sound
<1> QED
  BY <1>1, <1>2, <1>9 DEF OpenSound

(* A chunk of a read that is not transformed keeps it.                     *)
LEMMA RawChunkStep ==
  ASSUME OpenSound, CheckRaw
  PROVE  OpenSound'
<1>1. PICK e : e = Head(bplist)
  OBVIOUS
<1>2. /\ bplist # <<>> /\ e.sel = UserSelection
      /\ PieceGone(e, bplist, bplist') /\ OneChunk(returned, e.rid, returned')
      /\ UNCHANGED <<step, reads, lost, got, corrupt>> /\ reqgroups' = Live
  BY <1>1 DEF CheckRaw, PieceGone, OneChunk
<1>3. PICK G : G = Live
  OBVIOUS
<1>4. GroupsOk(reads, step, G) /\ MatchOk(reads, G, bplist)
  BY <1>3, LiveGroups
<1>5. ~reads[e.rid].delegated
  BY <1>1, <1>2, HeadEntry
<1>6. PICK C, E : C = bplist' /\ E = returned'
  OBVIOUS
<1>7. PieceGone(e, bplist, C) /\ OneChunk(returned, e.rid, E)
  BY <1>2, <1>6
<1>8. /\ ReadsOk(reads, step) /\ Len(reads) <= MaxReads
      /\ EntriesOk(reads, step, lost, bplist) /\ WholeOk(reads, got, returned, corrupt)
      /\ AnsweredOk(reads, lost, bplist, got, returned, corrupt)
  BY DEF OpenSound, Sound
<1>9. /\ EntriesOk(reads, step, lost, C) /\ MatchOk(reads, G, C)
      /\ WholeOk(reads, got, E, corrupt)
      /\ AnsweredOk(reads, lost, C, got, E, corrupt)
  BY ONLY <1>1, <1>2, <1>4, <1>5, <1>7, <1>8, RawServed
<1>10. Sound(reads, step, lost, C, G, got, E, corrupt)
  BY <1>4, <1>9 DEF OpenSound, Sound
<1> QED
  BY <1>2, <1>3, <1>6, <1>10 DEF OpenSound

(* The groups once BP has filled the subrequest's buffer.                  *)
LEMMA ServedGroups ==
  ASSUME OpenSound, NEW e, e = Head(bplist), NEW x, x = Content(e),
         NEW V, V = Served
  PROVE  FilledIs(reads, step, Live, e.rid, x, V)
<1>1. PICK G : G = Live
  OBVIOUS
<1>2. GroupsOk(reads, step, G)
  BY <1>1, LiveGroups
<1>3. V = [i \in DOMAIN G |-> IF G[i].rid = e.rid
                              THEN [G[i] EXCEPT !.filled = @ \cup {x}]
                              ELSE G[i]]
  BY <1>1 DEF Served
<1> QED
  BY <1>1, <1>2, <1>3, GroupsFilled

(* A chunk that is taken for such a one keeps it.                          *)
LEMMA UnmatchedStep ==
  ASSUME OpenSound, CheckUnmatched
  PROVE  OpenSound'
<1>1. PICK e : e = Head(bplist)
  OBVIOUS
<1>2. /\ bplist # <<>> /\ e.sel # UserSelection
      /\ bplist' = Tail(bplist) /\ OneChunk(returned, e.rid, returned')
      /\ UNCHANGED <<step, reads, lost, got, corrupt>> /\ reqgroups' = Served
      /\ {i \in DOMAIN Live : /\ Live[i].varid = e.varid
                              /\ e.sel \in Subrequests(Live[i]) \ Live[i].done} = {}
  BY <1>1 DEF CheckUnmatched, OneChunk, Matches
<1>3. PICK G, V, x, C, E : /\ G = Live /\ V = Served /\ x = Content(e)
                           /\ C = Tail(bplist) /\ E = returned'
  OBVIOUS
<1>4. GroupsOk(reads, step, G) /\ MatchOk(reads, G, bplist)
  BY <1>3, LiveGroups
<1>5. FilledIs(reads, step, G, e.rid, x, V)
  BY <1>1, <1>3, ServedGroups
<1>6. reads[e.rid].delegated
  BY <1>1, <1>2, HeadEntry
<1>7. Unmatched(G, e)
  <2>1. DOMAIN G = 1 .. Len(G)
    BY <1>4 DEF GroupsOk
  <2> QED
    BY <1>2, <1>3, <2>1 DEF Unmatched
<1>8. OneChunk(returned, e.rid, E)
  BY <1>2, <1>3
<1>9. /\ ReadsOk(reads, step) /\ Len(reads) <= MaxReads
      /\ EntriesOk(reads, step, lost, bplist) /\ WholeOk(reads, got, returned, corrupt)
      /\ AnsweredOk(reads, lost, bplist, got, returned, corrupt) /\ GotOk(reads, got)
  BY DEF OpenSound, Sound
<1>10. /\ EntriesOk(reads, step, lost, C) /\ GroupsOk(reads, step, V)
       /\ MatchOk(reads, V, C) /\ GotOk(reads, got) /\ WholeOk(reads, got, E, corrupt)
       /\ AnsweredOk(reads, lost, C, got, E, corrupt)
  <2>1. bplist # <<>> /\ C = Tail(bplist)
    BY <1>2, <1>3
  <2> QED
    BY ONLY <1>1, <1>4, <1>5, <1>6, <1>7, <1>8, <1>9, <2>1, UnmatchedServed
<1>11. Sound(reads, step, lost, C, V, got, E, corrupt)
  BY <1>10 DEF OpenSound, Sound
<1> QED
  BY <1>2, <1>3, <1>11 DEF OpenSound

(* A chunk that a group matches keeps it.                                  *)
LEMMA SubrequestStep ==
  ASSUME OpenSound, OneName, CheckSubrequest, Defined'
  PROVE  OpenSound'
<1>1. PICK e, G, V, x, C, f, b :
        /\ e = Head(bplist) /\ G = Live /\ V = Served /\ x = Content(e)
        /\ C = Tail(bplist) /\ f = Min(Matches) /\ b = e.sel[1]
  OBVIOUS
<1>2. PICK h : h = [V[f] EXCEPT !.done = @ \cup {e.sel}]
  OBVIOUS
<1>3. PICK ret : ret = Returns(h, b)
  OBVIOUS
<1>4. PICK H : H = [V EXCEPT ![f] = h]
  OBVIOUS
<1>5. /\ bplist # <<>> /\ e.sel # UserSelection /\ Matches # {}
      /\ bplist' = C /\ reqgroups' = H
      /\ got' = IF PgCompleted(h, b) /\ b \notin corrupt
                THEN got \cup {Decoded(h, b)} ELSE got
      /\ returned' = [returned EXCEPT ![h.rid] = @ + IF ret THEN 1 ELSE 0]
      /\ ~\E i \in 1 .. f : G[i].stale
      /\ UNCHANGED <<step, reads, lost, corrupt>>
  BY <1>1, <1>2, <1>3, <1>4 DEF CheckSubrequest, Defined
<1>6. GroupsOk(reads, step, G) /\ MatchOk(reads, G, bplist)
  BY <1>1, LiveGroups
<1>7. DOMAIN G = 1 .. Len(G)
  BY <1>6 DEF GroupsOk
<1>8. FirstOf(G, e, f) /\ ~G[f].stale
  <2>1. \A i : i \in Matches <=> /\ i \in 1 .. Len(G) /\ G[i].varid = e.varid
                                 /\ e.sel \in Subrequests(G[i]) \ G[i].done
    BY <1>1, <1>7 DEF Matches
  <2>2. Matches \in SUBSET Nat
    BY <2>1
  <2>3. \E n \in Matches : \A i \in Matches : n <= i
    BY <1>5, <2>2, LeastNumber
  <2>4. f \in Matches /\ \A i \in Matches : f <= i
    BY <1>1, <2>3 DEF Min
  <2>5. f \in 1 .. f
    BY <2>1, <2>4
  <2>6. FirstOf(G, e, f)
    BY <2>1, <2>4 DEF FirstOf
  <2> QED
    BY <1>5, <2>5, <2>6
<1>9. FilledIs(reads, step, G, e.rid, x, V)
  BY <1>1, ServedGroups
<1>10. reads[e.rid].delegated
  BY <1>1, <1>5, HeadEntry
<1>11. f \in 1 .. Len(V) /\ e.sel \in Subrequests(V[f]) /\ GroupsOk(reads, step, V)
  <2>1. /\ f \in 1 .. Len(G) /\ e.sel \in Subrequests(G[f])
    BY <1>8 DEF FirstOf
  <2>2. GroupsOk(reads, step, V) /\ Len(V) = Len(G) /\ V[f].blocks = G[f].blocks
    BY <1>9, <2>1 DEF FilledIs, FieldsKept
  <2> QED
    BY <2>1, <2>2 DEF Subrequests
<1>12. DoneIs(reads, step, V, f, e.sel, H) /\ H[f] = h
  <2>1. DoneNow(V, f, e.sel, h, H)
    BY <1>2, <1>4 DEF DoneNow
  <2>2. PICK s : s = e.sel
    OBVIOUS
  <2> QED
    BY <1>11, <2>1, <2>2, GroupsDone
<1>13. Complete(h, b, corrupt, ret)
  BY <1>3 DEF Complete, Returns
<1>14. PICK U, E : U = got' /\ E = returned'
  OBVIOUS
<1>15. BlockAdded(got, h, b, corrupt, U) /\ E = Returned(returned, h.rid, ret)
  BY <1>5, <1>14 DEF BlockAdded, Returned
<1>16. /\ ReadsOk(reads, step) /\ Len(reads) <= MaxReads /\ LostOk(reads, step, lost)
       /\ EntriesOk(reads, step, lost, bplist) /\ WholeOk(reads, got, returned, corrupt)
       /\ AnsweredOk(reads, lost, bplist, got, returned, corrupt) /\ GotOk(reads, got)
       /\ OneNameIn(reads)
  BY DEF OpenSound, Sound, OneName
<1>17. ContentOf(e, step, x)
  BY <1>1 DEF Content, ContentOf
<1>18. /\ EntriesOk(reads, step, lost, C) /\ GroupsOk(reads, step, H)
       /\ MatchOk(reads, H, C) /\ GotOk(reads, U) /\ WholeOk(reads, U, E, corrupt)
       /\ AnsweredOk(reads, lost, C, U, E, corrupt)
  <2>1. bplist # <<>> /\ e = Head(bplist) /\ C = Tail(bplist) /\ b = e.sel[1]
    BY <1>1, <1>5
  <2>2. AllOk(reads, step, lost, C, H, U, E, corrupt)
    BY ONLY <1>6, <1>8, <1>9, <1>10, <1>12, <1>13, <1>15, <1>16, <1>17, <2>1,
       MatchedServed
  <2> QED
    BY <2>2 DEF AllOk
<1>19. Sound(reads, step, lost, C, H, U, E, corrupt)
  BY <1>18 DEF OpenSound, Sound
<1> QED
  BY <1>5, <1>14, <1>19 DEF OpenSound

-----------------------------------------------------------------------------
(* adios_perform_reads.                                                    *)

(* What BP puts into the buffers of a read, and the block decoded from it. *)
BufferOf(e, st) == [sel |-> e.sel, var |-> e.varid, step |-> st]
(* The buffers of read n that a blocking call fills.                       *)
ReadInto(B, st, n) == {BufferOf(e, st) : e \in {y \in ToSet(B) : y.rid = n}}
(* Block b as the blocking call decodes it.                                *)
Given(B, st, g, b) ==
  [rid |-> g.rid, block |-> b,
   data |-> {c \in g.filled \cup ReadInto(B, st, g.rid) : c.sel[1] = b}]

(* The elements of BP's list.                                              *)
LEMMA EntriesSet ==
  ASSUME NEW R, NEW st, NEW L, NEW B, EntriesOk(R, st, L, B)
  PROVE  \A e : e \in ToSet(B) <=> \E k \in 1 .. Len(B) : B[k] = e
<1>1. DOMAIN B = 1 .. Len(B)
  BY DEF EntriesOk
<1> QED
  BY <1>1 DEF ToSet

(* The blocking call fills what the list has of a read.                    *)
LEMMA ReadIntoIs ==
  ASSUME NEW R, NEW st, NEW L, NEW B, EntriesOk(R, st, L, B), NEW n, R[n].step = st
  PROVE  ReadInto(B, st, n) = Filled(R[n], Pend(B, n))
<1>1. \A k \in 1 .. Len(B) : B[k].rid = n => B[k].varid = R[n].var
  BY DEF EntriesOk, EntryOk
<1>2. ASSUME NEW x PROVE x \in ReadInto(B, st, n) => x \in Filled(R[n], Pend(B, n))
  <2> SUFFICES ASSUME x \in ReadInto(B, st, n) PROVE x \in Filled(R[n], Pend(B, n))
    OBVIOUS
  <2>1. PICK e \in ToSet(B) : e.rid = n /\ x = BufferOf(e, st)
    BY DEF ReadInto
  <2>2. PICK k \in 1 .. Len(B) : B[k] = e
    BY <2>1, EntriesSet
  <2>3. e.varid = R[n].var /\ e.sel \in Pend(B, n)
    BY <1>1, <2>1, <2>2, PendIs
  <2>4. x = Data(R[n], e.sel)
    BY <2>1, <2>3 DEF BufferOf, Data
  <2> QED
    BY <2>3, <2>4 DEF Filled
<1>3. ASSUME NEW x PROVE x \in Filled(R[n], Pend(B, n)) => x \in ReadInto(B, st, n)
  <2> SUFFICES ASSUME x \in Filled(R[n], Pend(B, n)) PROVE x \in ReadInto(B, st, n)
    OBVIOUS
  <2>1. PICK s \in Pend(B, n) : x = Data(R[n], s)
    BY DEF Filled
  <2>2. PICK k \in 1 .. Len(B) : B[k].rid = n /\ B[k].sel = s
    BY <2>1, PendIs
  <2>3. PICK e : e = B[k]
    OBVIOUS
  <2>4. e \in ToSet(B) /\ e.rid = n /\ e.sel = s /\ e.varid = R[n].var
    BY <1>1, <2>2, <2>3, EntriesSet
  <2>5. x = BufferOf(e, st)
    BY <2>1, <2>4 DEF BufferOf, Data
  <2> QED
    BY <2>4, <2>5 DEF ReadInto
<1> QED
  BY <1>2, <1>3

(* The groups that adios_transform_process_all_reads completes: it has     *)
(* memory for all that it decodes.                                         *)
GroupsFit(G, K) ==
  \A i \in 1 .. Len(G) : ~Completed(G[i]) =>
    /\ ~G[i].stale
    /\ G[i].mem \/ \A b \in G[i].blocks \ K : PgCompleted(G[i], b)

(* The blocks U are those of T and all that were missing.                  *)
BlocksGiven(G, B, st, K, T, U) ==
  \A x : x \in U <=>
    \/ x \in T
    \/ \E i \in 1 .. Len(G) : /\ ~Completed(G[i])
                              /\ \E b \in G[i].blocks \ K :
                                   ~PgCompleted(G[i], b) /\ x = Given(B, st, G[i], b)

(* Read n is in the list itself.                                           *)
RawListed(B, n) == \E k \in 1 .. Len(B) : B[k].rid = n /\ B[k].sel = UserSelection
(* BP can serve it: it is not of those that fail, and has memory.          *)
RawAnswered(R, F, B, n) == RawListed(B, n) /\ n \notin F /\ R[n].mem
(* Read n has a group that is not completed.                               *)
GroupAnswered(G, n) == \E i \in 1 .. Len(G) : G[i].rid = n /\ ~Completed(G[i])

(* The program gave the memory.                                            *)
GroupReturned(G, n) ==
  \E i \in 1 .. Len(G) : G[i].rid = n /\ ~Completed(G[i]) /\ G[i].mem

(* The blocking call returns one chunk for each of them.                   *)
AllCounted(R, F, G, B, D, E) ==
  \A n \in 1 .. MaxReads :
    IF RawAnswered(R, F, B, n) \/ GroupReturned(G, n)
    THEN E[n] = D[n] + 1 ELSE E[n] = D[n]

(* The reads M are those of L and the ones BP gives up.                    *)
GivenUp(R, F, B, L, M) ==
  \A n : n \in M <=> n \in L \/ (RawListed(B, n) /\ ~RawAnswered(R, F, B, n))

(* It decodes each block from its own buffers.                             *)
LEMMA OwnBlocks ==
  ASSUME NEW R, NEW st, NEW L, NEW B, EntriesOk(R, st, L, B), NEW G,
         GroupsOk(R, st, G), MatchOk(R, G, B), NEW i \in 1 .. Len(G),
         ~G[i].stale, SameId(R[G[i].rid])
  PROVE  /\ \A b \in G[i].blocks : Given(B, st, G[i], b).data =
                                     Filled(R[G[i].rid], Segments(b))
         /\ \A b \in G[i].blocks : PgCompleted(G[i], b) <=>
                                     Segments(b) \cap Pend(B, G[i].rid) = {}
<1>1. PICK g, r, n, P : g = G[i] /\ n = g.rid /\ r = R[n] /\ P = Pend(B, n)
  OBVIOUS
<1>2. GroupOk(R, st, g)
  BY <1>1 DEF GroupsOk
<1>3. r.step = st /\ g.done \subseteq Subrequests(g) /\ g.blocks = r.blocks
  BY <1>1, <1>2 DEF GroupOk
<1>4. P = Subrequests(g) \ g.done /\ g.filled = Filled(r, g.done)
  BY <1>1 DEF MatchOk
<1>5. ReadInto(B, st, n) = Filled(r, P)
  BY <1>1, <1>3, ReadIntoIs
<1>6. g.done \cup P = Subrequests(g)
  BY <1>3, <1>4
<1>7. g.filled \cup ReadInto(B, st, n) = Filled(r, Subrequests(g))
  BY <1>4, <1>5, <1>6 DEF Filled
<1>8. \A b \in g.blocks : Segments(b) \subseteq Subrequests(g)
  BY SegmentsOfRead
<1>9. \A s \in Subrequests(g) : s \in Segments(s[1])
  BY SegmentsOfRead
<1>10. ASSUME NEW b \in g.blocks
       PROVE  {c \in g.filled \cup ReadInto(B, st, n) : c.sel[1] = b} =
                Filled(r, Segments(b))
  <2>1. \A s : Data(r, s).sel = s
    BY DEF Data
  <2>2. \A s \in Segments(b) : s[1] = b /\ s \in Subrequests(g)
    BY <1>8, SegmentsAre
  <2>3. \A s \in Subrequests(g) : s[1] = b => s \in Segments(b)
    BY <1>9
  <2> QED
    BY <1>7, <2>1, <2>2, <2>3 DEF Filled
<1>11. ASSUME NEW b \in g.blocks
       PROVE  PgCompleted(g, b) <=> Segments(b) \cap P = {}
  BY <1>4, <1>8 DEF PgCompleted
<1>12. \A b : Given(B, st, g, b).data =
               {c \in g.filled \cup ReadInto(B, st, n) : c.sel[1] = b}
  BY <1>1 DEF Given
<1>13. \A b \in g.blocks : Given(B, st, g, b).data = Filled(R[g.rid], Segments(b))
  <2> SUFFICES ASSUME NEW b \in g.blocks
               PROVE  Given(B, st, g, b).data = Filled(R[g.rid], Segments(b))
    OBVIOUS
  <2>1. Given(B, st, g, b).data = Filled(r, Segments(b))
    BY <1>10, <1>12
  <2> QED
    BY <1>1, <2>1
<1>14. \A b \in g.blocks : PgCompleted(g, b) <=> Segments(b) \cap Pend(B, g.rid) = {}
  BY <1>1, <1>11
<1>15. g = G[i]
  BY <1>1
<1> QED
  BY ONLY <1>13, <1>14, <1>15

(* A read is either left alone or answered as a whole.                     *)
LEMMA GivenAside ==
  ASSUME NEW G, NEW B, NEW st, NEW K, NEW T, NEW U, BlocksGiven(G, B, st, K, T, U),
         NEW n, ~GroupAnswered(G, n)
  PROVE  BlocksIn(U, n) = BlocksIn(T, n)
<1>1. \A x \in T : x \in U
  BY DEF BlocksGiven
<1>2. \A x \in U : x \in T \/ x.rid # n
  <2> SUFFICES ASSUME NEW x \in U, x \notin T PROVE x.rid # n
    OBVIOUS
  <2>1. PICK i \in 1 .. Len(G) : /\ ~Completed(G[i])
                                 /\ \E b \in G[i].blocks \ K : x = Given(B, st, G[i], b)
    BY DEF BlocksGiven
  <2>2. x.rid = G[i].rid
    BY <2>1 DEF Given
  <2> QED
    BY <2>1, <2>2 DEF GroupAnswered
<1>3. ASSUME NEW b PROVE b \in BlocksIn(U, n) <=> b \in BlocksIn(T, n)
  BY <1>1, <1>2, BlocksAre
<1> QED
  BY <1>3

(* A read that the blocking call answers is whole.                         *)
LEMMA GivenWhole ==
  ASSUME NEW R, NEW st, ReadsOk(R, st), NEW L, LostOk(R, st, L),
         NEW B, EntriesOk(R, st, L, B), NEW G, GroupsOk(R, st, G),
         MatchOk(R, G, B), NEW T, NEW D, NEW K, GroupsFit(G, K),
         AnsweredOk(R, L, B, T, D, K), NEW U, BlocksGiven(G, B, st, K, T, U),
         NEW n \in 1 .. Len(R), R[n].delegated, SameId(R[n]), GroupAnswered(G, n)
  PROVE  /\ n \notin L /\ Pend(B, n) # {} /\ R[n].blocks # {}
         /\ BlocksIn(U, n) = R[n].blocks \ K
         /\ ~R[n].mem => R[n].blocks \cap K # {}
<1>1. PICK i \in 1 .. Len(G) : G[i].rid = n /\ ~Completed(G[i])
  BY DEF GroupAnswered
<1>2. /\ GroupOk(R, st, G[i]) /\ ~G[i].stale
      /\ G[i].mem \/ \A b \in G[i].blocks \ K : PgCompleted(G[i], b)
  BY <1>1 DEF GroupsOk, GroupsFit
<1>3. /\ R[n].step = st /\ G[i].mem = R[n].mem /\ R[n].blocks # {}
      /\ G[i].blocks = R[n].blocks /\ G[i].done \subseteq Subrequests(G[i])
  BY <1>1, <1>2 DEF GroupOk
<1>4. n \notin L
  BY <1>3, ReadsAre DEF LostOk
<1>5. Pend(B, n) = Subrequests(G[i]) \ G[i].done
  BY <1>1, <1>2 DEF MatchOk
<1>6. Pend(B, n) # {}
  BY <1>1, <1>3, <1>5 DEF Completed
<1>7. BlocksIn(T, n) = {b \in R[n].blocks \ K : Segments(b) \cap Pend(B, n) = {}}
  BY <1>4 DEF AnsweredOk
<1>8. \A b \in R[n].blocks : PgCompleted(G[i], b) <=> Segments(b) \cap Pend(B, n) = {}
  BY <1>1, <1>2, <1>3, OwnBlocks
<1>9. ASSUME NEW b \in R[n].blocks \ K PROVE b \in BlocksIn(U, n)
  <2>1. CASE PgCompleted(G[i], b)
    <3>1. b \in BlocksIn(T, n)
      BY <1>7, <1>8, <2>1
    <3>2. PICK x \in T : x.rid = n /\ x.block = b
      BY <3>1, BlocksAre
    <3>3. x \in U
      BY DEF BlocksGiven
    <3> QED
      BY <3>2, <3>3, BlocksAre
  <2>2. CASE ~PgCompleted(G[i], b)
    <3>1. PICK x : x = Given(B, st, G[i], b)
      OBVIOUS
    <3>2. x \in U
      BY <1>1, <1>3, <2>2, <3>1 DEF BlocksGiven
    <3>3. x.rid = n /\ x.block = b
      BY <1>1, <3>1 DEF Given
    <3> QED
      BY <3>2, <3>3, BlocksAre
  <2> QED
    BY <2>1, <2>2
<1>10. ASSUME NEW b \in BlocksIn(U, n) PROVE b \in R[n].blocks \ K
  <2>1. PICK x \in U : x.rid = n /\ x.block = b
    BY BlocksAre
  <2>2. CASE x \in T
    <3>1. b \in BlocksIn(T, n)
      BY <2>1, <2>2, BlocksAre
    <3> QED
      BY <1>7, <3>1
  <2>3. CASE x \notin T
    <3>1. PICK j \in 1 .. Len(G) :
            \E y \in G[j].blocks \ K : x = Given(B, st, G[j], y)
      BY <2>3 DEF BlocksGiven
    <3>2. PICK y \in G[j].blocks \ K : x = Given(B, st, G[j], y)
      BY <3>1
    <3>3. G[j].rid = n /\ y = b
      BY <2>1, <3>2 DEF Given
    <3>4. GroupOk(R, st, G[j])
      BY DEF GroupsOk
    <3> QED
      BY <3>2, <3>3, <3>4 DEF GroupOk
  <2> QED
    BY <2>2, <2>3
(* Without memory only blocks that cannot be decoded were missing.         *)
<1>11. ASSUME ~R[n].mem PROVE R[n].blocks \cap K # {}
  <2>1. PICK s : s \in Pend(B, n)
    BY <1>6
  <2>2. s \in Subrequests(G[i]) /\ s \notin G[i].done
    BY <1>5, <2>1
  <2>3. PICK b \in G[i].blocks : s \in Segments(b)
    BY <2>2 DEF Subrequests
  <2>4. ~PgCompleted(G[i], b)
    BY <2>2, <2>3 DEF PgCompleted
  <2>5. b \in K
    BY <1>2, <1>3, <1>11, <2>4
  <2> QED
    BY <1>3, <2>5
<1> QED
  BY <1>3, <1>4, <1>6, <1>9, <1>10, <1>11

(* All that BP has left is read at once.                                   *)
LEMMA AllServed ==
  ASSUME NEW R, NEW st, NEW L, NEW B, NEW G, NEW T, NEW D, NEW K,
         Sound(R, st, L, B, G, T, D, K), GroupsFit(G, K),
         NEW U, BlocksGiven(G, B, st, K, T, U), NEW F,
         NEW E, E \in [1 .. MaxReads -> Nat], AllCounted(R, F, G, B, D, E),
         NEW M, GivenUp(R, F, B, L, M)
  PROVE  Sound(R, st, M, <<>>, <<>>, U, E, K)
<1>1. /\ ReadsOk(R, st) /\ Len(R) <= MaxReads /\ st # 0
      /\ LostOk(R, st, L) /\ EntriesOk(R, st, L, B)
      /\ GroupsOk(R, st, G) /\ MatchOk(R, G, B)
      /\ GotOk(R, T) /\ WholeOk(R, T, D, K) /\ AnsweredOk(R, L, B, T, D, K)
  BY DEF Sound
<1>2. /\ EntriesOk(R, st, M, <<>>) /\ GroupsOk(R, st, <<>>)
      /\ \A n : Pend(<<>>, n) = {}
  BY NoEntries, NoGroups
<1>3. MatchOk(R, <<>>, <<>>)
  BY DEF MatchOk
<1>4. \A n \in 1 .. Len(R) : n \in 1 .. MaxReads
  BY <1>1, ReadsAre, Bounds
<1>5. D \in [1 .. MaxReads -> Nat]
  BY <1>1 DEF WholeOk
<1>6. \A k \in 1 .. Len(B) : EntryOk(R, st, L, B[k]) /\ B[k].rid \in 1 .. Len(R)
  BY <1>1 DEF EntriesOk, EntryOk
<1>7. \A i \in 1 .. Len(G) : GroupOk(R, st, G[i]) /\ G[i].rid \in 1 .. Len(R)
  BY <1>1 DEF GroupsOk, GroupOk
(* The reads given up are the program's own, of variables that are not     *)
(* transformed.                                                            *)
<1>8. ASSUME NEW n, RawListed(B, n) PROVE n \in 1 .. Len(R) /\ ~R[n].delegated
  <2>1. PICK k \in 1 .. Len(B) : B[k].rid = n /\ B[k].sel = UserSelection
    BY <1>8 DEF RawListed
  <2>2. EntryOk(R, st, L, B[k]) /\ B[k].rid \in 1 .. Len(R)
    BY <1>6
  <2> QED
    BY <1>1, <2>1, <2>2, UserEntry
<1>9. LostOk(R, st, M) /\ \A n : n \notin M => n \notin L
  BY <1>1, <1>8 DEF LostOk, GivenUp
<1>10. GotOk(R, U)
  <2> SUFFICES ASSUME NEW x \in U
               PROVE  /\ x.rid \in 1 .. Len(R) /\ R[x.rid].delegated
                      /\ SameId(R[x.rid]) => x.data = Filled(R[x.rid], Segments(x.block))
    BY DEF GotOk
  <2>1. CASE x \in T
    BY <1>1, <2>1 DEF GotOk
  <2>2. CASE x \notin T
    <3>1. PICK i \in 1 .. Len(G) :
            ~Completed(G[i]) /\ \E b \in G[i].blocks \ K : x = Given(B, st, G[i], b)
      BY <2>2 DEF BlocksGiven
    <3>2. PICK b \in G[i].blocks \ K : x = Given(B, st, G[i], b)
      BY <3>1
    <3>3. x.rid = G[i].rid /\ x.block = b
      BY <3>2 DEF Given
    <3>4. ~G[i].stale
      BY <3>1 DEF GroupsFit
    <3>5. R[x.rid].delegated /\ x.rid \in 1 .. Len(R)
      BY <1>7, <3>3 DEF GroupOk
    <3>6. SameId(R[x.rid]) => x.data = Filled(R[x.rid], Segments(b))
      BY <1>1, <3>2, <3>3, <3>4, OwnBlocks
    <3> QED
      BY <3>3, <3>5, <3>6
  <2> QED
    BY <2>1, <2>2
(* No entry of a transformed variable is served as a read of the program,  *)
(* and the reads without a group that is left have no entry.               *)
<1>11. ASSUME NEW n \in 1 .. Len(R), R[n].delegated, SameId(R[n])
      PROVE  /\ ~GroupAnswered(G, n) => Pend(B, n) = {} /\ E[n] = D[n]
             /\ GroupAnswered(G, n) => E[n] = IF R[n].mem THEN D[n] + 1 ELSE D[n]
  <2>1. ~RawAnswered(R, F, B, n)
    BY <1>11, <1>8 DEF RawAnswered
  <2>2. ASSUME ~GroupAnswered(G, n), Pend(B, n) # {} PROVE FALSE
    <3>1. PICK k \in 1 .. Len(B) : B[k].rid = n
      BY <2>2, PendIs
    <3>2. PICK i \in 1 .. Len(G) : G[i].rid = n /\ B[k].sel \notin G[i].done
      BY <1>1, <1>11, <3>1 DEF MatchOk
    <3>3. B[k].sel \in Subrequests(R[n])
      BY <1>6, <1>11, <3>1 DEF EntryOk
    <3>4. G[i].blocks = R[n].blocks
      BY <1>7, <3>2 DEF GroupOk
    <3>5. ~Completed(G[i])
      BY <3>2, <3>3, <3>4 DEF Completed, Subrequests
    <3> QED
      BY <2>2, <3>2, <3>5 DEF GroupAnswered
  <2>3. n \in 1 .. MaxReads
    BY <1>4
  <2>4. GroupReturned(G, n) <=> GroupAnswered(G, n) /\ R[n].mem
    <3>1. \A i \in 1 .. Len(G) : G[i].rid = n => G[i].mem = R[n].mem
      BY <1>7 DEF GroupOk
    <3> QED
      BY <3>1 DEF GroupReturned, GroupAnswered
  <2>5. E[n] = IF GroupReturned(G, n) THEN D[n] + 1 ELSE D[n]
    BY <2>1, <2>3 DEF AllCounted
  <2> QED
    BY <2>2, <2>4, <2>5
<1>12. ASSUME NEW n \in 1 .. Len(R), R[n].delegated, SameId(R[n]), GroupAnswered(G, n)
       PROVE  /\ n \notin L /\ Pend(B, n) # {} /\ R[n].blocks # {}
              /\ BlocksIn(U, n) = R[n].blocks \ K
              /\ ~R[n].mem => R[n].blocks \cap K # {}
  BY <1>1, <1>12, GivenWhole
<1>13. WholeOk(R, U, E, K)
  <2>1. ASSUME NEW n \in 1 .. Len(R), R[n].delegated, SameId(R[n]), R[n].mem, E[n] > 0
        PROVE  BlocksIn(U, n) = R[n].blocks \ K
    <3>1. CASE GroupAnswered(G, n)
      BY <1>12, <2>1, <3>1
    <3>2. CASE ~GroupAnswered(G, n)
      <4>1. BlocksIn(U, n) = BlocksIn(T, n)
        BY <3>2, GivenAside
      <4>2. E[n] = D[n]
        BY <1>11, <2>1, <3>2
      <4>3. BlocksIn(T, n) = R[n].blocks \ K
        BY <1>1, <2>1, <4>2 DEF WholeOk
      <4> QED
        BY <4>1, <4>3
    <3> QED
      BY <3>1, <3>2
  <2> QED
    BY <2>1 DEF WholeOk
<1>14. ASSUME NEW n \in 1 .. MaxReads, n > Len(R) PROVE E[n] = 0
  <2>1. n \notin 1 .. Len(R) /\ D[n] = 0
    BY <1>1, <1>14 DEF AnsweredOk
  <2>2. ~RawAnswered(R, F, B, n) /\ ~GroupReturned(G, n)
    BY <1>7, <1>8, <2>1 DEF RawAnswered, GroupReturned
  <2> QED
    BY <2>1, <2>2 DEF AllCounted
<1>15. ASSUME NEW n \in 1 .. Len(R), R[n].delegated, SameId(R[n]), n \notin M
       PROVE  /\ BlocksIn(U, n) = R[n].blocks \ K
              /\ R[n].blocks \cap K = {} =>
                   E[n] = IF R[n].mem THEN IF R[n].blocks # {} THEN 1 ELSE 0
                          ELSE Cardinality(BlocksIn(U, n))
  <2>1. /\ BlocksIn(T, n) = {b \in R[n].blocks \ K : Segments(b) \cap Pend(B, n) = {}}
        /\ R[n].blocks \cap K = {} =>
             D[n] = IF R[n].mem
                    THEN IF Pend(B, n) = {} /\ R[n].blocks # {} THEN 1 ELSE 0
                    ELSE Cardinality(BlocksIn(T, n))
    BY <1>1, <1>15, <1>9 DEF AnsweredOk
  <2>2. CASE GroupAnswered(G, n)
    <3>1. /\ Pend(B, n) # {} /\ R[n].blocks # {}
          /\ BlocksIn(U, n) = R[n].blocks \ K
          /\ ~R[n].mem => R[n].blocks \cap K # {}
      BY <1>12, <1>15, <2>2
    <3>2. R[n].mem => E[n] = D[n] + 1
      BY <1>11, <1>15, <2>2
    <3> QED
      BY ONLY <2>1, <3>1, <3>2
  <2>3. CASE ~GroupAnswered(G, n)
    <3>1. BlocksIn(U, n) = BlocksIn(T, n)
      BY <2>3, GivenAside
    <3>2. Pend(B, n) = {} /\ E[n] = D[n]
      BY <1>11, <1>15, <2>3
    <3>3. BlocksIn(T, n) = R[n].blocks \ K
      BY ONLY <2>1, <3>2
    <3> QED
      BY ONLY <2>1, <3>1, <3>2, <3>3
  <2> QED
    BY <2>2, <2>3
<1>16. ASSUME NEW n \in 1 .. Len(R), ~R[n].delegated, n \notin M
       PROVE  E[n] = R[n].pieces
  <2>1. ~GroupReturned(G, n)
    <3> SUFFICES ASSUME NEW i \in 1 .. Len(G), G[i].rid = n PROVE FALSE
      BY DEF GroupReturned
    <3>1. GroupOk(R, st, G[i])
      BY <1>7
    <3> QED
      BY <1>16, <3>1 DEF GroupOk
  <2>2. CASE RawListed(B, n)
    <3>0. RawAnswered(R, F, B, n)
      BY <1>16, <2>2 DEF GivenUp
    <3>1. PICK k \in 1 .. Len(B) : B[k].rid = n
      BY <2>2 DEF RawListed
    <3>2. B[k].left \in 1 .. R[n].pieces
      BY <1>6, <1>16, <3>1 DEF EntryOk
    <3>3. R[n].pieces = 1
      <4>1. R[n].mem
        BY <3>0 DEF RawAnswered
      <4>2. ReadOk(R[n])
        BY <1>1, ReadsAre
      <4> QED
        BY <4>1, <4>2 DEF ReadOk
    <3>4. D[n] = R[n].pieces - B[k].left
      BY <1>1, <1>16, <3>1 DEF AnsweredOk
    <3>5. E[n] = D[n] + 1
      BY <1>4, <3>0 DEF AllCounted
    <3>6. B[k].left = 1
      BY <3>2, <3>3
    <3> QED
      BY ONLY <3>3, <3>4, <3>5, <3>6
  <2>3. CASE ~RawListed(B, n)
    <3>1. \A k \in 1 .. Len(B) : B[k].rid # n
      <4> SUFFICES ASSUME NEW k \in 1 .. Len(B), B[k].rid = n PROVE FALSE
        OBVIOUS
      <4>1. B[k].sel = UserSelection
        BY <1>6, <1>16 DEF EntryOk
      <4> QED
        BY <2>3, <4>1 DEF RawListed
    <3>2. Pend(B, n) = {}
      BY <3>1, PendIs
    <3>3. D[n] = R[n].pieces
      BY <1>1, <1>16, <1>9, <3>2 DEF AnsweredOk
    <3>4. E[n] = D[n]
      BY <1>4, <2>1, <2>3 DEF AllCounted, RawAnswered
    <3> QED
      BY <3>3, <3>4
  <2> QED
    BY <2>2, <2>3
<1>17. AnsweredOk(R, M, <<>>, U, E, K)
  <2>1. \A k : k \notin 1 .. Len(<<>>)
    OBVIOUS
  <2>2. \A n \in 1 .. Len(R) : R[n].delegated /\ SameId(R[n]) /\ n \notin M =>
          /\ BlocksIn(U, n) =
               {b \in R[n].blocks \ K : Segments(b) \cap Pend(<<>>, n) = {}}
          /\ R[n].blocks \cap K = {} =>
               E[n] = IF R[n].mem
                      THEN IF Pend(<<>>, n) = {} /\ R[n].blocks # {} THEN 1 ELSE 0
                      ELSE Cardinality(BlocksIn(U, n))
    BY <1>2, <1>15
  <2> QED
    BY <1>14, <1>16, <2>1, <2>2 DEF AnsweredOk
<1> QED
  BY <1>1, <1>2, <1>3, <1>10, <1>13, <1>17, <1>9 DEF Sound

(* A blocking call keeps the invariant.                                    *)
LEMMA PerformStep ==
  ASSUME OpenSound, NEW failed, PerformReads(failed), Defined'
  PROVE  OpenSound'
<1> DEFINE served(g) == [g EXCEPT !.filled = @ \cup ReadInto(bplist, step, g.rid)]
           all == {served(g) : g \in Pending}
           raw == {e.rid : e \in {x \in ToSet(bplist) : x.sel = UserSelection}}
           answered == {rid \in raw \ failed : reads[rid].mem}
           given == {g.rid : g \in {h \in all : h.mem}}
<1>1. /\ GroupsOk(reads, step, reqgroups) /\ EntriesOk(reads, step, lost, bplist)
      /\ ReadsOk(reads, step) /\ WholeOk(reads, got, returned, corrupt)
      /\ Sound(reads, step, lost, bplist, reqgroups, got, returned, corrupt)
  BY DEF OpenSound, Sound
<1>3. /\ \A g \in all : ~g.stale /\ (g.mem \/ Missing(g) = {})
      /\ got' = got \cup UNION {{Decoded(g, b) : b \in Missing(g)} : g \in all}
      /\ returned' = [n \in DOMAIN returned |-> returned[n] +
                        IF n \in answered \cup given THEN 1 ELSE 0]
      /\ lost' = lost \cup (raw \ answered)
      /\ bplist' = <<>> /\ reqgroups' = <<>>
      /\ UNCHANGED <<step, corrupt, reads>>
  BY DEF PerformReads, Defined, ReadInto, BufferOf, Content
<1>4. \A i \in 1 .. Len(reqgroups) : GroupOk(reads, step, reqgroups[i])
  BY <1>1 DEF GroupsOk
<1>5. DOMAIN reqgroups = 1 .. Len(reqgroups) /\ DOMAIN bplist = 1 .. Len(bplist)
  BY <1>1 DEF GroupsOk, EntriesOk
<1>7. ASSUME NEW i \in 1 .. Len(reqgroups)
      PROVE  /\ FieldsKept(reqgroups[i], served(reqgroups[i]))
             /\ served(reqgroups[i]).done = reqgroups[i].done
             /\ served(reqgroups[i]).filled =
                  reqgroups[i].filled \cup ReadInto(bplist, step, reqgroups[i].rid)
  <2>1. PICK g : g = reqgroups[i]
    OBVIOUS
  <2>2. GroupOk(reads, step, g)
    BY <1>4, <2>1
  <2>3. PICK v : v = g.filled \cup ReadInto(bplist, step, g.rid)
    OBVIOUS
  <2>4. PICK h : h = [g EXCEPT !.filled = v]
    OBVIOUS
  <2>5. FieldsKept(g, h) /\ h.done = g.done /\ h.filled = v
    BY ONLY <2>2, <2>4, GroupFilled
  <2>6. served(g) = h
    BY <2>3, <2>4
  <2> QED
    BY <2>1, <2>3, <2>5, <2>6
<1>8. /\ \A g \in Pending : \E i \in 1 .. Len(reqgroups) : reqgroups[i] = g /\ ~Completed(g)
      /\ \A i \in 1 .. Len(reqgroups) :
           ~Completed(reqgroups[i]) => reqgroups[i] \in Pending
  BY <1>5 DEF Pending, ToSet
<1> HIDE DEF served
<1>9. GroupsFit(reqgroups, corrupt)
  <2> SUFFICES ASSUME NEW i \in 1 .. Len(reqgroups), ~Completed(reqgroups[i])
               PROVE  /\ ~reqgroups[i].stale
                      /\ \/ reqgroups[i].mem
                         \/ \A b \in reqgroups[i].blocks \ corrupt :
                              PgCompleted(reqgroups[i], b)
    BY DEF GroupsFit
  <2>1. PICK h \in all : h = served(reqgroups[i])
    BY <1>8
  <2>2. /\ h.stale = reqgroups[i].stale /\ h.mem = reqgroups[i].mem
        /\ h.blocks = reqgroups[i].blocks /\ h.done = reqgroups[i].done
    BY <1>7, <2>1 DEF FieldsKept
  <2>3. ~h.stale /\ (h.mem \/ Missing(h) = {})
    BY <1>3
  <2>4. Missing(h) = {} => \A b \in h.blocks \ corrupt : PgCompleted(h, b)
    BY DEF Missing
  <2>5. \A b : PgCompleted(h, b) <=> PgCompleted(reqgroups[i], b)
    BY <2>2 DEF PgCompleted
  <2> QED
    BY <2>2, <2>3, <2>4, <2>5
<1>10. ASSUME NEW i \in 1 .. Len(reqgroups), NEW b
       PROVE  /\ Decoded(served(reqgroups[i]), b) = Given(bplist, step, reqgroups[i], b)
              /\ PgCompleted(served(reqgroups[i]), b) <=> PgCompleted(reqgroups[i], b)
              /\ served(reqgroups[i]).blocks = reqgroups[i].blocks
              /\ served(reqgroups[i]).rid = reqgroups[i].rid
              /\ served(reqgroups[i]).mem = reqgroups[i].mem
  BY <1>7 DEF FieldsKept, Decoded, Given, PgCompleted
<1>11. PICK U : U = got'
  OBVIOUS
<1>12. BlocksGiven(reqgroups, bplist, step, corrupt, got, U)
  <2>1. ASSUME NEW x \in U, x \notin got
        PROVE  \E i \in 1 .. Len(reqgroups) :
                 /\ ~Completed(reqgroups[i])
                 /\ \E b \in reqgroups[i].blocks \ corrupt :
                      ~PgCompleted(reqgroups[i], b) /\ x = Given(bplist, step, reqgroups[i], b)
    <3>1. PICK h \in all : \E b \in h.blocks \ corrupt :
                             ~PgCompleted(h, b) /\ x = Decoded(h, b)
      BY <1>3, <1>11, <2>1 DEF Missing
    <3>2. PICK b \in h.blocks \ corrupt : ~PgCompleted(h, b) /\ x = Decoded(h, b)
      BY <3>1
    <3>3. PICK g \in Pending : h = served(g)
      BY <3>1
    <3>4. PICK i \in 1 .. Len(reqgroups) : reqgroups[i] = g /\ ~Completed(g)
      BY <1>8
    <3> QED
      BY <1>10, <3>2, <3>3, <3>4
  <2>2. ASSUME NEW i \in 1 .. Len(reqgroups), ~Completed(reqgroups[i]),
               NEW b \in reqgroups[i].blocks \ corrupt, ~PgCompleted(reqgroups[i], b)
        PROVE  Given(bplist, step, reqgroups[i], b) \in U
    <3>1. PICK h \in all : h = served(reqgroups[i])
      BY <1>8, <2>2
    <3>2. b \in h.blocks \ corrupt /\ ~PgCompleted(h, b)
      BY <1>10, <2>2, <3>1
    <3>3. Decoded(h, b) \in U
      <4>1. b \in Missing(h)
        BY <3>2 DEF Missing
      <4> QED
        BY <1>3, <1>11, <4>1
    <3> QED
      BY <1>10, <3>1, <3>3
  <2>3. got \subseteq U
    BY <1>3, <1>11
  <2> QED
    BY <2>1, <2>2, <2>3 DEF BlocksGiven
<1>13. PICK E : E = returned'
  OBVIOUS
<1>14. returned \in [1 .. MaxReads -> Nat]
  BY <1>1 DEF WholeOk
<1>15. \A n : /\ n \in raw <=> RawListed(bplist, n)
              /\ n \in answered <=> RawAnswered(reads, failed, bplist, n)
  <2>1. \A e : e \in ToSet(bplist) <=> \E k \in 1 .. Len(bplist) : bplist[k] = e
    BY <1>1, EntriesSet
  <2>2. \A n : n \in raw <=> RawListed(bplist, n)
    BY <2>1 DEF RawListed
  <2> QED
    BY <2>2 DEF RawAnswered
<1>16. ASSUME NEW n PROVE n \in given <=> GroupReturned(reqgroups, n)
  <2>1. ASSUME n \in given PROVE GroupReturned(reqgroups, n)
    <3>1. PICK g \in Pending : served(g).rid = n /\ served(g).mem
      BY <2>1
    <3>2. PICK i \in 1 .. Len(reqgroups) : reqgroups[i] = g /\ ~Completed(g)
      BY <1>8
    <3> QED
      BY <1>10, <3>1, <3>2 DEF GroupReturned
  <2>2. ASSUME GroupReturned(reqgroups, n) PROVE n \in given
    <3>1. PICK i \in 1 .. Len(reqgroups) :
            reqgroups[i].rid = n /\ ~Completed(reqgroups[i]) /\ reqgroups[i].mem
      BY <2>2 DEF GroupReturned
    <3>2. /\ served(reqgroups[i]) \in all /\ served(reqgroups[i]).rid = n
          /\ served(reqgroups[i]).mem
      BY <1>8, <1>10, <3>1
    <3> QED
      BY <3>2
  <2> QED
    BY <2>1, <2>2
<1> HIDE DEF all, raw, answered, given
<1>17. E \in [1 .. MaxReads -> Nat]
  BY <1>3, <1>13, <1>14
<1>18. AllCounted(reads, failed, reqgroups, bplist, returned, E)
  <2> SUFFICES ASSUME NEW n \in 1 .. MaxReads
               PROVE  IF RawAnswered(reads, failed, bplist, n) \/ GroupReturned(reqgroups, n)
                      THEN E[n] = returned[n] + 1 ELSE E[n] = returned[n]
    BY DEF AllCounted
  <2>1. E[n] = returned[n] + IF n \in answered \cup given THEN 1 ELSE 0
    BY <1>3, <1>13, <1>14
  <2>2. n \in answered \cup given <=>
          RawAnswered(reads, failed, bplist, n) \/ GroupReturned(reqgroups, n)
    BY <1>15, <1>16
  <2>3. returned[n] \in Nat
    BY <1>14
  <2> QED
    BY <2>1, <2>2, <2>3
<1>19. PICK M : M = lost'
  OBVIOUS
<1>20. GivenUp(reads, failed, bplist, lost, M)
  BY <1>3, <1>15, <1>19 DEF GivenUp
<1>21. Sound(reads, step, M, <<>>, <<>>, U, E, corrupt)
  BY ONLY <1>1, <1>9, <1>12, <1>17, <1>18, <1>20, AllServed
<1> QED
  BY <1>3, <1>11, <1>13, <1>19, <1>21 DEF OpenSound

(* BP refuses: the reads keep their entries.  If no group is left either   *)
(* there are none of reads with the same id everywhere.                    *)
LEMMA RefusedStep ==
  ASSUME OpenSound, PerformRefused, Defined'
  PROVE  OpenSound'
<1>1. /\ GroupsOk(reads, step, reqgroups) /\ MatchOk(reads, reqgroups, bplist)
      /\ EntriesOk(reads, step, lost, bplist)
  BY DEF OpenSound, Sound
<1>2. /\ Pending = {} /\ reqgroups' = <<>>
      /\ UNCHANGED <<step, corrupt, reads, lost, bplist, got, returned>>
  BY DEF PerformRefused, Defined, history
<1>3. \A i \in 1 .. Len(reqgroups) : Completed(reqgroups[i])
  <2>1. DOMAIN reqgroups = 1 .. Len(reqgroups)
    BY <1>1 DEF GroupsOk
  <2> QED
    BY <1>2, <2>1 DEF Pending, ToSet
<1>4. ASSUME NEW k \in 1 .. Len(bplist), reads[bplist[k].rid].delegated,
             SameId(reads[bplist[k].rid])
      PROVE  FALSE
  <2>1. PICK i \in 1 .. Len(reqgroups) : /\ reqgroups[i].rid = bplist[k].rid
                                         /\ bplist[k].sel \notin reqgroups[i].done
    BY <1>1, <1>4 DEF MatchOk
  <2>2. bplist[k].sel \in Subrequests(reads[bplist[k].rid])
    BY <1>1, <1>4 DEF EntriesOk, EntryOk
  <2>3. reqgroups[i].blocks = reads[bplist[k].rid].blocks
    <3>1. GroupOk(reads, step, reqgroups[i])
      BY <1>1 DEF GroupsOk
    <3> QED
      BY <2>1, <3>1 DEF GroupOk
  <2>4. Subrequests(reqgroups[i]) = Subrequests(reads[bplist[k].rid])
    BY <2>3 DEF Subrequests
  <2> QED
    BY <1>3, <2>1, <2>2, <2>4 DEF Completed
<1>5. MatchOk(reads, <<>>, bplist)
  BY <1>4 DEF MatchOk
<1>6. GroupsOk(reads, step, <<>>)
  BY NoGroups
<1> QED
  BY <1>2, <1>5, <1>6 DEF OpenSound, Sound

-----------------------------------------------------------------------------
(* adios_advance_step.                                                     *)

(* An advance keeps the invariant; what was pending is lost.               *)
LEMMA AdvanceOk ==
  ASSUME OpenSound, NEW inIndex \in BOOLEAN, AdvanceStep(inIndex)
  PROVE  OpenSound'
<1>1. /\ ReadsOk(reads, step) /\ Len(reads) <= MaxReads /\ step # 0
      /\ LostOk(reads, step, lost) /\ EntriesOk(reads, step, lost, bplist)
      /\ GroupsOk(reads, step, reqgroups) /\ MatchOk(reads, reqgroups, bplist)
      /\ GotOk(reads, got) /\ WholeOk(reads, got, returned, corrupt)
      /\ AnsweredOk(reads, lost, bplist, got, returned, corrupt)
  BY DEF OpenSound, Sound
<1>2. PICK H, C, K, tt : H = reqgroups' /\ C = bplist' /\ K = lost' /\ tt = step'
  OBVIOUS
<1>3. /\ tt = step + 1 /\ C = (IF inIndex THEN bplist ELSE <<>>)
      /\ H = [i \in DOMAIN reqgroups |-> [reqgroups[i] EXCEPT !.stale = TRUE]]
      /\ K = lost \cup {bplist[i].rid : i \in DOMAIN bplist}
      /\ UNCHANGED <<reads, got, returned, corrupt>>
  BY <1>2 DEF AdvanceStep
<1>4. step \in Nat /\ Len(reads) \in Nat
  BY <1>1, ReadsAre
<1>5. \A n \in 1 .. Len(reads) : reads[n].step \in 1 .. step
  BY <1>1 DEF ReadsOk
<1>6. ReadsOk(reads, tt) /\ tt # 0
  <2>1. tt \in Nat /\ tt # 0 /\ \A n \in 1 .. Len(reads) : reads[n].step \in 1 .. tt
    BY <1>3, <1>4, <1>5
  <2> QED
    BY <1>1, <2>1 DEF ReadsOk
<1>7. DOMAIN bplist = 1 .. Len(bplist)
  BY <1>1 DEF EntriesOk
<1>8. \A k \in 1 .. Len(bplist) : bplist[k].rid \in 1 .. Len(reads) /\ bplist[k].rid \in K
  BY <1>1, <1>3, <1>7 DEF EntriesOk, EntryOk
<1>9. LostOk(reads, tt, K)
  <2>1. ASSUME NEW n \in K PROVE n \in 1 .. Len(reads)
    <3>1. CASE n \in lost
      BY <1>1, <3>1 DEF LostOk
    <3>2. CASE n \notin lost
      BY <1>3, <1>7, <1>8, <3>2
    <3> QED
      BY <3>1, <3>2
  <2>2. \A n \in K : reads[n].step < tt
    BY <1>3, <1>4, <1>5, <2>1
  <2> QED
    BY <2>1, <2>2 DEF LostOk
<1>10. EntriesOk(reads, tt, K, bplist)
  BY <1>1, <1>3, EntriesLost
<1>11. EntriesOk(reads, tt, K, C)
  BY <1>3, <1>10, NoEntries
<1>12. /\ GroupsOk(reads, tt, H) /\ Len(H) = Len(reqgroups)
       /\ \A i \in 1 .. Len(reqgroups) : /\ H[i].rid = reqgroups[i].rid /\ H[i].stale
                                         /\ H[i].done = reqgroups[i].done
  BY <1>1, <1>3, GroupsStale
<1>13. \A k \in 1 .. Len(C) : \E j \in 1 .. Len(bplist) : C[k] = bplist[j]
  BY <1>3
<1>14. MatchOk(reads, H, C)
  <2>1. ASSUME NEW k \in 1 .. Len(C), reads[C[k].rid].delegated, SameId(reads[C[k].rid])
        PROVE  \E i \in 1 .. Len(H) : H[i].rid = C[k].rid /\ C[k].sel \notin H[i].done
    <3>1. PICK j \in 1 .. Len(bplist) : C[k] = bplist[j]
      BY <1>13
    <3>2. PICK i \in 1 .. Len(reqgroups) : /\ reqgroups[i].rid = C[k].rid
                                           /\ C[k].sel \notin reqgroups[i].done
      BY <1>1, <2>1, <3>1 DEF MatchOk
    <3> QED
      BY <1>12, <3>2
  <2> QED
    BY <1>12, <2>1 DEF MatchOk
<1>15. AnsweredOk(reads, K, C, got, returned, corrupt)
  <2>1. \A n : n \notin K => n \notin lost /\ Pend(bplist, n) = {} /\ Pend(C, n) = {}
    <3> SUFFICES ASSUME NEW n, n \notin K
                 PROVE  n \notin lost /\ Pend(bplist, n) = {} /\ Pend(C, n) = {}
      OBVIOUS
    <3>1. \A k \in 1 .. Len(bplist) : bplist[k].rid # n
      BY <1>8
    <3>2. \A k \in 1 .. Len(C) : C[k].rid # n
      BY <1>13, <3>1
    <3>3. Pend(bplist, n) = {}
      BY <3>1, PendIs
    <3>4. Pend(C, n) = {}
      BY <3>2, PendIs
    <3> QED
      BY <1>3, <3>3, <3>4
  <2>2. \A n \in 1 .. MaxReads : n > Len(reads) => returned[n] = 0
    BY <1>1 DEF AnsweredOk
  <2>3. ASSUME NEW n \in 1 .. Len(reads), reads[n].delegated, SameId(reads[n]), n \notin K
        PROVE  /\ BlocksIn(got, n) =
                    {b \in reads[n].blocks \ corrupt : Segments(b) \cap Pend(C, n) = {}}
               /\ reads[n].blocks \cap corrupt = {} =>
                    returned[n] =
                      IF reads[n].mem
                      THEN IF Pend(C, n) = {} /\ reads[n].blocks # {} THEN 1 ELSE 0
                      ELSE Cardinality(BlocksIn(got, n))
    <3>1. n \notin lost /\ Pend(C, n) = Pend(bplist, n)
      BY <2>1, <2>3
    <3>2. /\ BlocksIn(got, n) =
               {b \in reads[n].blocks \ corrupt : Segments(b) \cap Pend(bplist, n) = {}}
          /\ reads[n].blocks \cap corrupt = {} =>
               returned[n] =
                 IF reads[n].mem
                 THEN IF Pend(bplist, n) = {} /\ reads[n].blocks # {} THEN 1 ELSE 0
                 ELSE Cardinality(BlocksIn(got, n))
      BY <1>1, <2>3, <3>1 DEF AnsweredOk
    <3> QED
      BY <3>1, <3>2
  <2>4. ASSUME NEW k \in 1 .. Len(C), ~reads[C[k].rid].delegated
        PROVE  returned[C[k].rid] = reads[C[k].rid].pieces - C[k].left
    <3>1. PICK j \in 1 .. Len(bplist) : C[k] = bplist[j]
      BY <1>13
    <3> QED
      BY <1>1, <2>4, <3>1 DEF AnsweredOk
  <2>5. ASSUME NEW n \in 1 .. Len(reads), ~reads[n].delegated, n \notin K
        PROVE  returned[n] = reads[n].pieces
    <3>1. n \notin lost /\ Pend(bplist, n) = {}
      BY <2>1, <2>5
    <3> QED
      BY <1>1, <2>5, <3>1 DEF AnsweredOk
  <2> QED
    BY <2>2, <2>3, <2>4, <2>5 DEF AnsweredOk
<1>16. Sound(reads, tt, K, C, H, got, returned, corrupt)
  BY <1>1, <1>6, <1>9, <1>11, <1>12, <1>14, <1>15 DEF Sound
<1> QED
  BY <1>2, <1>3, <1>16 DEF OpenSound

-----------------------------------------------------------------------------
(* The invariant.  After adios_read_close only what was given remains.     *)

(* What was given stays right after the file is closed.                    *)
ReadsSound ==
  /\ ReadsOk(reads, step) /\ GotOk(reads, got)
  /\ WholeOk(reads, got, returned, corrupt)
  /\ rpc # "closed" => OpenSound

(* The inductive invariant.                                                *)
ReadInv == Defined => ReadsSound

(* It holds before the first read.                                         *)
LEMMA ReadInvInit == Init => ReadInv
<1> SUFFICES ASSUME Init PROVE OpenSound
  BY DEF ReadInv, ReadsSound, OpenSound, Sound
<1>1. /\ reads = <<>> /\ step = 1 /\ lost = {} /\ bplist = <<>> /\ reqgroups = <<>>
      /\ got = {} /\ returned = [rid \in 1 .. MaxReads |-> 0]
  BY DEF Init
<1>2. /\ reads \in Seq({}) /\ Len(reads) = 0
      /\ \A i : i \notin 1 .. Len(reads)
  BY <1>1
<1>3. ReadsOk(reads, step) /\ Len(reads) <= MaxReads /\ step # 0
  BY <1>1, <1>2, Bounds DEF ReadsOk
<1>4. /\ EntriesOk(reads, step, lost, bplist) /\ GroupsOk(reads, step, reqgroups)
      /\ LostOk(reads, step, lost)
  BY <1>1, NoEntries, NoGroups DEF LostOk
<1>5. MatchOk(reads, reqgroups, bplist)
  BY <1>1 DEF MatchOk
<1>6. GotOk(reads, got)
  BY <1>1 DEF GotOk
<1>7. WholeOk(reads, got, returned, corrupt)
  BY <1>1, <1>2 DEF WholeOk
<1>8. AnsweredOk(reads, lost, bplist, got, returned, corrupt)
  <2>1. \A k : k \notin 1 .. Len(bplist)
    BY <1>1
  <2> QED
    BY <1>1, <1>2, <2>1 DEF AnsweredOk
<1> QED
  BY <1>3, <1>4, <1>5, <1>6, <1>7, <1>8 DEF OpenSound, Sound

(* One step for each action.                                               *)
LEMMA ReadInvNext ==
  ReadInv /\ OneName /\ [Next]_vars => ReadInv'
<1> SUFFICES ASSUME ReadInv, OneName, [Next]_vars, Defined' PROVE ReadsSound'
  BY DEF ReadInv
<1>1. ASSUME UNCHANGED vars PROVE ReadsSound'
  <2>1. Defined /\ UNCHANGED <<reads, step, lost, bplist, reqgroups, got, returned,
                               corrupt, rpc>>
    BY <1>1 DEF vars, viewVars, Defined
  <2> QED
    BY <2>1 DEF ReadInv, ReadsSound, OpenSound
<1>2. ASSUME OpenSound' PROVE ReadsSound'
  BY <1>2 DEF ReadsSound, OpenSound, Sound
<1>3. ASSUME rpc \in {"idle", "checking"} PROVE OpenSound
  BY <1>3 DEF ReadInv, ReadsSound, Defined
<1>4. ASSUME OpenSound,
             UNCHANGED <<reads, step, lost, bplist, reqgroups, got, returned, corrupt>>
      PROVE  OpenSound'
  BY <1>4 DEF OpenSound
<1>5. ASSUME NEW v, SetDataView(v) PROVE ReadsSound'
  BY <1>2, <1>3, <1>4, <1>5 DEF SetDataView, history
<1>6. ASSUME NEW g, GroupView(g) PROVE ReadsSound'
  BY <1>2, <1>3, <1>4, <1>6 DEF GroupView, history
<1>7. ASSUME NEW id, NEW mem \in BOOLEAN, NEW blocks \in SUBSET (1 .. NBlocks),
             ScheduleTransformed(id, mem, blocks)
      PROVE  ReadsSound'
  <2>1. OpenSound
    BY <1>3, <1>7 DEF ScheduleTransformed, Schedule
  <2> QED
    BY <1>2, <1>7, <2>1, TransformedStep
<1>8. ASSUME NEW id, NEW mem \in BOOLEAN, NEW pieces \in 1 .. NPieces,
             ScheduleRaw(id, mem, pieces)
      PROVE  ReadsSound'
  <2>1. OpenSound
    BY <1>3, <1>8 DEF ScheduleRaw, Schedule
  <2> QED
    BY <1>2, <1>8, <2>1, RawStep
<1>9. ASSUME NEW failed, PerformReads(failed) PROVE ReadsSound'
  <2>1. OpenSound
    BY <1>3, <1>9 DEF PerformReads
  <2> QED
    BY <1>2, <1>9, <2>1, PerformStep
<1>10. ASSUME PerformRefused PROVE ReadsSound'
  <2>1. OpenSound
    BY <1>3, <1>10 DEF PerformRefused
  <2> QED
    BY <1>2, <1>10, <2>1, RefusedStep
<1>11. ASSUME NEW reset, CheckReads(reset) PROVE ReadsSound'
  BY <1>2, <1>3, <1>4, <1>11 DEF CheckReads, history
<1>12. ASSUME CheckNothingLeft PROVE ReadsSound'
  <2>1. OpenSound
    BY <1>3, <1>12 DEF CheckNothingLeft
  <2> QED
    BY <1>2, <1>12, <2>1, NothingLeftStep
<1>13. ASSUME CheckRaw PROVE ReadsSound'
  <2>1. OpenSound
    BY <1>3, <1>13 DEF CheckRaw
  <2> QED
    BY <1>2, <1>13, <2>1, RawChunkStep
<1>14. ASSUME CheckSubrequest PROVE ReadsSound'
  <2>1. OpenSound
    BY <1>3, <1>14 DEF CheckSubrequest
  <2> QED
    BY <1>2, <1>14, <2>1, SubrequestStep
<1>15. ASSUME CheckUnmatched PROVE ReadsSound'
  <2>1. OpenSound
    BY <1>3, <1>15 DEF CheckUnmatched
  <2> QED
    BY <1>2, <1>15, <2>1, UnmatchedStep
<1>16. ASSUME NEW inIndex \in BOOLEAN, AdvanceStep(inIndex) PROVE ReadsSound'
  <2>1. OpenSound
    BY <1>3, <1>16 DEF AdvanceStep
  <2> QED
    BY <1>2, <1>16, <2>1, AdvanceOk
<1>17. ASSUME ReadClose PROVE ReadsSound'
  <2>1. OpenSound
    BY <1>3, <1>17 DEF ReadClose
  <2>2. rpc' = "closed" /\ UNCHANGED <<reads, step, got, returned, corrupt>>
    BY <1>17 DEF ReadClose, history
  <2> QED
    BY <2>1, <2>2 DEF ReadsSound, OpenSound, Sound
<1>18. ASSUME CheckFailed PROVE ReadsSound'
  <2>1. OpenSound
    BY <1>3, <1>18 DEF CheckFailed
  <2> QED
    BY <1>2, <1>18, <2>1, FailedStep
<1>19. CASE Next
  BY <1>5, <1>6, <1>7, <1>8, <1>9, <1>10, <1>11, <1>12, <1>13, <1>14, <1>15,
     <1>16, <1>17, <1>18, <1>19 DEF Next
<1> QED
  BY <1>1, <1>19

(* The data of a read, and the chunks it has returned.                     *)
LEMMA ReadInvMeansData == ReadInv => OwnDataDecoded
<1> SUFFICES ASSUME ReadInv, Defined, NEW x \in got, SameId(reads[x.rid])
             PROVE  x.data = {[sel |-> s, var |-> reads[x.rid].var,
                               step |-> reads[x.rid].step] : s \in Segments(x.block)}
  BY DEF OwnDataDecoded
<1>1. x.data = Filled(reads[x.rid], Segments(x.block))
  BY DEF ReadInv, ReadsSound, GotOk
<1> QED
  BY <1>1 DEF Filled, Data

(* An empty list means that nothing is missing.                            *)
LEMMA ReadInvMeansDelivered == ReadInv => ReadsDelivered
<1> SUFFICES ASSUME ReadInv, Defined, NEW rid \in DOMAIN reads, SameId(reads[rid])
             PROVE  LET r == reads[rid] IN
                    /\ r.delegated /\ r.mem /\ returned[rid] > 0 =>
                         GotBlocks(rid) = r.blocks \ corrupt
                    /\ rpc = "idle" /\ bplist = <<>> /\ rid \notin lost =>
                         /\ r.delegated => GotBlocks(rid) = r.blocks \ corrupt
                         /\ r.blocks \cap corrupt = {} => returned[rid] = Chunks(r)
  BY DEF ReadsDelivered
<1> DEFINE r == reads[rid]
<1>1. /\ ReadsOk(reads, step) /\ WholeOk(reads, got, returned, corrupt)
      /\ rpc # "closed" => OpenSound
  BY DEF ReadInv, ReadsSound
<1>2. rid \in 1 .. Len(reads) /\ ReadOk(r)
  BY <1>1, ReadsAre
<1>3. GotBlocks(rid) = BlocksIn(got, rid)
  BY DEF GotBlocks, BlocksIn
<1>4. r.delegated /\ r.mem /\ returned[rid] > 0 => GotBlocks(rid) = r.blocks \ corrupt
  BY <1>1, <1>2, <1>3 DEF WholeOk
<1>5. ASSUME rpc = "idle", bplist = <<>>, rid \notin lost
      PROVE  /\ r.delegated => GotBlocks(rid) = r.blocks \ corrupt
             /\ r.blocks \cap corrupt = {} => returned[rid] = Chunks(r)
  <2>1. AnsweredOk(reads, lost, bplist, got, returned, corrupt)
    BY <1>1, <1>5 DEF OpenSound, Sound
  <2>2. Pend(bplist, rid) = {}
    BY <1>5, NoEntries
  <2>3. CASE r.delegated
    <3>1. /\ BlocksIn(got, rid) =
               {b \in r.blocks \ corrupt : Segments(b) \cap Pend(bplist, rid) = {}}
          /\ r.blocks \cap corrupt = {} =>
               returned[rid] = IF r.mem
                               THEN IF Pend(bplist, rid) = {} /\ r.blocks # {} THEN 1 ELSE 0
                               ELSE Cardinality(BlocksIn(got, rid))
      BY <1>2, <1>5, <2>1, <2>3 DEF AnsweredOk
    <3>2. BlocksIn(got, rid) = r.blocks \ corrupt
      BY <2>2, <3>1
    <3>3. ASSUME r.blocks \cap corrupt = {} PROVE returned[rid] = Chunks(r)
      <4>1. r.blocks \ corrupt = r.blocks
        BY <3>3
      <4>2. CASE r.mem
        <5>1. Chunks(r) = IF r.blocks = {} THEN 0 ELSE 1
          BY <2>3, <4>2 DEF Chunks
        <5> QED
          BY <2>2, <3>1, <3>3, <4>2, <5>1
      <4>3. CASE ~r.mem
        <5>1. Chunks(r) = Cardinality(r.blocks)
          BY <2>3, <4>3 DEF Chunks
        <5> QED
          BY <3>1, <3>2, <3>3, <4>1, <4>3, <5>1
      <4> QED
        BY <4>2, <4>3
    <3> QED
      BY <1>3, <3>2, <3>3
  <2>4. CASE ~r.delegated
    <3>1. returned[rid] = r.pieces
      BY <1>2, <1>5, <2>1, <2>2, <2>4 DEF AnsweredOk
    <3>2. Chunks(r) = r.pieces
      BY <2>4 DEF Chunks
    <3> QED
      BY <2>4, <3>1, <3>2
  <2> QED
    BY <2>3, <2>4
<1> QED
  BY <1>4, <1>5

(* What the program decodes for a read is made from BP's buffers of that   *)
(* read, however many reads of the same blocks are under way.              *)
THEOREM ReadsDecodeOwnData == Spec /\ []OneName => []OwnDataDecoded
<1>1. Spec /\ []OneName => []ReadInv
  BY ReadInvInit, ReadInvNext, PTL DEF Spec
<1> QED
  BY <1>1, ReadInvMeansData, PTL

(* No chunk is lost, returned twice or returned before its read is whole,  *)
(* whatever mix of blocking and chunked calls the program uses.            *)
THEOREM ReadsAreDelivered == Spec /\ []OneName => []ReadsDelivered
<1>1. Spec /\ []OneName => []ReadInv
  BY ReadInvInit, ReadInvNext, PTL DEF Spec
<1> QED
  BY <1>1, ReadInvMeansDelivered, PTL

-----------------------------------------------------------------------------
(* A program that selects no group but the first, of streams whose steps   *)
(* list a variable once: an id has one meaning in a step.                  *)

(* No step lists a variable twice.                                         *)
ListedOnce ==
  \A s \in Steps, g, h \in Views \cup {-1} :
    \A i \in 0 .. Presented(s, g) - 1, j \in 0 .. Presented(s, h) - 1 :
      FlattenSeq(Present[s])[i + 1] = FlattenSeq(Present[s])[j + 1] => i = j

(* The number of variables is one that a view of the step has.             *)
Shown(s, n) == n = 0 \/ \E g \in Views \cup {-1} : n = Presented(s, g)

(* A read has the name and the variable of a place in the list of its      *)
(* step.                                                                   *)
Named(r) ==
  /\ r.step \in Steps
  /\ \E g \in Views \cup {-1} : r.id \in 0 .. Presented(r.step, g) - 1
  /\ r.var = FlattenSeq(Present[r.step])[r.id + 1]

(* So have all reads, and the number of variables in view is that of a     *)
(* view of this step as long as the reader is defined.                     *)
NamesInv ==
  /\ view \in Views \cup {-1} /\ step \in Steps
  /\ \E S : reads \in Seq(S)
  /\ \A i \in 1 .. Len(reads) : Named(reads[i])
  /\ Defined => /\ Shown(step, nvars)
                /\ full.step \in 0 .. step
                /\ full.step = 0 => full.nvars = 0
                /\ full.step = step => Shown(step, full.nvars)

(* One more read with such a name.                                         *)
LEMMA AppendedNames ==
  ASSUME NEW S, NEW q \in Seq(S), NEW e, Named(e), \A i \in 1 .. Len(q) : Named(q[i])
  PROVE  /\ \E T : Append(q, e) \in Seq(T)
         /\ \A i \in 1 .. Len(Append(q, e)) : Named(Append(q, e)[i])
<1>1. PICK T : T = S \cup {e}
  OBVIOUS
<1>2. q \in Seq(T) /\ e \in T
  BY <1>1, SeqWider
<1>3. /\ Append(q, e) \in Seq(T) /\ Len(Append(q, e)) = Len(q) + 1 /\ Len(q) \in Nat
      /\ Append(q, e)[Len(q) + 1] = e
      /\ \A i \in 1 .. Len(q) : Append(q, e)[i] = q[i]
  BY <1>2
<1>4. \A i \in 1 .. Len(Append(q, e)) : i \in 1 .. Len(q) \/ i = Len(q) + 1
  BY <1>3
<1> QED
  BY <1>3, <1>4

(* Scheduling a read gives it one.                                         *)
LEMMA NamesOfRead ==
  ASSUME NamesInv, Offset = 0, Defined, NEW id \in 0 .. nvars - 1, NEW delegated,
         NEW mem, NEW blocks, NEW pieces, Schedule(id, delegated, mem, blocks, pieces)
  PROVE  NamesInv'
<1>1. PICK r : /\ reads' = Append(reads, r)
               /\ r = [id |-> id, var |-> VaridMapping(id + Offset),
                       step |-> step, info |-> Info(id),
                       delegated |-> delegated, mem |-> mem,
                       blocks |-> blocks, pieces |-> pieces]
  BY DEF Schedule
<1>2. id \in Int /\ id + Offset = id
  OBVIOUS
<1>3. r.id = id /\ r.step = step /\ r.var = FlattenSeq(Present[step])[id + 1]
  BY <1>1, <1>2 DEF VaridMapping
<1>4. \E g \in Views \cup {-1} : id \in 0 .. Presented(step, g) - 1
  <2>1. nvars # 0
    OBVIOUS
  <2> QED
    BY <2>1 DEF NamesInv, Shown
<1>5. Named(r)
  BY <1>3, <1>4 DEF Named, NamesInv
<1>6. /\ \E T : reads' \in Seq(T)
      /\ \A i \in 1 .. Len(reads') : Named(reads'[i])
  BY <1>1, <1>5, AppendedNames DEF NamesInv
<1>7. UNCHANGED <<view, step, nvars, full, rpc>>
  BY DEF Schedule, viewVars
<1> QED
  BY <1>6, <1>7 DEF NamesInv, Defined

(* Every step keeps the names right.                                       *)
LEMMA NamesNext ==
  ASSUME Views \subseteq {-1, 0}
  PROVE  NamesInv /\ [Next]_vars => NamesInv'
<1> SUFFICES ASSUME NamesInv, [Next]_vars PROVE NamesInv'
  OBVIOUS
<1>1. Offset = 0
  BY FirstGroup DEF NamesInv
<1>2. ASSUME UNCHANGED <<view, step, nvars, full, reads>>, Defined
      PROVE  NamesInv'
  BY <1>2 DEF NamesInv
<1>3. ASSUME NEW v, SetDataView(v) PROVE NamesInv'
  BY <1>2, <1>3 DEF SetDataView, history, Defined
<1>4. ASSUME NEW g \in Views, GroupView(g) PROVE NamesInv'
  <2>1. /\ Defined /\ view' = g /\ UNCHANGED <<step, reads>>
        /\ nvars' = IF g = -1 THEN full.nvars ELSE Presented(step, g)
        /\ full' = IF g # -1 /\ view = -1 THEN [step |-> step, nvars |-> nvars] ELSE full
        /\ Defined' => (g = -1 => full.step \in {0, step})
    BY <1>4 DEF GroupView, Defined, history
  <2>2. /\ Shown(step, nvars) /\ full.step \in 0 .. step /\ step \in Nat
        /\ full.step = 0 => full.nvars = 0
        /\ full.step = step => Shown(step, full.nvars)
    BY <2>1, TransformAssumption DEF NamesInv, Steps
  <2>3. Defined' => Shown(step, nvars')
    BY <2>1, <2>2 DEF Shown
  <2>4. /\ full'.step \in 0 .. step
        /\ full'.step = 0 => full'.nvars = 0
        /\ full'.step = step => Shown(step, full'.nvars)
    <3>1. CASE g # -1 /\ view = -1
      <4>1. full'.step = step /\ full'.nvars = nvars /\ step # 0
        BY <2>1, <3>1 DEF NamesInv, Steps
      <4> QED
        BY <2>2, <4>1
    <3>2. CASE ~(g # -1 /\ view = -1)
      BY <2>1, <2>2, <3>2
    <3> QED
      BY <3>1, <3>2
  <2> QED
    BY <2>1, <2>3, <2>4 DEF NamesInv
<1>5. ASSUME NEW id \in 0 .. nvars - 1, NEW mem \in BOOLEAN,
             \/ \E blocks \in SUBSET (1 .. NBlocks) : ScheduleTransformed(id, mem, blocks)
             \/ \E pieces \in 1 .. NPieces : ScheduleRaw(id, mem, pieces)
      PROVE  NamesInv'
  <2>1. \/ \E blocks : Schedule(id, TRUE, mem, blocks, 1)
        \/ \E pieces : Schedule(id, FALSE, mem, {}, pieces)
    BY <1>5 DEF ScheduleTransformed, ScheduleRaw
  <2>2. Defined
    BY <2>1 DEF Schedule, Defined
  <2> QED
    BY <1>1, <2>1, <2>2, NamesOfRead
<1>6. ASSUME (\E failed : PerformReads(failed)) \/ PerformRefused PROVE NamesInv'
  BY <1>2, <1>6 DEF PerformReads, PerformRefused, history, viewVars, Defined
<1>7. ASSUME NEW reset, CheckReads(reset) PROVE NamesInv'
  BY <1>2, <1>7 DEF CheckReads, history, viewVars, Defined
<1>8. CheckNothingLeft \/ CheckFailed \/ CheckRaw \/ CheckSubrequest \/ CheckUnmatched
        => NamesInv'
  BY <1>2 DEF CheckNothingLeft, CheckFailed, CheckRaw, CheckSubrequest, CheckUnmatched,
     history, viewVars, Defined
<1>9. ASSUME NEW inIndex, AdvanceStep(inIndex) PROVE NamesInv'
  <2>1. /\ Defined /\ step' = step + 1 /\ step' \in Steps /\ UNCHANGED <<view, reads>>
        /\ nvars' = Presented(step', view)
        /\ full' = IF view = -1 THEN full
                   ELSE [step |-> step', nvars |-> Presented(step', -1)]
    BY <1>9 DEF AdvanceStep, Defined
  <2>2. full.step \in 0 .. step /\ step \in Nat /\ view \in Views \cup {-1}
        /\ (full.step = 0 => full.nvars = 0)
    BY <2>1 DEF NamesInv, Steps
  <2>3. Shown(step', nvars')
    BY <2>1, <2>2 DEF Shown
  <2>4. /\ full'.step \in 0 .. step'
        /\ full'.step = 0 => full'.nvars = 0
        /\ full'.step = step' => Shown(step', full'.nvars)
    <3>1. CASE view = -1
      BY <2>1, <2>2, <3>1
    <3>2. CASE view # -1
      <4>1. full'.step = step' /\ full'.nvars = Presented(step', -1) /\ step' # 0
        BY <2>1, <2>2, <3>2
      <4>2. Shown(step', Presented(step', -1))
        BY DEF Shown
      <4> QED
        BY <2>1, <2>2, <4>1, <4>2
    <3> QED
      BY <3>1, <3>2
  <2> QED
    BY <2>1, <2>2, <2>3, <2>4 DEF NamesInv
<1>10. ReadClose => NamesInv'
  BY <1>2 DEF ReadClose, history, viewVars, Defined
<1>11. UNCHANGED vars => NamesInv'
  BY DEF vars, viewVars, NamesInv, Defined
<1> QED
  BY <1>3, <1>4, <1>5, <1>6, <1>7, <1>8, <1>9, <1>10, <1>11 DEF Next

(* Before the first step there are none.                                   *)
LEMMA NamesInit == Init => NamesInv
<1> SUFFICES ASSUME Init PROVE NamesInv
  OBVIOUS
<1>1. /\ view = -1 /\ step = 1 /\ reads = <<>>
      /\ nvars = Len(FlattenSeq(Present[1]))
      /\ full.step = 0 /\ full.nvars = 0
  BY DEF Init
<1>2. nvars = Presented(1, -1)
  BY <1>1 DEF Presented
<1>3. Shown(1, nvars)
  BY <1>2 DEF Shown
<1>4. step \in Steps
  BY <1>1, TransformAssumption DEF Steps
<1>5. reads \in Seq({}) /\ Len(reads) = 0
  BY <1>1
<1> QED
  BY <1>1, <1>3, <1>4, <1>5 DEF NamesInv

(* Names that are places in one list without repetition are unique.        *)
LEMMA NamesMeanOneName ==
  ASSUME NamesInv, ListedOnce
  PROVE  OneName
<1>1. DOMAIN reads = 1 .. Len(reads)
  BY DEF NamesInv
<1> SUFFICES ASSUME NEW i \in DOMAIN reads, NEW j \in DOMAIN reads,
                    reads[i].step = reads[j].step
             PROVE  reads[i].id = reads[j].id <=> reads[i].var = reads[j].var
  BY DEF OneName, OneNameIn
<1>2. Named(reads[i]) /\ Named(reads[j])
  BY <1>1 DEF NamesInv
<1>3. PICK s : s = reads[i].step
  OBVIOUS
<1>4. PICK g \in Views \cup {-1} : reads[i].id \in 0 .. Presented(s, g) - 1
  BY <1>2, <1>3 DEF Named
<1>5. PICK h \in Views \cup {-1} : reads[j].id \in 0 .. Presented(s, h) - 1
  BY <1>2, <1>3 DEF Named
<1>6. /\ s \in Steps
      /\ reads[i].var = FlattenSeq(Present[s])[reads[i].id + 1]
      /\ reads[j].var = FlattenSeq(Present[s])[reads[j].id + 1]
  BY <1>2, <1>3 DEF Named
<1> QED
  BY <1>4, <1>5, <1>6 DEF ListedOnce

(* What remains of the hypothesis when the program selects no group but    *)
(* the first: no step lists a variable twice.                              *)
COROLLARY ReadsInFirstGroup ==
  ASSUME Views \subseteq {-1, 0}, ListedOnce
  PROVE  Spec => []OwnDataDecoded /\ []ReadsDelivered
<1>1. NamesInv /\ [Next]_vars => NamesInv'
  BY NamesNext
<1>2. NamesInv => OneName
  BY NamesMeanOneName
<1> QED
  BY <1>1, <1>2, NamesInit, ReadsDecodeOwnData, ReadsAreDelivered, PTL DEF Spec
=============================================================================

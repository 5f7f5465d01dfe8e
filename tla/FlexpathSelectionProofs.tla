----------------------- MODULE FlexpathSelectionProofs -----------------------
(***************************************************************************)
(* The selections of the reader, whatever the number of dimensions and of  *)
(* writers, the way the array is divided among them and the calls of the   *)
(* application:                                                            *)
(*   - schedule_read_byid leaves out no writer that holds a part of the    *)
(*     selection, whatever the sizes that uint64_t can add up;             *)
(*   - what it computes for a writer that it asks is exactly the part of   *)
(*     the writer's block that lies in the selection, as long as an int    *)
(*     holds the sizes of the block: starts and counts go through an int;  *)
(*   - when perform_reads returns, the last read has its selection, as     *)
(*     long as an int holds the offset in bytes of each of its elements:   *)
(*     the loop of extract_selection_from_partial gets to every element of *)
(*     a writer's array once and copies it to its place, and every writer  *)
(*     that holds a part has answered.                                     *)
(* Offsets, sizes and strides are recursive functions over the dimensions: *)
(* the lemmas about them go by the least dimension where they would fail.  *)
(***************************************************************************)
EXTENDS FlexpathSelection, FiniteSums, TLAPS, NaturalsInduction, WellFoundedInduction

(* A number that fits into the word is its own remainder.                  *)
LEMMA ModSmall ==
  ASSUME NEW m \in Nat \ {0}, NEW a \in Nat, a < m
  PROVE  a % m = a
  OBVIOUS

(* A number below half of the int's values is kept as it is.               *)
LEMMA IntExact ==
  ASSUME NEW x \in Nat, x < IntWord \div 2
  PROVE  ToInt(x) = x /\ Narrowed(x) = x
<1>1. /\ IntWord \in Nat \ {0} /\ Word \in Nat \ {0} /\ IntWord <= Word
  BY SelectionAssumption
<1>2. x < IntWord /\ x < Word
  <2>1. IntWord \div 2 <= IntWord /\ IntWord \div 2 \in Nat
    BY ONLY <1>1
  <2> QED
    BY <1>1, <2>1
<1>3. x % IntWord = x /\ x % Word = x
  BY <1>1, <1>2, ModSmall
<1>4. ToInt(x) = x
  BY <1>3 DEF ToInt
<1> QED
  BY <1>3, <1>4 DEF Narrowed

(* A box whose ends can be computed without wrapping around.               *)
FitsWord(s) ==
  /\ s.start \in Index
  /\ s.count \in Index
  /\ \A d \in Dims : s.count[d] > 0 /\ s.start[d] + s.count[d] < Word

(* What schedule_read_byid keeps of a bounding box: it fits, and displ has *)
(* an entry for every writer that need_writer finds.                       *)
SelectionInv ==
  /\ layout \in Layouts
  /\ sel.type = "box" =>
       /\ FitsWord(sel)
       /\ \A w \in Bridges : need_writer(w, sel) => w \in DOMAIN displ

(* In one dimension: two intervals with a common point overlap in one of   *)
(* the three ways that need_writer looks for.                              *)
LEMMA IntervalsOverlap ==
  ASSUME NEW m \in Nat \ {0},
         NEW s \in Nat, NEW c \in Nat, c > 0, s + c < m,
         NEW r \in Nat, NEW n \in Nat, r + n < m,
         NEW x \in Nat, x >= s, x < s + c, x >= r, x < r + n
  PROVE  \/ r <= s /\ (r + n - 1) % m >= s
         \/ r <= (s + c - 1) % m /\ (r + n) % m >= (s + c - 1) % m
         \/ s <= r /\ (r + n) % m <= (s + c - 1) % m
<1>1. (s + c - 1) % m = s + c - 1
  BY ModSmall
<1>2. (r + n - 1) % m = r + n - 1
  BY ModSmall
<1>3. (r + n) % m = r + n
  BY ModSmall
<1> QED BY <1>1, <1>2, <1>3

(* need_writer is complete: it finds every writer whose block has a point  *)
(* in common with the selection.                                           *)
LEMMA NeedWriterComplete ==
  ASSUME layout \in Layouts, NEW s, FitsWord(s), NEW w \in Bridges,
         NEW x \in [Dims -> Nat],
         InBox(x, s.start, s.count),
         InBox(x, layout[w].offset, layout[w].count)
  PROVE  need_writer(w, s)
<1> SUFFICES ASSUME NEW d \in Dims
             PROVE  \/ layout[w].offset[d] <= s.start[d]
                         /\ (layout[w].offset[d] + layout[w].count[d] - 1) % Word >= s.start[d]
                    \/ layout[w].offset[d] <= (s.start[d] + s.count[d] - 1) % Word
                         /\ (layout[w].offset[d] + layout[w].count[d]) % Word
                              >= (s.start[d] + s.count[d] - 1) % Word
                    \/ s.start[d] <= layout[w].offset[d]
                         /\ (layout[w].offset[d] + layout[w].count[d]) % Word
                              <= (s.start[d] + s.count[d] - 1) % Word
  BY DEF need_writer
<1> DEFINE r == layout[w].offset[d]
           n == layout[w].count[d]
<1>1. layout[w] \in [offset : Index, count : Index]
  BY SelectionAssumption
<1>2. r \in Nat /\ n \in Nat /\ r + n < Word
  BY <1>1, SelectionAssumption DEF Index
<1>3. /\ s.start[d] \in Nat /\ s.count[d] \in Nat
      /\ s.count[d] > 0 /\ s.start[d] + s.count[d] < Word
  BY DEF FitsWord, Index
<1>4. /\ x[d] \in Nat
      /\ x[d] >= s.start[d] /\ x[d] < s.start[d] + s.count[d]
      /\ x[d] >= r /\ x[d] < r + n
  BY DEF InBox
<1>5. Word \in Nat \ {0}
  BY SelectionAssumption
<1> HIDE DEF r, n
<1>6. \/ r <= s.start[d] /\ (r + n - 1) % Word >= s.start[d]
      \/ r <= (s.start[d] + s.count[d] - 1) % Word
           /\ (r + n) % Word >= (s.start[d] + s.count[d] - 1) % Word
      \/ s.start[d] <= r /\ (r + n) % Word <= (s.start[d] + s.count[d] - 1) % Word
  BY <1>2, <1>3, <1>4, <1>5, IntervalsOverlap
<1> QED BY <1>6 DEF r, n

(* reverse_dims keeps a box inside the word.                               *)
LEMMA ReversedFits ==
  ASSUME NEW s \in [type : {"box", "whole", "block", "points"},
                    start : Index, count : Index, index : Nat],
         FitsWord(s)
  PROVE  FitsWord(Reversed(s)) /\ Reversed(s).type = s.type
<1>1. \A d \in Dims : NDims + 1 - d \in Dims
  BY SelectionAssumption DEF Dims
<1>2. /\ Reversed(s).start = reverse_dims(s.start)
      /\ Reversed(s).count = reverse_dims(s.count)
      /\ Reversed(s).type = s.type
  BY DEF Reversed
<1>3. /\ reverse_dims(s.start) \in Index
      /\ reverse_dims(s.count) \in Index
  BY <1>1 DEF reverse_dims, Index
<1>4. \A d \in Dims : /\ reverse_dims(s.count)[d] > 0
                      /\ reverse_dims(s.start)[d] + reverse_dims(s.count)[d] < Word
  BY <1>1 DEF reverse_dims, FitsWord
<1> QED BY <1>2, <1>3, <1>4 DEF FitsWord

(* fpvar's copy of a requested bounding box fits into the word.            *)
LEMMA CopyFits ==
  ASSUME NEW req \in Requests, req.type \in {"box", "whole"}
  PROVE  FitsWord(copy_selection(req))
<1>1. req \in [type : {"box", "whole", "block", "points"},
               start : Index, count : Index, index : Nat]
  BY SelectionAssumption
<1>2. CASE req.type = "whole"
  <2>1. /\ copy_selection(req).start = Zero
        /\ copy_selection(req).count = GlobalDims
    BY <1>1, <1>2 DEF copy_selection
  <2>2. Zero \in Index /\ GlobalDims \in Index
    BY SelectionAssumption DEF Zero, Index
  <2>3. \A d \in Dims : GlobalDims[d] > 0 /\ Zero[d] + GlobalDims[d] < Word
    BY SelectionAssumption DEF Zero
  <2> QED BY <2>1, <2>2, <2>3 DEF FitsWord
<1>3. CASE req.type = "box"
  <2>1. FitsWord(req)
    BY <1>1, SelectionAssumption DEF FitsWord
  <2>2. copy_selection(req) = req \/ copy_selection(req) = Reversed(req)
    BY <1>3 DEF copy_selection, UserSel
  <2> QED BY <1>1, <2>1, <2>2, ReversedFits
<1> QED BY <1>2, <1>3

(* The selection and its displacements are stored together.                *)
LEMMA SelectionInvStep ==
  ASSUME SelectionInv, [Next]_vars
  PROVE  SelectionInv'
<1>1. ASSUME NEW req \in Requests, ScheduleRead(req)
      PROVE  SelectionInv'
  <2> layout' = layout
    BY <1>1 DEF ScheduleRead
  <2>1. CASE ScheduleBox(req)
    <3>1. sel' = copy_selection(req)
      BY <2>1 DEF ScheduleBox
    <3>2. FitsWord(sel')
      BY <2>1, <3>1, CopyFits DEF ScheduleBox
    <3>3. DOMAIN displ' = {w \in Bridges : need_writer(w, copy_selection(req))}
      BY <2>1 DEF ScheduleBox
    <3>4. \A w \in Bridges : need_writer(w, sel)' <=> need_writer(w, copy_selection(req))
      BY <3>1 DEF need_writer
    <3> QED BY <3>2, <3>3, <3>4 DEF SelectionInv, FitsWord
  <2>2. CASE ScheduleBlock(req) \/ SchedulePoints(req)
    <3>1. req.type # "box" /\ req.type # "whole" /\ sel' = copy_selection(req)
      BY <2>2 DEF ScheduleBlock, SchedulePoints
    <3>2. copy_selection(req).type = req.type
      BY <3>1, SelectionAssumption DEF copy_selection, UserSel, Reversed
    <3> QED BY <3>1, <3>2 DEF SelectionInv
  <2> QED BY <1>1, <2>1, <2>2 DEF ScheduleRead
<1>2. CASE PerformReturn
  <2>1. layout' = layout /\ sel'.type # "box"
    BY <1>2 DEF PerformReturn, NoSel
  <2> QED BY <2>1 DEF SelectionInv
<1>3. CASE PerformReads \/ RawHandler \/ NextRound \/ UNCHANGED vars
  <2>1. UNCHANGED <<layout, sel, displ>>
    BY <1>3 DEF PerformReads, RawHandler, NextRound, vars
  <2> QED BY <2>1 DEF SelectionInv, FitsWord, need_writer
<1> QED BY <1>1, <1>2, <1>3 DEF Next

(* Every writer that holds a part of the selection is asked for it: in the *)
(* words of need_writer's caller schedule_read_byid, all_disp is complete. *)
THEOREM SelectionNoHolderMissed == Spec => []NoHolderMissed
<1>1. Init => SelectionInv
  BY DEF Init, SelectionInv, NoSel
<1>2. SelectionInv /\ [Next]_vars => SelectionInv'
  BY SelectionInvStep
<1>3. SelectionInv => NoHolderMissed
  <2> SUFFICES ASSUME SelectionInv, sel.type = "box", NEW w \in Bridges,
                      NEW x \in [Dims -> 0 .. MaxElements],
                      InBox(x, sel.start, sel.count),
                      InBox(x, layout[w].offset, layout[w].count)
               PROVE  w \in DOMAIN displ
    BY DEF NoHolderMissed
  <2>1. x \in [Dims -> Nat]
    OBVIOUS
  <2>2. need_writer(w, sel)
    BY <2>1, NeedWriterComplete DEF SelectionInv
  <2> QED BY <2>2 DEF SelectionInv
<1> QED BY <1>1, <1>2, <1>3, PTL DEF Spec
-----------------------------------------------------------------------------
(* Products over the dimensions, which Elements and ElementAt compute by   *)
(* recursion.                                                              *)

(* f[d] is the product of the first d elements of a.                       *)
Products(f, a, n) ==
  /\ f \in [0 .. n -> Nat]
  /\ f[0] = 1
  /\ \A d \in 1 .. n : f[d] = f[d - 1] * a[d]

(* The products exist.                                                     *)
LEMMA ProductsExist ==
  ASSUME NEW a \in Index, NEW n \in 0 .. NDims
  PROVE  \E f : Products(f, a, n)
<1>a. NDims \in Nat
  BY SelectionAssumption
<1> DEFINE S == {m \in 0 .. NDims : ~\E f : Products(f, a, m)}
<1> SUFFICES ASSUME S # {} PROVE FALSE
  OBVIOUS
<1>1. PICK m \in S : \A k \in S : m <= k
  <2>1. S \in SUBSET Nat
    BY <1>a
  <2> HIDE DEF S
  <2> QED
    BY <2>1, LeastNumber
<1>2. m \in 0 .. NDims /\ ~\E f : Products(f, a, m)
  OBVIOUS
<1>3. CASE m = 0
  <2> DEFINE f == [d \in 0 .. 0 |-> 1]
  <2>1. f \in [0 .. 0 -> Nat] /\ f[0] = 1 /\ 1 .. 0 = {}
    OBVIOUS
  <2>2. Products(f, a, 0)
    BY <2>1 DEF Products
  <2> QED
    BY <2>2, <1>2, <1>3
<1>4. CASE m # 0
  <2>1. m - 1 \in 0 .. NDims /\ m \in 1 .. NDims /\ ~(m <= m - 1)
    BY <1>2, <1>4, <1>a
  <2>2. m - 1 \notin S
    BY <1>1, <2>1
  <2>3. PICK g : Products(g, a, m - 1)
    BY <2>1, <2>2
  <2> DEFINE f == [d \in 0 .. m |-> IF d = m THEN g[m - 1] * a[m] ELSE g[d]]
  <2>4. /\ g \in [0 .. m - 1 -> Nat] /\ g[0] = 1
        /\ \A d \in 1 .. m - 1 : g[d] = g[d - 1] * a[d]
    BY <2>3 DEF Products
  <2>5. a[m] \in Nat /\ g[m - 1] \in Nat
    <3>1. m \in Dims
      BY <2>1 DEF Dims
    <3>2. m - 1 \in 0 .. m - 1
      BY <2>1
    <3> QED
      BY <3>1, <3>2, <2>4 DEF Index
  <2>6. g[m - 1] * a[m] \in Nat
    BY <2>5
  <2>7. \A d \in 0 .. m : d = m \/ d \in 0 .. m - 1
    BY <2>1
  <2>8. f \in [0 .. m -> Nat]
    BY <2>4, <2>6, <2>7
  <2>9. f[0] = 1
    BY <2>4, <2>1
  <2>10. ASSUME NEW d \in 1 .. m PROVE f[d] = f[d - 1] * a[d]
    <3>1. d \in 0 .. m /\ d - 1 \in 0 .. m /\ d - 1 # m
      BY <2>1
    <3>2. f[d - 1] = g[d - 1]
      BY <3>1
    <3>3. CASE d = m
      <4>1. f[d] = g[m - 1] * a[m]
        BY <3>1, <3>3
      <4> QED
        BY <4>1, <3>2, <3>3
    <3>4. CASE d # m
      <4>1. d \in 1 .. m - 1
        BY <3>4, <2>1
      <4>2. f[d] = g[d]
        BY <3>1, <3>4
      <4> QED
        BY <4>1, <4>2, <3>2, <2>4
    <3> QED
      BY <3>3, <3>4
  <2>11. Products(f, a, m)
    BY <2>8, <2>9, <2>10 DEF Products
  <2> QED
    BY <2>11, <1>2
<1> QED
  BY <1>3, <1>4

(* A product of positive numbers is positive.                              *)
LEMMA ProductPositive ==
  ASSUME NEW a \in Index, NEW n \in Nat, n <= NDims, NEW f, Products(f, a, n),
         \A d \in Dims : a[d] > 0, NEW e \in 0 .. n
  PROVE  f[e] > 0
<1>a. NDims \in Nat
  BY SelectionAssumption
<1>b. /\ f \in [0 .. n -> Nat] /\ f[0] = 1
      /\ \A d \in 1 .. n : f[d] = f[d - 1] * a[d]
  BY DEF Products
<1> DEFINE S == {m \in 0 .. n : ~(f[m] > 0)}
<1> SUFFICES ASSUME S # {} PROVE FALSE
  OBVIOUS
<1>1. PICK m \in S : \A k \in S : m <= k
  <2>1. S \in SUBSET Nat
    OBVIOUS
  <2> HIDE DEF S
  <2> QED
    BY <2>1, LeastNumber
<1>2. m \in 0 .. n /\ ~(f[m] > 0)
  OBVIOUS
<1>3. m # 0
  BY <1>2, <1>b
<1>4. m - 1 \in 0 .. n /\ m \in 1 .. n /\ ~(m <= m - 1)
  BY <1>2, <1>3
<1>5. f[m - 1] > 0 /\ f[m - 1] \in Nat
  BY <1>1, <1>4, <1>b
<1>6. a[m] \in Nat /\ a[m] > 0
  <2>1. m \in Dims
    BY <1>4, <1>a DEF Dims
  <2> QED
    BY <2>1 DEF Index
<1>7. \A x, y \in Nat : x > 0 /\ y > 0 => x * y > 0
  OBVIOUS
<1> QED
  BY <1>2, <1>4, <1>5, <1>6, <1>7, <1>b

(* A product with a factor zero is zero.                                   *)
LEMMA ProductZero ==
  ASSUME NEW a \in Index, NEW f, Products(f, a, NDims),
         NEW e \in Dims, a[e] = 0
  PROVE  f[NDims] = 0
<1>a. NDims \in Nat /\ e \in 1 .. NDims
  BY SelectionAssumption DEF Dims
<1>b. /\ f \in [0 .. NDims -> Nat]
      /\ \A d \in 1 .. NDims : f[d] = f[d - 1] * a[d]
  BY DEF Products
<1> DEFINE S == {m \in e .. NDims : f[m] # 0}
<1> SUFFICES ASSUME S # {} PROVE FALSE
  BY <1>a
<1>1. PICK m \in S : \A k \in S : m <= k
  <2>1. S \in SUBSET Nat
    BY <1>a
  <2> HIDE DEF S
  <2> QED
    BY <2>1, LeastNumber
<1>2. m \in e .. NDims /\ f[m] # 0
  OBVIOUS
<1>3. /\ m \in 1 .. NDims /\ m - 1 \in 0 .. NDims /\ ~(m <= m - 1)
      /\ m # e => m - 1 \in e .. NDims
  BY <1>2, <1>a
<1>4. f[m] = f[m - 1] * a[m] /\ f[m - 1] \in Nat /\ a[m] \in Nat
  <2>1. m \in Dims
    BY <1>3 DEF Dims
  <2> QED
    BY <2>1, <1>3, <1>b DEF Index
<1>5. \A x \in Nat : x * 0 = 0 /\ 0 * x = 0
  OBVIOUS
<1>6. CASE m = e
  BY <1>2, <1>4, <1>5, <1>6
<1>7. CASE m # e
  <2>1. f[m - 1] = 0
    BY <1>1, <1>3, <1>7
  <2> QED
    BY <2>1, <1>2, <1>4, <1>5
<1> QED
  BY <1>6, <1>7

(* A function with the recursion of the products has the products.         *)
LEMMA ProductsOnly ==
  ASSUME NEW a \in Index, NEW g,
         g = [d \in 0 .. NDims |-> g[d]], g[0] = 1,
         \A d \in 1 .. NDims : g[d] = g[d - 1] * a[d] \/ g[d] = a[d] * g[d - 1]
  PROVE  Products(g, a, NDims)
<1>a. NDims \in Nat \ {0} /\ NDims \in 0 .. NDims
  BY SelectionAssumption
<1>1. PICK f : Products(f, a, NDims)
  BY <1>a, ProductsExist
<1>2. /\ f \in [0 .. NDims -> Nat] /\ f[0] = 1
      /\ \A d \in 1 .. NDims : f[d] = f[d - 1] * a[d]
  BY <1>1 DEF Products
<1> DEFINE S == {d \in 0 .. NDims : g[d] # f[d]}
<1>3. S = {}
  <2> SUFFICES ASSUME S # {} PROVE FALSE
    OBVIOUS
  <2>1. PICK m \in S : \A k \in S : m <= k
    <3>1. S \in SUBSET Nat
      OBVIOUS
    <3> HIDE DEF S
    <3> QED
      BY <3>1, LeastNumber
  <2>2. m \in 0 .. NDims /\ g[m] # f[m]
    OBVIOUS
  <2>3. m # 0
    BY <2>2, <1>2
  <2>4. m \in 1 .. NDims /\ m - 1 \in 0 .. NDims /\ ~(m <= m - 1)
    BY <2>2, <2>3, <1>a
  <2>5. g[m - 1] = f[m - 1]
    BY <2>1, <2>4
  <2>6. f[m - 1] \in Nat /\ a[m] \in Nat
    <3>1. m \in Dims
      BY <2>4 DEF Dims
    <3> QED
      BY <3>1, <2>4, <1>2 DEF Index
  <2>7. \A x, y \in Nat : x * y = y * x
    OBVIOUS
  <2>8. g[m] = f[m - 1] * a[m]
    BY <2>4, <2>5, <2>6, <2>7
  <2> QED
    BY <2>2, <2>4, <2>8, <1>2
<1>4. \A d \in 0 .. NDims : g[d] = f[d]
  BY <1>3
<1>5. f = [d \in 0 .. NDims |-> f[d]]
  BY <1>2
<1>6. g = f
  BY <1>4, <1>5
<1> QED
  BY <1>1, <1>6

-----------------------------------------------------------------------------
(* Recursion and induction over an interval.                               *)

(* A set that has 0 and with every number the next one has all up to n.    *)
LEMMA UpTo ==
  ASSUME NEW n \in Nat, NEW S, 0 \in S, \A d \in 1 .. n : d - 1 \in S => d \in S
  PROVE  \A d \in 0 .. n : d \in S
<1> DEFINE T == {d \in 0 .. n : d \notin S}
<1> SUFFICES ASSUME T # {} PROVE FALSE
  OBVIOUS
<1>1. PICK m \in T : \A k \in T : m <= k
  <2>1. T \in SUBSET Nat
    OBVIOUS
  <2> HIDE DEF T
  <2> QED
    BY <2>1, LeastNumber
<1>2. m \in 0 .. n /\ m \notin S
  OBVIOUS
<1>3. m \in 1 .. n /\ m - 1 \in 0 .. n /\ ~(m <= m - 1)
  BY <1>2
<1>4. m - 1 \in S
  BY <1>1, <1>3
<1> QED
  BY <1>2, <1>3, <1>4

(* A function that is built up from its value at 0 by the steps g.         *)
Built(f, V, v, g, n) ==
  /\ f \in [0 .. n -> V]
  /\ f[0] = v
  /\ \A d \in 1 .. n : f[d] = g[d][f[d - 1]]

(* There is one.                                                           *)
LEMMA BuiltExists ==
  ASSUME NEW n \in Nat, NEW V, NEW v \in V, NEW g,
         \A d \in 1 .. n : \A y \in V : g[d][y] \in V
  PROVE  \E f : Built(f, V, v, g, n)
<1> DEFINE S == {m \in 0 .. n : \E f : Built(f, V, v, g, m)}
<1>1. 0 \in S
  <2> DEFINE f == [d \in 0 .. 0 |-> v]
  <2>1. f \in [0 .. 0 -> V] /\ f[0] = v /\ 1 .. 0 = {}
    OBVIOUS
  <2>2. Built(f, V, v, g, 0)
    BY <2>1 DEF Built
  <2> QED
    BY <2>2
<1>2. ASSUME NEW m \in 1 .. n, m - 1 \in S PROVE m \in S
  <2>1. PICK f : Built(f, V, v, g, m - 1)
    BY <1>2
  <2>2. /\ f \in [0 .. m - 1 -> V] /\ f[0] = v
        /\ \A d \in 1 .. m - 1 : f[d] = g[d][f[d - 1]]
    BY <2>1 DEF Built
  <2>3. /\ m - 1 \in 0 .. m - 1 /\ 0 \in 0 .. m - 1 /\ 0 # m
        /\ \A d \in 0 .. m : d = m \/ d \in 0 .. m - 1
        /\ \A d \in 1 .. m : d - 1 \in 0 .. m - 1
        /\ \A d \in 1 .. m : d = m \/ (d \in 1 .. m - 1 /\ d # m)
        /\ \A d \in 0 .. m - 1 : d # m /\ d \in 0 .. m
        /\ m \in 0 .. m /\ m \in 0 .. n
    OBVIOUS
  <2>4. g[m][f[m - 1]] \in V
    BY <2>2, <2>3
  <2> DEFINE h == [d \in 0 .. m |-> IF d = m THEN g[m][f[m - 1]] ELSE f[d]]
  <2>5. /\ h[m] = g[m][f[m - 1]]
        /\ \A d \in 0 .. m - 1 : h[d] = f[d]
    BY <2>3
  <2>6. h \in [0 .. m -> V]
    BY <2>2, <2>3, <2>4
  <2> HIDE DEF h
  <2>7. \A d \in 1 .. m : h[d] = g[d][h[d - 1]]
    <3> SUFFICES ASSUME NEW d \in 1 .. m PROVE h[d] = g[d][h[d - 1]]
      OBVIOUS
    <3>1. h[d - 1] = f[d - 1]
      BY <2>3, <2>5
    <3>2. CASE d = m
      BY <2>5, <3>1, <3>2
    <3>3. CASE d # m
      <4>1. d \in 1 .. m - 1 /\ d \in 0 .. m - 1
        BY <2>3, <3>3
      <4> QED
        BY <2>2, <2>5, <3>1, <4>1
    <3> QED
      BY <3>2, <3>3
  <2>8. h[0] = v
    BY <2>2, <2>3, <2>5
  <2>9. Built(h, V, v, g, m)
    BY <2>6, <2>7, <2>8 DEF Built
  <2> QED
    BY <2>3, <2>9
<1> HIDE DEF S
<1>3. \A d \in 0 .. n : d \in S
  BY <1>1, <1>2, UpTo
<1>4. n \in 0 .. n
  OBVIOUS
<1> QED
  BY <1>3, <1>4 DEF S

(* Two functions that start alike and go on alike are alike.               *)
LEMMA Alike ==
  ASSUME NEW n \in Nat, NEW f, NEW h, f[0] = h[0],
         \A d \in 1 .. n : f[d - 1] = h[d - 1] => f[d] = h[d]
  PROVE  \A d \in 0 .. n : f[d] = h[d]
<1> DEFINE S == {d \in 0 .. n : f[d] = h[d]}
<1>1. 0 \in S
  OBVIOUS
<1>2. \A d \in 1 .. n : d - 1 \in S => d \in S
  OBVIOUS
<1> HIDE DEF S
<1>3. \A d \in 0 .. n : d \in S
  BY <1>1, <1>2, UpTo
<1> QED
  BY <1>3 DEF S

-----------------------------------------------------------------------------
(* Row-major order in any number of dimensions.                            *)

(* The dimensions are numbered from 1.                                     *)
LEMMA DimsAre ==
  /\ NDims \in Nat \ {0} /\ Dims = 1 .. NDims
  /\ \A d \in 1 .. NDims : d \in 0 .. NDims /\ d # 0 /\ d - 1 \in 0 .. NDims
  /\ 0 \in 0 .. NDims /\ NDims \in 0 .. NDims
  /\ \A d \in 0 .. NDims : d # 0 => d \in 1 .. NDims
<1>1. NDims \in Nat \ {0} /\ Dims = 1 .. NDims
  BY SelectionAssumption DEF Dims
<1> QED
  BY <1>1

(* f[d] is the offset of x in the first d dimensions of a box of size c.   *)
Ranks(f, c, x) ==
  /\ f \in [0 .. NDims -> Nat]
  /\ f[0] = 0
  /\ \A d \in 1 .. NDims : f[d] = x[d] + c[d] * f[d - 1]

(* The row-major offset of x in a box of size c, as find_offset computes   *)
(* it with integers of any size.                                           *)
RowMajor(c, x) ==
  LET offset[d \in 0 .. NDims] ==
        IF d = 0 THEN 0 ELSE x[d] + c[d] * offset[d - 1]
  IN  offset[NDims]

(* It is the last of the offsets.                                          *)
LEMMA RowMajorIs ==
  ASSUME NEW c \in Index, NEW x \in Index
  PROVE  \E f : Ranks(f, c, x) /\ RowMajor(c, x) = f[NDims]
<1> DEFINE offset[d \in 0 .. NDims] ==
             IF d = 0 THEN 0 ELSE x[d] + c[d] * offset[d - 1]
           g == [d \in 1 .. NDims |-> [y \in Nat |-> x[d] + c[d] * y]]
<1>1. \A d \in 1 .. NDims : \A y \in Nat :
        g[d][y] = x[d] + c[d] * y /\ x[d] + c[d] * y \in Nat
  <2> SUFFICES ASSUME NEW d \in 1 .. NDims, NEW y \in Nat
               PROVE  g[d][y] = x[d] + c[d] * y /\ x[d] + c[d] * y \in Nat
    OBVIOUS
  <2>1. x[d] \in Nat /\ c[d] \in Nat
    BY DimsAre DEF Index
  <2>2. c[d] * y \in Nat
    BY <2>1
  <2> QED
    BY <2>1, <2>2
<1> HIDE DEF g
<1>2. PICK f : Built(f, Nat, 0, g, NDims)
  BY <1>1, DimsAre, BuiltExists
<1>3. Ranks(f, c, x)
  <2>1. f \in [0 .. NDims -> Nat] /\ f[0] = 0
        /\ \A d \in 1 .. NDims : f[d] = g[d][f[d - 1]] /\ f[d - 1] \in Nat
    BY <1>2, DimsAre DEF Built
  <2> QED
    BY <1>1, <2>1 DEF Ranks
<1>4. f = [d \in 0 .. NDims |-> IF d = 0 THEN 0 ELSE x[d] + c[d] * f[d - 1]]
  <2>1. /\ f \in [0 .. NDims -> Nat] /\ f[0] = 0
        /\ \A d \in 1 .. NDims : f[d] = x[d] + c[d] * f[d - 1]
    BY <1>3 DEF Ranks
  <2>2. \A d \in 0 .. NDims : f[d] = IF d = 0 THEN 0 ELSE x[d] + c[d] * f[d - 1]
    BY <2>1, DimsAre
  <2> QED
    BY <2>1, <2>2
<1>5. RowMajor(c, x) = offset[NDims]
  BY DEF RowMajor
<1>6. offset = [d \in 0 .. NDims |-> IF d = 0 THEN 0 ELSE x[d] + c[d] * offset[d - 1]]
  BY <1>4, Zenon DEF offset
<1> HIDE DEF offset
<1>7. \A d \in 1 .. NDims : f[d - 1] = offset[d - 1] => f[d] = offset[d]
  BY <1>4, <1>6, DimsAre
<1>8. f[0] = offset[0]
  BY <1>4, <1>6, DimsAre
<1>9. f[NDims] = offset[NDims]
  <2>1. NDims \in Nat /\ NDims \in 0 .. NDims
    BY DimsAre
  <2>2. \A d \in 0 .. NDims : f[d] = offset[d]
    BY ONLY <1>7, <1>8, <2>1, Alike
  <2> QED
    BY ONLY <2>1, <2>2
<1> QED
  BY <1>3, <1>5, <1>9

(* Elements is the product of the sizes.                                   *)
LEMMA ElementsAre ==
  ASSUME NEW c \in Index
  PROVE  \E P : Products(P, c, NDims) /\ Elements(c) = P[NDims]
<1>a. NDims \in Nat \ {0} /\ NDims \in 0 .. NDims
  BY SelectionAssumption
<1> DEFINE upto[d \in 0 .. NDims] ==
             IF d = 0 THEN 1 ELSE c[d] * upto[d - 1]
<1>1. PICK f : Products(f, c, NDims)
  BY <1>a, ProductsExist
<1>2. f = [d \in 0 .. NDims |-> IF d = 0 THEN 1 ELSE c[d] * f[d - 1]]
  <2>1. ASSUME NEW d \in 0 .. NDims
        PROVE  f[d] = IF d = 0 THEN 1 ELSE c[d] * f[d - 1]
    <3>1. CASE d = 0
      BY <3>1, <1>1 DEF Products
    <3>2. CASE d # 0
      <4>1. d \in 1 .. NDims /\ d - 1 \in 0 .. NDims /\ d \in Dims
        BY <3>2, <1>a DEF Dims
      <4>2. f[d] = f[d - 1] * c[d] /\ f[d - 1] \in Nat /\ c[d] \in Nat
        BY <4>1, <1>1 DEF Products, Index
      <4>3. \A x, y \in Nat : x * y = y * x
        OBVIOUS
      <4> QED
        BY <4>2, <4>3, <3>2
    <3> QED
      BY <3>1, <3>2
  <2>2. f \in [0 .. NDims -> Nat]
    BY <1>1 DEF Products
  <2> QED
    BY <2>1, <2>2
<1>3. Elements(c) = upto[NDims]
  BY DEF Elements
<1>4. upto = [d \in 0 .. NDims |-> IF d = 0 THEN 1 ELSE c[d] * upto[d - 1]]
  BY <1>2, Zenon DEF upto
<1> HIDE DEF upto
<1>5. /\ upto = [d \in 0 .. NDims |-> upto[d]] /\ upto[0] = 1
      /\ \A d \in 1 .. NDims : upto[d] = c[d] * upto[d - 1]
  BY <1>4, <1>a
<1>6. Products(upto, c, NDims)
  BY <1>5, ProductsOnly
<1> QED
  BY <1>3, <1>6

(* Places in a box of size c.                                              *)
Within(x, c) == x \in Index /\ \A d \in Dims : x[d] < c[d]

(* The offset of a place in the box is below the product of the sizes.     *)
LEMMA RankBound ==
  ASSUME NEW c \in Index, NEW x, Within(x, c), NEW f, Ranks(f, c, x),
         NEW P, Products(P, c, NDims)
  PROVE  \A d \in 0 .. NDims : f[d] < P[d]
<1>1. /\ f \in [0 .. NDims -> Nat] /\ f[0] = 0
      /\ \A d \in 1 .. NDims : f[d] = x[d] + c[d] * f[d - 1]
  BY DEF Ranks
<1>2. /\ P \in [0 .. NDims -> Nat] /\ P[0] = 1
      /\ \A d \in 1 .. NDims : P[d] = P[d - 1] * c[d]
  BY DEF Products
<1> DEFINE S == {d \in 0 .. NDims : f[d] < P[d]}
<1>3. 0 \in S
  BY <1>1, <1>2, DimsAre
<1>4. ASSUME NEW d \in 1 .. NDims, d - 1 \in S PROVE d \in S
  <2>1. f[d - 1] \in Nat /\ P[d - 1] \in Nat /\ f[d - 1] < P[d - 1]
    BY <1>1, <1>2, <1>4, DimsAre
  <2>2. x[d] \in Nat /\ c[d] \in Nat /\ x[d] < c[d]
    BY DimsAre DEF Within, Index
  <2>3. \A a, b, u, v \in Nat : a < u /\ b < v => a + u * b < v * u
    <3> SUFFICES ASSUME NEW a \in Nat, NEW b \in Nat, NEW u \in Nat, NEW v \in Nat,
                        a < u, b < v
                 PROVE  a + u * b < v * u
      OBVIOUS
    <3>1. PICK e \in Nat : v = b + 1 + e
      <4>1. v - (b + 1) \in Nat /\ v = b + 1 + (v - (b + 1))
        OBVIOUS
      <4> QED
        BY <4>1
    <3>2. v * u = u * b + u + e * u /\ e * u \in Nat /\ u * b \in Nat
      BY <3>1
    <3> QED
      BY <3>2
  <2>4. f[d] = x[d] + c[d] * f[d - 1] /\ P[d] = P[d - 1] * c[d]
    BY <1>1, <1>2
  <2>5. f[d] < P[d]
    BY ONLY <2>1, <2>2, <2>3, <2>4
  <2> QED
    BY <2>5, DimsAre
<1> HIDE DEF S
<1>5. \A d \in 0 .. NDims : d \in S
  BY <1>3, <1>4, DimsAre, UpTo
<1> QED
  BY <1>5 DEF S

(* ElementAt divides by the product of the sizes behind a dimension.       *)
LEMMA StridesAre ==
  ASSUME NEW block \in [offset : Index, count : Index]
  PROVE  \E s : /\ Products(s, reverse_dims(block.count), NDims)
                /\ \A k : \A d \in Dims : ElementAt(block, k)[d] =
                     block.offset[d] + ((k \div s[NDims - d]) % block.count[d])
<1>a. NDims \in Nat \ {0} /\ NDims \in 0 .. NDims
  BY SelectionAssumption
<1>b. block.count \in Index
  OBVIOUS
<1> DEFINE a == reverse_dims(block.count)
           stride[e \in 0 .. NDims] ==
             IF e = 0 THEN 1 ELSE stride[e - 1] * block.count[NDims + 1 - e]
<1>1. /\ a \in Index
      /\ \A e \in 1 .. NDims : a[e] = block.count[NDims + 1 - e]
  <2>1. \A e \in Dims : NDims + 1 - e \in Dims
    BY <1>a DEF Dims
  <2> QED
    BY <2>1, <1>b, DimsAre DEF reverse_dims, Index
<1> HIDE DEF a
<1>2. PICK f : Products(f, a, NDims)
  BY <1>a, <1>1, ProductsExist
<1>3. f = [e \in 0 .. NDims |->
             IF e = 0 THEN 1 ELSE f[e - 1] * block.count[NDims + 1 - e]]
  <2>1. ASSUME NEW e \in 0 .. NDims
        PROVE  f[e] = IF e = 0 THEN 1 ELSE f[e - 1] * block.count[NDims + 1 - e]
    <3>1. CASE e = 0
      BY <3>1, <1>2 DEF Products
    <3>2. CASE e # 0
      <4>1. e \in 1 .. NDims
        BY <3>2, <1>a
      <4> QED
        BY <4>1, <3>2, <1>1, <1>2 DEF Products
    <3> QED
      BY <3>1, <3>2
  <2>2. f \in [0 .. NDims -> Nat]
    BY <1>2 DEF Products
  <2> QED
    BY <2>1, <2>2
<1>4. \A k : \A d \in Dims : ElementAt(block, k)[d] =
        block.offset[d] + ((k \div stride[NDims - d]) % block.count[d])
  BY DEF ElementAt
<1>5. stride = [e \in 0 .. NDims |->
                  IF e = 0 THEN 1 ELSE stride[e - 1] * block.count[NDims + 1 - e]]
  BY <1>3, Zenon DEF stride
<1> HIDE DEF stride
<1>6. /\ stride = [e \in 0 .. NDims |-> stride[e]] /\ stride[0] = 1
      /\ \A e \in 1 .. NDims : stride[e] = stride[e - 1] * a[e]
  <2>1. 0 \in 0 .. NDims /\ \A e \in 1 .. NDims : e \in 0 .. NDims /\ e # 0
    BY <1>a
  <2>2. stride = [e \in 0 .. NDims |-> stride[e]] /\ stride[0] = 1
    BY <1>5, <2>1
  <2>3. ASSUME NEW e \in 1 .. NDims PROVE stride[e] = stride[e - 1] * a[e]
    <3>1. stride[e] = stride[e - 1] * block.count[NDims + 1 - e]
      BY <1>5, <2>1
    <3> QED
      BY <3>1, <1>1
  <2> QED
    BY <2>2, <2>3
<1>7. Products(stride, a, NDims)
  BY <1>1, <1>6, ProductsOnly
<1> QED
  BY <1>4, <1>7 DEF a

(* An offset divided by a stride is the offset in the dimensions before.   *)
LEMMA StrideDivides ==
  ASSUME NEW c \in Index, NEW x, Within(x, c), NEW f, Ranks(f, c, x),
         NEW s, Products(s, reverse_dims(c), NDims)
  PROVE  \A d \in Dims : /\ s[NDims - d] \in Nat \ {0}
                         /\ f[NDims] \div s[NDims - d] = f[d]
<1>1. /\ f \in [0 .. NDims -> Nat] /\ f[0] = 0
      /\ \A d \in 1 .. NDims : f[d] = x[d] + c[d] * f[d - 1]
  BY DEF Ranks
<1>2. /\ s \in [0 .. NDims -> Nat] /\ s[0] = 1
      /\ \A j \in 1 .. NDims : s[j] = s[j - 1] * c[NDims + 1 - j]
  <2>1. \A j \in 1 .. NDims : reverse_dims(c)[j] = c[NDims + 1 - j]
    BY DimsAre DEF reverse_dims
  <2> QED
    BY <2>1 DEF Products
<1>3. /\ NDims \in Nat
      /\ \A j \in 1 .. NDims : /\ NDims + 1 - j \in 1 .. NDims
                               /\ (NDims + 1 - j) - 1 = NDims - j
                               /\ NDims - (j - 1) = NDims + 1 - j
                               /\ NDims - j \in 0 .. NDims
      /\ NDims - 0 = NDims
      /\ \A d \in 1 .. NDims : NDims - d \in 0 .. NDims /\ NDims - (NDims - d) = d
  BY DimsAre
<1> DEFINE k == f[NDims]
           Part(j) == \E r \in Nat : r < s[j] /\ k = s[j] * f[NDims - j] + r
           S == {j \in 0 .. NDims : Part(j)}
<1>4. 0 \in S
  <2>1. 0 < s[0] /\ k = s[0] * f[NDims - 0] + 0
    BY <1>1, <1>2, <1>3, DimsAre
  <2> QED
    BY <2>1, DimsAre
<1>5. ASSUME NEW j \in 1 .. NDims, j - 1 \in S PROVE j \in S
  <2>1. PICK r \in Nat : r < s[j - 1] /\ k = s[j - 1] * f[NDims - (j - 1)] + r
    BY <1>5
  <2>2. PICK e : e = NDims + 1 - j
    OBVIOUS
  <2>3. e \in 1 .. NDims /\ e - 1 = NDims - j /\ NDims - (j - 1) = e
    BY <1>3, <2>2
  <2>4. /\ f[e] = x[e] + c[e] * f[NDims - j] /\ s[j] = s[j - 1] * c[e]
        /\ k = s[j - 1] * f[e] + r
    BY <1>1, <1>2, <2>1, <2>2, <2>3
  <2>5. /\ x[e] \in Nat /\ c[e] \in Nat /\ x[e] < c[e]
        /\ s[j - 1] \in Nat /\ f[NDims - j] \in Nat
    BY <1>1, <1>2, <1>3, <2>3, DimsAre DEF Within, Index
  <2>6. \A a, b, u, v, w \in Nat : b < u /\ w < a =>
          /\ a * (b + u * v) + w = (a * u) * v + (a * b + w)
          /\ a * b + w \in Nat /\ a * b + w < a * u
    <3> SUFFICES ASSUME NEW a \in Nat, NEW b \in Nat, NEW u \in Nat, NEW v \in Nat,
                        NEW w \in Nat, b < u, w < a
                 PROVE  /\ a * (b + u * v) + w = (a * u) * v + (a * b + w)
                        /\ a * b + w \in Nat /\ a * b + w < a * u
      OBVIOUS
    <3>1. PICK e1 \in Nat : u = b + 1 + e1
      <4>1. u - (b + 1) \in Nat /\ u = b + 1 + (u - (b + 1))
        OBVIOUS
      <4> QED
        BY <4>1
    <3>2. a * u = a * b + a + a * e1 /\ a * e1 \in Nat /\ a * b \in Nat
      BY <3>1
    <3>3. a * (b + u * v) = a * b + a * (u * v) /\ a * (u * v) = (a * u) * v
      OBVIOUS
    <3>4. (a * u) * v \in Nat
      OBVIOUS
    <3> QED
      BY <3>2, <3>3, <3>4
  <2>7. PICK q : q = s[j - 1] * x[e] + r
    OBVIOUS
  <2>8. q \in Nat /\ q < s[j] /\ k = s[j] * f[NDims - j] + q
    BY ONLY <2>1, <2>4, <2>5, <2>6, <2>7
  <2> QED
    BY <2>8, DimsAre
<1> HIDE DEF S
<1>6. \A j \in 0 .. NDims : j \in S
  BY <1>4, <1>5, DimsAre, UpTo
<1> SUFFICES ASSUME NEW d \in Dims
             PROVE  s[NDims - d] \in Nat \ {0} /\ k \div s[NDims - d] = f[d]
  OBVIOUS
<1>7. PICK r \in Nat : /\ r < s[NDims - d]
                       /\ k = s[NDims - d] * f[d] + r
  <2>1. NDims - d \in 0 .. NDims /\ NDims - (NDims - d) = d
    BY <1>3, DimsAre
  <2>2. NDims - d \in S
    BY <1>6, <2>1
  <2> QED
    BY <2>1, <2>2 DEF S
<1>8. s[NDims - d] \in Nat /\ f[d] \in Nat
  BY <1>1, <1>2, <1>3, DimsAre
<1>9. \A a, b, w \in Nat : w < a => (a * b + w) \div a = b
  OBVIOUS
<1> HIDE DEF k
<1> QED
  BY ONLY <1>7, <1>8, <1>9

(* ElementAt takes an offset apart again.                                  *)
LEMMA Unrank ==
  ASSUME NEW block \in [offset : Index, count : Index],
         NEW x, Within(x, block.count)
  PROVE  \A d \in Dims : ElementAt(block, RowMajor(block.count, x))[d] =
                           block.offset[d] + x[d]
<1>1. block.count \in Index /\ x \in Index
  BY DEF Within
<1>2. PICK f : Ranks(f, block.count, x) /\ RowMajor(block.count, x) = f[NDims]
  BY <1>1, RowMajorIs
<1>3. PICK s : /\ Products(s, reverse_dims(block.count), NDims)
               /\ \A k : \A d \in Dims : ElementAt(block, k)[d] =
                    block.offset[d] + ((k \div s[NDims - d]) % block.count[d])
  BY StridesAre
<1> SUFFICES ASSUME NEW d \in Dims
             PROVE  ElementAt(block, RowMajor(block.count, x))[d] =
                      block.offset[d] + x[d]
  OBVIOUS
<1>4. f[NDims] \div s[NDims - d] = f[d]
  BY <1>1, <1>2, <1>3, StrideDivides
<1>5. f[d] = x[d] + block.count[d] * f[d - 1] /\ f[d - 1] \in Nat
  BY <1>2, DimsAre DEF Ranks
<1>6. x[d] \in Nat /\ block.count[d] \in Nat /\ x[d] < block.count[d]
  BY <1>1 DEF Within, Index
<1>7. \A a, b, u \in Nat : a < u => (a + u * b) % u = a
  OBVIOUS
<1>8. f[d] % block.count[d] = x[d]
  <2>1. PICK a, b, u : a = x[d] /\ b = f[d - 1] /\ u = block.count[d]
    OBVIOUS
  <2>2. a \in Nat /\ b \in Nat /\ u \in Nat /\ a < u
    BY ONLY <1>5, <1>6, <2>1
  <2>3. (a + u * b) % u = a
    BY ONLY <1>7, <2>2, Zenon
  <2>4. f[d] = a + u * b
    BY <1>5, <2>1
  <2> QED
    BY ONLY <2>1, <2>3, <2>4
<1> QED
  BY <1>2, <1>3, <1>4, <1>8

(* A block that is empty in some dimension has no elements.                *)
LEMMA EmptyBlock ==
  ASSUME NEW count \in Index, NEW e \in Dims, count[e] = 0
  PROVE  Elements(count) = 0
<1>1. PICK P : Products(P, count, NDims) /\ Elements(count) = P[NDims]
  BY ElementsAre
<1> QED
  BY <1>1, ProductZero

(* The k-th element of a block without an empty dimension lies in it.      *)
LEMMA ElementInBlock ==
  ASSUME NEW block \in [offset : Index, count : Index],
         \A d \in Dims : block.count[d] > 0, NEW k \in Nat, NEW d \in Dims
  PROVE  \E y \in Nat : /\ y < block.count[d]
                        /\ ElementAt(block, k)[d] = block.offset[d] + y
<1>1. PICK a : a = reverse_dims(block.count)
  OBVIOUS
<1>2. PICK s : /\ Products(s, a, NDims)
               /\ \A j : \A e \in Dims : ElementAt(block, j)[e] =
                    block.offset[e] + ((j \div s[NDims - e]) % block.count[e])
  BY <1>1, StridesAre
<1>3. block.count \in Index /\ block.count[d] \in Nat /\ block.count[d] > 0
  BY DEF Index
<1>4. a \in Index /\ \A e \in Dims : a[e] > 0
  <2>1. \A e \in Dims : NDims + 1 - e \in Dims
    BY DimsAre
  <2> QED
    BY <1>1, <1>3, <2>1 DEF reverse_dims, Index
<1>5. s[NDims - d] \in Nat /\ s[NDims - d] > 0
  <2>1. NDims - d \in 0 .. NDims /\ NDims \in Nat /\ NDims <= NDims
    BY DimsAre
  <2>2. s[NDims - d] > 0
    BY <1>2, <1>4, <2>1, ProductPositive
  <2> QED
    BY <1>2, <2>1, <2>2 DEF Products
<1>6. \A x, m, c \in Nat : m > 0 /\ c > 0 => (x \div m) % c \in Nat /\ (x \div m) % c < c
  <2>1. \A x, m \in Nat : m > 0 => x \div m \in Nat
    OBVIOUS
  <2>2. \A x, c \in Nat : c > 0 => x % c \in Nat /\ x % c < c
    OBVIOUS
  <2> QED
    BY <2>1, <2>2
<1> QED
  BY <1>2, <1>3, <1>5, <1>6

-----------------------------------------------------------------------------
(* The displacements.                                                      *)

(* displ has the writers that need_writer finds, with what                 *)
(* get_writer_displacements computed for each of them.                     *)
DisplacementsInv ==
  sel.type = "box" =>
    displ = [w \in {v \in Bridges : need_writer(v, sel)} |->
               get_writer_displacements(w, sel)]

(* need_writer and get_writer_displacements in one dimension: the          *)
(* selection is [s, s + c), the block [r, r + n).                          *)
NeededInterval(s, c, r, n) ==
  \/ r <= s /\ (r + n - 1) % Word >= s
  \/ r <= (s + c - 1) % Word /\ (r + n) % Word >= (s + c - 1) % Word
  \/ s <= r /\ (r + n) % Word <= (s + c - 1) % Word

IntervalPart(s, c, r, n, start, count) ==
  /\ start = IF s >= r THEN Narrowed(s - r) ELSE 0
  /\ count = IF (s + c - 1) % Word <= (r + n - 1) % Word
             THEN Narrowed((((s + c - 1) % Word) - r) - start + 1)
             ELSE Narrowed((n - 1) - start + 1)

SamePart(s, c, r, start, count, x) ==
  (x >= s /\ x < s + c) <=> (x - r >= start /\ x - r < start + count)

(* In one dimension: of a block [r, r + n) that need_writer takes for a    *)
(* holder of the selection [s, s + c), the displacement describes exactly  *)
(* the part in the selection, although need_writer also takes blocks that  *)
(* end right before a selection of one element.  An int has to hold the    *)
(* size of the block.                                                      *)
LEMMA IntervalExact ==
  ASSUME NEW s \in Nat, NEW c \in Nat, c > 0, s + c < Word,
         NEW r \in Nat, NEW n \in Nat, n > 0, r + n < Word, n < IntWord \div 2,
         NEW start, NEW count, NEW y \in Nat, y < n,
         NeededInterval(s, c, r, n), IntervalPart(s, c, r, n, start, count)
  PROVE  SamePart(s, c, r, start, count, r + y)
<1>w. Word \in Nat \ {0}
  BY SelectionAssumption
<1>0. s + c - 1 \in Nat /\ s + c - 1 < Word
  BY <1>w
<1>1. (s + c - 1) % Word = s + c - 1
  BY <1>0, <1>w, ModSmall
<1>2. (r + n - 1) % Word = r + n - 1
  BY <1>w, ModSmall
<1>3. (r + n) % Word = r + n
  BY <1>w, ModSmall
<1>n. \/ r <= s /\ r + n - 1 >= s
      \/ r <= s + c - 1 /\ r + n >= s + c - 1
      \/ s <= r /\ r + n <= s + c - 1
  BY <1>1, <1>2, <1>3 DEF NeededInterval
<1>i. IntWord \div 2 \in Nat
  BY SelectionAssumption
<1>p. /\ start = IF s >= r THEN Narrowed(s - r) ELSE 0
      /\ count = IF s + c - 1 <= r + n - 1
                 THEN Narrowed(((s + c - 1) - r) - start + 1)
                 ELSE Narrowed((n - 1) - start + 1)
  BY <1>1, <1>2 DEF IntervalPart
<1>s. ASSUME s >= r PROVE start = s - r
  <2>1. s - r \in Nat /\ s - r <= n
    BY <1>n, <1>s
  <2>2. Narrowed(s - r) = s - r
    BY <1>i, <2>1, IntExact
  <2> QED
    BY <1>p, <1>s, <2>2
<1>4. start = IF s >= r THEN s - r ELSE 0
  BY <1>p, <1>s
<1> SUFFICES (r + y >= s /\ r + y < s + c)
               <=> (y >= start /\ y < start + count)
  BY DEF SamePart
<1>5. CASE s + c - 1 <= r + n - 1
  <2>1. s + c - 1 >= r
    BY <1>n, <1>5
  <2>2. ((s + c - 1) - r) - start + 1 \in Nat /\ ((s + c - 1) - r) - start + 1 <= n
    <3>1. CASE s >= r
      <4>1. start = s - r
        BY <3>1, <1>4
      <4> QED
        BY <4>1, <3>1, <1>5
    <3>2. CASE ~(s >= r)
      <4>1. start = 0
        BY <3>2, <1>4
      <4> QED
        BY <4>1, <2>1, <3>2, <1>5
    <3> QED
      BY <3>1, <3>2
  <2>3. count = ((s + c - 1) - r) - start + 1
    <3>1. Narrowed(((s + c - 1) - r) - start + 1) = ((s + c - 1) - r) - start + 1
      BY <1>i, <2>2, IntExact
    <3> QED
      BY <3>1, <1>p, <1>5
  <2> QED
    BY <2>3, <1>4, <1>5
<1>6. CASE ~(s + c - 1 <= r + n - 1)
  <2>1. s <= r + n
    BY <1>n, <1>6
  <2>2. (n - 1) - start + 1 \in Nat /\ (n - 1) - start + 1 <= n
    <3>1. CASE s >= r
      <4>1. start = s - r
        BY <3>1, <1>4
      <4> QED
        BY <4>1, <2>1, <3>1, <1>w
    <3>2. CASE ~(s >= r)
      <4>1. start = 0
        BY <3>2, <1>4
      <4> QED
        BY <4>1, <1>w
    <3> QED
      BY <3>1, <3>2
  <2>3. count = (n - 1) - start + 1
    <3>1. Narrowed((n - 1) - start + 1) = (n - 1) - start + 1
      BY <1>i, <2>2, IntExact
    <3> QED
      BY <3>1, <1>p, <1>6
  <2>4. CASE s >= r
    <3>1. start = s - r
      BY <2>4, <1>4
    <3> QED
      BY <3>1, <2>3, <2>4, <1>6
  <2>5. CASE ~(s >= r)
    <3>1. start = 0
      BY <2>5, <1>4
    <3> QED
      BY <3>1, <2>3, <2>5, <1>6
  <2> QED
    BY <2>4, <2>5
<1> QED
  BY <1>5, <1>6

(* The displacements are stored together with their selection.             *)
LEMMA DisplacementsStep ==
  ASSUME DisplacementsInv, [Next]_vars
  PROVE  DisplacementsInv'
<1>1. ASSUME NEW req \in Requests, ScheduleRead(req)
      PROVE  DisplacementsInv'
  <2> layout' = layout
    BY <1>1 DEF ScheduleRead
  <2>1. CASE ScheduleBox(req)
    <3>1. /\ sel' = copy_selection(req)
          /\ displ' = [w \in {v \in Bridges : need_writer(v, copy_selection(req))} |->
                         get_writer_displacements(w, copy_selection(req))]
      BY <2>1 DEF ScheduleBox
    <3>2. PICK s : s = copy_selection(req)
      OBVIOUS
    <3>a. sel' = s /\ layout' = layout
      BY <3>1, <3>2
    <3>3. \A w \in Bridges :
            /\ need_writer(w, sel)' <=> need_writer(w, s)
            /\ get_writer_displacements(w, sel)' = get_writer_displacements(w, s)
      <4>1. \A w \in Bridges : need_writer(w, sel)' <=> need_writer(w, s)
        BY ONLY <3>a, ZenonT(60) DEF need_writer
      <4>2. \A w \in Bridges :
              get_writer_displacements(w, sel)' = get_writer_displacements(w, s)
        BY ONLY <3>a, ZenonT(60) DEF get_writer_displacements
      <4> QED
        BY <4>1, <4>2
    <3>4. {v \in Bridges : need_writer(v, sel)}' = {v \in Bridges : need_writer(v, s)}
      BY <3>3
    <3> QED
      BY <3>1, <3>2, <3>3, <3>4 DEF DisplacementsInv
  <2>2. CASE ScheduleBlock(req) \/ SchedulePoints(req)
    <3>1. req.type # "box" /\ req.type # "whole" /\ sel' = copy_selection(req)
      BY <2>2 DEF ScheduleBlock, SchedulePoints
    <3>2. copy_selection(req).type = req.type
      BY <3>1, SelectionAssumption DEF copy_selection, UserSel, Reversed
    <3> QED
      BY <3>1, <3>2 DEF DisplacementsInv
  <2> QED
    BY <1>1, <2>1, <2>2 DEF ScheduleRead
<1>2. CASE PerformReturn
  <2>1. sel'.type # "box"
    BY <1>2 DEF PerformReturn, NoSel
  <2> QED
    BY <2>1 DEF DisplacementsInv
<1>3. CASE PerformReads \/ RawHandler \/ NextRound \/ UNCHANGED vars
  <2>1. UNCHANGED <<layout, sel, displ>>
    BY <1>3 DEF PerformReads, RawHandler, NextRound, vars
  <2>2. \A w \in Bridges :
          /\ need_writer(w, sel)' <=> need_writer(w, sel)
          /\ get_writer_displacements(w, sel)' = get_writer_displacements(w, sel)
    BY <2>1 DEF need_writer, get_writer_displacements
  <2>3. {v \in Bridges : need_writer(v, sel)}' = {v \in Bridges : need_writer(v, sel)}
    BY <2>2
  <2> QED
    BY <2>1, <2>2, <2>3 DEF DisplacementsInv
<1> QED
  BY <1>1, <1>2, <1>3 DEF Next

(* The sizes of the writers' blocks, in elements, fit into an int.         *)
BlocksInInt ==
  \A l \in Layouts, w \in Bridges, d \in Dims : l[w].count[d] < IntWord \div 2

(* get_writer_displacements describes exactly the elements of the writer's *)
(* block that lie in the selection, for every writer that is asked, where  *)
(* no block is longer than an int can say: starts and counts are stored    *)
(* through an int.                                                         *)
THEOREM SelectionDisplacementsExact ==
  ASSUME BlocksInInt
  PROVE  Spec => []DisplacementsExact
<1>1. Init => DisplacementsInv /\ SelectionInv
  BY DEF Init, DisplacementsInv, SelectionInv, NoSel
<1>2. /\ SelectionInv /\ [Next]_vars => SelectionInv'
      /\ DisplacementsInv /\ [Next]_vars => DisplacementsInv'
  BY SelectionInvStep, DisplacementsStep
<1>3. SelectionInv /\ DisplacementsInv => DisplacementsExact
  <2> SUFFICES ASSUME SelectionInv, DisplacementsInv, sel.type = "box",
                      NEW w \in DOMAIN displ,
                      NEW k \in 0 .. Elements(layout[w].count) - 1
               PROVE  InBox(ElementAt(layout[w], k), sel.start, sel.count) <=>
                        InBox(map_global_to_local_index(ElementAt(layout[w], k),
                                                        layout[w].offset),
                              displ[w].start, displ[w].count)
    BY DEF DisplacementsExact
  <2>1. /\ w \in Bridges /\ need_writer(w, sel)
        /\ displ[w] = get_writer_displacements(w, sel)
    BY DEF DisplacementsInv
  <2>2. layout \in Layouts /\ FitsWord(sel)
    BY DEF SelectionInv
  <2>3. layout[w] \in [offset : Index, count : Index] /\ layout[w].count \in Index
    BY <2>1, <2>2, SelectionAssumption
  <2>4. \A d \in Dims : layout[w].count[d] > 0
    <3> SUFFICES ASSUME NEW d \in Dims, ~(layout[w].count[d] > 0) PROVE FALSE
      OBVIOUS
    <3>1. layout[w].count[d] = 0
      <4>1. layout[w].count[d] \in Nat
        BY <2>3 DEF Index
      <4> QED
        BY <4>1
    <3>2. Elements(layout[w].count) = 0
      BY <2>3, <3>1, EmptyBlock
    <3> QED
      BY <3>2
  <2>5. k \in Nat
    <3>1. \A i, j : i \in 0 .. j => i \in Nat
      OBVIOUS
    <3> QED
      BY <3>1
  <2> DEFINE p == ElementAt(layout[w], k)
  <2>6. ASSUME NEW d \in Dims
        PROVE  (p[d] >= sel.start[d] /\ p[d] < sel.start[d] + sel.count[d])
                 <=> /\ p[d] - layout[w].offset[d] >= displ[w].start[d]
                     /\ p[d] - layout[w].offset[d]
                           < displ[w].start[d] + displ[w].count[d]
    <3> DEFINE s == sel.start[d]
               c == sel.count[d]
               r == layout[w].offset[d]
               n == layout[w].count[d]
               start == displ[w].start[d]
               count == displ[w].count[d]
    <3>1. PICK y \in Nat : y < n /\ p[d] = r + y
      BY <2>3, <2>4, <2>5, ElementInBlock
    <3>2. r \in Nat /\ n \in Nat /\ n > 0 /\ r + n < Word /\ n < IntWord \div 2
      BY <2>1, <2>2, <2>3, <2>4, SelectionAssumption DEF Index, BlocksInInt
    <3>3. s \in Nat /\ c \in Nat /\ c > 0 /\ s + c < Word
      BY <2>2 DEF FitsWord, Index
    <3>4. NeededInterval(s, c, r, n)
      BY <2>1 DEF need_writer, NeededInterval
    <3>5. IntervalPart(s, c, r, n, start, count)
      BY <2>1 DEF get_writer_displacements, IntervalPart
    <3> HIDE DEF s, c, r, n, start, count
    <3>6. SamePart(s, c, r, start, count, r + y)
      BY <3>1, <3>2, <3>3, <3>4, <3>5, IntervalExact
    <3> QED
      BY <3>1, <3>6 DEF s, c, r, n, start, count, SamePart
  <2> HIDE DEF p
  <2>7. \A d \in Dims : map_global_to_local_index(p, layout[w].offset)[d]
                          = p[d] - layout[w].offset[d]
    BY DEF map_global_to_local_index
  <2>8. InBox(p, sel.start, sel.count) <=>
          InBox(map_global_to_local_index(p, layout[w].offset),
                displ[w].start, displ[w].count)
    BY <2>6, <2>7 DEF InBox
  <2> QED
    BY <2>8 DEF p
<1> QED
  BY <1>1, <1>2, <1>3, PTL DEF Spec

(* A set of dimensions has a last one.                                     *)
LEMMA LastDim ==
  ASSUME NEW S \in SUBSET Dims, S # {}
  PROVE  Max(S) \in S /\ \A d \in S : d <= Max(S)
<1> DEFINE T == {NDims - d : d \in S}
<1>1. T \in SUBSET Nat /\ T # {}
  <2>1. \A d \in S : d \in Dims
    OBVIOUS
  <2>2. \A d \in S : NDims - d \in Nat
    BY <2>1, DimsAre
  <2> QED
    BY <2>2
<1>2. PICK n \in T : \A m \in T : n <= m
  BY <1>1, LeastNumber
<1>3. PICK x \in S : n = NDims - x
  BY <1>2
<1>4. \A d \in S : x >= d
  <2> SUFFICES ASSUME NEW d \in S PROVE x >= d
    OBVIOUS
  <2>1. NDims - x <= NDims - d
    BY <1>2, <1>3
  <2> QED
    BY <2>1, DimsAre
<1>5. \E y \in S : \A d \in S : y >= d
  BY <1>4
<1>6. Max(S) \in S /\ \A d \in S : Max(S) >= d
  BY <1>5, Zenon DEF Max
<1> QED
  BY <1>6, DimsAre

(* One step of the walk over a box of size c that is at place x.           *)
Advanced(c, x, y) ==
  /\ Within(y, c)
  /\ RowMajor(c, y) = RowMajor(c, x) + 1

(* increment_index goes on to the place with the next offset, and returns  *)
(* false at the last one.                                                  *)
LEMMA IncrementIndex ==
  ASSUME NEW c \in Index, NEW x, Within(x, c), NEW inc, inc = increment_index(c, x)
  PROVE  /\ inc.more \in BOOLEAN
         /\ inc.more => Advanced(c, x, inc.index)
         /\ ~inc.more => RowMajor(c, x) = Elements(c) - 1
<1>0. /\ x \in Index /\ \A d \in 1 .. NDims : x[d] \in Nat /\ c[d] \in Nat /\ x[d] < c[d]
  BY DimsAre DEF Within, Index
<1>1. PICK f : Ranks(f, c, x) /\ RowMajor(c, x) = f[NDims]
  BY <1>0, RowMajorIs
<1>2. PICK P : Products(P, c, NDims) /\ Elements(c) = P[NDims]
  BY ElementsAre
<1>3. /\ f \in [0 .. NDims -> Nat] /\ f[0] = 0
      /\ \A d \in 1 .. NDims : f[d] = x[d] + c[d] * f[d - 1]
  BY <1>1 DEF Ranks
<1>4. /\ P \in [0 .. NDims -> Nat] /\ P[0] = 1
      /\ \A d \in 1 .. NDims : P[d] = P[d - 1] * c[d]
  BY <1>2 DEF Products
<1>5. PICK free : free = {d \in Dims : x[d] + 1 < c[d]}
  OBVIOUS
<1>6. free \in SUBSET Dims
  BY <1>5
<1>7. ASSUME NEW d \in 1 .. NDims, d \notin free PROVE c[d] = x[d] + 1
  <2>1. ~(x[d] + 1 < c[d])
    BY <1>5, <1>7, DimsAre
  <2> QED
    BY <2>1, <1>0
<1>8. CASE free = {}
  <2>1. inc = [more |-> FALSE, index |-> Zero]
    BY <1>5, <1>8 DEF increment_index
  <2> DEFINE S == {d \in 0 .. NDims : f[d] + 1 = P[d]}
  <2>2. 0 \in S
    BY <1>3, <1>4, DimsAre
  <2>3. ASSUME NEW d \in 1 .. NDims, d - 1 \in S PROVE d \in S
    <3>1. /\ f[d - 1] \in Nat /\ f[d - 1] + 1 = P[d - 1]
          /\ f[d] = x[d] + c[d] * f[d - 1] /\ P[d] = P[d - 1] * c[d]
          /\ c[d] = x[d] + 1 /\ x[d] \in Nat
      BY <1>0, <1>3, <1>4, <1>7, <1>8, <2>3, DimsAre
    <3>2. \A a, b \in Nat : a + (a + 1) * b + 1 = (b + 1) * (a + 1)
      OBVIOUS
    <3>3. f[d] + 1 = P[d]
      BY ONLY <3>1, <3>2
    <3> QED
      BY <3>3, DimsAre
  <2> HIDE DEF S
  <2>4. NDims \in S
    BY <2>2, <2>3, DimsAre, UpTo
  <2>5. f[NDims] + 1 = P[NDims]
    BY <2>4 DEF S
  <2>6. f[NDims] \in Nat
    BY <1>3, DimsAre
  <2>7. f[NDims] = P[NDims] - 1
    BY <2>5, <2>6
  <2> QED
    BY <1>1, <1>2, <2>1, <2>7
<1>9. CASE free # {}
  <2>1. PICK m : m = Max(free)
    OBVIOUS
  <2>2. m \in free /\ \A d \in free : d <= m
    BY <1>6, <1>9, <2>1, LastDim
  <2>3. PICK y : y = [d \in Dims |-> IF d < m THEN x[d]
                                     ELSE IF d = m THEN x[d] + 1 ELSE 0]
    OBVIOUS
  <2>4. inc = [more |-> TRUE, index |-> y]
    BY <1>5, <1>9, <2>1, <2>3 DEF increment_index
  <2>5. m \in 1 .. NDims /\ x[m] + 1 < c[m] /\ m \in Nat
    BY <1>5, <2>2, DimsAre
  <2>6. /\ \A d \in 1 .. NDims : d < m => y[d] = x[d]
        /\ y[m] = x[m] + 1
        /\ \A d \in 1 .. NDims : m < d => y[d] = 0 /\ c[d] = x[d] + 1
    <3>1. ASSUME NEW d \in 1 .. NDims, d < m PROVE y[d] = x[d]
      BY <2>3, <3>1, DimsAre
    <3>2. y[m] = x[m] + 1
      BY <2>3, <2>5, DimsAre
    <3>3. ASSUME NEW d \in 1 .. NDims, m < d PROVE y[d] = 0 /\ c[d] = x[d] + 1
      <4>1. ~(d < m) /\ d # m /\ ~(d <= m)
        BY <2>5, <3>3
      <4>2. d \notin free
        BY <2>2, <4>1
      <4> QED
        BY <1>7, <2>3, <4>1, <4>2, DimsAre
    <3> QED
      BY <3>1, <3>2, <3>3
  <2>7. \A d \in 1 .. NDims : d < m \/ d = m \/ m < d
    BY <2>5
  <2>8. \A d \in 1 .. NDims : y[d] \in Nat /\ y[d] < c[d]
    <3> SUFFICES ASSUME NEW d \in 1 .. NDims PROVE y[d] \in Nat /\ y[d] < c[d]
      OBVIOUS
    <3>1. x[d] \in Nat /\ c[d] \in Nat /\ x[d] < c[d]
      BY <1>0
    <3>2. CASE d < m
      BY <2>6, <3>1, <3>2
    <3>3. CASE d = m
      BY <2>5, <2>6, <3>1, <3>3
    <3>4. CASE m < d
      BY <2>6, <3>1, <3>4
    <3> QED
      BY <2>7, <3>2, <3>3, <3>4
  <2>9. Within(y, c)
    <3>1. y \in [Dims -> Nat]
      BY <2>3, <2>8, DimsAre
    <3> QED
      BY <2>8, <3>1, DimsAre DEF Within, Index
  <2>10. PICK h : Ranks(h, c, y) /\ RowMajor(c, y) = h[NDims]
    BY <2>9, RowMajorIs DEF Within
  <2>11. /\ h \in [0 .. NDims -> Nat] /\ h[0] = 0
         /\ \A d \in 1 .. NDims : h[d] = y[d] + c[d] * h[d - 1]
    BY <2>10 DEF Ranks
  <2> DEFINE Next1(d) == IF d < m THEN h[d] = f[d] ELSE h[d] = f[d] + 1
             S == {d \in 0 .. NDims : Next1(d)}
  <2>12. 0 \in S
    BY <1>3, <2>5, <2>11, DimsAre
  <2>13. ASSUME NEW d \in 1 .. NDims, d - 1 \in S PROVE d \in S
    <3>1. /\ h[d] = y[d] + c[d] * h[d - 1] /\ f[d] = x[d] + c[d] * f[d - 1]
          /\ x[d] \in Nat /\ c[d] \in Nat /\ f[d - 1] \in Nat
      BY <1>0, <1>3, <2>11, DimsAre
    <3>2. IF d - 1 < m THEN h[d - 1] = f[d - 1] ELSE h[d - 1] = f[d - 1] + 1
      BY <2>13
    <3>3. CASE d < m
      <4>1. d - 1 < m
        BY <2>5, <3>3
      <4>2. h[d] = f[d]
        BY <2>6, <3>1, <3>2, <3>3, <4>1
      <4> QED
        BY <3>3, <4>2, DimsAre
    <3>4. CASE d = m
      <4>1. d - 1 < m /\ ~(d < m)
        BY <2>5, <3>4
      <4>2. h[d] = (x[d] + 1) + c[d] * f[d - 1]
        BY <2>6, <3>1, <3>2, <3>4, <4>1
      <4>3. c[d] * f[d - 1] \in Nat
        BY <3>1
      <4>4. h[d] = f[d] + 1
        BY <3>1, <4>2, <4>3
      <4> QED
        BY <4>1, <4>4, DimsAre
    <3>5. CASE m < d
      <4>1. ~(d - 1 < m) /\ ~(d < m)
        BY <2>5, <3>5
      <4>2. y[d] = 0 /\ c[d] = x[d] + 1
        BY <2>6, <3>5
      <4>3. \A a, b \in Nat : 0 + (a + 1) * (b + 1) = a + (a + 1) * b + 1
        OBVIOUS
      <4>4. h[d - 1] = f[d - 1] + 1
        BY <3>2, <4>1
      <4>5. h[d] = f[d] + 1
        BY ONLY <3>1, <4>2, <4>3, <4>4
      <4> QED
        BY <4>1, <4>5, DimsAre
    <3> QED
      BY <2>7, <3>3, <3>4, <3>5
  <2> HIDE DEF S
  <2>14. NDims \in S
    BY <2>12, <2>13, DimsAre, UpTo
  <2>15. ~(NDims < m)
    BY <2>5, DimsAre
  <2>16. h[NDims] = f[NDims] + 1
    BY <2>14, <2>15 DEF S
  <2>17. Advanced(c, x, y)
    BY <1>1, <2>9, <2>10, <2>16 DEF Advanced
  <2> QED
    BY <2>4, <2>17
<1> QED
  BY <1>8, <1>9

(* A box that is not empty in any dimension.                               *)
Positive(c) == c \in Index /\ \A d \in Dims : c[d] > 0

(* It has elements.                                                        *)
LEMMA ElementsPositive ==
  ASSUME NEW c, Positive(c)
  PROVE  Elements(c) \in Nat \ {0}
<1>1. c \in Index /\ \A d \in Dims : c[d] > 0
  BY DEF Positive
<1>2. PICK P : Products(P, c, NDims) /\ Elements(c) = P[NDims]
  BY <1>1, ElementsAre
<1>3. P[NDims] > 0
  BY <1>1, <1>2, DimsAre, ProductPositive
<1>4. P[NDims] \in Nat
  BY <1>2, DimsAre DEF Products
<1> QED
  BY <1>2, <1>3, <1>4

(* The row-major offset stays in the box.                                  *)
LEMMA OffsetInBox ==
  ASSUME NEW c \in Index, NEW x, Within(x, c)
  PROVE  RowMajor(c, x) \in Nat /\ RowMajor(c, x) < Elements(c)
<1>1. x \in Index
  BY DEF Within
<1>2. PICK f : Ranks(f, c, x) /\ RowMajor(c, x) = f[NDims]
  BY <1>1, RowMajorIs
<1>3. PICK P : Products(P, c, NDims) /\ Elements(c) = P[NDims]
  BY ElementsAre
<1>4. f[NDims] < P[NDims]
  BY <1>2, <1>3, RankBound, DimsAre
<1>5. f[NDims] \in Nat
  BY <1>2, DimsAre DEF Ranks
<1> QED
  BY <1>2, <1>3, <1>4, <1>5

(* The products of positive sizes rise.                                    *)
LEMMA ProductsRise ==
  ASSUME NEW c \in Index, \A d \in Dims : c[d] > 0,
         NEW P, Products(P, c, NDims)
  PROVE  \A d \in 0 .. NDims : P[d] <= P[NDims]
<1>1. /\ P \in [0 .. NDims -> Nat]
      /\ \A d \in 1 .. NDims : P[d] = P[d - 1] * c[d]
  BY DEF Products
<1>2. /\ NDims \in Nat
      /\ \A j \in 1 .. NDims : /\ NDims - j \in 0 .. NDims
                               /\ NDims + 1 - j \in 1 .. NDims
                               /\ (NDims + 1 - j) - 1 = NDims - j
                               /\ NDims - (j - 1) = NDims + 1 - j
      /\ NDims - 0 = NDims
      /\ \A d \in 0 .. NDims : NDims - d \in 0 .. NDims /\ NDims - (NDims - d) = d
  BY DimsAre
<1> DEFINE S == {j \in 0 .. NDims : P[NDims - j] <= P[NDims]}
<1>3. 0 \in S
  <2>1. P[NDims] \in Nat
    BY <1>1, DimsAre
  <2> QED
    BY <1>2, <2>1, DimsAre
<1>4. ASSUME NEW j \in 1 .. NDims, j - 1 \in S PROVE j \in S
  <2>1. PICK e : e = NDims + 1 - j
    OBVIOUS
  <2>2. e \in 1 .. NDims /\ e - 1 = NDims - j /\ NDims - (j - 1) = e
    BY <1>2, <2>1
  <2>3. PICK a, b, q : a = P[NDims - j] /\ b = c[e] /\ q = P[NDims]
    OBVIOUS
  <2>4. a \in Nat /\ b \in Nat /\ b > 0 /\ q \in Nat
    BY <1>1, <1>2, <2>2, <2>3, DimsAre DEF Index
  <2>5. P[e] = a * b
    BY <1>1, <2>2, <2>3
  <2>6. P[e] <= q
    BY <1>4, <2>2, <2>3
  <2>7. \A x, y \in Nat : y > 0 => x <= x * y /\ x * y \in Nat
    <3> SUFFICES ASSUME NEW x \in Nat, NEW y \in Nat, y > 0
                 PROVE  x <= x * y /\ x * y \in Nat
      OBVIOUS
    <3>1. PICK z \in Nat : y = z + 1
      <4>1. y - 1 \in Nat /\ y = (y - 1) + 1
        OBVIOUS
      <4> QED
        BY <4>1
    <3>2. x * y = x * z + x /\ x * z \in Nat
      BY <3>1
    <3> QED
      BY <3>2
  <2>8. a <= q
    BY ONLY <2>4, <2>5, <2>6, <2>7
  <2> QED
    BY <2>3, <2>8, DimsAre
<1> HIDE DEF S
<1>5. \A j \in 0 .. NDims : j \in S
  BY <1>3, <1>4, DimsAre, UpTo
<1> SUFFICES ASSUME NEW d \in 0 .. NDims PROVE P[d] <= P[NDims]
  OBVIOUS
<1>6. NDims - d \in S /\ NDims - (NDims - d) = d
  BY <1>2, <1>5
<1> QED
  BY <1>6 DEF S

(* find_offset is the row-major offset in a box whose elements an int can  *)
(* count.                                                                  *)
LEMMA FindOffsetExact ==
  ASSUME NEW c \in Index, NEW x, Within(x, c), Elements(c) <= IntWord \div 2
  PROVE  find_offset(c, x) = RowMajor(c, x)
<1> DEFINE offset[d \in 0 .. NDims] ==
             IF d = 0 THEN 0 ELSE ToInt(x[d] + c[d] * offset[d - 1])
<1>1. x \in Index /\ \A d \in Dims : c[d] > 0
  BY DEF Within, Index
<1>2. PICK f : Ranks(f, c, x) /\ RowMajor(c, x) = f[NDims]
  BY <1>1, RowMajorIs
<1>3. PICK P : Products(P, c, NDims) /\ Elements(c) = P[NDims]
  BY ElementsAre
<1>4. \A d \in 0 .. NDims : f[d] < P[d] /\ P[d] <= P[NDims]
  BY <1>1, <1>2, <1>3, RankBound, ProductsRise
<1>5. /\ f \in [0 .. NDims -> Nat] /\ f[0] = 0
      /\ \A d \in 1 .. NDims : f[d] = x[d] + c[d] * f[d - 1]
      /\ P \in [0 .. NDims -> Nat]
  BY <1>2, <1>3 DEF Ranks, Products
<1>6. IntWord \div 2 \in Nat
  BY SelectionAssumption
<1>7. \A d \in 0 .. NDims : ToInt(f[d]) = f[d]
  <2> SUFFICES ASSUME NEW d \in 0 .. NDims PROVE ToInt(f[d]) = f[d]
    OBVIOUS
  <2>1. f[d] \in Nat /\ P[d] \in Nat /\ P[NDims] \in Nat
    BY <1>5, DimsAre
  <2>2. f[d] < IntWord \div 2
    BY <1>3, <1>4, <1>6, <2>1
  <2> QED
    BY <2>1, <2>2, IntExact
<1>8. f = [d \in 0 .. NDims |-> IF d = 0 THEN 0 ELSE ToInt(x[d] + c[d] * f[d - 1])]
  <2>1. \A d \in 1 .. NDims : f[d] = ToInt(x[d] + c[d] * f[d - 1])
    BY <1>5, <1>7, DimsAre
  <2>2. \A d \in 0 .. NDims :
          f[d] = IF d = 0 THEN 0 ELSE ToInt(x[d] + c[d] * f[d - 1])
    BY <1>5, <2>1, DimsAre
  <2> QED
    BY <1>5, <2>2
<1>9. find_offset(c, x) = offset[NDims]
  BY DEF find_offset
<1>10. offset = [d \in 0 .. NDims |->
                   IF d = 0 THEN 0 ELSE ToInt(x[d] + c[d] * offset[d - 1])]
  BY <1>8, Zenon DEF offset
<1> HIDE DEF offset
<1>11. \A d \in 1 .. NDims : f[d - 1] = offset[d - 1] => f[d] = offset[d]
  BY <1>8, <1>10, DimsAre
<1>12. f[0] = offset[0]
  BY <1>8, <1>10, DimsAre
<1>13. f[NDims] = offset[NDims]
  <2>1. NDims \in Nat /\ NDims \in 0 .. NDims
    BY DimsAre
  <2>2. \A d \in 0 .. NDims : f[d] = offset[d]
    BY ONLY <1>11, <1>12, <2>1, Alike
  <2> QED
    BY ONLY <2>1, <2>2
<1> QED
  BY <1>2, <1>9, <1>13

(* The first place has offset 0.                                           *)
LEMMA ZeroFirst ==
  ASSUME NEW c, Positive(c)
  PROVE  Within(Zero, c) /\ RowMajor(c, Zero) = 0
<1>1. c \in Index /\ \A d \in Dims : c[d] > 0
  BY DEF Positive
<1>2. Zero \in Index /\ \A d \in 1 .. NDims : Zero[d] = 0 /\ c[d] \in Nat
  BY <1>1, DimsAre DEF Zero, Index
<1>3. Within(Zero, c)
  BY <1>1, <1>2, DimsAre DEF Within
<1>4. PICK f : Ranks(f, c, Zero) /\ RowMajor(c, Zero) = f[NDims]
  BY <1>1, <1>2, RowMajorIs
<1>5. f[0] = 0 /\ \A d \in 1 .. NDims : f[d] = Zero[d] + c[d] * f[d - 1]
  BY <1>4 DEF Ranks
<1> DEFINE S == {d \in 0 .. NDims : f[d] = 0}
<1>6. 0 \in S
  BY <1>5, DimsAre
<1>7. ASSUME NEW d \in 1 .. NDims, d - 1 \in S PROVE d \in S
  <2>1. f[d] = 0 + c[d] * 0 /\ c[d] \in Nat
    BY <1>2, <1>5, <1>7
  <2> QED
    BY <2>1, DimsAre
<1> HIDE DEF S
<1>8. NDims \in S
  BY <1>6, <1>7, DimsAre, UpTo
<1> QED
  BY <1>3, <1>4, <1>8 DEF S

(* Every offset is that of a place.                                        *)
LEMMA PlaceExists ==
  ASSUME NEW c, Positive(c), NEW k \in Nat, k < Elements(c)
  PROVE  \E x : Within(x, c) /\ RowMajor(c, x) = k
<1>1. c \in Index
  BY DEF Positive
<1>2. Elements(c) \in Nat \ {0}
  BY ElementsPositive
<1> DEFINE S == {i \in 0 .. k : \E x : Within(x, c) /\ RowMajor(c, x) = i}
<1>3. 0 \in S
  BY ZeroFirst
<1>4. ASSUME NEW i \in 1 .. k, i - 1 \in S PROVE i \in S
  <2>1. PICK x : Within(x, c) /\ RowMajor(c, x) = i - 1
    BY <1>4
  <2>2. PICK inc : inc = increment_index(c, x)
    OBVIOUS
  <2>3. inc.more
    <3>1. ~(i - 1 = Elements(c) - 1)
      BY <1>2
    <3>2. /\ inc.more \in BOOLEAN
          /\ ~inc.more => RowMajor(c, x) = Elements(c) - 1
      BY <1>1, <2>1, <2>2, IncrementIndex
    <3> QED
      BY <2>1, <3>1, <3>2
  <2>4. Advanced(c, x, inc.index)
    BY <1>1, <2>1, <2>2, <2>3, IncrementIndex
  <2>5. Within(inc.index, c) /\ RowMajor(c, inc.index) = (i - 1) + 1
    BY <2>1, <2>4 DEF Advanced
  <2> QED
    BY <2>5
<1> HIDE DEF S
<1>5. k \in S
  BY <1>3, <1>4, UpTo
<1> QED
  BY <1>5 DEF S

(* And of no other.                                                        *)
LEMMA OnePlace ==
  ASSUME NEW c \in Index, NEW x, Within(x, c), NEW y, Within(y, c),
         RowMajor(c, x) = RowMajor(c, y)
  PROVE  x = y
<1>1. PICK b : b = [offset |-> c, count |-> c]
  OBVIOUS
<1>2. b \in [offset : Index, count : Index] /\ b.count = c
  BY <1>1
<1>3. /\ \A d \in Dims : ElementAt(b, RowMajor(c, x))[d] = b.offset[d] + x[d]
      /\ \A d \in Dims : ElementAt(b, RowMajor(c, y))[d] = b.offset[d] + y[d]
  BY <1>2, Unrank
<1>4. x \in [Dims -> Nat] /\ y \in [Dims -> Nat] /\ \A d \in Dims : b.offset[d] \in Nat
  BY <1>1 DEF Within, Index
<1>5. \A d \in Dims : x[d] = y[d]
  <2> SUFFICES ASSUME NEW d \in Dims PROVE x[d] = y[d]
    OBVIOUS
  <2>1. b.offset[d] + x[d] = b.offset[d] + y[d]
    BY <1>3
  <2> QED
    BY <1>4, <2>1
<1> QED
  BY <1>4, <1>5

(* A box inside the array has no more elements than the array.             *)
LEMMA ElementsFit ==
  ASSUME NEW c \in Index, \A d \in Dims : c[d] <= GlobalDims[d]
  PROVE  Elements(c) <= MaxElements /\ MaxElements \in Nat \ {0}
<1>1. Positive(GlobalDims) /\ GlobalDims \in Index
  BY SelectionAssumption DEF Positive, Index
<1>2. MaxElements \in Nat \ {0}
  BY <1>1, ElementsPositive DEF MaxElements
<1>3. PICK P : Products(P, c, NDims) /\ Elements(c) = P[NDims]
  BY ElementsAre
<1>4. PICK G : Products(G, GlobalDims, NDims) /\ MaxElements = G[NDims]
  BY <1>1, ElementsAre DEF MaxElements
<1>5. /\ P \in [0 .. NDims -> Nat] /\ P[0] = 1
      /\ \A d \in 1 .. NDims : P[d] = P[d - 1] * c[d]
      /\ G \in [0 .. NDims -> Nat] /\ G[0] = 1
      /\ \A d \in 1 .. NDims : G[d] = G[d - 1] * GlobalDims[d]
  BY <1>3, <1>4 DEF Products
<1> DEFINE S == {d \in 0 .. NDims : P[d] <= G[d]}
<1>6. 0 \in S
  BY <1>5, DimsAre
<1>7. ASSUME NEW d \in 1 .. NDims, d - 1 \in S PROVE d \in S
  <2>1. PICK a, b, u, v : a = P[d - 1] /\ b = c[d] /\ u = G[d - 1] /\ v = GlobalDims[d]
    OBVIOUS
  <2>2. a \in Nat /\ b \in Nat /\ u \in Nat /\ v \in Nat /\ a <= u /\ b <= v
    <3>1. c[d] \in Nat /\ GlobalDims[d] \in Nat
      BY <1>1, DimsAre DEF Index
    <3> QED
      BY <1>5, <1>7, <2>1, <3>1, DimsAre
  <2>3. PICK p, q \in Nat : u = a + p /\ v = b + q
    <3>1. u - a \in Nat /\ v - b \in Nat /\ u = a + (u - a) /\ v = b + (v - b)
      BY ONLY <2>2
    <3> QED
      BY <3>1
  <2>4. u * v = a * b + (a * q + p * b + p * q)
    BY ONLY <2>2, <2>3
  <2>5. a * b \in Nat /\ a * q \in Nat /\ p * b \in Nat /\ p * q \in Nat
    BY ONLY <2>2, <2>3
  <2>6. a * b <= u * v
    BY ONLY <2>4, <2>5
  <2>7. P[d] = a * b /\ G[d] = u * v
    BY <1>5, <2>1
  <2> QED
    BY <2>6, <2>7, DimsAre
<1> HIDE DEF S
<1>8. NDims \in S
  BY <1>6, <1>7, DimsAre, UpTo
<1>9. P[NDims] <= G[NDims]
  BY <1>8 DEF S
<1> QED
  BY <1>2, <1>3, <1>4, <1>9

(* What increment_index returns for any index.                             *)
LEMMA IncrementType ==
  ASSUME NEW c, NEW x \in Index
  PROVE  increment_index(c, x) \in [more : BOOLEAN, index : Index]
<1>1. PICK free : free = {d \in Dims : x[d] + 1 < c[d]}
  OBVIOUS
<1>2. PICK m : m = Max(free)
  OBVIOUS
<1>3. PICK y : y = [d \in Dims |-> IF d < m THEN x[d] ELSE IF d = m THEN x[d] + 1 ELSE 0]
  OBVIOUS
<1>4. \/ increment_index(c, x) = [more |-> FALSE, index |-> Zero]
      \/ increment_index(c, x) = [more |-> TRUE, index |-> y]
  BY <1>1, <1>2, <1>3 DEF increment_index
<1>5. Zero \in Index
  BY DEF Zero, Index
<1>6. y \in Index
  <2>1. ASSUME NEW d \in Dims
        PROVE  (IF d < m THEN x[d] ELSE IF d = m THEN x[d] + 1 ELSE 0) \in Nat
    <3>1. x[d] \in Nat
      BY DEF Index
    <3>2. x[d] + 1 \in Nat
      BY <3>1
    <3> QED
      BY <3>1, <3>2
  <2> QED
    BY <1>3, <2>1 DEF Index
<1>7. /\ [more |-> FALSE, index |-> Zero] \in [more : BOOLEAN, index : Index]
      /\ [more |-> TRUE, index |-> y] \in [more : BOOLEAN, index : Index]
  BY <1>5, <1>6
<1> QED
  BY ONLY <1>4, <1>7

(* The loop over the array of writer w, as its recursion says.             *)
WalkIs(at, c) ==
  /\ at[0] = [more |-> TRUE, index |-> Zero]
  /\ \A k \in 1 .. MaxElements : at[k] = increment_index(c, at[k - 1].index)

(* PartialIndex is that recursion.                                         *)
LEMMA PartialIndexIs ==
  ASSUME NEW w
  PROVE  WalkIs(PartialIndex(w), layout[w].count)
<1> DEFINE at[k \in 0 .. MaxElements] ==
             IF k = 0 THEN [more |-> TRUE, index |-> Zero]
             ELSE increment_index(layout[w].count, at[k - 1].index)
           V == [more : BOOLEAN, index : Index]
           g == [k \in 1 .. MaxElements |->
                   [y \in V |-> increment_index(layout[w].count, y.index)]]
<1>1. MaxElements \in Nat
  BY SelectionAssumption, ElementsPositive DEF MaxElements, Positive, Index
<1>2. [more |-> TRUE, index |-> Zero] \in V
  BY DEF Zero, Index
<1>3. \A k \in 1 .. MaxElements : \A y \in V :
        g[k][y] = increment_index(layout[w].count, y.index) /\ g[k][y] \in V
  <2> SUFFICES ASSUME NEW k \in 1 .. MaxElements, NEW y \in V
               PROVE  g[k][y] = increment_index(layout[w].count, y.index) /\ g[k][y] \in V
    OBVIOUS
  <2>1. y.index \in Index
    OBVIOUS
  <2>2. increment_index(layout[w].count, y.index) \in V
    BY <2>1, IncrementType
  <2> QED
    BY <2>2
<1> HIDE DEF g, V
<1>4. PICK f : Built(f, V, [more |-> TRUE, index |-> Zero], g, MaxElements)
  BY <1>1, <1>2, <1>3, BuiltExists
<1>5. /\ f \in [0 .. MaxElements -> V] /\ f[0] = [more |-> TRUE, index |-> Zero]
      /\ \A k \in 1 .. MaxElements : f[k] = g[k][f[k - 1]]
  BY <1>4 DEF Built
<1>6. \A k \in 1 .. MaxElements : k - 1 \in 0 .. MaxElements /\ k \in 0 .. MaxElements /\ k # 0
  BY <1>1
<1>7. \A k \in 1 .. MaxElements : f[k] = increment_index(layout[w].count, f[k - 1].index)
  BY <1>3, <1>5, <1>6
<1>8. \A k \in 0 .. MaxElements : k # 0 => k \in 1 .. MaxElements
  BY <1>1
<1>9. f = [k \in 0 .. MaxElements |->
             IF k = 0 THEN [more |-> TRUE, index |-> Zero]
             ELSE increment_index(layout[w].count, f[k - 1].index)]
  BY <1>5, <1>7, <1>8
<1>10. PartialIndex(w) = at
  BY DEF PartialIndex
<1>11. at = [k \in 0 .. MaxElements |->
               IF k = 0 THEN [more |-> TRUE, index |-> Zero]
               ELSE increment_index(layout[w].count, at[k - 1].index)]
  BY <1>9, Zenon DEF at
<1> HIDE DEF at
<1>12. 0 \in 0 .. MaxElements
  BY <1>1
<1>13. at[0] = [more |-> TRUE, index |-> Zero]
  BY <1>11, <1>12
<1>14. \A k \in 1 .. MaxElements : at[k] = increment_index(layout[w].count, at[k - 1].index)
  BY <1>11, <1>6
<1> QED
  BY <1>10, <1>13, <1>14 DEF WalkIs

(* The loop meets the k-th element of the array in its k-th round, and     *)
(* ends behind the last.                                                   *)
Round(y, c, k) == y.more /\ Within(y.index, c) /\ RowMajor(c, y.index) = k

(* Every element is met, in the order in which the array is stored.        *)
LEMMA WalkMeetsAll ==
  ASSUME NEW c, Positive(c), Elements(c) <= MaxElements, MaxElements \in Nat,
         NEW at, WalkIs(at, c)
  PROVE  /\ \A k \in 0 .. Elements(c) - 1 : Round(at[k], c, k)
         /\ ~at[Elements(c)].more
<1>1. /\ at[0] = [more |-> TRUE, index |-> Zero]
      /\ \A k \in 1 .. MaxElements : at[k] = increment_index(c, at[k - 1].index)
  BY DEF WalkIs
<1>2. Elements(c) \in Nat \ {0} /\ c \in Index
  BY ElementsPositive DEF Positive
<1>3. PICK n : n = Elements(c) - 1
  OBVIOUS
<1>4. n \in Nat /\ n + 1 = Elements(c) /\ n + 1 \in 1 .. MaxElements
  BY <1>2, <1>3
<1> DEFINE S == {k \in 0 .. n : Round(at[k], c, k)}
<1>5. 0 \in S
  BY <1>1, <1>4, ZeroFirst DEF Round
<1>6. ASSUME NEW k \in 1 .. n, k - 1 \in S PROVE k \in S
  <2>1. PICK x : x = at[k - 1].index
    OBVIOUS
  <2>2. Within(x, c) /\ RowMajor(c, x) = k - 1
    BY <1>6, <2>1 DEF Round
  <2>3. k \in 1 .. MaxElements /\ ~(k - 1 = Elements(c) - 1) /\ (k - 1) + 1 = k
    BY <1>4
  <2>4. PICK inc : inc = increment_index(c, x)
    OBVIOUS
  <2>5. at[k] = inc
    BY <1>1, <2>1, <2>3, <2>4
  <2>6. /\ inc.more \in BOOLEAN
        /\ inc.more => Advanced(c, x, inc.index)
        /\ ~inc.more => RowMajor(c, x) = Elements(c) - 1
    BY <1>2, <2>2, <2>4, IncrementIndex
  <2>7. inc.more /\ Within(inc.index, c) /\ RowMajor(c, inc.index) = (k - 1) + 1
    BY <2>2, <2>3, <2>6 DEF Advanced
  <2> QED
    BY <2>3, <2>5, <2>7 DEF Round
<1> HIDE DEF S
<1>7. \A k \in 0 .. n : k \in S
  BY <1>4, <1>5, <1>6, UpTo
<1>8. \A k \in 0 .. n : Round(at[k], c, k)
  BY <1>7 DEF S
<1>9. ~at[n + 1].more
  <2>1. PICK x : x = at[n].index
    OBVIOUS
  <2>2. Within(x, c) /\ RowMajor(c, x) = n
    BY <1>4, <1>8, <2>1 DEF Round
  <2>3. PICK inc : inc = increment_index(c, x)
    OBVIOUS
  <2>4. at[n + 1] = inc
    <3>1. (n + 1) - 1 = n
      BY <1>4
    <3> QED
      BY <1>1, <1>4, <2>1, <2>3, <3>1
  <2>5. /\ inc.more \in BOOLEAN
        /\ inc.more => Advanced(c, x, inc.index)
    BY <1>2, <2>2, <2>3, IncrementIndex
  <2>6. CASE inc.more
    <3>1. Within(inc.index, c) /\ RowMajor(c, inc.index) = n + 1
      BY <2>2, <2>5, <2>6 DEF Advanced
    <3>2. RowMajor(c, inc.index) < Elements(c)
      BY <1>2, <3>1, OffsetInBox
    <3> QED
      BY <1>2, <1>4, <3>1, <3>2
  <2> QED
    BY <2>4, <2>6
<1> QED
  BY <1>3, <1>4, <1>8, <1>9

-----------------------------------------------------------------------------
(* What raw_handler copies.                                                *)

(* The array of writer w is not empty and lies in the global array.        *)
Held(w) ==
  /\ layout[w] \in [offset : Index, count : Index]
  /\ Positive(layout[w].count)
  /\ Elements(layout[w].count) <= MaxElements
  /\ MaxElements \in Nat

(* The loop gets to every element of the array and no further.             *)
LEMMA WalkedIs ==
  ASSUME NEW w, Held(w)
  PROVE  Walked(w) = 0 .. Elements(layout[w].count) - 1
<1>1. PICK c : c = layout[w].count
  OBVIOUS
<1>2. PICK at : at = PartialIndex(w)
  OBVIOUS
<1>3. /\ Positive(c) /\ Elements(c) <= MaxElements /\ MaxElements \in Nat
      /\ WalkIs(at, c)
  BY <1>1, <1>2, PartialIndexIs DEF Held
<1>4. PICK n : n = Elements(c)
  OBVIOUS
<1>5. n \in Nat \ {0} /\ n <= MaxElements /\ MaxElements \in Nat
  BY <1>3, <1>4, ElementsPositive
<1>6. (\A k \in 0 .. n - 1 : at[k].more) /\ ~at[n].more
  BY ONLY <1>3, <1>4, WalkMeetsAll DEF Round
<1>7. Walked(w) = {k \in 0 .. MaxElements : \A j \in 0 .. k : at[j].more}
  BY <1>2 DEF Walked
<1>8. ASSUME NEW k \in 0 .. MaxElements, \A j \in 0 .. k : at[j].more
      PROVE  k \in 0 .. n - 1
  <2>1. ~(n \in 0 .. k)
    BY <1>6, <1>8
  <2> QED
    BY <1>5, <2>1
<1>9. ASSUME NEW k \in 0 .. n - 1
      PROVE  k \in 0 .. MaxElements /\ \A j \in 0 .. k : at[j].more
  <2>1. k \in 0 .. MaxElements /\ \A j \in 0 .. k : j \in 0 .. n - 1
    BY <1>5
  <2> QED
    BY <1>6, <2>1
<1> QED
  BY <1>1, <1>4, <1>7, <1>8, <1>9

(* Element k of the array of writer w is at a place of the global array.   *)
(* Its place in the selection s has an offset, in elements and in bytes.   *)
GlobalPlace(w, k) ==
  map_local_to_global_index(PartialIndex(w)[k].index, layout[w].offset)
Copied(w, s, k) == k \in Walked(w) /\ index_in_selection(GlobalPlace(w, k), s)
OffsetTo(w, s, k) ==
  find_offset(s.count, map_global_to_local_index(GlobalPlace(w, k), s.start))
CopiedTo(w, s, wraps, k) ==
  IF wraps THEN ToInt(OffsetTo(w, s, k) * ElementSize) ELSE OffsetTo(w, s, k) * ElementSize

(* The place in the global array of offset o in the selection s.           *)
SelPlace(s, o) == ElementAt([offset |-> s.start, count |-> s.count], o)

(* A selection that is a box and not empty.                                *)
SelBox(s) == s.start \in Index /\ Positive(s.count)

(* An int holds the offset in bytes of every element of the selection.     *)
InMemory(s) == Elements(s.count) * ElementSize <= IntWord \div 2

(* Then there are no more elements than an int can count, and the product  *)
(* of an offset and the size of an element does not overflow.              *)
LEMMA BytesExact ==
  ASSUME NEW s, SelBox(s), InMemory(s)
  PROVE  /\ Elements(s.count) <= IntWord \div 2
         /\ \A o \in Nat : o < Elements(s.count) =>
               o * ElementSize \in Nat /\ ToInt(o * ElementSize) = o * ElementSize
<1>1. PICK e, z, h : e = Elements(s.count) /\ z = ElementSize /\ h = IntWord \div 2
  OBVIOUS
<1>2. /\ e \in Nat /\ z \in Nat /\ z > 0 /\ h \in Nat /\ e * z <= h
  <2>1. e \in Nat
    BY <1>1, ElementsPositive DEF SelBox
  <2>2. IntWord \in Nat /\ ElementSize \in Nat \ {0}
    BY SelectionAssumption
  <2>3. h \in Nat
    BY ONLY <1>1, <2>2
  <2> QED
    BY <1>1, <2>1, <2>2, <2>3 DEF InMemory
<1>3. \A a, b, y \in Nat : y > 0 /\ a < b => a * y \in Nat /\ a * y < b * y
  <2> SUFFICES ASSUME NEW a \in Nat, NEW b \in Nat, NEW y \in Nat, y > 0, a < b
               PROVE  a * y \in Nat /\ a * y < b * y
    OBVIOUS
  <2>1. PICK q \in Nat : b = a + 1 + q
    <3>1. b - (a + 1) \in Nat /\ b = a + 1 + (b - (a + 1))
      OBVIOUS
    <3> QED
      BY <3>1
  <2>2. b * y = a * y + y + q * y /\ q * y \in Nat /\ a * y \in Nat
    BY <2>1
  <2> QED
    BY <2>2
<1>4. \A a, y \in Nat : y > 0 => a <= a * y /\ a * y \in Nat
  <2> SUFFICES ASSUME NEW a \in Nat, NEW y \in Nat, y > 0
               PROVE  a <= a * y /\ a * y \in Nat
    OBVIOUS
  <2>1. PICK q \in Nat : y = q + 1
    <3>1. y - 1 \in Nat /\ y = (y - 1) + 1
      OBVIOUS
    <3> QED
      BY <3>1
  <2>2. a * y = a * q + a /\ a * q \in Nat
    BY <2>1
  <2> QED
    BY <2>2
<1>5. e <= e * z /\ e * z \in Nat
  BY ONLY <1>2, <1>4
<1>6. e <= h
  BY ONLY <1>2, <1>5
<1>7. ASSUME NEW o \in Nat, o < e
      PROVE  o * z \in Nat /\ ToInt(o * z) = o * z
  <2>1. o * z \in Nat /\ o * z < e * z
    BY ONLY <1>2, <1>3, <1>7
  <2>2. PICK b : b = o * z
    OBVIOUS
  <2>3. b \in Nat /\ b < h
    BY ONLY <1>2, <1>5, <2>1, <2>2
  <2>4. ToInt(b) = b
    BY <1>1, <2>3, IntExact
  <2> QED
    BY <2>1, <2>2, <2>4
<1> QED
  BY <1>1, <1>6, <1>7

(* So an element is copied to its row-major offset and to no other.        *)
LEMMA CopiedToIs ==
  ASSUME NEW s, SelBox(s), InMemory(s), NEW w, NEW k, NEW y, Within(y, s.count),
         y = map_global_to_local_index(GlobalPlace(w, k), s.start),
         NEW wraps \in BOOLEAN, NEW o \in Nat
  PROVE  CopiedTo(w, s, wraps, k) = o * ElementSize <=> o = RowMajor(s.count, y)
<1>1. PICK q : q = RowMajor(s.count, y)
  OBVIOUS
<1>2. s.count \in Index
  BY DEF SelBox, Positive
<1>3. q \in Nat /\ q < Elements(s.count)
  BY <1>1, <1>2, OffsetInBox
<1>4. OffsetTo(w, s, k) = q
  <2>1. Elements(s.count) <= IntWord \div 2
    BY BytesExact
  <2> QED
    BY <1>1, <1>2, <2>1, FindOffsetExact DEF OffsetTo
<1>5. ToInt(q * ElementSize) = q * ElementSize
  BY <1>3, BytesExact
<1>6. CopiedTo(w, s, wraps, k) = q * ElementSize
  BY <1>4, <1>5 DEF CopiedTo
<1>7. \A a, b, z \in Nat : z > 0 /\ a * z = b * z => a = b
  <2>1. \A a, b, z \in Nat : z > 0 /\ a < b => a * z < b * z
    <3> SUFFICES ASSUME NEW a \in Nat, NEW b \in Nat, NEW z \in Nat, z > 0, a < b
                 PROVE  a * z < b * z
      OBVIOUS
    <3>1. PICK d \in Nat : b = a + 1 + d
      <4>1. b - (a + 1) \in Nat /\ b = a + 1 + (b - (a + 1))
        OBVIOUS
      <4> QED
        BY <4>1
    <3>2. b * z = a * z + z + d * z /\ d * z \in Nat /\ a * z \in Nat
      BY <3>1
    <3> QED
      BY <3>2
  <2> SUFFICES ASSUME NEW a \in Nat, NEW b \in Nat, NEW z \in Nat,
                      z > 0, a * z = b * z, a # b
               PROVE  FALSE
    OBVIOUS
  <2>2. PICK u, v : u = a * z /\ v = b * z
    OBVIOUS
  <2>3. u \in Nat /\ v \in Nat /\ u = v
    BY ONLY <2>2, a \in Nat, b \in Nat, z \in Nat, a * z = b * z
  <2>4. a < b \/ b < a
    OBVIOUS
  <2>5. u < v \/ v < u
    BY <2>1, <2>2, <2>4
  <2> QED
    BY ONLY <2>3, <2>5
<1>8. ElementSize \in Nat /\ ElementSize > 0
  BY SelectionAssumption
<1>9. q * ElementSize = o * ElementSize <=> o = q
  BY ONLY <1>3, <1>7, <1>8, o \in Nat
<1> QED
  BY <1>1, <1>6, <1>9

(* An element at a place in the selection.                                 *)
LEMMA PlaceInSelection ==
  ASSUME NEW s, SelBox(s), NEW y, Within(y, s.count), NEW o,
         o = RowMajor(s.count, y), NEW p, p = SelPlace(s, o)
  PROVE  /\ p \in Index /\ o \in Nat /\ o < Elements(s.count)
         /\ \A d \in Dims : /\ p[d] = s.start[d] + y[d]
                            /\ y[d] \in Nat /\ s.start[d] \in Nat
                            /\ s.count[d] \in Nat /\ y[d] < s.count[d]
<1>1. PICK b : b = [offset |-> s.start, count |-> s.count]
  OBVIOUS
<1>2. /\ b \in [offset : Index, count : Index]
      /\ b.count = s.count /\ b.offset = s.start
  BY <1>1 DEF SelBox, Positive
<1>3. \A d \in Dims : ElementAt(b, RowMajor(b.count, y))[d] = b.offset[d] + y[d]
  BY <1>2, Unrank
<1>4. p = ElementAt(b, RowMajor(b.count, y))
  BY <1>1, <1>2 DEF SelPlace
<1>5. \A d \in Dims : /\ p[d] = s.start[d] + y[d]
                      /\ y[d] \in Nat /\ s.start[d] \in Nat
                      /\ s.count[d] \in Nat /\ y[d] < s.count[d]
  BY <1>2, <1>3, <1>4 DEF Within, Index, SelBox, Positive
<1>6. p = [d \in Dims |-> p[d]]
  BY <1>4 DEF ElementAt
<1>7. p \in Index
  BY <1>5, <1>6 DEF Index
<1>8. o \in Nat /\ o < Elements(s.count)
  BY OffsetInBox DEF SelBox, Positive
<1> QED
  BY <1>5, <1>7, <1>8

(* Every element that is copied belongs where it is copied to.             *)
RightPlace(w, s, k, o) ==
  /\ o \in Nat /\ o < Elements(s.count)
  /\ InBox(SelPlace(s, o), layout[w].offset, layout[w].count)
  /\ Data(w, k) = Element(w, SelPlace(s, o))

(* In row-major order find_offset and ElementAt undo each other.           *)
LEMMA CopiedRight ==
  ASSUME NEW w, Held(w), NEW s, SelBox(s), InMemory(s), NEW k, Copied(w, s, k),
         NEW wraps \in BOOLEAN, NEW o \in Nat,
         CopiedTo(w, s, wraps, k) = o * ElementSize
  PROVE  RightPlace(w, s, k, o)
<1>1. PICK c, off : c = layout[w].count /\ off = layout[w].offset
  OBVIOUS
<1>2. c \in Index /\ off \in Index /\ layout[w] \in [offset : Index, count : Index]
  BY <1>1 DEF Held
<1>3. k \in 0 .. Elements(c) - 1 /\ Elements(c) \in Nat \ {0}
  BY <1>1, WalkedIs, ElementsPositive DEF Copied, Held
<1>4. PICK x : x = PartialIndex(w)[k].index
  OBVIOUS
<1>5. Within(x, c) /\ RowMajor(c, x) = k
  <2>1. PICK at : at = PartialIndex(w)
    OBVIOUS
  <2>2. WalkIs(at, c)
    BY <1>1, <2>1, PartialIndexIs
  <2>3. Positive(c) /\ Elements(c) <= MaxElements /\ MaxElements \in Nat
    BY <1>1 DEF Held
  <2>4. Round(at[k], c, k)
    BY ONLY <1>3, <2>2, <2>3, WalkMeetsAll
  <2> QED
    BY <1>4, <2>1, <2>4 DEF Round
<1>6. PICK g : g = GlobalPlace(w, k)
  OBVIOUS
<1>7. g = [d \in Dims |-> x[d] + off[d]]
  BY <1>1, <1>4, <1>6 DEF GlobalPlace, map_local_to_global_index
<1>8. \A d \in Dims : /\ g[d] = off[d] + x[d] /\ x[d] \in Nat /\ off[d] \in Nat
                      /\ c[d] \in Nat /\ x[d] < c[d] /\ g[d] \in Nat
  BY <1>2, <1>5, <1>7 DEF Within, Index
<1>9. InBox(g, off, c)
  BY <1>8 DEF InBox
<1>10. PICK y : y = map_global_to_local_index(g, s.start)
  OBVIOUS
<1>11. \A d \in Dims : g[d] >= s.start[d] /\ g[d] < s.start[d] + s.count[d]
  BY <1>6 DEF Copied, index_in_selection
<1>12. \A d \in Dims : s.start[d] \in Nat /\ s.count[d] \in Nat
  BY DEF SelBox, Positive, Index
<1>13. y = [d \in Dims |-> g[d] - s.start[d]]
  BY <1>10 DEF map_global_to_local_index
<1>14. \A d \in Dims : y[d] = g[d] - s.start[d] /\ y[d] \in Nat /\ y[d] < s.count[d]
  BY <1>8, <1>11, <1>12, <1>13
<1>15. Within(y, s.count)
  BY <1>13, <1>14 DEF Within, Index
<1>16. o = RowMajor(s.count, y)
  BY <1>6, <1>10, <1>15, CopiedToIs
<1>17. PICK p : p = SelPlace(s, o)
  OBVIOUS
<1>18. /\ p \in Index /\ o \in Nat /\ o < Elements(s.count)
       /\ \A d \in Dims : p[d] = s.start[d] + y[d]
  BY <1>15, <1>16, <1>17, PlaceInSelection
<1>19. p = g
  <2>1. \A d \in Dims : p[d] = g[d]
    BY <1>8, <1>12, <1>14, <1>18
  <2> QED
    BY <1>7, <1>18, <2>1 DEF Index
<1>20. Data(w, k) = Element(w, g)
  <2>1. k < Elements(c)
    BY <1>3
  <2>2. PICK q : q = ElementAt(layout[w], k)
    OBVIOUS
  <2>3. \A d \in Dims : q[d] = off[d] + x[d]
    BY <1>1, <1>2, <1>5, <2>2, Unrank
  <2>4. q = [d \in Dims |-> q[d]]
    BY <2>2 DEF ElementAt
  <2>5. q = g
    BY <1>7, <1>8, <2>3, <2>4
  <2> QED
    BY <1>1, <2>1, <2>2, <2>5 DEF Data
<1> QED
  BY <1>1, <1>9, <1>17, <1>18, <1>19, <1>20 DEF RightPlace

(* Every element of the selection that the writer has is copied.           *)
LEMMA AllCopied ==
  ASSUME NEW w, Held(w), NEW s, SelBox(s), InMemory(s),
         NEW o \in Nat, o < Elements(s.count), NEW wraps \in BOOLEAN,
         InBox(SelPlace(s, o), layout[w].offset, layout[w].count)
  PROVE  \E k : Copied(w, s, k) /\ CopiedTo(w, s, wraps, k) = o * ElementSize
<1>1. PICK c, off : c = layout[w].count /\ off = layout[w].offset
  OBVIOUS
<1>2. c \in Index /\ off \in Index /\ Positive(c)
  BY <1>1 DEF Held
<1>3. PICK y : Within(y, s.count) /\ RowMajor(s.count, y) = o
  BY PlaceExists DEF SelBox
<1>4. PICK p : p = SelPlace(s, o)
  OBVIOUS
<1>5. /\ p \in Index
      /\ \A d \in Dims : /\ p[d] = s.start[d] + y[d]
                         /\ y[d] \in Nat /\ s.start[d] \in Nat
                         /\ s.count[d] \in Nat /\ y[d] < s.count[d]
  BY <1>3, <1>4, PlaceInSelection
<1>6. \A d \in Dims : /\ p[d] \in Nat /\ off[d] \in Nat /\ c[d] \in Nat
                      /\ p[d] >= off[d] /\ p[d] < off[d] + c[d]
  BY <1>1, <1>2, <1>4, <1>5 DEF InBox, Index
<1>7. PICK x : x = [d \in Dims |-> p[d] - off[d]]
  OBVIOUS
<1>8. \A d \in Dims : x[d] = p[d] - off[d] /\ x[d] \in Nat /\ x[d] < c[d]
  BY <1>6, <1>7
<1>9. Within(x, c)
  BY <1>7, <1>8 DEF Within, Index
<1>10. PICK k : k = RowMajor(c, x)
  OBVIOUS
<1>11. k \in 0 .. Elements(c) - 1
  <2>1. k \in Nat /\ k < Elements(c) /\ Elements(c) \in Nat
    BY <1>2, <1>9, <1>10, OffsetInBox, ElementsPositive
  <2> QED
    BY <2>1
<1>12. k \in Walked(w)
  BY <1>1, <1>11, WalkedIs
<1>13. PartialIndex(w)[k].index = x
  <2>1. PICK at : at = PartialIndex(w)
    OBVIOUS
  <2>2. WalkIs(at, c)
    BY <1>1, <2>1, PartialIndexIs
  <2>3. Elements(c) <= MaxElements /\ MaxElements \in Nat
    BY <1>1 DEF Held
  <2>4. Round(at[k], c, k)
    BY ONLY <1>2, <1>11, <2>2, <2>3, WalkMeetsAll
  <2>5. PICK z : z = at[k].index
    OBVIOUS
  <2>6. Within(z, c) /\ RowMajor(c, z) = k
    BY <2>4, <2>5 DEF Round
  <2>7. z = x
    BY <1>2, <1>9, <1>10, <2>6, OnePlace
  <2> QED
    BY <2>1, <2>5, <2>7
<1>14. GlobalPlace(w, k) = p
  <2>1. GlobalPlace(w, k) = [d \in Dims |-> x[d] + off[d]]
    BY <1>1, <1>13 DEF GlobalPlace, map_local_to_global_index
  <2>2. \A d \in Dims : x[d] + off[d] = p[d]
    BY <1>6, <1>8
  <2> QED
    BY <1>5, <2>1, <2>2 DEF Index
<1>15. index_in_selection(p, s)
  BY <1>5 DEF index_in_selection
<1>16. map_global_to_local_index(p, s.start) = y
  <2>1. map_global_to_local_index(p, s.start) = [d \in Dims |-> p[d] - s.start[d]]
    BY DEF map_global_to_local_index
  <2>2. \A d \in Dims : p[d] - s.start[d] = y[d]
    BY <1>5
  <2> QED
    BY <1>3, <2>1, <2>2 DEF Within, Index
<1>17. Copied(w, s, k)
  BY <1>12, <1>14, <1>15 DEF Copied
<1>18. CopiedTo(w, s, wraps, k) = o * ElementSize
  BY <1>3, <1>14, <1>16, CopiedToIs
<1> QED
  BY <1>17, <1>18

(* Hence the copy loop copies the part of the selection that the writer    *)
(* holds, and changes nothing else, whichever way a product would wrap.    *)
Extracted(w, s, old, new) ==
  /\ DOMAIN new = DOMAIN old
  /\ \A o \in DOMAIN old :
       IF /\ o < Elements(s.count)
          /\ InBox(SelPlace(s, o), layout[w].offset, layout[w].count)
       THEN new[o] = Element(w, SelPlace(s, o)) ELSE new[o] = old[o]

(* extract_selection_from_partial does it.                                 *)
LEMMA ExtractIs ==
  ASSUME NEW w, Held(w), NEW s, SelBox(s), InMemory(s), NEW wraps \in BOOLEAN,
         NEW old, DOMAIN old \subseteq Nat,
         NEW new, new = extract_selection_from_partial(w, s, wraps, old)
  PROVE  Extracted(w, s, old, new)
<1>1. PICK C : C = {k \in Walked(w) : Copied(w, s, k)}
  OBVIOUS
<1>2. PICK to : to = [k \in C |-> CopiedTo(w, s, wraps, k)]
  OBVIOUS
<1>3. new = [o \in DOMAIN old |->
               IF {k \in C : to[k] = o * ElementSize} # {}
               THEN Data(w, Max({k \in C : to[k] = o * ElementSize})) ELSE old[o]]
  <2> DEFINE global == [k \in Walked(w) |->
               map_local_to_global_index(PartialIndex(w)[k].index, layout[w].offset)]
             copied == {k \in Walked(w) : index_in_selection(global[k], s)}
             offset(k) ==
               find_offset(s.count, map_global_to_local_index(global[k], s.start))
             to1 == [k \in copied |->
               IF wraps THEN ToInt(offset(k) * ElementSize) ELSE offset(k) * ElementSize]
  <2>1. \A k \in Walked(w) : global[k] = GlobalPlace(w, k)
    BY DEF GlobalPlace
  <2>2. new = [o \in DOMAIN old |->
                 IF {k \in copied : to1[k] = o * ElementSize} # {}
                 THEN Data(w, Max({k \in copied : to1[k] = o * ElementSize}))
                 ELSE old[o]]
    BY DEF extract_selection_from_partial
  <2> HIDE DEF global
  <2>3. copied = C
    BY <1>1, <2>1 DEF Copied
  <2>4. \A k \in C : k \in Walked(w)
    BY <1>1
  <2>5. to1 = to
    BY <1>2, <2>1, <2>3, <2>4 DEF CopiedTo, OffsetTo
  <2> HIDE DEF copied, to1
  <2> QED
    BY <2>2, <2>3, <2>5
<1>4. ASSUME NEW o \in DOMAIN old, NEW k \in C, to[k] = o * ElementSize
      PROVE  RightPlace(w, s, k, o)
  <2>1. Copied(w, s, k) /\ CopiedTo(w, s, wraps, k) = o * ElementSize
    BY <1>1, <1>2, <1>4
  <2> QED
    BY <2>1, CopiedRight
<1>5. C \subseteq 0 .. Elements(layout[w].count) - 1
  BY <1>1, WalkedIs
<1>6. ASSUME NEW T \in SUBSET C, T # {} PROVE Max(T) \in T
  <2>1. PICK n : n = Elements(layout[w].count) - 1
    OBVIOUS
  <2>2. n \in Nat /\ T \subseteq 0 .. n
    BY <1>5, <2>1, ElementsPositive DEF Held
  <2> DEFINE U == {n - k : k \in T}
  <2>3. U \in SUBSET Nat /\ U # {}
    <3>1. \A i \in 0 .. n : n - i \in Nat
      BY <2>2
    <3>2. \A i \in T : n - i \in Nat
      BY <2>2, <3>1
    <3> QED
      BY <1>6, <3>2
  <2>4. PICK m \in U : \A i \in U : m <= i
    BY <2>3, LeastNumber
  <2>5. PICK x \in T : m = n - x
    BY <2>4
  <2>6. \A y \in T : x >= y
    <3> SUFFICES ASSUME NEW y \in T PROVE x >= y
      OBVIOUS
    <3>1. n - x <= n - y
      BY <2>4, <2>5
    <3> QED
      BY <2>2, <3>1
  <2>7. \E z \in T : \A y \in T : z >= y
    BY <2>6
  <2> QED
    BY <2>7, Zenon DEF Max
<1>7. ASSUME NEW o \in DOMAIN old
      PROVE  IF /\ o < Elements(s.count)
                /\ InBox(SelPlace(s, o), layout[w].offset, layout[w].count)
             THEN new[o] = Element(w, SelPlace(s, o)) ELSE new[o] = old[o]
  <2>1. CASE \E k \in C : to[k] = o * ElementSize
    <3>1. PICK T : T = {k \in C : to[k] = o * ElementSize}
      OBVIOUS
    <3>2. PICK k : k = Max(T)
      OBVIOUS
    <3>3. k \in C /\ to[k] = o * ElementSize
      <4>1. T # {} /\ T \in SUBSET C
        BY <2>1, <3>1
      <4>2. k \in T
        BY <1>6, <3>2, <4>1
      <4> QED
        BY <3>1, <4>2
    <3>4. RightPlace(w, s, k, o)
      BY <1>4, <3>3
    <3>5. new[o] = Data(w, k)
      BY <1>3, <2>1, <3>1, <3>2
    <3> QED
      BY <3>4, <3>5 DEF RightPlace
  <2>2. CASE ~\E k \in C : to[k] = o * ElementSize
    <3>1. new[o] = old[o]
      BY <1>3, <2>2
    <3>2. ~(/\ o < Elements(s.count)
            /\ InBox(SelPlace(s, o), layout[w].offset, layout[w].count))
      <4> SUFFICES ASSUME o < Elements(s.count),
                          InBox(SelPlace(s, o), layout[w].offset, layout[w].count)
                   PROVE  FALSE
        OBVIOUS
      <4>1. PICK k : Copied(w, s, k) /\ CopiedTo(w, s, wraps, k) = o * ElementSize
        BY AllCopied
      <4>2. k \in C /\ to[k] = o * ElementSize
        BY <1>1, <1>2, <4>1 DEF Copied
      <4> QED
        BY <2>2, <4>2
    <3> QED
      BY <3>1, <3>2
  <2> QED
    BY <2>1, <2>2
<1>8. DOMAIN new = DOMAIN old
  BY <1>3
<1> QED
  BY <1>7, <1>8 DEF Extracted

-----------------------------------------------------------------------------
(* A round of reads.                                                       *)

(* Writer w is among those to be asked.                                    *)
AskedIn(w, S) == \E i \in 1 .. Len(S) : S[i] = w

(* send_var_message puts every writer it is called with on the list.       *)
LEMMA SendeesAdded ==
  ASSUME sendees \in Seq(Nat), NEW ws, ws \subseteq 0 .. NumBridges, AddSendees(ws)
  PROVE  /\ sendees' \in Seq(Nat)
         /\ \A w \in ws : AskedIn(w, sendees')
<1>1. PICK asked : asked = {sendees[i] : i \in 1 .. Len(sendees)}
  OBVIOUS
<1>2. PICK N : N = NumBridges + 1
  OBVIOUS
<1>3. N \in Nat /\ N \in 0 .. N /\ \A d \in 1 .. N : d - 1 \in Nat /\ d - 1 \in 0 .. N
  BY <1>2, SelectionAssumption
<1> DEFINE add[n \in 0 .. N] ==
             IF n = 0 THEN sendees
             ELSE IF n - 1 \in ws \ asked THEN Append(add[n - 1], n - 1) ELSE add[n - 1]
           g == [n \in 1 .. N |-> [q \in Seq(Nat) |->
                   IF n - 1 \in ws \ asked THEN Append(q, n - 1) ELSE q]]
<1>4. \A n \in 1 .. N : \A q \in Seq(Nat) :
        /\ g[n][q] = IF n - 1 \in ws \ asked THEN Append(q, n - 1) ELSE q
        /\ g[n][q] \in Seq(Nat)
  <2> SUFFICES ASSUME NEW n \in 1 .. N, NEW q \in Seq(Nat)
               PROVE  (IF n - 1 \in ws \ asked THEN Append(q, n - 1) ELSE q) \in Seq(Nat)
    OBVIOUS
  <2>1. n - 1 \in Nat
    BY <1>3
  <2>2. Append(q, n - 1) \in Seq(Nat)
    BY <2>1
  <2> QED
    BY <2>2
<1> HIDE DEF g
<1>5. PICK f : Built(f, Seq(Nat), sendees, g, N)
  BY <1>3, <1>4, BuiltExists
<1>6. /\ f \in [0 .. N -> Seq(Nat)] /\ f[0] = sendees
      /\ \A n \in 1 .. N : f[n] = g[n][f[n - 1]]
  BY <1>5 DEF Built
<1>7. \A n \in 1 .. N :
        /\ f[n - 1] \in Seq(Nat)
        /\ f[n] = IF n - 1 \in ws \ asked THEN Append(f[n - 1], n - 1) ELSE f[n - 1]
  BY <1>3, <1>4, <1>6
<1>8. f = [n \in 0 .. N |->
             IF n = 0 THEN sendees
             ELSE IF n - 1 \in ws \ asked THEN Append(f[n - 1], n - 1) ELSE f[n - 1]]
  <2>1. \A n \in 0 .. N : n # 0 => n \in 1 .. N
    BY <1>3
  <2> QED
    BY <1>6, <1>7, <2>1
<1>9. sendees' = add[N]
  BY <1>1, <1>2 DEF AddSendees
<1>10. add = [n \in 0 .. N |->
                IF n = 0 THEN sendees
                ELSE IF n - 1 \in ws \ asked THEN Append(add[n - 1], n - 1)
                ELSE add[n - 1]]
  BY <1>8, Zenon DEF add
<1> HIDE DEF add
<1>11. \A n \in 1 .. N : f[n - 1] = add[n - 1] => f[n] = add[n]
  <2>1. \A n \in 1 .. N : n \in 0 .. N /\ n # 0
    BY <1>3
  <2> QED
    BY <1>7, <1>10, <2>1
<1>12. f[0] = add[0]
  <2>1. 0 \in 0 .. N
    BY <1>3
  <2> QED
    BY <1>6, <1>10, <2>1
<1>13. f[N] = add[N]
  <2>1. \A n \in 0 .. N : f[n] = add[n]
    BY ONLY <1>3, <1>11, <1>12, Alike
  <2> QED
    BY ONLY <1>3, <2>1
<1> DEFINE Has(n, w) == (w < n \/ w \in asked) => AskedIn(w, f[n])
           S == {n \in 0 .. N : \A w \in ws : Has(n, w)}
<1>14. 0 \in S
  <2>1. \A w \in ws : w \in Nat /\ ~(w < 0)
    BY <1>2, SelectionAssumption
  <2>2. \A w \in asked : AskedIn(w, sendees)
    BY <1>1 DEF AskedIn
  <2> QED
    BY <1>3, <1>6, <2>1, <2>2
<1>15. ASSUME NEW n \in 1 .. N, n - 1 \in S PROVE n \in S
  <2> SUFFICES ASSUME NEW w \in ws, w < n \/ w \in asked PROVE AskedIn(w, f[n])
    BY <1>3
  <2>1. w \in Nat /\ n \in Nat
    BY <1>2, SelectionAssumption
  <2>2. PICK q : q = f[n - 1]
    OBVIOUS
  <2>3. /\ q \in Seq(Nat)
        /\ f[n] = IF n - 1 \in ws \ asked THEN Append(q, n - 1) ELSE q
        /\ n - 1 \in Nat
    BY <1>3, <1>7, <2>2
  <2>4. CASE w < n - 1 \/ w \in asked
    <3>1. AskedIn(w, q)
      BY <1>15, <2>2, <2>4
    <3>2. PICK i \in 1 .. Len(q) : q[i] = w
      BY <3>1 DEF AskedIn
    <3>3. i \in 1 .. Len(f[n]) /\ f[n][i] = w
      <4>1. CASE n - 1 \in ws \ asked
        <5>1. f[n] = Append(q, n - 1)
          BY <2>3, <4>1
        <5>2. i \in 1 .. Len(Append(q, n - 1)) /\ Append(q, n - 1)[i] = q[i]
          BY <2>3, <3>2
        <5> QED
          BY <3>2, <5>1, <5>2
      <4>2. CASE ~(n - 1 \in ws \ asked)
        BY <2>3, <3>2, <4>2
      <4> QED
        BY <4>1, <4>2
    <3> QED
      BY <3>3 DEF AskedIn
  <2>5. CASE w = n - 1 /\ w \notin asked
    <3>1. f[n] = Append(q, w)
      BY <2>3, <2>5
    <3>2. Len(q) + 1 \in 1 .. Len(Append(q, w)) /\ Append(q, w)[Len(q) + 1] = w
      BY <2>1, <2>3
    <3> QED
      BY <3>1, <3>2 DEF AskedIn
  <2> QED
    BY <2>1, <2>4, <2>5
<1> HIDE DEF S
<1>16. N \in S
  BY <1>3, <1>14, <1>15, UpTo
<1>17. \A w \in ws : w < N
  BY <1>2, SelectionAssumption
<1>18. \A w \in ws : AskedIn(w, f[N])
  BY <1>16, <1>17 DEF S
<1>19. f[N] \in Seq(Nat)
  BY <1>3, <1>6
<1> QED
  BY <1>9, <1>13, <1>18, <1>19

(* Writer w of layout L has the element at offset o of the selection s.    *)
Holds(L, w, s, o) ==
  /\ o < Elements(s.count)
  /\ InBox(SelPlace(s, o), L[w].offset, L[w].count)

(* The memory m of a read of the box s, with the writers S still to ask.   *)
BoxFilled(L, s, S, m) ==
  \A o \in 0 .. MaxElements :
    \/ m[o] = Untouched /\ \A w \in Bridges : Holds(L, w, s, o) => AskedIn(w, S)
    \/ \E w \in Bridges : Holds(L, w, s, o) /\ m[o] = Element(w, SelPlace(s, o))

(* The memory of a read of what writer w wrote.                            *)
BlockCopied(L, w, m) ==
  \A o \in 0 .. MaxElements :
    m[o] = IF o < Elements(L[w].count) THEN Element(w, ElementAt(L[w], o)) ELSE Untouched
BlockFilled(L, w, S, m) ==
  \/ (\A o \in 0 .. MaxElements : m[o] = Untouched) /\ AskedIn(w, S)
  \/ BlockCopied(L, w, m)

(* A read of a bounding box or of the whole array.                         *)
IsBox(r) == r.type \in {"box", "whole"}

(* The read r, the last of its round, whose memory is m.                   *)
Underway(L, r, s, S, m) ==
  \/ /\ IsBox(r)
     /\ s.type = "box" /\ s.start = Wanted(r).start /\ s.count = Wanted(r).count
     /\ BoxFilled(L, s, S, m)
  \/ /\ r.type = "block"
     /\ s.type = "block" /\ s.index = r.index
     /\ BlockFilled(L, r.index, S, m)

(* What Filled says of the read r.                                         *)
ReadFilled(L, r, m) ==
  \/ IsBox(r) /\ \A o \in 0 .. MaxElements :
       \/ /\ m[o] = Untouched
          /\ \A w \in Bridges : ~Holds(L, w, Wanted(r), o)
       \/ \E w \in Bridges : /\ Holds(L, w, Wanted(r), o)
                             /\ m[o] = Element(w, SelPlace(Wanted(r), o))
  \/ r.type = "block" /\ BlockCopied(L, r.index, m)

(* When nobody is left to ask the read is filled.                          *)
LEMMA UnderwayEnds ==
  ASSUME NEW L, NEW r, NEW s, NEW m, Underway(L, r, s, <<>>, m)
  PROVE  ReadFilled(L, r, m)
<1>1. \A w : ~AskedIn(w, <<>>)
  <2>1. 1 .. Len(<<>>) = {}
    OBVIOUS
  <2> QED
    BY <2>1 DEF AskedIn
<1>2. CASE IsBox(r) /\ s.start = Wanted(r).start /\ s.count = Wanted(r).count
           /\ BoxFilled(L, s, <<>>, m)
  <2>1. \A o : SelPlace(s, o) = SelPlace(Wanted(r), o)
    BY <1>2 DEF SelPlace
  <2>2. \A w, o : Holds(L, w, s, o) <=> Holds(L, w, Wanted(r), o)
    BY <1>2, <2>1 DEF Holds
  <2>3. \A o \in 0 .. MaxElements :
          \/ m[o] = Untouched /\ \A w \in Bridges : ~Holds(L, w, Wanted(r), o)
          \/ \E w \in Bridges : /\ Holds(L, w, Wanted(r), o)
                                /\ m[o] = Element(w, SelPlace(Wanted(r), o))
    BY ONLY <1>1, <1>2, <2>1, <2>2 DEF BoxFilled
  <2> QED
    BY <1>2, <2>3 DEF ReadFilled
<1>3. CASE r.type = "block" /\ BlockFilled(L, r.index, <<>>, m)
  BY <1>1, <1>3 DEF BlockFilled, ReadFilled
<1> QED
  BY <1>2, <1>3 DEF Underway

(* This is what Filled says.                                               *)
LEMMA FilledIs ==
  ASSUME NEW i, reads[i].type \in {"box", "whole", "block"},
         ReadFilled(layout, reads[i], mem[i])
  PROVE  Filled(i)
<1>1. PICK r, m : r = reads[i] /\ m = mem[i]
  OBVIOUS
<1>2. CASE IsBox(r)
  <2>1. \A o \in 0 .. MaxElements :
          \/ /\ m[o] = Untouched
             /\ \A w \in Bridges : ~Holds(layout, w, Wanted(r), o)
          \/ \E w \in Bridges : /\ Holds(layout, w, Wanted(r), o)
                                /\ m[o] = Element(w, SelPlace(Wanted(r), o))
    BY <1>1, <1>2 DEF ReadFilled, IsBox
  <2>2. ASSUME NEW o \in 0 .. MaxElements PROVE m[o] \in Expected(r, o)
    <3>1. PICK b : b = Wanted(r)
      OBVIOUS
    <3>2. PICK p : p = SelPlace(b, o)
      OBVIOUS
    <3>3. PICK H : H = {w \in Bridges : InBox(p, layout[w].offset, layout[w].count)}
      OBVIOUS
    <3>4. Expected(r, o) = IF o < Elements(b.count) /\ H # {}
                           THEN {Element(w, p) : w \in H} ELSE {Untouched}
      BY <3>1, <3>2, <3>3 DEF Expected, SelPlace
    <3>5. \A w : Holds(layout, w, b, o) <=>
                   o < Elements(b.count) /\ InBox(p, layout[w].offset, layout[w].count)
      BY <3>2 DEF Holds
    <3>6. CASE m[o] = Untouched /\ \A w \in Bridges : ~Holds(layout, w, b, o)
      <4>1. ~(o < Elements(b.count) /\ H # {})
        BY <3>3, <3>5, <3>6
      <4> QED
        BY <3>4, <3>6, <4>1
    <3>7. CASE \E w \in Bridges : Holds(layout, w, b, o) /\ m[o] = Element(w, p)
      <4>1. PICK w \in Bridges : Holds(layout, w, b, o) /\ m[o] = Element(w, p)
        BY <3>7
      <4>2. w \in H /\ o < Elements(b.count)
        BY <3>3, <3>5, <4>1
      <4> QED
        BY <3>4, <4>1, <4>2
    <3> QED
      BY <2>1, <3>1, <3>2, <3>6, <3>7
  <2>3. ~Refused(r) /\ r.type # "block"
    BY <1>2 DEF Refused, IsBox
  <2> QED
    BY <1>1, <2>2, <2>3 DEF Filled
<1>3. CASE r.type = "block"
  <2>1. BlockCopied(layout, r.index, m)
    BY <1>1, <1>3 DEF ReadFilled, IsBox
  <2>2. \A o \in 0 .. MaxElements :
          m[o] = IF o < Elements(layout[r.index].count) THEN Data(r.index, o) ELSE Untouched
    BY <2>1 DEF BlockCopied, Data
  <2> QED
    BY <1>1, <1>3, <2>2 DEF Filled
<1> QED
  BY <1>1, <1>2, <1>3 DEF IsBox

(* No block is empty, nor larger than the global array.                    *)
BlocksFit ==
  \A l \in Layouts, w \in Bridges, d \in Dims :
    l[w].count[d] > 0 /\ l[w].count[d] <= GlobalDims[d]

(* Then the walk over every writer's array is the one above.               *)
LEMMA EveryoneHeld ==
  ASSUME layout \in Layouts, BlocksFit, NEW w \in Bridges
  PROVE  Held(w)
<1>1. layout[w] \in [offset : Index, count : Index]
  BY SelectionAssumption
<1>3. \A d \in Dims : layout[w].count[d] > 0
  BY DEF BlocksFit
<1>4. \A d \in Dims : layout[w].count[d] <= GlobalDims[d]
  BY DEF BlocksFit
<1>5. layout[w].count \in Index
  BY <1>1
<1>6. Elements(layout[w].count) <= MaxElements /\ MaxElements \in Nat \ {0}
  BY <1>4, <1>5, ElementsFit
<1> QED
  BY <1>1, <1>3, <1>5, <1>6 DEF Held, Positive

(* A writer that holds an element of the selection is one of those that    *)
(* need_writer finds.                                                      *)
LEMMA HolderNeeded ==
  ASSUME layout \in Layouts, NEW s, FitsWord(s), NEW w \in Bridges,
         NEW o \in Nat, Holds(layout, w, s, o)
  PROVE  need_writer(w, s)
<1>1. SelBox(s)
  BY DEF FitsWord, SelBox, Positive
<1>2. PICK y : Within(y, s.count) /\ RowMajor(s.count, y) = o
  BY <1>1, PlaceExists DEF SelBox, Holds
<1>3. PICK p : p = SelPlace(s, o)
  OBVIOUS
<1>4. /\ p \in Index
      /\ \A d \in Dims : /\ p[d] = s.start[d] + y[d]
                         /\ y[d] \in Nat /\ s.start[d] \in Nat
                         /\ s.count[d] \in Nat /\ y[d] < s.count[d]
  BY <1>1, <1>2, <1>3, PlaceInSelection
<1>5. InBox(p, s.start, s.count)
  BY <1>4 DEF InBox
<1>6. InBox(p, layout[w].offset, layout[w].count)
  BY <1>3 DEF Holds
<1>7. p \in [Dims -> Nat]
  BY <1>4 DEF Index
<1> QED
  BY <1>5, <1>6, <1>7, NeedWriterComplete

(* A box that has just been scheduled: everyone who has a part is asked.   *)
LEMMA BoxStarts ==
  ASSUME layout \in Layouts, NEW s, FitsWord(s), NEW S,
         \A w \in Bridges : need_writer(w, s) => AskedIn(w, S),
         NEW m, \A o \in 0 .. MaxElements : m[o] = Untouched
  PROVE  BoxFilled(layout, s, S, m)
<1>1. \A o \in 0 .. MaxElements : o \in Nat
  OBVIOUS
<1> QED
  BY <1>1, HolderNeeded DEF BoxFilled

(* Of the writers to ask, those behind the first are still to be asked.    *)
LEMMA StillAsked ==
  ASSUME NEW S \in Seq(Nat), S # <<>>, NEW v, v # Head(S), AskedIn(v, S)
  PROVE  AskedIn(v, Tail(S))
<1>1. PICK i \in 1 .. Len(S) : S[i] = v
  BY DEF AskedIn
<1>2. i - 1 \in 1 .. Len(Tail(S)) /\ Tail(S)[i - 1] = S[i]
  BY <1>1
<1> QED
  BY <1>1, <1>2 DEF AskedIn

(* raw_handler: the part of the first writer is copied.                    *)
LEMMA BoxReceives ==
  ASSUME layout \in Layouts, BlocksFit, NEW s, FitsWord(s), InMemory(s),
         NEW wraps \in BOOLEAN,
         NEW S \in Seq(Nat), S # <<>>, NEW w, w = Head(S), w \in Bridges,
         NEW old, DOMAIN old = 0 .. MaxElements, BoxFilled(layout, s, S, old),
         NEW new, new = IF need_writer(w, s)
                        THEN extract_selection_from_partial(w, s, wraps, old) ELSE old
  PROVE  BoxFilled(layout, s, Tail(S), new)
<1>1. SelBox(s)
  BY DEF FitsWord, SelBox, Positive
<1>2. Held(w)
  BY EveryoneHeld
<1>3. \A o \in 0 .. MaxElements : o \in Nat
  OBVIOUS
<1>4. ASSUME NEW o \in 0 .. MaxElements
      PROVE  new[o] = IF Holds(layout, w, s, o) THEN Element(w, SelPlace(s, o)) ELSE old[o]
  <2>1. CASE need_writer(w, s)
    <3>1. new = extract_selection_from_partial(w, s, wraps, old)
      BY <2>1
    <3>2. DOMAIN old \subseteq Nat
      BY <1>3
    <3>3. Extracted(w, s, old, new)
      BY <1>1, <1>2, <3>1, <3>2, ExtractIs
    <3> QED
      BY <3>3 DEF Extracted, Holds
  <2>2. CASE ~need_writer(w, s)
    <3>1. ~Holds(layout, w, s, o)
      BY <1>3, <2>2, HolderNeeded
    <3> QED
      BY <2>2, <3>1
  <2> QED
    BY <2>1, <2>2
<1>5. ASSUME NEW o \in 0 .. MaxElements
      PROVE  \/ new[o] = Untouched
                  /\ \A v \in Bridges : Holds(layout, v, s, o) => AskedIn(v, Tail(S))
             \/ \E v \in Bridges : /\ Holds(layout, v, s, o)
                                   /\ new[o] = Element(v, SelPlace(s, o))
  <2>1. CASE Holds(layout, w, s, o)
    BY <1>4, <2>1
  <2>2. CASE ~Holds(layout, w, s, o)
    <3>1. new[o] = old[o]
      BY <1>4, <2>2
    <3>2. \A v \in Bridges : Holds(layout, v, s, o) /\ AskedIn(v, S) => AskedIn(v, Tail(S))
      BY <2>2, StillAsked
    <3>3. \/ old[o] = Untouched /\ \A v \in Bridges : Holds(layout, v, s, o) => AskedIn(v, S)
          \/ \E v \in Bridges : Holds(layout, v, s, o) /\ old[o] = Element(v, SelPlace(s, o))
      BY DEF BoxFilled
    <3> QED
      BY ONLY <3>1, <3>2, <3>3
  <2> QED
    BY <2>1, <2>2
<1> QED
  BY <1>5 DEF BoxFilled

(* A block whose sizes an int can say is copied whole.                     *)
LEMMA CopyBlockIs ==
  ASSUME layout \in Layouts, BlocksFit, BlocksInInt, NEW w \in Bridges,
         NEW old, DOMAIN old = 0 .. MaxElements
  PROVE  \A o \in 0 .. MaxElements :
           CopyBlock(w, old)[o] = IF o < Elements(layout[w].count)
                                  THEN Element(w, ElementAt(layout[w], o)) ELSE old[o]
<1>1. PICK c : c = layout[w].count
  OBVIOUS
<1>2. /\ Held(w) /\ c \in Index
      /\ \A d \in Dims : c[d] \in Nat /\ c[d] < IntWord \div 2
  BY <1>1, EveryoneHeld, SelectionAssumption DEF Index, BlocksInInt
<1>3. [d \in Dims |-> Narrowed(c[d])] = c
  <2>1. \A d \in Dims : Narrowed(c[d]) = c[d]
    BY <1>2, IntExact
  <2>2. c = [d \in Dims |-> c[d]]
    BY <1>2 DEF Index
  <2> QED
    BY <2>1, <2>2
<1>4. PICK e, z, m : e = Elements(c) /\ z = ElementSize /\ m = MaxElements
  OBVIOUS
<1>5. e \in Nat /\ m \in Nat /\ e <= m /\ z \in Nat /\ z > 0 /\ z * m < Word /\ Word \in Nat \ {0}
  BY <1>1, <1>2, <1>4, ElementsPositive, SelectionAssumption DEF Held
<1>6. \A a, b, y \in Nat : a <= b => y * a \in Nat /\ y * b \in Nat /\ y * a <= y * b
  <2> SUFFICES ASSUME NEW a \in Nat, NEW b \in Nat, NEW y \in Nat, a <= b
               PROVE  y * a \in Nat /\ y * b \in Nat /\ y * a <= y * b
    OBVIOUS
  <2>1. PICK q \in Nat : b = a + q
    <3>1. b - a \in Nat /\ b = a + (b - a)
      OBVIOUS
    <3> QED
      BY <3>1
  <2>2. y * b = y * a + y * q /\ y * q \in Nat /\ y * a \in Nat
    BY <2>1
  <2> QED
    BY <2>2
<1>7. (z * e) % Word = z * e
  <2>1. PICK b : b = z * e
    OBVIOUS
  <2>2. b \in Nat /\ b < Word
    <3>1. z * e \in Nat /\ z * m \in Nat /\ z * e <= z * m
      BY ONLY <1>5, <1>6
    <3>2. PICK t : t = z * m
      OBVIOUS
    <3> QED
      BY ONLY <1>5, <2>1, <3>1, <3>2
  <2>3. b % Word = b
    BY <1>5, <2>2, ModSmall
  <2> QED
    BY <2>1, <2>3
<1>8. \A o \in Nat : (o + 1) * z <= z * e <=> o < e
  <2> SUFFICES ASSUME NEW o \in Nat PROVE (o + 1) * z <= z * e <=> o < e
    OBVIOUS
  <2>1. (o + 1) * z = z * o + z /\ z * o \in Nat /\ z * e \in Nat
    BY ONLY <1>5, o \in Nat
  <2>2. CASE o < e
    <3>1. o + 1 \in Nat /\ o + 1 <= e
      BY <1>5, <2>2
    <3>2. z * (o + 1) <= z * e
      BY ONLY <1>5, <1>6, <3>1
    <3>3. z * (o + 1) = z * o + z
      BY ONLY <1>5, o \in Nat
    <3>4. (o + 1) * z <= z * e
      BY ONLY <2>1, <3>2, <3>3
    <3> QED
      BY <2>2, <3>4
  <2>3. CASE ~(o < e)
    <3>1. e <= o
      BY <1>5, <2>3
    <3>2. z * e <= z * o
      BY ONLY <1>5, <1>6, <3>1, o \in Nat
    <3>3. PICK u, v, t : u = z * e /\ v = z * o /\ t = (o + 1) * z
      OBVIOUS
    <3>4. u \in Nat /\ v \in Nat /\ t = v + z /\ u <= v
      BY ONLY <2>1, <3>2, <3>3
    <3>5. ~(t <= u)
      BY ONLY <1>5, <3>4
    <3> QED
      BY <2>3, <3>3, <3>5
  <2> QED
    BY <2>2, <2>3
<1> SUFFICES ASSUME NEW o \in 0 .. MaxElements
             PROVE  CopyBlock(w, old)[o] = IF o < e THEN Element(w, ElementAt(layout[w], o))
                                           ELSE old[o]
  BY <1>1, <1>4
<1>9. CopyBlock(w, old)[o] = IF (o + 1) * z <= z * e THEN Data(w, o) ELSE old[o]
  BY <1>1, <1>3, <1>4, <1>7 DEF CopyBlock
<1>10. (o + 1) * z <= z * e <=> o < e
  BY <1>8
<1>11. o < e => Data(w, o) = Element(w, ElementAt(layout[w], o))
  BY <1>1, <1>4 DEF Data
<1> QED
  BY <1>9, <1>10, <1>11

(* The same for what one writer wrote.                                     *)
LEMMA BlockReceives ==
  ASSUME layout \in Layouts, BlocksFit, BlocksInInt,
         NEW w, NEW S \in Seq(Nat), S # <<>>, Head(S) \in Bridges,
         NEW old, DOMAIN old = 0 .. MaxElements, BlockFilled(layout, w, S, old),
         NEW new, new = IF w = Head(S) THEN CopyBlock(w, old) ELSE old
  PROVE  BlockFilled(layout, w, Tail(S), new)
<1>1. CASE w = Head(S)
  <2>1. \A o \in 0 .. MaxElements :
          new[o] = IF o < Elements(layout[w].count) THEN Element(w, ElementAt(layout[w], o))
                   ELSE old[o]
    BY <1>1, CopyBlockIs
  <2>2. \A o \in 0 .. MaxElements : ~(o < Elements(layout[w].count)) => old[o] = Untouched
    BY DEF BlockFilled, BlockCopied
  <2>3. BlockCopied(layout, w, new)
    BY <2>1, <2>2 DEF BlockCopied
  <2> QED
    BY <2>3 DEF BlockFilled
<1>2. CASE w # Head(S)
  <2>1. AskedIn(w, S) => AskedIn(w, Tail(S))
    BY <1>2, StillAsked
  <2> QED
    BY <1>2, <2>1 DEF BlockFilled
<1> QED
  BY <1>1, <1>2

(* A round of reads: what is kept of it, and its last read.                *)
RoundInv ==
  /\ flipped = {}
  /\ sendees \in Seq(Nat)
  /\ reads \in Seq(Requests) /\ Len(reads) <= MaxReads
  /\ DOMAIN mem = 1 .. MaxReads
  /\ \A i \in 1 .. MaxReads : DOMAIN mem[i] = 0 .. MaxElements
  /\ pc = "schedule" =>
       \A i \in 1 .. MaxReads : \A o \in 0 .. MaxElements : mem[i][o] = Untouched
  /\ pc # "schedule" => reads # <<>>

(* The last read is being filled, and filled when perform_reads returns.   *)
LastReadInv ==
  reads # <<>> /\ ~Refused(reads[Len(reads)]) =>
    IF pc = "returned" THEN ReadFilled(layout, reads[Len(reads)], mem[Len(reads)])
    ELSE /\ userBuf = Len(reads)
         /\ Underway(layout, reads[Len(reads)], sel, sendees, mem[Len(reads)])

(* The copy of the selection that the application asked for.               *)
LEMMA CopyIsWanted ==
  ASSUME ~Fortran, flipped = {}, NEW req \in Requests, NEW s, s = copy_selection(req)
  PROVE  /\ IsBox(req) => /\ s.type = "box"
                          /\ s.start = Wanted(req).start /\ s.count = Wanted(req).count
         /\ ~IsBox(req) => s = req
<1>1. req \in [type : {"box", "whole", "block", "points"},
               start : Index, count : Index, index : Nat]
  BY SelectionAssumption
<1>2. CASE req.type = "whole"
  <2>1. s = [req EXCEPT !.type = "box", !.start = Zero, !.count = GlobalDims]
    BY <1>2 DEF copy_selection
  <2>2. s.type = "box" /\ s.start = Zero /\ s.count = GlobalDims
    BY <1>1, <2>1
  <2>3. Wanted(req) = [start |-> Zero, count |-> GlobalDims]
    BY <1>2 DEF Wanted
  <2> QED
    BY <1>2, <2>2, <2>3 DEF IsBox
<1>3. CASE req.type # "whole"
  <2>1. s = req
    BY <1>3 DEF copy_selection, UserSel
  <2>2. Wanted(req) = [start |-> req.start, count |-> req.count]
    BY <1>3 DEF Wanted
  <2> QED
    BY <1>1, <1>3, <2>1, <2>2 DEF IsBox
<1> QED
  BY <1>2, <1>3

(* What a call of schedule_read_byid leaves to be asked.                   *)
LEMMA ReadScheduled ==
  ASSUME ~Fortran, SelectionInv, RoundInv, NEW req \in Requests, ScheduleRead(req),
         NEW m, \A o \in 0 .. MaxElements : m[o] = Untouched
  PROVE  /\ flipped' = {} /\ sendees' \in Seq(Nat)
         /\ ~Refused(req) => /\ userBuf' = Len(reads) + 1
                             /\ Underway(layout, req, sel', sendees', m)
<1>1. /\ flipped = {} /\ sendees \in Seq(Nat) /\ layout \in Layouts
      /\ NumBridges \in Nat
  BY SelectionAssumption DEF SelectionInv, RoundInv
<1>2. PICK s : s = copy_selection(req)
  OBVIOUS
<1>3. CASE ScheduleBox(req)
  <2>1. IsBox(req)
    BY <1>3 DEF ScheduleBox, IsBox
  <2>2. FitsWord(s)
    BY <1>2, <2>1, CopyFits DEF IsBox
  <2>3. PICK needed : needed = {w \in Bridges : need_writer(w, s)}
    OBVIOUS
  <2>4. /\ sel' = s /\ AddSendees(needed) /\ flipped' = {}
        /\ userBuf' = Len(reads) + 1
    BY <1>1, <1>2, <1>3, <2>3 DEF ScheduleBox
  <2>5. needed \subseteq 0 .. NumBridges
    BY <1>1, <2>3 DEF Bridges
  <2>6. sendees' \in Seq(Nat) /\ \A w \in needed : AskedIn(w, sendees')
    BY <1>1, <2>4, <2>5, SendeesAdded
  <2>7. PICK S : S = sendees'
    OBVIOUS
  <2>8. \A w \in Bridges : need_writer(w, s) => AskedIn(w, S)
    BY <2>3, <2>6, <2>7
  <2>9. BoxFilled(layout, s, S, m)
    BY <1>1, <2>2, <2>8, BoxStarts
  <2>10. /\ s.type = "box"
         /\ s.start = Wanted(req).start /\ s.count = Wanted(req).count
    BY <1>1, <1>2, <2>1, CopyIsWanted
  <2>11. Underway(layout, req, s, S, m)
    BY <2>1, <2>9, <2>10 DEF Underway
  <2> QED
    BY <2>4, <2>6, <2>7, <2>11
<1>4. CASE ScheduleBlock(req)
  <2>1. req.type = "block" /\ ~IsBox(req) /\ req.index \in Nat
    BY <1>4, SelectionAssumption DEF ScheduleBlock, IsBox
  <2>2. sel' = req /\ flipped' = {} /\ userBuf' = Len(reads) + 1
    BY <1>1, <1>4, <2>1, CopyIsWanted DEF ScheduleBlock
  <2>3. CASE Refused(req)
    BY <1>1, <1>4, <2>2, <2>3 DEF ScheduleBlock
  <2>4. CASE ~Refused(req)
    <3>1. PICK ws : ws = {req.index}
      OBVIOUS
    <3>2. AddSendees(ws)
      BY <1>4, <2>4, <3>1 DEF ScheduleBlock
    <3>3. ws \subseteq 0 .. NumBridges
      BY <1>1, <2>1, <2>4, <3>1 DEF Refused
    <3>4. sendees' \in Seq(Nat) /\ \A w \in ws : AskedIn(w, sendees')
      BY <1>1, <3>2, <3>3, SendeesAdded
    <3>5. PICK S : S = sendees'
      OBVIOUS
    <3>6. BlockFilled(layout, req.index, S, m)
      BY <3>1, <3>4, <3>5 DEF BlockFilled
    <3>7. Underway(layout, req, req, S, m)
      BY <2>1, <3>6 DEF Underway
    <3> QED
      BY <2>2, <3>4, <3>5, <3>7
  <2> QED
    BY <2>3, <2>4
<1>5. CASE SchedulePoints(req)
  BY <1>1, <1>5 DEF SchedulePoints, Refused
<1> QED
  BY <1>3, <1>4, <1>5 DEF ScheduleRead

(* The memory of a read keeps its size.                                    *)
LEMMA ReceivedDomain ==
  ASSUME NEW w, NEW wraps, NEW old
  PROVE  DOMAIN Received(w, wraps, old) = DOMAIN old
<1>1. DOMAIN extract_selection_from_partial(w, sel, wraps, old) = DOMAIN old
  BY DEF extract_selection_from_partial
<1>2. DOMAIN CopyBlock(w, old) = DOMAIN old
  BY DEF CopyBlock
<1> QED
  BY <1>1, <1>2 DEF Received

(* The selections that are asked for have no more bytes than an int holds. *)
RequestsFit ==
  \A r \in Requests :
    IsBox(r) => Elements(Wanted(r).count) * ElementSize <= IntWord \div 2

(* raw_handler brings the last read forward.                               *)
LEMMA ReadReceives ==
  ASSUME BlocksFit, BlocksInInt, RequestsFit, SelectionInv, DisplacementsInv,
         sendees \in Seq(Nat), sendees # <<>>, NEW w, w = Head(sendees), w \in Bridges,
         NEW r \in Requests, NEW old, DOMAIN old = 0 .. MaxElements,
         Underway(layout, r, sel, sendees, old),
         NEW wraps \in BOOLEAN, NEW new, new = Received(w, wraps, old)
  PROVE  Underway(layout, r, sel, Tail(sendees), new)
<1>1. CASE /\ IsBox(r)
           /\ sel.type = "box" /\ sel.start = Wanted(r).start /\ sel.count = Wanted(r).count
           /\ BoxFilled(layout, sel, sendees, old)
  <2>1. layout \in Layouts /\ FitsWord(sel)
    BY <1>1 DEF SelectionInv
  <2>2. w \in DOMAIN displ <=> need_writer(w, sel)
    BY <1>1 DEF DisplacementsInv
  <2>3. new = IF need_writer(w, sel)
              THEN extract_selection_from_partial(w, sel, wraps, old) ELSE old
    BY <1>1, <2>2 DEF Received
  <2>4. InMemory(sel)
    BY <1>1 DEF RequestsFit, InMemory
  <2>5. BoxFilled(layout, sel, Tail(sendees), new)
    BY <1>1, <2>1, <2>3, <2>4, BoxReceives
  <2> QED
    BY <1>1, <2>5 DEF Underway
<1>2. CASE /\ r.type = "block"
           /\ sel.type = "block" /\ sel.index = r.index
           /\ BlockFilled(layout, r.index, sendees, old)
  <2>1. PICK v : v = r.index
    OBVIOUS
  <2>2. new = IF v = Head(sendees) THEN CopyBlock(v, old) ELSE old
    BY <1>2, <2>1 DEF Received
  <2>3. BlockFilled(layout, v, Tail(sendees), new)
    <3>1. layout \in Layouts
      BY DEF SelectionInv
    <3> QED
      BY <1>2, <2>1, <2>2, <3>1, BlockReceives
  <2> QED
    BY <1>2, <2>1, <2>3 DEF Underway
<1> QED
  BY <1>1, <1>2 DEF Underway

(* The invariant: the selection and its displacements, which the theorems  *)
(* above are about, and the round with its last read.                      *)
FillInv == SelectionInv /\ DisplacementsInv /\ RoundInv /\ LastReadInv

(* schedule_read_byid starts the read that is now the last.                *)
LEMMA FillScheduleRead ==
  ASSUME ~Fortran, FillInv, NEW req \in Requests, ScheduleRead(req)
  PROVE  RoundInv' /\ LastReadInv'
<1>1. /\ SelectionInv /\ RoundInv
      /\ reads \in Seq(Requests) /\ Len(reads) < MaxReads /\ pc = "schedule"
      /\ reads' = Append(reads, req)
      /\ layout' = layout /\ pc' = pc /\ mem' = mem /\ MaxReads \in Nat
  BY SelectionAssumption DEF FillInv, RoundInv, ScheduleRead
<1>2. PICK n : n = Len(reads) + 1
  OBVIOUS
<1>3. /\ reads' \in Seq(Requests) /\ Len(reads') = n /\ n \in 1 .. MaxReads
      /\ reads'[n] = req /\ reads' # <<>>
  BY <1>1, <1>2
<1>4. PICK m : m = mem[n]
  OBVIOUS
<1>5. \A o \in 0 .. MaxElements : m[o] = Untouched
  BY <1>1, <1>3, <1>4 DEF RoundInv
<1>6. /\ flipped' = {} /\ sendees' \in Seq(Nat)
      /\ ~Refused(req) => userBuf' = n /\ Underway(layout, req, sel', sendees', m)
  BY <1>1, <1>2, <1>5, ReadScheduled
<1>7. RoundInv'
  <2>1. Len(reads') <= MaxReads
    BY <1>1, <1>3
  <2> QED
    BY <1>1, <1>3, <1>6, <2>1 DEF RoundInv
<1>8. LastReadInv'
  BY <1>1, <1>3, <1>4, <1>6 DEF LastReadInv
<1> QED
  BY <1>7, <1>8

(* raw_handler takes the answer of the next writer.                        *)
LEMMA FillRawHandler ==
  ASSUME BlocksFit, BlocksInInt, RequestsFit, FillInv, RawHandler
  PROVE  RoundInv' /\ LastReadInv'
<1>1. PICK w : w = Head(sendees)
  OBVIOUS
<1>2. /\ SelectionInv /\ DisplacementsInv /\ RoundInv /\ LastReadInv
      /\ pc = "perform" /\ pc' = pc /\ sendees # <<>> /\ w \in Bridges
      /\ sendees \in Seq(Nat) /\ sendees' = Tail(sendees)
      /\ reads' = reads /\ layout' = layout /\ sel' = sel /\ userBuf' = userBuf
      /\ flipped' = flipped
  BY <1>1 DEF FillInv, RoundInv, RawHandler
<1>3. PICK wraps \in BOOLEAN :
        mem' = [i \in DOMAIN mem |-> IF i = userBuf THEN Received(w, wraps, mem[i])
                                     ELSE mem[i]]
  BY <1>1 DEF RawHandler
<1>4. PICK S : S = Tail(sendees)
  OBVIOUS
<1>5. S \in Seq(Nat)
  BY <1>2, <1>4
<1>6. RoundInv'
  <2>1. DOMAIN mem' = DOMAIN mem /\ \A i \in DOMAIN mem : DOMAIN mem'[i] = DOMAIN mem[i]
    BY <1>3, ReceivedDomain
  <2>2. pc' # "schedule"
    BY <1>2
  <2> QED
    BY <1>2, <1>4, <1>5, <2>1, <2>2 DEF RoundInv
<1>7. LastReadInv'
  <2> SUFFICES ASSUME reads # <<>>, ~Refused(reads[Len(reads)])
               PROVE  /\ userBuf = Len(reads)
                      /\ Underway(layout, reads[Len(reads)], sel, S, mem'[Len(reads)])
    BY <1>2, <1>4 DEF LastReadInv
  <2>1. PICK n, r, old, new : /\ n = Len(reads) /\ r = reads[n] /\ old = mem[n]
                              /\ new = Received(w, wraps, old)
    OBVIOUS
  <2>2. n \in 1 .. MaxReads /\ n \in DOMAIN mem /\ DOMAIN old = 0 .. MaxElements
    <3>1. n \in 1 .. MaxReads
      BY <1>2, <2>1, SelectionAssumption DEF RoundInv
    <3> QED
      BY <1>2, <2>1, <3>1 DEF RoundInv
  <2>3. userBuf = n /\ Underway(layout, r, sel, sendees, old)
    BY <1>2, <2>1 DEF LastReadInv
  <2>4. mem'[n] = new
    BY <1>3, <2>1, <2>2, <2>3
  <2>5. Underway(layout, r, sel, Tail(sendees), new)
    <3>1. r \in Requests
      BY <1>2, <2>1 DEF RoundInv
    <3> QED
      BY <1>1, <1>2, <1>3, <2>1, <2>2, <2>3, <3>1, ReadReceives
  <2> QED
    BY <1>4, <2>1, <2>3, <2>4, <2>5
<1> QED
  BY <1>6, <1>7

(* perform_reads returns when nobody is left to ask.                       *)
LEMMA FillPerformReturn ==
  ASSUME FillInv, PerformReturn
  PROVE  RoundInv' /\ LastReadInv'
<1>1. /\ RoundInv /\ LastReadInv
      /\ pc = "perform" /\ pc' = "returned" /\ sendees = <<>> /\ reads # <<>>
      /\ UNCHANGED <<layout, reads, userBuf, sendees, mem, flipped>>
  BY DEF FillInv, RoundInv, PerformReturn
<1>2. RoundInv'
  BY <1>1 DEF RoundInv
<1>3. LastReadInv'
  <2> SUFFICES ASSUME ~Refused(reads[Len(reads)])
               PROVE  ReadFilled(layout, reads[Len(reads)], mem[Len(reads)])
    BY <1>1 DEF LastReadInv
  <2>1. Underway(layout, reads[Len(reads)], sel, <<>>, mem[Len(reads)])
    BY <1>1 DEF LastReadInv
  <2> QED
    BY <2>1, UnderwayEnds
<1> QED
  BY <1>2, <1>3

(* The other steps touch neither the selection nor, during a round, the    *)
(* memory.                                                                 *)
LEMMA FillOthers ==
  ASSUME FillInv, PerformReads \/ NextRound \/ UNCHANGED vars
  PROVE  RoundInv' /\ LastReadInv'
<1>1. RoundInv /\ LastReadInv
  BY DEF FillInv
<1>2. CASE PerformReads
  <2>1. /\ pc = "schedule" /\ pc' = "perform" /\ reads # <<>>
        /\ UNCHANGED <<layout, reads, sel, userBuf, displ, sendees, mem, flipped>>
    BY <1>2 DEF PerformReads
  <2> QED
    BY <1>1, <2>1 DEF RoundInv, LastReadInv
<1>3. CASE NextRound
  <2>1. /\ pc' = "schedule" /\ reads' = <<>> /\ sendees' = sendees /\ flipped' = flipped
        /\ mem' = [i \in 1 .. MaxReads |-> [o \in 0 .. MaxElements |-> Untouched]]
    BY <1>3 DEF NextRound
  <2>2. /\ DOMAIN mem' = 1 .. MaxReads
        /\ \A i \in 1 .. MaxReads : DOMAIN mem'[i] = 0 .. MaxElements
        /\ \A i \in 1 .. MaxReads : \A o \in 0 .. MaxElements : mem'[i][o] = Untouched
    BY <2>1
  <2>3. reads' \in Seq(Requests) /\ Len(reads') <= MaxReads
    BY <2>1, SelectionAssumption
  <2> QED
    BY <1>1, <2>1, <2>2, <2>3 DEF RoundInv, LastReadInv
<1>4. CASE UNCHANGED vars
  BY <1>1, <1>4 DEF RoundInv, LastReadInv, vars
<1> QED
  BY <1>2, <1>3, <1>4

(* When perform_reads returns, the read scheduled last has its selection,  *)
(* put together from what every writer holds of it, and nothing beside it: *)
(* whatever the number of dimensions, the sizes an int can hold, the       *)
(* division among the writers and the calls.                               *)
THEOREM SelectionLastReadFilled ==
  ASSUME ~Fortran, BlocksFit, BlocksInInt, RequestsFit
  PROVE  Spec => []LastReadFilled
<1>1. Init => FillInv
  <2> SUFFICES ASSUME Init PROVE FillInv
    OBVIOUS
  <2>1. SelectionInv /\ DisplacementsInv
    BY DEF Init, SelectionInv, DisplacementsInv, NoSel
  <2>2. /\ reads = <<>> /\ sendees = <<>> /\ flipped = {} /\ pc = "schedule"
        /\ mem = [i \in 1 .. MaxReads |-> [o \in 0 .. MaxElements |-> Untouched]]
    BY DEF Init
  <2>3. RoundInv /\ LastReadInv
    BY <2>2, SelectionAssumption DEF RoundInv, LastReadInv
  <2> QED
    BY <2>1, <2>3 DEF FillInv
<1>2. FillInv /\ [Next]_vars => FillInv'
  <2> SUFFICES ASSUME FillInv, [Next]_vars PROVE FillInv'
    OBVIOUS
  <2>1. SelectionInv' /\ DisplacementsInv'
    BY SelectionInvStep, DisplacementsStep DEF FillInv
  <2>2. RoundInv' /\ LastReadInv'
    BY FillScheduleRead, FillRawHandler, FillPerformReturn, FillOthers DEF Next
  <2> QED
    BY <2>1, <2>2 DEF FillInv
<1>3. FillInv => LastReadFilled
  <2> SUFFICES ASSUME FillInv, pc = "returned" PROVE Filled(Len(reads))
    BY DEF LastReadFilled
  <2>1. RoundInv /\ LastReadInv /\ reads # <<>>
    BY DEF FillInv, RoundInv
  <2>2. PICK n : n = Len(reads)
    OBVIOUS
  <2>3. CASE Refused(reads[n])
    BY <2>2, <2>3 DEF Filled
  <2>4. CASE ~Refused(reads[n])
    <3>1. reads[n] \in Requests
      BY <2>1, <2>2 DEF RoundInv
    <3>2. reads[n].type \in {"box", "whole", "block"}
      BY <2>4, <3>1, SelectionAssumption DEF Refused
    <3>3. ReadFilled(layout, reads[n], mem[n])
      BY <2>1, <2>2, <2>4 DEF LastReadInv
    <3> QED
      BY <2>2, <3>2, <3>3, FilledIs
  <2> QED
    BY <2>2, <2>3, <2>4
<1> QED
  BY <1>1, <1>2, <1>3, PTL DEF Spec
=============================================================================

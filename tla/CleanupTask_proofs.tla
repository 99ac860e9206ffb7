------------------------- MODULE CleanupTask_proofs -------------------------
(***************************************************************************)
(* Proofs about CleanupTask, for tables of any size, any number of ticks   *)
(* per hour and any batch sizes: no page waits longer for a visit than it  *)
(* takes to go through the table once, although slices start over.         *)
(***************************************************************************)
EXTENDS CleanupTask, TLAPS

-----------------------------------------------------------------------------
(* Division.                                                               *)

LEMMA DivMod ==
  ASSUME NEW x \in Nat, NEW m \in Nat \ {0}
  PROVE  /\ x \div m \in Nat /\ x % m \in 0 .. m - 1
         /\ x = m * (x \div m) + (x % m)
  OBVIOUS

LEMMA MultipleOf ==
  ASSUME NEW k \in Nat \ {0}, NEW m \in Nat
  PROVE  k * m >= m
  OBVIOUS

LEMMA Distributive ==
  ASSUME NEW a \in Nat, NEW b \in Nat, NEW m \in Nat
  PROVE  /\ (a + b) * m = a * m + b * m
         /\ (a - b) * m = a * m - b * m
         /\ m * a = a * m /\ a * m \in Nat /\ 1 * m = m
  OBVIOUS

LEMMA RemainderIs ==
  ASSUME NEW q \in Nat, NEW m \in Nat \ {0}, NEW r \in 0 .. m - 1
  PROVE  (q * m + r) % m = r
<1> DEFINE x == q * m + r
           p == x \div m
           s == x % m
<1>1. x \in Nat /\ q * m \in Nat
  OBVIOUS
<1>2. p \in Nat /\ s \in 0 .. m - 1 /\ x = m * p + s
  BY <1>1, DivMod
<1> HIDE DEF p, s
<1>3. p * m - q * m = r - s /\ p * m \in Nat
  BY <1>1, <1>2
<1>4. ASSUME NEW a \in Nat, NEW b \in Nat, a > b
      PROVE  a * m - b * m >= m
  <2>1. (a - b) * m = a * m - b * m
    BY Distributive
  <2>2. (a - b) * m >= m
    BY <1>4, MultipleOf
  <2> QED
    BY <2>1, <2>2
<1>5. ~(p > q) /\ ~(q > p)
  BY <1>2, <1>3, <1>4
<1> QED
  BY <1>2, <1>3, <1>5 DEF s

\* What is below a multiple of m is below as many times m.
LEMMA FewerTimes ==
  ASSUME NEW k \in Nat, NEW m \in Nat \ {0}, NEW x \in Nat, k * m < x
  PROVE  k < (x + m - 1) \div m
<1> DEFINE y == x + m - 1
           p == y \div m
           r == y % m
<1>1. y \in Nat
  OBVIOUS
<1>2. p \in Nat /\ r \in 0 .. m - 1 /\ y = m * p + r
  BY <1>1, DivMod
<1>3. p * m = m * p /\ p * m \in Nat /\ k * m \in Nat
  BY <1>2, Distributive
<1>4. p * m >= x
  BY <1>2, <1>3
<1> HIDE DEF p
<1>5. ASSUME k >= p
      PROVE  FALSE
  <2>1. (k - p) * m = k * m - p * m /\ (k - p) * m \in Nat
    BY <1>2, <1>5, Distributive
  <2> QED
    BY <1>3, <1>4, <2>1
<1> QED
  BY <1>2, <1>5 DEF p

-----------------------------------------------------------------------------
(* Slices.                                                                 *)

TypeInv ==
  /\ totalPages \in Nat \ {0} /\ runsPerHour \in Nat \ {0}
  /\ counter \in 0..(totalPages - 1)
  /\ page \in 0..(totalPages - 1)
  /\ since \in Nat

LEMMA CountIs ==
  ASSUME TypeInv
  PROVE  Count \in 1 .. totalPages
<1>1. totalPages \div runsPerHour \in 0 .. totalPages
  <2> DEFINE q == totalPages \div runsPerHour
  <2>1. q \in Nat /\ totalPages = runsPerHour * q + (totalPages % runsPerHour)
        /\ totalPages % runsPerHour \in 0 .. runsPerHour - 1
    BY DivMod DEF TypeInv
  <2> HIDE DEF q
  <2>2. runsPerHour * q >= q
    BY <2>1, MultipleOf DEF TypeInv
  <2>3. runsPerHour * q \in Nat
    BY <2>1, Distributive DEF TypeInv
  <2> QED
    BY <2>1, <2>2, <2>3 DEF q, TypeInv
<1> QED
  BY <1>1 DEF Count, Largest, TypeInv

\* A slice begins where the one before it ends, up to the end of the table.
LEMMA FromIs ==
  ASSUME TypeInv, NEW c \in 0 .. totalPages - 1
  PROVE  /\ From(c) \in 0 .. totalPages - 1
         /\ From((c + 1) % totalPages) =
              IF From(c) + Count < totalPages THEN From(c) + Count
                                              ELSE From(c) + Count - totalPages
<1> DEFINE T == totalPages
           C == Count
           q == (c * C) \div T
<1>1. T \in Nat \ {0} /\ C \in 1 .. T
  BY CountIs DEF TypeInv
<1> HIDE DEF C
<1>2. c * C \in Nat
  BY <1>1, Distributive
<1>3. q \in Nat /\ From(c) \in 0 .. T - 1 /\ c * C = T * q + From(c)
  BY <1>1, <1>2, DivMod DEF From, C
<1> DEFINE f == From(c)
<1> HIDE DEF q
<1>4. (c + 1) * C = q * T + (f + C)
  <2>1. (c + 1) * C = c * C + C
    BY <1>1, Distributive
  <2>2. T * q = q * T /\ q * T \in Nat
    BY <1>1, <1>3, Distributive
  <2> QED
    BY <1>1, <1>3, <2>1, <2>2
<1>5. ((c + 1) * C) % T = IF f + C < T THEN f + C ELSE f + C - T
  <2>1. CASE f + C < T
    <3>1. f + C \in 0 .. T - 1
      BY <1>1, <1>3, <2>1
    <3> QED
      BY <1>1, <1>3, <1>4, <2>1, <3>1, RemainderIs
  <2>2. CASE ~(f + C < T)
    <3>1. f + C - T \in 0 .. T - 1
      BY <1>1, <1>3, <2>2
    <3>2. (c + 1) * C = (q + 1) * T + (f + C - T)
      <4>1. (q + 1) * T = q * T + T /\ q * T \in Nat
        BY <1>1, <1>3, Distributive
      <4> QED
        BY <1>1, <1>3, <1>4, <4>1
    <3>3. q + 1 \in Nat
      BY <1>3
    <3>4. ((q + 1) * T + (f + C - T)) % T = f + C - T
      BY <1>1, <3>1, <3>3, RemainderIs
    <3> QED
      BY <2>2, <3>2, <3>4
  <2> QED
    BY <2>1, <2>2
<1>6. From((c + 1) % T) = ((c + 1) * C) % T
  <2>1. CASE c + 1 < T
    <3>1. (0 * T + (c + 1)) % T = c + 1
      BY <1>1, <2>1, RemainderIs
    <3> QED
      BY <1>1, <3>1 DEF From, C
  <2>2. CASE c + 1 = T
    <3>1. (1 * T + 0) % T = 0
      BY <1>1, RemainderIs
    <3>2. (T * C) % T = 0
      <4>1. (C * T + 0) % T = 0
        BY <1>1, RemainderIs
      <4>2. C * T + 0 = T * C
        BY <1>1, Distributive
      <4> QED
        BY <4>1, <4>2
    <3>3. (0 * C) % T = 0
      <4>1. (0 * T + 0) % T = 0
        BY <1>1, RemainderIs
      <4> QED
        BY <1>1, <4>1
    <3>4. (c + 1) % T = 0
      BY <1>1, <2>2, <3>1
    <3> QED
      BY <2>2, <3>2, <3>3, <3>4 DEF From, C
  <2> QED
    BY <1>1, <2>1, <2>2
<1> QED
  BY <1>3, <1>5, <1>6 DEF C

\* A slice of all pages begins at the first one.
LEMMA FromOfAll ==
  ASSUME TypeInv, NEW c \in 0 .. totalPages - 1, Count = totalPages
  PROVE  From(c) = 0
<1>1. totalPages \in Nat \ {0} /\ 0 \in 0 .. totalPages - 1 /\ c \in Nat
  BY DEF TypeInv
<1>2. (c * totalPages + 0) % totalPages = 0
  BY <1>1, RemainderIs
<1>3. c * totalPages + 0 = c * Count
  BY <1>1, Distributive
<1> QED
  BY <1>2, <1>3 DEF From

LEMMA BeforeIs ==
  ASSUME TypeInv, NEW c \in 0 .. totalPages - 1
  PROVE  /\ Before(c) \in 0 .. totalPages - 1
         /\ (Before(c) + 1) % totalPages = c
         /\ (c + 1) % totalPages \in 0 .. totalPages - 1
         /\ Before((c + 1) % totalPages) = c
<1> DEFINE T == totalPages
<1>1. T \in Nat \ {0}
  BY DEF TypeInv
<1>2. ASSUME NEW r \in 0 .. T - 1
      PROVE  r % T = r /\ (r + T) % T = r
  <2>1. (0 * T + r) % T = r /\ (1 * T + r) % T = r
    BY <1>1, RemainderIs
  <2> QED
    BY <1>1, <2>1
<1>3. ASSUME NEW d \in 0 .. T - 1
      PROVE  Before(d) = IF d = 0 THEN T - 1 ELSE d - 1
  <2>1. CASE d = 0
    <3>1. d + T - 1 = T - 1 /\ T - 1 \in 0 .. T - 1
      BY <1>1, <2>1
    <3> QED
      BY <1>2, <2>1, <3>1 DEF Before
  <2>2. CASE d # 0
    <3>1. d + T - 1 = (d - 1) + T /\ d - 1 \in 0 .. T - 1
      BY <1>1, <2>2
    <3> QED
      BY <1>2, <2>2, <3>1 DEF Before
  <2> QED
    BY <2>1, <2>2
<1>4. ASSUME NEW d \in 0 .. T - 1
      PROVE  (d + 1) % T = IF d = T - 1 THEN 0 ELSE d + 1
  <2>1. CASE d = T - 1
    <3>1. d + 1 = 0 + T /\ 0 \in 0 .. T - 1
      BY <1>1, <2>1
    <3> QED
      BY <1>2, <2>1, <3>1
  <2>2. CASE d # T - 1
    <3>1. d + 1 \in 0 .. T - 1
      BY <1>1, <2>2
    <3> QED
      BY <1>2, <2>2, <3>1
  <2> QED
    BY <2>1, <2>2
<1>5. Before(c) \in 0 .. T - 1 /\ (c + 1) % T \in 0 .. T - 1
  BY <1>1, <1>3, <1>4
<1>6. (Before(c) + 1) % T = c
  BY <1>1, <1>3, <1>4, <1>5
<1>7. Before((c + 1) % T) = c
  BY <1>1, <1>3, <1>4, <1>5
<1> QED
  BY <1>5, <1>6, <1>7

-----------------------------------------------------------------------------
(* The inductive invariant.  A page that the last slice, which begins at   *)
(* page start, has passed was visited, if ever, by one that began less     *)
(* than Count pages after it; each tick since then has added Count.  A     *)
(* page that it has not reached yet may have waited since the slices       *)
(* before they started over.                                               *)

Waited(start) ==
  /\ page < start + Count =>
       since * Count <= start /\ since * Count <= start + Count - 1 - page
  /\ page >= start + Count =>
       since * Count <= start + totalPages + Count - 1 - page

LastSlice == From(IF pc = "slice" THEN Before(counter) ELSE counter)

IInv == TypeInv /\ Waited(LastSlice)

LEMMA LastSliceIs ==
  ASSUME TypeInv
  PROVE  LastSlice \in 0 .. totalPages - 1
  BY BeforeIs, FromIs DEF LastSlice, TypeInv

\* A page that has just been visited, or that is not waited for yet.
NotWaited == TypeInv /\ since = 0

LEMMA JustVisited ==
  /\ NotWaited => IInv
  /\ NotWaited' => IInv'
<1>1. ASSUME NotWaited
      PROVE  IInv
  <2>1. LastSlice \in 0 .. totalPages - 1 /\ Count \in 1 .. totalPages /\ 0 * Count = 0
    BY <1>1, LastSliceIs, CountIs DEF NotWaited
  <2> QED
    BY <1>1, <2>1 DEF IInv, Waited, TypeInv, NotWaited
<1> QED
  BY <1>1, PTL

LEMMA InitIInv == Init => IInv
<1> SUFFICES ASSUME Init
             PROVE  IInv
  OBVIOUS
<1>1. TypeInv
  BY TaskAssumption DEF Init, TypeInv
<1> QED
  BY <1>1, JustVisited DEF Init, NotWaited

LEMMA TickStep ==
  ASSUME IInv, Tick
  PROVE  IInv'
<1>1. /\ counter' = (counter + 1) % totalPages /\ pc # "slice" /\ pc' = "slice"
      /\ UNCHANGED <<totalPages, runsPerHour, page, since>>
  BY DEF Tick, tableVars
<1>2. TypeInv'
  BY <1>1, BeforeIs DEF IInv, TypeInv
<1>3. Count' = Count
  BY <1>1 DEF Count
<1>4. LastSlice' = LastSlice
  <2>1. Before(counter)' = counter
    BY <1>1, BeforeIs DEF IInv, TypeInv, Before
  <2> QED
    BY <1>1, <1>3, <2>1 DEF LastSlice, From
<1> QED
  BY <1>1, <1>2, <1>3, <1>4 DEF IInv, Waited

\* The page is visited, or the next slice has come Count pages nearer to it.
LEMMA NextSliceIs ==
  ASSUME IInv, pc = "slice", page \notin CalculateNextSlice
  PROVE  LET start == From(counter) IN
         /\ page < start + Count =>
              /\ (since + 1) * Count <= start
              /\ (since + 1) * Count <= start + Count - 1 - page
         /\ page >= start + Count =>
              (since + 1) * Count <= start + totalPages + Count - 1 - page
<1> DEFINE T == totalPages
           C == Count
           b == Before(counter)
           last == From(b)
           start == From(counter)
           waited == since * C
<1>1. T \in Nat \ {0} /\ C \in 1 .. T /\ page \in 0 .. T - 1 /\ since \in Nat
  BY CountIs DEF IInv, TypeInv
<1>2. b \in 0 .. T - 1 /\ (b + 1) % T = counter
  BY BeforeIs DEF IInv, TypeInv
<1>3. /\ last \in 0 .. T - 1 /\ start \in 0 .. T - 1
      /\ start = IF last + C < T THEN last + C ELSE last + C - T
  <2>1. TypeInv /\ counter \in 0 .. T - 1
    BY DEF IInv, TypeInv
  <2> QED
    BY <1>2, <2>1, FromIs
<1>4. C = T => start = 0 /\ last = 0
  BY <1>2, FromOfAll DEF IInv, TypeInv
<1>5. (since + 1) * C = waited + C /\ waited \in Nat
  BY <1>1, Distributive
<1>6. /\ page < last + C => waited <= last /\ waited <= last + C - 1 - page
      /\ page >= last + C => waited <= last + T + C - 1 - page
  BY DEF IInv, Waited, LastSlice
<1>7. page \notin IF start < last THEN 0 .. C + start - 1 ELSE start .. start + C - 1
  BY DEF CalculateNextSlice
<1> HIDE DEF C, last, start, waited
<1>8. CASE last + C < T
  <2>1. start = last + C /\ ~(start < last)
    BY <1>1, <1>3, <1>8
  <2>2. page < start \/ page >= start + C
    BY <1>1, <1>3, <1>7, <2>1
  <2>3. /\ page < start + C =>
             waited + C <= start /\ waited + C <= start + C - 1 - page
        /\ page >= start + C => waited + C <= start + T + C - 1 - page
    BY <1>1, <1>3, <1>5, <1>6, <2>1, <2>2
  <2> QED
    BY <1>5, <2>3 DEF C, start
<1>9. CASE last + C >= T
  <2>1. start = last + C - T
    BY <1>1, <1>3, <1>9
  <2>2. C # T
    BY <1>1, <1>4, <1>7
  <2>3. start < last
    BY <1>1, <1>3, <2>1, <2>2
  <2>4. page >= start + C
    BY <1>1, <1>3, <1>7, <2>3
  <2>5. waited + C <= start + T + C - 1 - page
    BY <1>1, <1>3, <1>5, <1>6, <1>9, <2>1
  <2> QED
    BY <1>1, <1>3, <1>5, <2>4, <2>5 DEF C, start
<1> QED
  BY <1>1, <1>3, <1>8, <1>9

LEMMA SliceStep ==
  ASSUME IInv, Slice
  PROVE  IInv'
<1>1. /\ pc = "slice" /\ pc' = "loop"
      /\ UNCHANGED <<totalPages, runsPerHour, counter, page>>
      /\ visits' = (page \in CalculateNextSlice)
      /\ since' = IF visits' THEN 0 ELSE since + 1
  BY DEF Slice, tableVars
<1>2. TypeInv'
  BY <1>1 DEF IInv, TypeInv
<1>3. Count' = Count /\ LastSlice' = From(counter)
  BY <1>1 DEF Count, LastSlice, From
<1>4. CASE page \in CalculateNextSlice
  BY <1>1, <1>2, <1>4, JustVisited DEF NotWaited
<1>5. CASE page \notin CalculateNextSlice
  <2>1. since' = since + 1
    BY <1>1, <1>5
  <2> QED
    BY <1>1, <1>2, <1>3, <1>5, <2>1, NextSliceIs DEF IInv, Waited
<1> QED
  BY <1>4, <1>5

\* Steps that do not touch the table.
LEMMA OtherStep ==
  ASSUME IInv, UNCHANGED <<totalPages, runsPerHour, counter, page, since>>,
         pc = pc' \/ "slice" \notin {pc, pc'}
  PROVE  IInv'
<1>1. TypeInv'
  BY DEF IInv, TypeInv
<1>2. Count' = Count
  BY DEF Count
<1>3. LastSlice' = LastSlice
  BY <1>2 DEF LastSlice, From, Before
<1> QED
  BY <1>1, <1>2, <1>3 DEF IInv, Waited

LEMMA NextIInv == IInv /\ [Next]_vars => IInv'
<1> SUFFICES ASSUME IInv, [Next]_vars
             PROVE  IInv'
  OBVIOUS
<1>1. CASE Fail
  <2>1. TypeInv' /\ since' = 0
    BY <1>1 DEF Fail, tableVars, IInv, TypeInv
  <2> QED
    BY <2>1, JustVisited DEF NotWaited
<1>2. CASE Resize
  <2>1. TypeInv' /\ since' = 0
    <3>1. totalPages' \in (page + 1)..MaxPages /\ counter' \in 0..(totalPages' - 1)
          /\ since' = 0 /\ UNCHANGED <<runsPerHour, page>>
      BY <1>2 DEF Resize
    <3>2. MaxPages \in Nat
      BY TaskAssumption
    <3>3. page \in Nat
      BY DEF IInv, TypeInv
    <3>4. totalPages' \in Nat \ {0} /\ page \in 0..(totalPages' - 1)
      <4>1. ASSUME NEW n \in (page + 1)..MaxPages
            PROVE  n \in Nat \ {0} /\ page \in 0..(n - 1)
        BY <3>2, <3>3
      <4> QED
        BY <3>1, <4>1
    <3> QED
      BY <3>1, <3>4 DEF IInv, TypeInv
  <2> QED
    BY <2>1, JustVisited DEF NotWaited
<1>3. CASE Loop \/ Operation \/ RowsBecomeReady \/ Shutdown \/ UNCHANGED vars
  <2>1. UNCHANGED <<totalPages, runsPerHour, counter, page, since>>
    BY <1>3 DEF Loop, Operation, RowsBecomeReady, Shutdown, vars, tableVars, tickVars
  <2>2. pc = pc' \/ "slice" \notin {pc, pc'}
    BY <1>3 DEF Loop, Operation, RowsBecomeReady, Shutdown, vars
  <2> QED
    BY <2>1, <2>2, OtherStep
<1> QED
  BY <1>1, <1>2, <1>3, TickStep, SliceStep DEF Next, Step

LEMMA IInvHolds == Spec => []IInv
  BY InitIInv, NextIInv, PTL DEF Spec

-----------------------------------------------------------------------------

\* As long as the table keeps its size no page waits longer for a visit than it
\* takes to visit all pages once, for tables of any size (CalculateNextSlice).
THEOREM EveryPageInTimeAlways == Spec => []EveryPageInTime
<1>1. ASSUME IInv
      PROVE  EveryPageInTime
  <2>1. Count \in 1 .. totalPages /\ LastSlice \in 0 .. totalPages - 1
        /\ totalPages \in Nat \ {0} /\ page \in 0 .. totalPages - 1 /\ since \in Nat
    BY <1>1, CountIs, LastSliceIs DEF IInv, TypeInv
  <2>2. since * Count \in Nat
    BY <2>1, Distributive
  <2>3. since * Count < totalPages
    BY <1>1, <2>1, <2>2 DEF IInv, Waited
  <2> QED
    BY <2>1, <2>3, FewerTimes DEF EveryPageInTime, TicksForAll
<1> QED
  BY <1>1, IInvHolds, PTL
=============================================================================

------------------------- MODULE MapBeautifyProofs --------------------------
(***************************************************************************)
(* What the morphology of the floor plan and the removal of small clusters *)
(* do to a mask of any picture of any size, and what the plan shows.  The  *)
(* scan and the search are recursive functions: what they compute is found *)
(* with the smallest number, or the largest cluster, that would be wrong.  *)
(***************************************************************************)
EXTENDS MapBeautify, FiniteSetTheorems, WellFoundedInduction, TLAPS

USE BeautifyAssumption

(* The pixels of a kernel are those within one of its middle. *)
LEMMA KernelNear ==
  ASSUME NEW p \in Int \X Int, NEW q \in Int \X Int
  PROVE  q \in Kernel(p) <=> Within(1, q, p)
<1>1. ASSUME q \in Kernel(p) PROVE Within(1, q, p)
  <2>1. PICK dx \in -1 .. 1, dy \in -1 .. 1 : q = <<p[1] + dx, p[2] + dy>>
    BY <1>1 DEF Kernel
  <2> QED BY <2>1 DEF Within
<1>2. ASSUME Within(1, q, p) PROVE q \in Kernel(p)
  <2>1. q[1] - p[1] \in -1 .. 1 /\ q[2] - p[2] \in -1 .. 1
    BY <1>2 DEF Within
  <2>2. q = <<p[1] + (q[1] - p[1]), p[2] + (q[2] - p[2])>>
    OBVIOUS
  <2> QED BY <2>1, <2>2 DEF Kernel
<1> QED BY <1>1, <1>2

(* The kernel is symmetric. *)
LEMMA KernelSymmetric ==
  ASSUME NEW p \in Int \X Int, NEW q \in Int \X Int, q \in Kernel(p)
  PROVE  p \in Kernel(q)
<1>1. Within(1, q, p)
  BY KernelNear
<1>2. Within(1, p, q)
  BY <1>1 DEF Within
<1> QED BY <1>2, KernelNear

LEMMA PixelsAreIntegers == Pixels \subseteq Int \X Int
BY DEF Pixels, Columns, Rows

(* dilate only adds pixels, and erode only takes pixels away. *)
LEMMA DilateGrows ==
  ASSUME NEW mask \in SUBSET Pixels
  PROVE  mask \subseteq Dilate(mask)
<1> SUFFICES ASSUME NEW p \in mask PROVE p \in Dilate(mask)
  OBVIOUS
<1>1. p \in Int \X Int
  BY PixelsAreIntegers
<1>2. Within(1, p, p)
  BY <1>1 DEF Within
<1>3. p \in Kernel(p)
  BY <1>1, <1>2, KernelNear
<1> QED BY <1>3 DEF Dilate

LEMMA ErodeShrinks ==
  ASSUME NEW mask
  PROVE  Erode(mask) \subseteq mask
BY DEF Erode

(* A dilated mask has a pixel of the mask within one of each of its own. *)
LEMMA DilateNear ==
  ASSUME NEW mask \in SUBSET Pixels, NEW p \in Dilate(mask)
  PROVE  \E q \in mask : Within(1, p, q)
<1>1. PICK q \in mask : p \in Kernel(q)
  BY DEF Dilate
<1>2. p \in Int \X Int /\ q \in Int \X Int
  BY PixelsAreIntegers DEF Dilate
<1> QED BY <1>1, <1>2, KernelNear

(* morphClose removes no wall pixel but those on the rim of the picture,   *)
(* whose kernel reaches out of it: erode after dilate takes back only what *)
(* dilate has added.                                                       *)
THEOREM ClosingKeepsWalls ==
  ASSUME NEW mask \in SUBSET Pixels
  PROVE  mask \cap Inner \subseteq MorphClose(mask)
<1> SUFFICES ASSUME NEW p \in mask, Kernel(p) \subseteq Pixels
             PROVE  p \in Erode(Dilate(mask))
  BY DEF Inner, MorphClose
<1>1. p \in Dilate(mask)
  BY DilateGrows
<1>2. Kernel(p) \subseteq Dilate(mask)
  BY DEF Dilate
<1> QED BY <1>1, <1>2 DEF Erode

(* morphClose invents no wall far from one, and dilating the result, which *)
(* thickens the lines, stays within two pixels of a wall of the picture.   *)
THEOREM ClosingStaysNear ==
  ASSUME NEW mask \in SUBSET Pixels, NEW part \in SUBSET MorphClose(mask),
         NEW p \in Dilate(part)
  PROVE  \E q \in mask : Within(2, p, q)
<1>1. part \subseteq Dilate(mask)
  BY ErodeShrinks DEF MorphClose
<1>2. part \in SUBSET Pixels
  BY <1>1 DEF Dilate
<1>3. PICK o \in part : Within(1, p, o)
  BY <1>2, DilateNear
<1>4. PICK q \in mask : Within(1, o, q)
  BY <1>1, DilateNear
<1>5. p \in Int \X Int /\ o \in Int \X Int /\ q \in Int \X Int
  BY <1>1, PixelsAreIntegers DEF Dilate
<1>6. Within(2, p, q)
  BY <1>3, <1>4, <1>5 DEF Within
<1> QED BY <1>6

(* Closing a mask twice is closing it once: morphClose has nothing left to *)
(* fill, and what it keeps is off the rim.                                 *)
THEOREM ClosingIsIdempotent ==
  ASSUME NEW mask \in SUBSET Pixels
  PROVE  MorphClose(MorphClose(mask)) = MorphClose(mask)
<1> DEFINE closed == MorphClose(mask)
<1>1. closed \in SUBSET Pixels
  BY ErodeShrinks DEF MorphClose, Dilate
<1>2. Dilate(closed) \subseteq Dilate(mask)
  <2> SUFFICES ASSUME NEW p \in Dilate(closed) PROVE p \in Dilate(mask)
    OBVIOUS
  <2>1. PICK o \in closed : p \in Kernel(o) /\ p \in Pixels
    BY DEF Dilate
  <2>2. Kernel(o) \subseteq Dilate(mask)
    BY DEF MorphClose, Erode
  <2> QED BY <2>1, <2>2
<1>3. MorphClose(closed) \subseteq closed
  BY <1>2 DEF MorphClose, Erode
<1>4. closed \subseteq Inner
  BY DEF MorphClose, Erode, Dilate, Inner
<1>5. closed \subseteq MorphClose(closed)
  <2>1. closed \cap Inner \subseteq MorphClose(closed)
    BY <1>1, ClosingKeepsWalls
  <2> QED BY <1>4, <2>1
<1> QED BY <1>3, <1>5
-----------------------------------------------------------------------------
(* Induction.  A set of numbers has a smallest one, which takes the place  *)
(* of the step of an induction.                                            *)
LEMMA SmallestNumber ==
  ASSUME NEW T \in SUBSET Nat, T # {}
  PROVE  \E n \in T : \A m \in T : n <= m
<1> DEFINE R == OpToRel(<, Nat)
<1>1. IsWellFoundedOn(R, Nat)
  BY NatLessThanWellFounded, Zenon
<1>2. \A m, n \in Nat : <<m, n>> \in R <=> m < n
  BY Zenon DEF OpToRel
<1> HIDE DEF R
<1>3. PICK n \in T : \A m \in T : ~(<<m, n>> \in R)
  BY <1>1, WFMin
<1>4. \A m \in T : ~(m < n)
  BY <1>2, <1>3
<1> QED BY <1>4

LEMMA Induction ==
  ASSUME NEW n \in Nat, NEW K, 0 \in K, \A k \in 0 .. n - 1 : k \in K => k + 1 \in K
  PROVE  \A k \in 0 .. n : k \in K
<1> DEFINE T == {k \in 0 .. n : k \notin K}
<1>1. SUFFICES ASSUME T # {} PROVE FALSE
  OBVIOUS
<1>2. T \in SUBSET Nat
  OBVIOUS
<1>3. PICK k \in T : \A m \in T : k <= m
  BY <1>1, <1>2, SmallestNumber
<1>4. k # 0 /\ k - 1 \in 0 .. n - 1 /\ k - 1 \notin T
  BY <1>3
<1> QED BY <1>4

LEMMA LargestNumber ==
  ASSUME NEW n \in Nat, NEW T \in SUBSET (1 .. n), T # {}
  PROVE  Max(T) \in T /\ \A m \in T : m <= Max(T)
<1> DEFINE U == {n - m : m \in T}
<1>1. U \in SUBSET Nat /\ U # {}
  <2>1. \A m \in T : m \in 1 .. n /\ n - m \in Nat
    OBVIOUS
  <2> QED BY <2>1
<1>2. PICK u \in U : \A m \in U : u <= m
  BY <1>1, SmallestNumber
<1>3. PICK m \in T : u = n - m
  OBVIOUS
<1>4. \A k \in T : n - k \in U
  OBVIOUS
<1>5. \A k \in T : m >= k
  BY <1>2, <1>3, <1>4
<1> QED BY <1>5 DEF Max

LEMMA LastIsLargest ==
  ASSUME NEW n \in Nat, NEW T \in SUBSET (1 .. n), n \in T
  PROVE  Max(T) = n
<1>1. Max(T) \in T /\ \A m \in T : m <= Max(T)
  BY LargestNumber
<1>2. Max(T) \in 1 .. n
  BY <1>1
<1> QED BY <1>1, <1>2

LEMMA LargestSet ==
  ASSUME NEW S, IsFiniteSet(S), NEW T \in SUBSET (SUBSET S), T # {}
  PROVE  \E U \in T : \A V \in T : U \subseteq V => U = V
<1> DEFINE Sizes == {Cardinality(S \ V) : V \in T}
<1>1. \A V \in T : IsFiniteSet(S \ V) /\ Cardinality(S \ V) \in Nat
  BY FS_Subset, FS_CardinalityType, \A V \in T : (S \ V) \in SUBSET S
<1>2. Sizes \in SUBSET Nat /\ Sizes # {}
  BY <1>1
<1>3. PICK n \in Sizes : \A k \in Sizes : n <= k
  BY <1>2, SmallestNumber
<1>4. PICK U \in T : n = Cardinality(S \ U)
  OBVIOUS
<1>5. ASSUME NEW V \in T, U \subseteq V PROVE U = V
  <2>1. (S \ V) \in SUBSET (S \ U)
    BY <1>5
  <2>2. Cardinality(S \ V) = Cardinality(S \ U)
    <3>1. Cardinality(S \ V) <= Cardinality(S \ U)
      BY <1>1, <2>1, FS_Subset
    <3>2. Cardinality(S \ U) <= Cardinality(S \ V)
      BY <1>3, <1>4
    <3> QED BY <1>1, <3>1, <3>2
  <2>3. S \ V = S \ U
    BY <1>1, <2>1, <2>2, FS_Subset
  <2> QED BY <1>5, <2>3
<1> QED BY <1>5
-----------------------------------------------------------------------------
(* The cluster that is found. *)
Grow(avail, c) == c \cup (Dilate(c) \cap avail)
Closed(avail, c) == Dilate(c) \cap avail \subseteq c
Least(avail, c) ==
  {q \in Pixels : \A d \in SUBSET Pixels : c \subseteq d /\ Closed(avail, d) => q \in d}

LEMMA DilateMonotonic ==
  ASSUME NEW c, NEW d, c \subseteq d
  PROVE  Dilate(c) \subseteq Dilate(d)
BY DEF Dilate

LEMMA LeastIsClosed ==
  ASSUME NEW avail, NEW c \in SUBSET Pixels
  PROVE  /\ Least(avail, c) \in SUBSET Pixels
         /\ c \subseteq Least(avail, c)
         /\ Closed(avail, Least(avail, c))
         /\ \A d \in SUBSET Pixels :
              c \subseteq d /\ Closed(avail, d) => Least(avail, c) \subseteq d
<1>1. /\ Least(avail, c) \in SUBSET Pixels
      /\ c \subseteq Least(avail, c)
      /\ \A d \in SUBSET Pixels : c \subseteq d /\ Closed(avail, d) => Least(avail, c) \subseteq d
  BY DEF Least
<1>2. Closed(avail, Least(avail, c))
  <2>1. SUFFICES ASSUME NEW q \in Dilate(Least(avail, c)), q \in avail
                 PROVE  q \in Least(avail, c)
    BY DEF Closed
  <2>2. q \in Pixels
    BY DEF Dilate
  <2>3. ASSUME NEW d \in SUBSET Pixels, c \subseteq d, Closed(avail, d) PROVE q \in d
    <3>1. q \in Dilate(d)
      BY <1>1, <2>3, DilateMonotonic
    <3> QED BY <2>1, <2>3, <3>1 DEF Closed
  <2> QED BY <2>2, <2>3 DEF Least
<1> QED BY <1>1, <1>2

LEMMA LeastGrow ==
  ASSUME NEW avail, NEW c \in SUBSET Pixels
  PROVE  /\ Grow(avail, c) \in SUBSET Pixels
         /\ c \subseteq Grow(avail, c)
         /\ Grow(avail, c) = c => Least(avail, c) = c
         /\ Least(avail, Grow(avail, c)) = Least(avail, c)
<1>1. Grow(avail, c) \in SUBSET Pixels /\ c \subseteq Grow(avail, c)
  BY DEF Grow, Dilate
<1>2. Grow(avail, c) = c => Closed(avail, c)
  BY DEF Grow, Closed
<1>3. ASSUME NEW d \in SUBSET Pixels, Closed(avail, d), c \subseteq d
      PROVE  Grow(avail, c) \subseteq d
  BY <1>3, DilateMonotonic DEF Grow, Closed
<1>4. Least(avail, Grow(avail, c)) = Least(avail, c)
  BY <1>1, <1>3 DEF Least
<1> QED BY <1>1, <1>2, <1>4, LeastIsClosed

LEMMA PixelsFinite == IsFiniteSet(Pixels)
<1>1. 0 \in Int /\ Width - 1 \in Int /\ Height - 1 \in Int
  OBVIOUS
<1>2. IsFiniteSet(Columns) /\ IsFiniteSet(Rows)
  BY <1>1, FS_Interval DEF Columns, Rows
<1> QED BY <1>2, FS_Product DEF Pixels

(* The recursion of the search ends: it finds the least set that cannot    *)
(* grow.                                                                   *)
LEMMA FloodIsLeast ==
  ASSUME NEW mask, NEW visited, NEW p \in Pixels
  PROVE  Flood(mask, visited, p) = Least(mask \ visited, {p})
<1> DEFINE avail == mask \ visited
           Grows(f) == f = [c \in SUBSET Pixels |->
                              IF Grow(avail, c) = c THEN c ELSE f[Grow(avail, c)]]
           grown == CHOOSE f : Grows(f)
           least == [c \in SUBSET Pixels |-> Least(avail, c)]
<1>1. Flood(mask, visited, p) = grown[{p}]
  BY DEF Flood, Grow
<1>2. Grows(least)
  BY LeastGrow
<1>3. Grows(grown)
  BY <1>2
<1> HIDE DEF grown
<1> DEFINE Wrong == {c \in SUBSET Pixels : grown[c] # Least(avail, c)}
<1>4. Wrong = {}
  <2>1. SUFFICES ASSUME Wrong # {} PROVE FALSE
    OBVIOUS
  <2>a. Wrong \in SUBSET (SUBSET Pixels)
    OBVIOUS
  <2>2. PICK c \in Wrong : \A d \in Wrong : c \subseteq d => c = d
    <3> HIDE DEF Wrong
    <3> QED BY <2>1, <2>a, PixelsFinite, LargestSet
  <2>3. Grow(avail, c) # c /\ grown[c] = grown[Grow(avail, c)]
    BY <1>3, LeastGrow
  <2>4. Grow(avail, c) \notin Wrong
    BY <2>2, <2>3, LeastGrow
  <2> QED BY <2>3, <2>4, LeastGrow
<1> QED BY <1>1, <1>4
-----------------------------------------------------------------------------
(* The connected component of a pixel is the least part of the mask that   *)
(* cannot grow.                                                            *)
LEMMA ComponentIsLeast ==
  ASSUME NEW mask \in SUBSET Pixels, NEW p \in mask
  PROVE  /\ Component(mask, p) = Least(mask, {p})
         /\ p \in Component(mask, p)
         /\ Component(mask, p) \in SUBSET mask
         /\ Closed(mask, Component(mask, p))
         /\ \A d \in SUBSET Pixels :
              p \in d /\ Closed(mask, d) => Component(mask, p) \subseteq d
<1>1. mask \ {} = mask /\ p \in Pixels /\ {p} \in SUBSET Pixels
  OBVIOUS
<1>2. Component(mask, p) = Least(mask, {p})
  BY <1>1, FloodIsLeast DEF Component
<1>3. Closed(mask, mask)
  BY DEF Closed
<1>4. \A d \in SUBSET Pixels :
        p \in d /\ Closed(mask, d) => Component(mask, p) \subseteq d
  <2> SUFFICES ASSUME NEW d \in SUBSET Pixels, p \in d, Closed(mask, d)
               PROVE  Component(mask, p) \subseteq d
    OBVIOUS
  <2>1. {p} \subseteq d
    OBVIOUS
  <2> QED BY <1>1, <1>2, <2>1, LeastIsClosed
<1>5. p \in Component(mask, p) /\ Closed(mask, Component(mask, p))
  BY <1>1, <1>2, LeastIsClosed
<1> QED BY <1>2, <1>3, <1>4, <1>5

(* Each pixel of a component has that component. *)
LEMMA ComponentsPartition ==
  ASSUME NEW mask \in SUBSET Pixels, NEW p \in mask, NEW q \in Component(mask, p)
  PROVE  q \in mask /\ Component(mask, q) = Component(mask, p)
<1> DEFINE ofP == Component(mask, p)
           ofQ == Component(mask, q)
           rest == ofP \ ofQ
<1>0. q \in mask
  BY ComponentIsLeast
<1>1. /\ p \in ofP /\ ofP \in SUBSET mask /\ Closed(mask, ofP)
      /\ \A d \in SUBSET Pixels : p \in d /\ Closed(mask, d) => ofP \subseteq d
  BY ComponentIsLeast
<1>2. /\ q \in ofQ /\ ofQ \in SUBSET mask /\ Closed(mask, ofQ)
      /\ \A d \in SUBSET Pixels : q \in d /\ Closed(mask, d) => ofQ \subseteq d
  BY <1>0, ComponentIsLeast
<1> HIDE DEF ofP, ofQ
<1>3. ofQ \subseteq ofP
  <2>1. q \in ofP
    BY DEF ofP
  <2> QED BY <1>1, <1>2, <2>1
<1>4. Closed(mask, rest)
  <2>1. SUFFICES ASSUME NEW o \in Dilate(rest), o \in mask, o \in ofQ PROVE FALSE
    <3>1. Dilate(rest) \subseteq Dilate(ofP)
      BY DilateMonotonic
    <3> QED BY <1>1, <3>1 DEF Closed
  <2>2. PICK n \in rest : o \in Kernel(n)
    BY DEF Dilate
  <2>3. n \in Pixels /\ o \in Pixels /\ n \in mask
    BY <1>1, <2>1
  <2>4. n \in Kernel(o)
    BY <2>2, <2>3, KernelSymmetric, PixelsAreIntegers
  <2>5. n \in Dilate(ofQ)
    BY <2>1, <2>3, <2>4 DEF Dilate
  <2> QED BY <1>2, <2>3, <2>5 DEF Closed
<1>5. p \in ofQ
  <2>1. SUFFICES ASSUME p \notin ofQ PROVE FALSE
    OBVIOUS
  <2>2. p \in rest /\ rest \in SUBSET Pixels
    BY <1>1, <2>1
  <2>3. ofP \subseteq rest
    BY <1>1, <1>4, <2>2
  <2>4. q \in ofP
    BY DEF ofP
  <2> QED BY <1>2, <2>3, <2>4
<1>6. ofP \subseteq ofQ
  BY <1>1, <1>2, <1>5
<1> QED BY <1>0, <1>3, <1>6 DEF ofP, ofQ
-----------------------------------------------------------------------------
(* The scan. *)

LEMMA DivisionRest ==
  ASSUME NEW n \in Nat, NEW w \in Nat \ {0}
  PROVE  n % w \in 0 .. w - 1 /\ n \div w \in Int /\ n = w * (n \div w) + (n % w)
OBVIOUS

(* Line by line every pixel is visited. *)
LEMMA ScanReaches ==
  ASSUME NEW p \in Pixels
  PROVE  \E i \in 1 .. Width * Height : Scan[i] = p
<1>1. PICK x \in Columns, y \in Rows : p = <<x, y>>
  BY DEF Pixels
<1>2. /\ x \in Nat /\ x < Width /\ y \in Nat /\ y + 1 <= Height
  BY <1>1 DEF Columns, Rows
<1> DEFINE i == y * Width + x
<1>3. y * Width \in Nat /\ Width * Height \in Nat /\ y * Width + Width <= Width * Height
  <2>1. PICK k \in Nat : Height = y + 1 + k
    <3>1. Height - (y + 1) \in Nat /\ Height = y + 1 + (Height - (y + 1))
      BY <1>2
    <3> QED BY <3>1
  <2>2. Width * Height = y * Width + Width + k * Width
    BY <1>2, <2>1
  <2>3. k * Width \in Nat /\ y * Width \in Nat
    BY <1>2
  <2> QED BY <1>2, <2>2, <2>3
<1>4. i \in 0 .. Width * Height - 1
  BY <1>2, <1>3
<1>5. i % Width = x /\ i \div Width = y
  <2>1. /\ i % Width \in 0 .. Width - 1 /\ i \div Width \in Int
        /\ i = Width * (i \div Width) + (i % Width)
    <3>1. i \in Nat
      BY <1>4
    <3> HIDE DEF i
    <3> QED BY <3>1, DivisionRest
  <2>2. ASSUME NEW q \in Int, NEW r \in 0 .. Width - 1, i = Width * q + r PROVE q = y
    <3>1. Width * (q - y) = x - r
      BY <1>2, <2>2
    <3>2. CASE q - y >= 1
      <4>1. PICK d \in Nat : q - y = d + 1
        <5>1. q - y - 1 \in Nat
          BY <1>2, <3>2
        <5> QED BY <1>2, <5>1
      <4>2. Width * (q - y) = Width * d + Width /\ Width * d \in Nat
        BY <4>1
      <4> QED BY <1>2, <3>1, <4>2
    <3>3. CASE q - y <= -1
      <4>1. PICK d \in Nat : q - y = -(d + 1)
        <5>1. y - q - 1 \in Nat
          BY <1>2, <3>3
        <5> QED BY <1>2, <5>1
      <4>2. Width * (q - y) = -(Width * d + Width) /\ Width * d \in Nat
        BY <4>1
      <4> QED BY <1>2, <3>1, <4>2
    <3> QED BY <1>2, <3>2, <3>3
  <2>3. i \div Width = y
    BY <2>1, <2>2
  <2> QED BY <1>2, <2>1, <2>3
<1>6. i + 1 \in 1 .. Width * Height /\ (i + 1) - 1 = i
  BY <1>3, <1>4
<1> QED BY <1>1, <1>5, <1>6 DEF Scan

Found == [mask : SUBSET Pixels, visited : SUBSET Pixels]

(* The fold goes over the numbers of the pixels from the largest of a set  *)
(* down.  A function that does so exists, shown number by number, ...      *)
Unfolds(h, S, base) ==
  h = [s \in SUBSET S |-> IF s = {} THEN base ELSE VisitPixel(h[s \ {Max(s)}], Scan[Max(s)])]

LEMMA UnfoldingExists ==
  ASSUME NEW n \in Nat, NEW base
  PROVE  \E h : Unfolds(h, 1 .. n, base)
<1> DEFINE Has == {k \in 0 .. n : \E h : Unfolds(h, 1 .. k, base)}
<1>1. 0 \in Has
  <2> DEFINE h == [s \in SUBSET (1 .. 0) |-> base]
  <2>1. \A s \in SUBSET (1 .. 0) : s = {}
    OBVIOUS
  <2>2. Unfolds(h, 1 .. 0, base)
    BY <2>1 DEF Unfolds
  <2> QED BY <2>2
<1>2. ASSUME NEW k \in 0 .. n - 1, k \in Has PROVE k + 1 \in Has
  <2>1. PICK h : Unfolds(h, 1 .. k, base)
    BY <1>2
  <2> DEFINE S == 1 .. k + 1
             longer == [s \in SUBSET S |->
                          IF k + 1 \in s THEN VisitPixel(h[s \ {k + 1}], Scan[k + 1]) ELSE h[s]]
  <2>2. ASSUME NEW s \in SUBSET S
        PROVE  longer[s] =
                 IF s = {} THEN base ELSE VisitPixel(longer[s \ {Max(s)}], Scan[Max(s)])
    <3>1. CASE s = {}
      <4>1. {} \in SUBSET (1 .. k) /\ h[{}] = base
        BY <2>1 DEF Unfolds
      <4> QED BY <3>1, <4>1
    <3>2. CASE s # {} /\ k + 1 \in s
      <4>1. Max(s) = k + 1
        BY <3>2, LastIsLargest, k + 1 \in Nat
      <4>2. k + 1 \notin s \ {k + 1} /\ s \ {k + 1} \in SUBSET S
        OBVIOUS
      <4>3. longer[s \ {k + 1}] = h[s \ {k + 1}]
        BY <4>2
      <4> QED BY <3>2, <4>1, <4>3
    <3>3. CASE s # {} /\ k + 1 \notin s
      <4>1. s \in SUBSET (1 .. k)
        BY <3>3
      <4>2. s \ {Max(s)} \in SUBSET (1 .. k) /\ k + 1 \notin s \ {Max(s)}
        BY <3>3, <4>1
      <4>3. h[s] = VisitPixel(h[s \ {Max(s)}], Scan[Max(s)])
        BY <2>1, <3>3, <4>1 DEF Unfolds
      <4> QED BY <3>3, <4>2, <4>3
    <3> QED BY <3>1, <3>2, <3>3
  <2>3. Unfolds(longer, S, base)
    BY <2>2 DEF Unfolds
  <2> QED BY <2>3
<1> HIDE DEF Has
<1>3. n \in Has
  BY <1>1, <1>2, Induction
<1> QED BY <1>3 DEF Has

(* ... and so the scan visits one pixel after the other. *)
LEMMA ScanSteps ==
  ASSUME NEW base
  PROVE  \E g : /\ FoldLeft(VisitPixel, base, Scan) = g[Width * Height]
                /\ g[0] = base
                /\ \A k \in 1 .. Width * Height : g[k] = VisitPixel(g[k - 1], Scan[k])
<1> DEFINE N == Width * Height
           h == CHOOSE h : Unfolds(h, 1 .. N, base)
           g == [k \in 0 .. N |-> h[1 .. k]]
<1>0. N \in Nat /\ DOMAIN Scan = 1 .. N
  BY DEF Scan
<1>1. Unfolds(h, 1 .. N, base)
  BY <1>0, UnfoldingExists
<1>2. FoldLeft(VisitPixel, base, Scan) = h[1 .. N]
  <2>1. FoldLeft(VisitPixel, base, Scan) =
          (CHOOSE f : f = [s \in SUBSET DOMAIN Scan |->
                             IF s = {} THEN base
                             ELSE VisitPixel(f[s \ {Max(s)}], Scan[Max(s)])])[DOMAIN Scan]
    BY Zenon DEF FoldLeft, MapThenFoldSet
  <2> QED BY <1>0, <2>1 DEF Unfolds
<1> HIDE DEF h, N
<1>3. g[0] = base
  <2>1. 1 .. 0 = {} /\ {} \in SUBSET (1 .. N)
    OBVIOUS
  <2>2. h[{}] = base
    BY <1>1, <2>1 DEF Unfolds
  <2> QED BY <1>0, <2>1, <2>2
<1>4. ASSUME NEW k \in 1 .. N PROVE g[k] = VisitPixel(g[k - 1], Scan[k])
  <2>1. 1 .. k \in SUBSET (1 .. N) /\ 1 .. k # {} /\ k \in Nat
    BY <1>0
  <2>2. Max(1 .. k) = k
    <3>1. k \in 1 .. k /\ 1 .. k \in SUBSET (1 .. k)
      BY <2>1
    <3> QED BY <2>1, <3>1, LastIsLargest
  <2>3. (1 .. k) \ {k} = 1 .. (k - 1)
    BY <1>0
  <2>4. h[1 .. k] = VisitPixel(h[1 .. (k - 1)], Scan[k])
    BY <1>1, <2>1, <2>2, <2>3 DEF Unfolds
  <2>5. k \in 0 .. N /\ k - 1 \in 0 .. N
    BY <1>0
  <2> QED BY <2>4, <2>5
<1>5. FoldLeft(VisitPixel, base, Scan) = g[N]
  BY <1>0, <1>2
<1> QED BY <1>3, <1>4, <1>5 DEF N

(* After k pixels: the components that one of them belongs to are visited, *)
(* and the small ones of these are gone.  Nothing else happened.           *)
Big(mask, p) == Cardinality(Component(mask, p)) >= MinCluster
ScanInv(mask, found, k) ==
  /\ found \in Found
  /\ found.visited \subseteq mask
  /\ \A p \in mask : p \in found.visited <=> \E i \in 1 .. k : Scan[i] \in Component(mask, p)
  /\ found.mask = {p \in mask : p \in found.visited => Big(mask, p)}

(* The search from a pixel that was not visited finds its component in the *)
(* untouched mask: what is gone or visited are other components.           *)
LEMMA FloodFindsComponent ==
  ASSUME NEW mask \in SUBSET Pixels, NEW found, NEW k, ScanInv(mask, found, k),
         NEW p \in mask, p \notin found.visited
  PROVE  Flood(found.mask, found.visited, p) = Component(mask, p)
<1> DEFINE avail == found.mask \ found.visited
           of == Component(mask, p)
           least == Least(avail, {p})
<1>1. avail = mask \ found.visited
  BY DEF ScanInv
<1>2. of \cap found.visited = {}
  BY ComponentsPartition DEF ScanInv
<1>3. /\ p \in of /\ of \in SUBSET mask /\ Closed(mask, of)
      /\ \A d \in SUBSET Pixels : p \in d /\ Closed(mask, d) => of \subseteq d
  BY ComponentIsLeast
<1>4. /\ p \in least /\ least \in SUBSET Pixels /\ Closed(avail, least)
      /\ \A d \in SUBSET Pixels : {p} \subseteq d /\ Closed(avail, d) => least \subseteq d
  <2>1. {p} \in SUBSET Pixels
    OBVIOUS
  <2> HIDE DEF avail
  <2>2. /\ {p} \subseteq least /\ least \in SUBSET Pixels /\ Closed(avail, least)
        /\ \A d \in SUBSET Pixels : {p} \subseteq d /\ Closed(avail, d) => least \subseteq d
    BY <2>1, LeastIsClosed
  <2>3. p \in least
    BY <2>2
  <2> QED BY <2>2, <2>3
<1>5. Flood(found.mask, found.visited, p) = least
  BY FloodIsLeast
<1> HIDE DEF avail, of, least
<1>6. least \subseteq of
  <2>1. Closed(avail, of) /\ {p} \subseteq of
    BY <1>1, <1>3 DEF Closed
  <2> QED BY <1>3, <1>4, <2>1
<1>7. Closed(mask, least)
  <2>1. SUFFICES ASSUME NEW q \in Dilate(least), q \in mask PROVE q \in least
    BY DEF Closed
  <2>2. q \in of
    BY <1>3, <1>6, <2>1, DilateMonotonic DEF Closed
  <2> QED BY <1>1, <1>2, <1>4, <2>1, <2>2 DEF Closed
<1>8. of \subseteq least
  BY <1>3, <1>4, <1>7
<1> QED BY <1>5, <1>6, <1>8 DEF of

LEMMA VisitKeepsScanInv ==
  ASSUME NEW mask \in SUBSET Pixels, NEW found, NEW k \in Nat, ScanInv(mask, found, k)
  PROVE  ScanInv(mask, VisitPixel(found, Scan[k + 1]), k + 1)
<1> DEFINE p == Scan[k + 1]
           Touches(q, n) == \E i \in 1 .. n : Scan[i] \in Component(mask, q)
<1>0. \A q \in mask : Touches(q, k + 1) <=> Touches(q, k) \/ p \in Component(mask, q)
  <2>1. 1 .. k + 1 = (1 .. k) \cup {k + 1}
    OBVIOUS
  <2> QED BY <2>1
<1>1. CASE p \notin found.mask \/ p \in found.visited
  <2>1. VisitPixel(found, p) = found
    BY <1>1 DEF VisitPixel
  <2>2. p \notin mask \/ p \in found.visited
    BY <1>1 DEF ScanInv
  <2>3. ASSUME NEW q \in mask, p \in Component(mask, q) PROVE Touches(q, k)
    <3>1. p \in mask /\ Component(mask, p) = Component(mask, q)
      BY <2>3, ComponentsPartition
    <3>2. Touches(p, k)
      BY <2>2, <3>1 DEF ScanInv
    <3> QED BY <3>1, <3>2
  <2> QED BY <1>0, <2>1, <2>3 DEF ScanInv
<1>2. CASE p \in found.mask /\ p \notin found.visited
  <2> DEFINE cluster == Flood(found.mask, found.visited, p)
  <2>1. p \in mask
    BY <1>2 DEF ScanInv
  <2>2. cluster = Component(mask, p)
    BY <1>2, <2>1, FloodFindsComponent
  <2>3. ASSUME NEW q \in mask PROVE q \in cluster <=> p \in Component(mask, q)
    <3>1. q \in Component(mask, q) /\ p \in Component(mask, p)
      BY <2>1, ComponentIsLeast
    <3>2. ASSUME q \in Component(mask, p) PROVE p \in Component(mask, q)
      BY <2>1, <3>1, <3>2, ComponentsPartition
    <3>3. ASSUME p \in Component(mask, q) PROVE q \in Component(mask, p)
      BY <3>1, <3>3, ComponentsPartition
    <3> QED BY <2>2, <3>2, <3>3
  <2>4. \A q \in cluster : q \in mask /\ Component(mask, q) = Component(mask, p)
    BY <2>1, <2>2, ComponentsPartition
  <2>5. VisitPixel(found, p) =
          [mask |-> IF Cardinality(cluster) < MinCluster
                    THEN found.mask \ cluster ELSE found.mask,
           visited |-> found.visited \cup cluster]
    BY <1>2 DEF VisitPixel
  <2> HIDE DEF cluster
  <2>6. Cardinality(cluster) \in Nat
    <3>1. cluster \in SUBSET Pixels
      <4>1. Component(mask, p) \in SUBSET mask
        BY <2>1, ComponentIsLeast
      <4> QED BY <2>2, <4>1
    <3> QED BY <3>1, PixelsFinite, FS_Subset, FS_CardinalityType
  <2>7. \A q \in cluster : Big(mask, q) <=> ~(Cardinality(cluster) < MinCluster)
    BY <2>2, <2>4, <2>6 DEF Big
  <2>8. cluster \cap found.visited = {}
    <3>1. \A q \in cluster : Touches(q, k) <=> Touches(p, k)
      BY <2>1, <2>4
    <3> QED BY <1>2, <2>1, <2>4, <3>1 DEF ScanInv
  <2> DEFINE next == VisitPixel(found, p)
  <2>9. next.visited = found.visited \cup cluster /\ next \in Found
    BY <2>4, <2>5 DEF ScanInv, Found
  <2>10. next.mask = {q \in mask : q \in next.visited => Big(mask, q)}
    <3>1. CASE Cardinality(cluster) < MinCluster
      BY <2>4, <2>5, <2>7, <2>8, <3>1 DEF ScanInv
    <3>2. CASE ~(Cardinality(cluster) < MinCluster)
      BY <2>4, <2>5, <2>7, <2>8, <3>2 DEF ScanInv
    <3> QED BY <3>1, <3>2
  <2>11. \A q \in mask : q \in next.visited <=> Touches(q, k + 1)
    BY <1>0, <2>3, <2>9 DEF ScanInv
  <2>12. next.visited \subseteq mask
    BY <2>4, <2>9 DEF ScanInv
  <2> HIDE DEF next
  <2> QED BY <2>9, <2>10, <2>11, <2>12 DEF ScanInv, next
<1> QED BY <1>1, <1>2

(* removeSmallClusters leaves the pixels whose connected component in the  *)
(* mask it was given is large enough, and no others, although it marks and *)
(* clears the mask it scans (map_beautify.go:233-271).                     *)
THEOREM SmallClustersAreRemoved ==
  ASSUME NEW mask \in SUBSET Pixels
  PROVE  RemoveSmallClusters(mask) =
           {p \in mask : Cardinality(Component(mask, p)) >= MinCluster}
<1> DEFINE N == Width * Height
           base == [mask |-> mask, visited |-> {}]
<1>0. N \in Nat
  OBVIOUS
<1>1. PICK g : /\ FoldLeft(VisitPixel, base, Scan) = g[N]
               /\ g[0] = base
               /\ \A k \in 1 .. N : g[k] = VisitPixel(g[k - 1], Scan[k])
  BY ScanSteps
<1>2. ScanInv(mask, base, 0)
  BY DEF ScanInv, Found
<1> HIDE DEF N, base
<1> DEFINE Kept == {k \in 0 .. N : ScanInv(mask, g[k], k)}
<1>3. 0 \in Kept
  BY <1>0, <1>1, <1>2
<1>4. ASSUME NEW k \in 0 .. N - 1, k \in Kept PROVE k + 1 \in Kept
  <2>1. k \in Nat /\ k + 1 \in 1 .. N /\ (k + 1) - 1 = k
    BY <1>0
  <2>2. g[k + 1] = VisitPixel(g[k], Scan[k + 1])
    BY <1>1, <2>1
  <2>3. ScanInv(mask, g[k + 1], k + 1)
    BY <1>4, <2>1, <2>2, VisitKeepsScanInv
  <2> QED BY <2>1, <2>3
<1> HIDE DEF Kept
<1>5. N \in Kept
  BY <1>0, <1>3, <1>4, Induction
<1>6. ScanInv(mask, g[N], N)
  BY <1>5 DEF Kept
<1>7. \A p \in mask : p \in g[N].visited
  <2>1. \A p \in mask : p \in Component(mask, p) /\ \E i \in 1 .. N : Scan[i] = p
    BY ComponentIsLeast, ScanReaches DEF N
  <2> QED BY <1>6, <2>1 DEF ScanInv
<1>8. g[N].mask = {p \in mask : Big(mask, p)}
  BY <1>6, <1>7 DEF ScanInv
<1> QED BY <1>1, <1>8 DEF RemoveSmallClusters, Big, base, N
-----------------------------------------------------------------------------
(* A pixel touches no less when the mask is larger. *)
LEMMA ComponentsGrow ==
  ASSUME NEW mask \in SUBSET Pixels, NEW part \in SUBSET mask, NEW p \in part
  PROVE  /\ Component(part, p) \subseteq Component(mask, p)
         /\ Cardinality(Component(part, p)) \in Nat
         /\ Cardinality(Component(mask, p)) \in Nat
         /\ Cardinality(Component(part, p)) <= Cardinality(Component(mask, p))
<1> DEFINE small == Component(part, p)
           large == Component(mask, p)
<1>1. p \in large /\ large \in SUBSET mask /\ Closed(mask, large)
  BY ComponentIsLeast
<1>2. small \subseteq large
  <2>1. Closed(part, large)
    BY <1>1 DEF Closed
  <2>2. large \in SUBSET Pixels /\ part \in SUBSET Pixels
    BY <1>1
  <2> HIDE DEF large
  <2> QED BY <1>1, <2>1, <2>2, ComponentIsLeast
<1>3. IsFiniteSet(large)
  <2>1. large \in SUBSET Pixels
    BY <1>1
  <2> QED BY <2>1, PixelsFinite, FS_Subset
<1> HIDE DEF small, large
<1>4. /\ Cardinality(small) \in Nat /\ Cardinality(large) \in Nat
      /\ Cardinality(small) <= Cardinality(large)
  BY <1>2, <1>3, FS_Subset, FS_CardinalityType
<1> QED BY <1>2, <1>4 DEF small, large

(* Nothing is drawn over a wall, and nothing else is a wall. *)
LEMMA WallsAreDrawn ==
  ASSUME NEW picture, NEW p \in Pixels
  PROVE  BeautifyMap(picture)[p] = "wall" <=> p \in WallThick(picture)
<1> DEFINE walls == WallThick(picture)
           free == FreeMask(picture)
           edge == OnFreeEdge(free, p)
           line == OnGridLine(p)
<1>1. BeautifyMap(picture)[p] =
        CASE p \in walls -> "wall"
          [] p \notin walls /\ p \notin free -> "background"
          [] p \notin walls /\ p \in free /\ edge -> "border"
          [] p \notin walls /\ p \in free /\ ~edge -> IF line THEN "grid" ELSE "free"
  BY DEF BeautifyMap
<1> HIDE DEF walls, free, edge, line
<1>2. CASE p \in walls
  BY <1>1, <1>2 DEF walls
<1>3. CASE p \notin walls
  BY <1>1, <1>3 DEF walls
<1> QED BY <1>2, <1>3

(* Of any picture of any size, every wall that is large enough and away    *)
(* from the rim is on the plan, and what is drawn as a wall is within two  *)
(* pixels of one (map_beautify.go:43-143).                                 *)
THEOREM PlanShowsWalls ==
  ASSUME NEW picture
  PROVE  LET walls == WallMask(picture)
             inner == walls \cap Inner
         IN /\ \A p \in inner :
                 Cardinality(Component(inner, p)) >= MinCluster =>
                   BeautifyMap(picture)[p] = "wall"
            /\ \A p \in Pixels :
                 BeautifyMap(picture)[p] = "wall" => \E q \in walls : Within(2, p, q)
<1> DEFINE walls == WallMask(picture)
           inner == walls \cap Inner
           closed == MorphClose(walls)
           kept == RemoveSmallClusters(closed)
<1>0. walls \in SUBSET Pixels
  BY DEF WallMask
<1>1. closed \in SUBSET Pixels
  BY <1>0, ErodeShrinks DEF MorphClose, Dilate
<1>2. kept = {p \in closed : Cardinality(Component(closed, p)) >= MinCluster}
  BY <1>1, SmallClustersAreRemoved
<1>3. inner \subseteq closed
  BY <1>0, ClosingKeepsWalls
<1>4. WallThick(picture) = Dilate(kept)
  BY DEF WallThick, WallClosed
<1> HIDE DEF walls, closed, kept
<1>5. ASSUME NEW p \in inner, Cardinality(Component(inner, p)) >= MinCluster
      PROVE  BeautifyMap(picture)[p] = "wall"
  <2> HIDE DEF inner
  <2>1. Cardinality(Component(closed, p)) >= MinCluster
    BY <1>1, <1>3, <1>5, ComponentsGrow
  <2>2. p \in kept /\ p \in Pixels
    BY <1>1, <1>2, <1>3, <2>1
  <2>3. kept \in SUBSET Pixels
    BY <1>1, <1>2
  <2>4. p \in WallThick(picture)
    BY <1>4, <2>2, <2>3, DilateGrows
  <2> QED BY <2>2, <2>4, WallsAreDrawn
<1>6. ASSUME NEW p \in Pixels, BeautifyMap(picture)[p] = "wall"
      PROVE  \E q \in walls : Within(2, p, q)
  <2>1. p \in Dilate(kept)
    BY <1>4, <1>6, WallsAreDrawn
  <2>2. kept \in SUBSET MorphClose(walls)
    BY <1>2 DEF closed
  <2> QED BY <1>0, <2>1, <2>2, ClosingStaysNear
<1> QED BY <1>5, <1>6 DEF walls
=============================================================================

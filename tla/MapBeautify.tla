---------------------------- MODULE MapBeautify -----------------------------
(***************************************************************************)
(* BeautifyMap (map_beautify.go): the floor plan drawn from an occupancy   *)
(* grid.  A mask is the set of its pixels; a picture is decoded and its    *)
(* pixels classified before; the scale bar, which is drawn over everything *)
(* else, is left out, and a colour is the name of what it stands for.      *)
(***************************************************************************)
EXTENDS Integers, FiniteSets, SequencesExt

CONSTANTS
  Width, Height,  \* size of the picture
  MinCluster,     \* smallest wall cluster that is kept, 8 in the code
  GridPx          \* pixels in a metre

ASSUME BeautifyAssumption ==
  /\ Width \in Nat \ {0} /\ Height \in Nat \ {0}
  /\ MinCluster \in Nat /\ GridPx \in Nat

Columns == 0 .. Width - 1
Rows == 0 .. Height - 1
Pixels == Columns \X Rows

(* The 3x3 kernel around p, which may reach out of the picture. *)
Kernel(p) == {<<p[1] + dx, p[2] + dy>> : dx \in -1 .. 1, dy \in -1 .. 1}

(* A classified picture: dark, bright and neither. *)
Pictures == [Pixels -> {"wall", "free", "unknown"}]
WallMask(picture) == {p \in Pixels : picture[p] = "wall"}
FreeMask(picture) == {p \in Pixels : picture[p] = "free"}
-----------------------------------------------------------------------------
Dilate(mask) == Pixels \cap UNION {Kernel(p) : p \in mask}

(* A kernel that reaches out of the picture is not filled. *)
Erode(mask) == {p \in mask : Kernel(p) \subseteq mask}

(* Seeded bug: the passes are swapped, which opens the mask. *)
MorphOpen(mask) == Dilate(Erode(mask))

MorphClose(mask) == Erode(Dilate(mask))

(* The search for the cluster of p, which stops when no pixel that is set  *)
(* and was not visited before touches it.                                  *)
Flood(mask, visited, p) ==
  LET grown[cluster \in SUBSET Pixels] ==
        LET next == cluster \cup (Dilate(cluster) \cap (mask \ visited))
        IN IF next = cluster THEN cluster ELSE grown[next]
  IN grown[{p}]

(* The pixels line by line. *)
Scan ==
  [i \in 1 .. Width * Height |-> <<(i - 1) % Width, (i - 1) \div Width>>]

(* Seeded bug: the pixels of a removed cluster are not marked as visited,  *)
(* and the mask is cleared while the cluster is collected.                 *)
VisitPixelOnly(found, p) ==
  IF p \notin found.mask \/ p \in found.visited THEN found
  ELSE LET cluster == Kernel(p) \cap found.mask
       IN [mask |-> IF Cardinality(cluster) < MinCluster
                    THEN found.mask \ cluster ELSE found.mask,
           visited |-> found.visited \cup {p}]

VisitPixel(found, p) ==
  IF p \notin found.mask \/ p \in found.visited THEN found
  ELSE LET cluster == Flood(found.mask, found.visited, p)
       IN [mask |-> IF Cardinality(cluster) < MinCluster
                    THEN found.mask \ cluster ELSE found.mask,
           visited |-> found.visited \cup cluster]

RemoveSmallClusters(mask) ==
  FoldLeft(VisitPixel, [mask |-> mask, visited |-> {}], Scan).mask

WallClosed(picture) == RemoveSmallClusters(MorphClose(WallMask(picture)))

WallThick(picture) == Dilate(WallClosed(picture))
-----------------------------------------------------------------------------
OnGridLine(p) == GridPx >= 10 /\ (p[1] % GridPx = 0 \/ p[2] % GridPx = 0)
OnFreeEdge(free, p) == ~(Kernel(p) \subseteq free)

(* Every pixel gets the colour of the last layer drawn over it. *)
BeautifyMap(picture) ==
  LET free == FreeMask(picture)
      walls == WallThick(picture)
  IN [p \in Pixels |->
        CASE p \in walls -> "wall"
          [] p \notin walls /\ p \notin free -> "background"
          [] p \notin walls /\ p \in free /\ OnFreeEdge(free, p) -> "border"
          [] p \notin walls /\ p \in free /\ ~OnFreeEdge(free, p) ->
               IF OnGridLine(p) THEN "grid" ELSE "free"]
-----------------------------------------------------------------------------
(* References: the connected component of p in the untouched mask, and the *)
(* distance of two pixels.                                                 *)
Component(mask, p) == Flood(mask, {}, p)

Within(n, p, q) ==
  /\ p[1] - q[1] \in -n .. n
  /\ p[2] - q[2] \in -n .. n

Inner == {p \in Pixels : Kernel(p) \subseteq Pixels}
=============================================================================

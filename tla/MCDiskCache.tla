---------------------------- MODULE MCDiskCache ----------------------------
(***************************************************************************)
(* DiskCache with three files that do not fit together: the small one fits *)
(* beside either of the large ones, and a large one that is saved drives   *)
(* out the other, or both others.  Four saves are those of the three files *)
(* and one more, of a file that was evicted or is saved twice at once.     *)
(***************************************************************************)
EXTENDS DiskCache

CONSTANTS a, b, c, p1, p2

MCFiles == {a, b, c}
MCSavers == {p1, p2}
MCSize == [f \in MCFiles |-> IF f = a THEN 1 ELSE 2]

(* The files of one size are alike, and so are the savers.                 *)
Swaps(x, y) == {[z \in {x, y} |-> z], [z \in {x, y} |-> IF z = x THEN y ELSE x]}
Symmetry == {f @@ p : f \in Swaps(b, c), p \in Swaps(p1, p2)}
=============================================================================

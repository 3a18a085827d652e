----------------------------- MODULE HeapsortInv -----------------------------
(* The inductive invariant behind the safety of Heapsort for every length   *)
(* and every comparator.                                                    *)
EXTENDS Heapsort

Onto == \A e \in Index : \E x \in Index : a[x] = e

(* Where the loops are: which part of the array sift_down works on, and     *)
(* which of its nodes.                                                      *)
LoopInv ==
    /\ root <= n
    /\ pc = "build" => end = 0
    /\ pc = "extract" => 0 < end /\ end <= n
    /\ pc \in {"sift", "pick", "parent"} => limit <= n /\ end <= n /\ i < n
    /\ pc = "pick" => child = 2 * i + 1 /\ child + 1 < limit
    /\ pc = "parent" => child \in {2 * i + 1, 2 * i + 2} /\ child < limit
    /\ pc \notin {"start", "done"} => 2 <= n
    /\ pc = "start" => end = 0

Inv == TypeOK /\ Onto /\ LoopInv

-----------------------------------------------------------------------------
(* Why a sort by an honest comparator sorts.  val(x) is the key at index x. *)
val(x) == key[a[x]]

Children(p) == {2 * p + 1, 2 * p + 2}

(* From index lo on, no child before hi is greater than its parent, where   *)
(* the parents in `but' are not asked.                                      *)
HeapBut(lo, hi, but) ==
    \A p, c \in Index : lo <= p /\ p \notin but /\ c \in Children(p) /\ c < hi => val(c) <= val(p)

(* The elements from e on are in their final places.                        *)
Suffix(e) == \A x, y \in Index : x < y /\ e <= y => val(x) <= val(y)

(* sift_down has only the node it is at to put right, and what it moves up  *)
(* there fits under that node's parent.                                     *)
Sifting ==
    /\ limit = IF end = 0 THEN n ELSE end
    /\ root <= i
    /\ end # 0 => root = 0 /\ Suffix(end)
    /\ HeapBut(root, limit, {i})
    /\ \A p, c \in Index : root <= p /\ i \in Children(p) /\ c \in Children(i) /\ c < limit => val(c) <= val(p)

OrderInv ==
    honest =>
        /\ pc = "build" => HeapBut(root, n, {})
        /\ pc = "extract" => root = 0 /\ HeapBut(0, end, {}) /\ Suffix(end)
        /\ pc \in {"sift", "pick", "parent"} => Sifting
        /\ pc = "parent" => \A c \in Index : c \in Children(i) /\ c < limit => val(c) <= val(child)
        /\ pc = "done" /\ width > 0 => Suffix(0)
=============================================================================

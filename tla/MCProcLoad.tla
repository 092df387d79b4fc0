---------------------------- MODULE MCProcLoad ----------------------------
(***************************************************************************)
(* ProcLoad for TLC: pages of two bytes, room for 8 bytes of code, images  *)
(* of up to two segments.                                                  *)
(***************************************************************************)
EXTENDS ProcStart

Seg(v, m, a) == [load |-> TRUE, vaddr |-> v, memsz |-> m, align |-> a,
                 small |-> TRUE, whole |-> TRUE]

\* Aligned and not, adjacent and overlapping, aligned to two pages, too far
\* for a dynamic program and not for another, and one that wraps around
Common == {Seg(0, 3, 2), Seg(2, 2, 2), Seg(3, 2, 2), Seg(1, 2, 4), Seg(4, 3, 2), Seg(3, WORD - 1, 4)}

\* Skipped, badly aligned, or with a bad file size
Odd == {[Seg(0, 3, 2) EXCEPT !.load = FALSE], Seg(3, 0, 2), Seg(2, 2, 0), Seg(2, 2, 1),
        [Seg(2, 2, 2) EXCEPT !.small = FALSE], [Seg(2, 2, 2) EXCEPT !.whole = FALSE]}

SegSeqs ==
    {<<>>} \cup {<<s>> : s \in Common} \cup {<<s, t>> : s, t \in Common}
    \cup {<<Seg(2, 3, 2), s>> : s \in Odd}

MCImages ==
    {[type |-> "dyn", valid |-> FALSE, segs |-> <<>>]}
    \cup [type : {"dyn", "exec"}, valid : {TRUE}, segs : SegSeqs]
=============================================================================

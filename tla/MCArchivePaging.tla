-------------------------- MODULE MCArchivePaging --------------------------
(* The instance of ArchivePaging that TLC checks: entries of several sizes, *)
(* contents that differ in an entry, in their order or beyond the entries,  *)
(* an empty archive and one with an entry no page can hold.                 *)
EXTENDS ArchivePaging

Entry(n, b) == [name |-> n, bytes |-> b]

MCArchives ==
    {[files |-> {Entry(1, 2), Entry(2, 1), Entry(3, 2), Entry(4, 1)}, rest |-> 0],
     [files |-> {Entry(1, 2), Entry(2, 1), Entry(3, 2), Entry(4, 1)}, rest |-> 1],
     [files |-> {Entry(1, 2), Entry(3, 3), Entry(4, 1)}, rest |-> 0],
     [files |-> {Entry(1, 1), Entry(2, 6)}, rest |-> 0],
     [files |-> {}, rest |-> 0]}
=============================================================================

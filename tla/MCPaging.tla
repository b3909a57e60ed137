------------------------------ MODULE MCPaging ------------------------------
(* An instance of Paging for TLC: the tables at the end of the built       *)
(* image's memory, and memory that held zeros or a page that looks mapped. *)
EXTENDS Paging

JunkEntries == {SetAddr(0), [Huge(7) EXCEPT !.writable = 0]}

(* The first indexes, the last ones and one in between.                    *)
SomeIndexes == {0, 1, 2, 255, 510, 511}
=============================================================================

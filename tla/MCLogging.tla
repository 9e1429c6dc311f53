----------------------------- MODULE MCLogging -----------------------------
(* The rows of the table in timeZone.cc's comment, of Chinese summer time. *)
EXTENDS Logging

MCBlock == [leapCnt |-> 0, isUtcCnt |-> 0, isStdCnt |-> 2, complete |-> TRUE,
            trans |-> <<621968400, 640116000, 653418000, 671565600, 684867600>>,
            idx |-> <<1, 2, 1, 2, 1>>, types |-> <<28800, 32400>>]
MCFile == [opens |-> TRUE, head |-> "TZlf", version |-> "2", v1 |-> MCBlock, v2 |-> MCBlock]

\* A good file of each version; files that are refused or cut short.
MCFiles ==
    {MCFile, [MCFile EXCEPT !.version = "1", !.v1.trans = <<640116000>>, !.v1.idx = <<2>>],
     [MCFile EXCEPT !.v2.leapCnt = 1], [MCFile EXCEPT !.v2.isUtcCnt = 1],
     [MCFile EXCEPT !.v2.complete = FALSE], [MCFile EXCEPT !.v2.idx = <<1, 2, 1, 3, 1>>],
     [MCFile EXCEPT !.head = "TZif"], [MCFile EXCEPT !.opens = FALSE]}

MCFixed == {-18000, 20700}
\* Before rows 2, 3 and 4, and before 1970.
MCStarts == {t - 7200 : t \in {640116000, 653418000, 671565600}} \cup {-7200}
MCMantissas == 1 .. 9999
MCNumbers == {0, 1, 9, 10, 11, 15, 16, 99, 100, 255, 256, 2147483647, -1, -9, -10, -99, -100, -2147483647}
=============================================================================

---------------------------- MODULE MC_GuestCache ----------------------------
(* A small instance of GuestCache for TLC, and the file systems its samples  *)
(* of a guest's disk come from.                                             *)
EXTENDS GuestCache, Filesystems

CONSTANTS sda, root

SampleFilesystems ==
    [name : {sda, Empty, Blanks}, mountpoint : {root, Empty, Blanks}, pseudo : BOOLEAN,
     total : {0, 2, 3}, used : {0, 2}]

\* Every list of up to two file systems, and every list of three of one device
\* with any size below the bound of int64, is summarized as it should be.
ASSUME SummaryAssumption ==
    /\ \A a, b \in SampleFilesystems : SummaryCorrect(<<a>>) /\ SummaryCorrect(<<a, b>>)
    /\ \A total \in 0..Max64, used \in 0..Max64 :
        LET fs(name) == [name |-> name, mountpoint |-> root, pseudo |-> FALSE,
                         total |-> total, used |-> used]
        IN  SummaryCorrect(<<fs(sda), fs(Empty), fs(sda)>>)
=============================================================================

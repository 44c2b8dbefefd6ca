--------------------------- MODULE MCRdmaMigration ---------------------------
(* The RDMA transfer for TLC: a guest of three pages and lists longer than   *)
(* the send queue.  A live migration uses neither the mode nor the free      *)
(* list, and a complete dump not the flags.                                  *)
EXTENDS RdmaMigration

MCGuestChunks == <<[ptr |-> 0, size |-> 3]>>
FirstAndLast == <<[ptr |-> 0, size |-> 1], [ptr |-> 2, size |-> 1]>>
MCSettings ==
    [type : {"cold"}, mode : {"complete"}, full : {FALSE}, list : {<<>>, FirstAndLast}]
    \cup [type : {"cold"}, mode : {"incremental"}, full : BOOLEAN,
          list : {<<>>, FirstAndLast}]
    \cup [type : {"live"}, mode : {"incremental"}, full : BOOLEAN,
          list : {FirstAndLast}]
=============================================================================

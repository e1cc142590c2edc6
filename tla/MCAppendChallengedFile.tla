------------------------ MODULE MCAppendChallengedFile ------------------------
EXTENDS AppendChallengedFile

(* A file of 4 alignment units; reads of the whole file and of its last  *)
(* unit, a read of the whole file into two iovecs of 3 units, a write     *)
(* past the end of the file once truncated to half size, an append, a    *)
(* truncate to half size and flushes.                                      *)
MCOpSpecs ==
  { [type |-> "read",     pos |-> 0, len |-> 4],
    [type |-> "read",     pos |-> 3, len |-> 1],
    [type |-> "readv",    pos |-> 0, len |-> 6, iov |-> <<3, 3>>],
    [type |-> "write",    pos |-> 2, len |-> 1],
    [type |-> "write",    pos |-> 4, len |-> 1],
    [type |-> "truncate", pos |-> 2, len |-> 0],
    [type |-> "flush",    pos |-> 0, len |-> 0] }
MCInitSizes == {4}
MCSloppyHint == 6
MCSloppyModes == {FALSE, TRUE}
MCMaxSizeChangingOps == 1
MCMaxOps == 4
=============================================================================

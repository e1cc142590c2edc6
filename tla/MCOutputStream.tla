--------------------------- MODULE MCOutputStream ---------------------------
EXTENDS OutputStream

(* A buffer of 2 units.  Writes of 1 unit fill it, of 2 units are bulk    *)
(* writes on an empty buffer, of 3 units also on a half-full one, and a   *)
(* 2-unit write into a half-full buffer overflows it.                      *)
MCSize == 2
MCWriteSizes == {1, 2, 3}
MCModes == {"buffered", "zc"}
MCBatchModes == {FALSE, TRUE}
MCTrimModes == {FALSE, TRUE}
MCMaxWrites == 3
MCMaxErrors == 2
MCMaxErrorsNone == 0
=============================================================================

------------------------ MODULE MCSharedMemoryStream ------------------------
(* An instance of SharedMemoryStream for TLC. *)
EXTENDS SharedMemoryStream

CONSTANTS w, r1, r2

ThreeThreads == {w, r1, r2}
OneOrTwo == {1, 2}
BackStayOn == {-1, 0, 1}

\* w writes and ends the input; r1 and r2 read, and r1 seeks and closes.
EachRole == [t \in Threads |->
  CASE t = w  -> {"Write", "SeekWrite", "CloseWrite"}
    [] t = r1 -> {"Read", "SeekRead", "CloseRead"}
    [] t = r2 -> {"Read", "ReadNonBlocking"}]
=============================================================================

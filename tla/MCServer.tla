------------------------------ MODULE MCServer ------------------------------
(* Values of Server's constants for TLC. *)
EXTENDS Server

\* Two bytes at most in a read: a line end may arrive whole, split over two
\* reads, or behind a NUL; << >> is a read of 0 bytes.
MCChunks ==
  {<< >>, <<"x">>, <<"CR">>, <<"LF">>, <<"NUL">>, <<"CR", "LF">>, <<"x", "LF">>}

=============================================================================

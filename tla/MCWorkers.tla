----------------------------- MODULE MCWorkers -----------------------------
(* Values of Workers' constants for TLC. *)
EXTENDS Workers, TLC

Symmetry == Permutations(Conns) \cup Permutations(Threads)

\* Texts of one line, of several with line feeds merged, cut short, behind a NUL, of
\* none, and with two header lines; in one read or two.
Whole ==
  { <<"x", "CR", "LF">>, <<"x", "LF", "LF", "x">>, <<"LF", "LF">>,
    <<"x", "LF", "CR", "LF">>, <<"CR", "LF", "NUL", "x">>, <<"CR", "LF", "x", "LF", "x">> }
Parts == {<<"x", "LF">>, <<"LF", "CR">>}
MCChunks == Whole \cup Parts

=============================================================================

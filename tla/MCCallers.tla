------------------------------ MODULE MCCallers ------------------------------
(***************************************************************************)
(* Small instances of Callers.                                             *)
(***************************************************************************)
EXTENDS Callers

\* A line, a line with the start of the next, a part of a line.
SomeText == {<<Newline>>, <<Newline, "x">>, <<"x">>}

\* A state where first calls have met is checked and not left: beyond it only
\* the types are promised, and GlobalProcProofs has them.
FirstCallsApart == ~raced
=============================================================================

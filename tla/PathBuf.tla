------------------------------- MODULE PathBuf -------------------------------
(***************************************************************************)
(* The path strings of src/path/mod.rs.  A string is represented, one to   *)
(* one, by what splitting it at every '/' gives: a nonempty sequence of    *)
(* segments, Nil being the empty one.  "/" is <<Nil, Nil>>, "" is <<Nil>>, *)
(* "/a" is <<Nil, a>>, "a/" is <<a, Nil>>, "//a" is <<Nil, Nil, a>>.       *)
(* Nothing is normalised: "/a" and "/a/" are different paths, as they are  *)
(* in the program.                                                         *)
(***************************************************************************)
EXTENDS Integers, Sequences, FiniteSetsExt

CONSTANTS
  Name,   \* the nonempty segments
  Nil     \* the empty segment

ASSUME NilAssumption == Nil \notin Name

Segment == Name \cup {Nil}
Path == Seq(Segment) \ {<<>>}
Root == <<Nil, Nil>>

\* starts_with('/')
IsAbsolute(p) == Len(p) > 1 /\ p[1] = Nil

ButLast(p) == SubSeq(p, 1, Len(p) - 1)

\* join(): an absolute other wins; a trailing '/' of p, or an empty p, brings
\* no separator of its own.
Join(p, other) ==
  IF IsAbsolute(other) THEN other
  ELSE IF p[Len(p)] = Nil THEN ButLast(p) \o other
  ELSE p \o other

\* trim_end_matches('/')
Trimmed(p) == SubSeq(p, 1, Max({1} \cup {i \in 1..Len(p) : p[i] # Nil}))

\* parent(): "/" and a single relative segment have none.
HasParent(p) == p # Root /\ (Trimmed(p) = <<Nil>> \/ Len(Trimmed(p)) > 1)
Parent(p) ==
  LET t == Trimmed(p)
  IN IF Len(t) <= 2 /\ t[1] = Nil THEN Root ELSE ButLast(t)

\* file_name()
FileName(p) == Trimmed(p)[Len(Trimmed(p))]

\* Whether the directory listing and rmdir() count p as an entry of dir.
IsEntryOf(p, dir) == HasParent(p) /\ Parent(p) = dir
=============================================================================

------------------------------- MODULE Stdout -------------------------------
(***************************************************************************)
(* write to descriptor 1, of src/system.rs: bytes gather in the static     *)
(* vector STDOUT_LINE_ACCUM, which goes to the host each time a newline    *)
(* has come.  No lock is taken, and the host function runs in between, so  *)
(* that another caller, or the host function itself, may write meanwhile.  *)
(***************************************************************************)
EXTENDS Naturals, Sequences

CONSTANTS
  Writer,
  Newline,
  Text,      \* what is written in one call, sequences of bytes
  MaxSent    \* bound of the model: no write begins that would pass it

VARIABLES
  accum,       \* STDOUT_LINE_ACCUM
  lines,       \* what the host function was called with, in order
  at,          \* where each writer is
  rest,        \* the bytes it has still to append
  sent,        \* every byte appended, in order
  overlapped   \* a write has begun while another was under way

StdoutInit ==
  /\ accum = <<>> /\ lines = <<>> /\ sent = <<>>
  /\ at = [w \in Writer |-> "idle"]
  /\ rest = [w \in Writer |-> <<>>]
  /\ overlapped = FALSE

Alone(w) == \A v \in Writer \ {w} : at[v] = "idle"

\* Where a writer goes when a byte is done with.
Onward(w, bytes) == at' = [at EXCEPT ![w] = IF bytes = <<>> THEN "idle" ELSE "push"]

BeginWrite(w, bytes) ==
  /\ at[w] = "idle"
  /\ Len(sent) + Len(bytes) <= MaxSent
  /\ rest' = [rest EXCEPT ![w] = bytes]
  /\ Onward(w, bytes)
  /\ overlapped' = (overlapped \/ ~Alone(w))
  /\ UNCHANGED <<accum, lines, sent>>

\* Two appends at once are a data race: one of the bytes may be lost.
Push(w) ==
  /\ at[w] = "push"
  /\ LET byte == Head(rest[w])
     IN /\ \/ accum' = Append(accum, byte)
           \/ ~Alone(w) /\ UNCHANGED accum
        /\ sent' = Append(sent, byte)
        /\ rest' = [rest EXCEPT ![w] = Tail(@)]
        /\ IF byte = Newline THEN at' = [at EXCEPT ![w] = "flush"]
           ELSE Onward(w, Tail(rest[w]))
  /\ UNCHANGED <<lines, overlapped>>

\* The host function is called, and returns.
Flush(w) ==
  /\ at[w] = "flush"
  /\ lines' = Append(lines, accum)
  /\ at' = [at EXCEPT ![w] = "clear"]
  /\ UNCHANGED <<accum, rest, sent, overlapped>>

\* Slip: the accumulator is cleared when the write is over, not with the line.
ClearLast(w) ==
  /\ at[w] = "clear"
  /\ accum' = IF rest[w] = <<>> THEN <<>> ELSE accum
  /\ Onward(w, rest[w])
  /\ UNCHANGED <<lines, rest, sent, overlapped>>

Clear(w) ==
  /\ at[w] = "clear"
  /\ accum' = <<>>
  /\ Onward(w, rest[w])
  /\ UNCHANGED <<lines, rest, sent, overlapped>>

Writes(w) == Push(w) \/ Flush(w) \/ Clear(w)
=============================================================================

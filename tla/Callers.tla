------------------------------- MODULE Callers -------------------------------
(***************************************************************************)
(* Several callers of one instance: their calls on the Proc, through       *)
(* GlobalProc, and their writes to descriptor 1, through Stdout.  A caller *)
(* makes one call at a time, and the two do not wait for one another.      *)
(***************************************************************************)
EXTENDS GlobalProc

Seqs == INSTANCE SequencesExt

CONSTANTS Byte, Newline, Text, MaxSent

ASSUME StdoutAssumption == Text \subseteq Seq(Byte) /\ MaxSent \in Nat

VARIABLES accum, lines, at, rest, sent, overlapped

INSTANCE Stdout WITH Writer <- Caller

stdoutVars == <<accum, lines, at, rest, sent, overlapped>>
callersVars == <<globalVars, stdoutVars>>

Init == GlobalInit /\ StdoutInit

\* A caller that is in no call makes one.
Begin(c) ==
  /\ pc[c] = "idle" /\ at[c] = "idle"
  /\ \/ Calls(c) /\ UNCHANGED stdoutVars
     \/ (\E bytes \in Text : BeginWrite(c, bytes)) /\ UNCHANGED globalVars

\* Slip: write takes the lock before it looks at the descriptor.
ContinueLocking(c) ==
  \/ Proceeds(c) /\ UNCHANGED stdoutVars
  \/ ~locked /\ Writes(c) /\ UNCHANGED globalVars

\* A call under way goes on.
Continue(c) ==
  \/ Proceeds(c) /\ UNCHANGED stdoutVars
  \/ Writes(c) /\ UNCHANGED globalVars

Next == \E c \in Caller : Begin(c) \/ Continue(c)

\* Nothing stops a caller inside a call but the lock; the lock, a loop that
\* tries again and again, owes nothing to any one caller: weak fairness.
Fairness == \A c \in Caller : WF_callersVars(Continue(c))

Spec == Init /\ [][Next]_callersVars /\ Fairness

-----------------------------------------------------------------------------
\* A write to descriptor 1 returns, even if the lock never comes free again.
StdoutReturns == \A c \in Caller : at[c] # "idle" ~> at[c] = "idle"

\* "Host function that receives a single line (including the trailing
\* newline)": as long as no two writes overlap, each line the host gets is one
\* line, and the lines with what has not gone out yet are all that was written.
LinesAreWhole ==
  ~overlapped =>
    /\ \A i \in DOMAIN lines :
         {k \in DOMAIN lines[i] : lines[i][k] = Newline} = {Len(lines[i])}
    /\ sent = Seqs!FlattenSeq(lines)
              \o (IF \E c \in Caller : at[c] = "clear" THEN <<>> ELSE accum)
=============================================================================

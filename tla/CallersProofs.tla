---------------------------- MODULE CallersProofs ----------------------------
(***************************************************************************)
(* What holds of the callers' calls on the Proc holds of the callers that  *)
(* write to descriptor 1 as well: their composition implements GlobalProc. *)
(* And what they write reaches the host in whole lines, unless two writes  *)
(* overlap.                                                                *)
(***************************************************************************)
EXTENDS Callers, GlobalProcProofs, SequenceTheorems

\* Writing to descriptor 1 is nothing to the calls under the lock: each step of
\* a caller is a step of GlobalProc or leaves its variables alone.
THEOREM CallersImplementGlobalProc == Spec => GlobalSpec
<1>1. Init => GlobalInit BY DEF Init
<1>2. [Next]_callersVars => [GlobalNext]_globalVars
  <2> SUFFICES ASSUME [Next]_callersVars PROVE GlobalNext \/ UNCHANGED globalVars
    OBVIOUS
  <2>1. ASSUME NEW c \in Caller, Begin(c) PROVE GlobalNext \/ UNCHANGED globalVars
    BY <2>1 DEF Begin, GlobalNext
  <2>2. ASSUME NEW c \in Caller, Continue(c) PROVE GlobalNext \/ UNCHANGED globalVars
    BY <2>2 DEF Continue, GlobalNext
  <2> QED BY <2>1, <2>2 DEF Next, callersVars
<1> QED BY <1>1, <1>2, PTL DEF Spec, GlobalSpec

\* The guards stay exclusive while callers write to descriptor 1.
THEOREM LockExcludesWriters == Spec => []GuardIsExclusive
  BY CallersImplementGlobalProc, LockExcludes, PTL

-----------------------------------------------------------------------------
(* FlattenSeq, one line at a time.  It is a recursive function, and what   *)
(* the induction rules of the library would say of it is drawn from the    *)
(* least index at which it would fail.                                     *)

\* The lines joined, line by line.
Joined(f, n, ls) == f = [i \in 1..n |-> IF i = 1 THEN ls[i] ELSE f[i - 1] \o ls[i]]

\* One step of it.
LEMMA JoinedAt ==
  ASSUME NEW f, NEW n, NEW ls, Joined(f, n, ls), NEW i \in 1..n
  PROVE  f[i] = IF i = 1 THEN ls[i] ELSE f[i - 1] \o ls[i]
<1> DEFINE r == [j \in 1..n |-> IF j = 1 THEN ls[j] ELSE f[j - 1] \o ls[j]]
<1>1. r[i] = IF i = 1 THEN ls[i] ELSE f[i - 1] \o ls[i] OBVIOUS
<1>2. f = r BY DEF Joined
<1> QED BY <1>1, <1>2, Zenon

\* It exists, for every sequence of lines.
LEMMA JoinedExists ==
  ASSUME NEW ls, NEW len \in Nat
  PROVE  \E f : Joined(f, len, ls)
<1> DEFINE Bad == {n \in 0..len : ~\E f : Joined(f, n, ls)}
<1> SUFFICES ASSUME Bad # {} PROVE FALSE OBVIOUS
<1>1. Bad \in SUBSET Nat OBVIOUS
<1>2. PICK m \in Bad : \A n \in Bad : m <= n
  <2> HIDE DEF Bad
  <2> QED BY <1>1, MinOfNats
<1>3. m # 0
  <2>1. Joined([i \in 1..0 |-> 0], 0, ls) BY DEF Joined
  <2> QED BY <2>1
<1>4. m \in 1..len /\ m - 1 \in 0..len /\ m - 1 \notin Bad BY <1>2, <1>3
<1>5. PICK f : Joined(f, m - 1, ls) BY <1>4
<1> DEFINE last == IF m = 1 THEN ls[m] ELSE f[m - 1] \o ls[m]
           g == [i \in 1..m |-> IF i = m THEN last ELSE f[i]]
<1>6. Joined(g, m, ls)
  <2>1. ASSUME NEW i \in 1..m
        PROVE  g[i] = IF i = 1 THEN ls[i] ELSE g[i - 1] \o ls[i]
    <3>1. CASE i = m BY <1>4, <3>1
    <3>2. CASE i # m
      <4>1. i \in 1..(m - 1) BY <1>4, <3>2
      <4>2. f[i] = IF i = 1 THEN ls[i] ELSE f[i - 1] \o ls[i] BY <1>5, <4>1, JoinedAt
      <4>3. g[i] = f[i] BY <3>2
      <4>4. i # 1 => i - 1 \in 1..m /\ i - 1 # m BY <1>4, <4>1
      <4>5. i # 1 => g[i - 1] = f[i - 1] BY <4>4
      <4> QED BY <4>2, <4>3, <4>5
    <3> QED BY <3>1, <3>2
  <2>2. g = [i \in 1..m |-> g[i]] OBVIOUS
  <2> HIDE DEF g
  <2> QED BY <2>1, <2>2 DEF Joined
<1> QED BY <1>2, <1>6

Agree(s, t, n) == \A i \in 1..n : s[i] = t[i]

\* As far as two sequences of lines agree, so do the joined lines.
LEMMA JoinedAgree ==
  ASSUME NEW ls, NEW ms, NEW n \in Nat, NEW m \in Nat, n <= m, Agree(ls, ms, n),
         NEW f, Joined(f, n, ls), NEW g, Joined(g, m, ms)
  PROVE  Agree(f, g, n)
<1> USE DEF Agree
<1> DEFINE Bad == {i \in 1..n : f[i] # g[i]}
<1> SUFFICES ASSUME Bad # {} PROVE FALSE OBVIOUS
<1>1. Bad \in SUBSET Nat OBVIOUS
<1>2. PICK i \in Bad : \A j \in Bad : i <= j
  <2> HIDE DEF Bad
  <2> QED BY <1>1, MinOfNats
<1>3. /\ f[i] = IF i = 1 THEN ls[i] ELSE f[i - 1] \o ls[i]
      /\ g[i] = IF i = 1 THEN ms[i] ELSE g[i - 1] \o ms[i]
  <2>1. i \in 1..n /\ i \in 1..m BY <1>2
  <2> QED BY <2>1, JoinedAt
<1>4. i # 1 => i - 1 \in 1..n /\ i - 1 \notin Bad BY <1>2
<1>5. i # 1 => f[i - 1] = g[i - 1] BY <1>4
<1> QED BY <1>2, <1>3, <1>5

\* FlattenSeq is its last value.
LEMMA FlattenIsJoined ==
  ASSUME NEW ls, Len(ls) \in Nat \ {0}
  PROVE  \E f : Joined(f, Len(ls), ls) /\ Seqs!FlattenSeq(ls) = f[Len(ls)]
<1> DEFINE c[i \in 1..Len(ls)] == IF i = 1 THEN ls[i] ELSE c[i - 1] \o ls[i]
<1>1. Seqs!FlattenSeq(ls) = c[Len(ls)] BY DEF Seqs!FlattenSeq
<1>2. PICK f : Joined(f, Len(ls), ls) BY JoinedExists
<1>3. Joined(c, Len(ls), ls) BY <1>2 DEF Joined
<1> QED BY <1>1, <1>3

\* One line more.
LEMMA FlattenAppend ==
  ASSUME NEW B, NEW ls \in Seq(Seq(B)), NEW line \in Seq(B)
  PROVE  Seqs!FlattenSeq(Append(ls, line)) = Seqs!FlattenSeq(ls) \o line
<1> DEFINE n == Len(ls)
           ms == Append(ls, line)
<1>1. n \in Nat /\ Len(ms) = n + 1 /\ ms[n + 1] = line /\ \A i \in 1..n : ls[i] = ms[i]
  BY LenProperties, AppendProperties
<1> HIDE DEF ms
<1>2. PICK g : Joined(g, n + 1, ms) /\ Seqs!FlattenSeq(ms) = g[n + 1]
  BY <1>1, FlattenIsJoined
<1>3. g[n + 1] = IF n + 1 = 1 THEN line ELSE g[n] \o line
  <2>1. n + 1 \in 1..(n + 1) /\ (n + 1) - 1 = n BY <1>1
  <2>2. g[n + 1] = IF n + 1 = 1 THEN ms[n + 1] ELSE g[(n + 1) - 1] \o ms[n + 1]
    BY <1>2, <2>1, JoinedAt
  <2> QED BY <1>1, <2>1, <2>2
<1>4. CASE n = 0
  <2>1. Seqs!FlattenSeq(ls) = <<>> BY <1>4, LenProperties DEF Seqs!FlattenSeq
  <2> QED BY <1>2, <1>3, <1>4, <2>1 DEF ms
<1>5. CASE n # 0
  <2>1. PICK f : Joined(f, n, ls) /\ Seqs!FlattenSeq(ls) = f[n]
    BY <1>1, <1>5, FlattenIsJoined
  <2>2. f[n] = g[n]
    <3>1. n + 1 \in Nat /\ n <= n + 1 /\ n \in 1..n BY <1>1, <1>5
    <3> HIDE DEF n
    <3>2. n \in Nat /\ Agree(ls, ms, n) BY <1>1 DEF Agree
    <3>3. Agree(f, g, n) BY <1>2, <2>1, <3>1, <3>2, JoinedAgree
    <3> QED BY <3>1, <3>3 DEF Agree
  <2>3. n + 1 # 1 BY <1>1, <1>5
  <2> QED BY <1>2, <1>3, <2>1, <2>2, <2>3 DEF ms
<1> QED BY <1>4, <1>5

\* It is a sequence of bytes, as the lines are.
LEMMA FlattenType ==
  ASSUME NEW B, NEW ls \in Seq(Seq(B))
  PROVE  Seqs!FlattenSeq(ls) \in Seq(B)
<1> DEFINE n == Len(ls)
<1>1. n \in Nat /\ \A i \in 1..n : ls[i] \in Seq(B) BY LenProperties
<1>2. CASE n = 0
  <2>1. Seqs!FlattenSeq(ls) = <<>> BY <1>2, LenProperties DEF Seqs!FlattenSeq
  <2> QED BY <2>1
<1>3. CASE n # 0
  <2>1. PICK f : Joined(f, n, ls) /\ Seqs!FlattenSeq(ls) = f[n]
    BY <1>1, <1>3, FlattenIsJoined
  <2> DEFINE Bad == {i \in 1..n : f[i] \notin Seq(B)}
  <2>2. Bad = {}
    <3> SUFFICES ASSUME Bad # {} PROVE FALSE OBVIOUS
    <3>1. Bad \in SUBSET Nat OBVIOUS
    <3>2. PICK i \in Bad : \A j \in Bad : i <= j
      <4> HIDE DEF Bad
      <4> QED BY <3>1, MinOfNats
    <3>3. f[i] = IF i = 1 THEN ls[i] ELSE f[i - 1] \o ls[i]
      BY <2>1, <3>2, JoinedAt
    <3>4. i # 1 => i - 1 \in 1..n /\ i - 1 \notin Bad BY <3>2
    <3>5. i # 1 => f[i - 1] \in Seq(B) BY <3>4
    <3> HIDE DEF n
    <3>6. f[i] \in Seq(B) BY <1>1, <3>2, <3>3, <3>5, ConcatProperties
    <3> QED BY <3>2, <3>6
  <2>3. n \in 1..n BY <1>1, <1>3
  <2> QED BY <2>1, <2>2, <2>3
<1> QED BY <1>2, <1>3

-----------------------------------------------------------------------------
(* Lines                                                                   *)

StdoutTypeOK ==
  /\ accum \in Seq(Byte) /\ lines \in Seq(Seq(Byte)) /\ sent \in Seq(Byte)
  /\ at \in [Caller -> {"idle", "push", "flush", "clear"}]
  /\ rest \in [Caller -> Seq(Byte)]
  /\ \A c \in Caller : at[c] = "push" => rest[c] # <<>>

Newlines(line) == {k \in DOMAIN line : line[k] = Newline}

\* A writer has pushed a newline, and the line it ends is still there.
Ended == \E c \in Caller : at[c] \in {"flush", "clear"}
Out == \E c \in Caller : at[c] = "clear"

\* With one writer at a time the accumulator holds the line that is being
\* written, and its newline only when it is to go out.
Whole ==
  /\ \A c, d \in Caller : at[c] # "idle" /\ at[d] # "idle" => c = d
  /\ Newlines(accum) = IF Ended THEN {Len(accum)} ELSE {}
  /\ \A i \in DOMAIN lines : Newlines(lines[i]) = {Len(lines[i])}
  /\ sent = Seqs!FlattenSeq(lines) \o (IF Out THEN <<>> ELSE accum)

\* The inductive invariant.
StdoutInv == StdoutTypeOK /\ (~overlapped => Whole)

\* A newline is there only if it was appended, and then it is the last.
LEMMA NewlineAppended ==
  ASSUME NEW s \in Seq(Byte), NEW b \in Byte, Newlines(s) = {}
  PROVE  Newlines(Append(s, b)) = IF b = Newline THEN {Len(Append(s, b))} ELSE {}
  BY AppendProperties, LenProperties DEF Newlines

\* A byte appended to a sequence is one appended to its end.
LEMMA AppendToConcat ==
  ASSUME NEW s \in Seq(Byte), NEW t \in Seq(Byte), NEW b \in Byte
  PROVE  Append(s \o t, b) = s \o Append(t, b)
<1> DEFINE u == <<b>>
<1>1. s \o t \in Seq(Byte) /\ u \in Seq(Byte) BY ConcatProperties
<1>2. Append(s \o t, b) = (s \o t) \o u /\ Append(t, b) = t \o u
  BY <1>1, AppendIsConcat
<1> HIDE DEF u
<1>3. (s \o t) \o u = s \o (t \o u) BY <1>1, ConcatAssociative
<1> QED BY <1>2, <1>3

\* Nothing has been written yet.
LEMMA NothingWritten == StdoutInit => StdoutInv
<1> SUFFICES ASSUME StdoutInit PROVE StdoutInv OBVIOUS
<1>1. accum = <<>> /\ lines = <<>> /\ sent = <<>> /\ ~Out /\ ~Ended
  BY DEF StdoutInit, Out, Ended
<1>2. StdoutTypeOK BY DEF StdoutInit, StdoutTypeOK
<1>3. Seqs!FlattenSeq(<<>>) = <<>> BY DEF Seqs!FlattenSeq
<1>4. Whole BY <1>1, <1>3 DEF Whole, Newlines, StdoutInit
<1> QED BY <1>2, <1>4 DEF StdoutInv

\* A write begins: from now on another is an overlap.
LEMMA BeginKeepsLines ==
  ASSUME StdoutInv, NEW c \in Caller, NEW bytes \in Text, BeginWrite(c, bytes)
  PROVE  StdoutInv'
<1>1. /\ at[c] = "idle" /\ rest' = [rest EXCEPT ![c] = bytes]
      /\ at' = [at EXCEPT ![c] = IF bytes = <<>> THEN "idle" ELSE "push"]
      /\ overlapped' = (overlapped \/ ~Alone(c))
      /\ UNCHANGED <<accum, lines, sent>>
  BY DEF BeginWrite, Onward
<1>2. StdoutTypeOK' BY <1>1, StdoutAssumption DEF StdoutInv, StdoutTypeOK
<1>3. ASSUME ~overlapped' PROVE Whole'
  <2>1. ~overlapped /\ \A d \in Caller \ {c} : at[d] = "idle" BY <1>1, <1>3 DEF Alone
  <2>2. Whole BY <2>1 DEF StdoutInv
  <2>3. \A d \in Caller : at[d] = "idle" BY <1>1, <2>1
  <2>4. \A d \in Caller : at'[d] \in {"idle", "push"} /\ (at'[d] # "idle" => d = c)
    BY <1>1, <2>3 DEF StdoutInv, StdoutTypeOK
  <2>5. ~Ended /\ ~Out /\ ~Ended' /\ ~Out' BY <2>3, <2>4 DEF Ended, Out
  <2> QED BY <1>1, <2>2, <2>4, <2>5 DEF Whole, Newlines
<1> QED BY <1>2, <1>3 DEF StdoutInv

\* A byte is pushed, and no other writer is there to race with.
LEMMA PushKeepsLines ==
  ASSUME StdoutInv, NEW c \in Caller, Push(c)
  PROVE  StdoutInv'
<1> DEFINE byte == Head(rest[c])
           next == IF byte = Newline THEN "flush"
                   ELSE IF Tail(rest[c]) = <<>> THEN "idle" ELSE "push"
<1>1. /\ at[c] = "push" /\ at' = [at EXCEPT ![c] = next]
      /\ accum' = Append(accum, byte) \/ (~Alone(c) /\ UNCHANGED accum)
      /\ sent' = Append(sent, byte)
      /\ rest' = [rest EXCEPT ![c] = Tail(@)]
      /\ UNCHANGED <<lines, overlapped>>
  BY DEF Push, Onward
<1>2. rest[c] \in Seq(Byte) /\ rest[c] # <<>> BY <1>1 DEF StdoutInv, StdoutTypeOK
<1>3. byte \in Byte /\ Tail(rest[c]) \in Seq(Byte) BY <1>2, HeadTailProperties
<1>4. /\ accum \in Seq(Byte) /\ sent \in Seq(Byte) /\ lines \in Seq(Seq(Byte))
      /\ at \in [Caller -> {"idle", "push", "flush", "clear"}]
      /\ rest \in [Caller -> Seq(Byte)]
      /\ \A d \in Caller : at[d] = "push" => rest[d] # <<>>
  BY DEF StdoutInv, StdoutTypeOK
<1>5. next \in {"idle", "push", "flush"} /\ (next = "push" => Tail(rest[c]) # <<>>)
      /\ (next = "flush" <=> byte = Newline)
  OBVIOUS
<1> HIDE DEF next
<1>6. StdoutTypeOK'
  <2> HIDE DEF byte
  <2>1. Append(accum, byte) \in Seq(Byte) /\ Append(sent, byte) \in Seq(Byte)
    BY <1>3, <1>4, AppendProperties
  <2>2. accum' \in Seq(Byte) /\ sent' \in Seq(Byte) /\ lines' \in Seq(Seq(Byte))
    BY <1>1, <1>4, <2>1
  <2>3. /\ at' \in [Caller -> {"idle", "push", "flush", "clear"}]
        /\ rest' \in [Caller -> Seq(Byte)]
        /\ \A d \in Caller : at'[d] = "push" => rest'[d] # <<>>
    BY <1>1, <1>3, <1>4, <1>5
  <2> QED BY <2>2, <2>3 DEF StdoutTypeOK
<1>7. ASSUME ~overlapped' PROVE Whole'
  <2>1. Whole BY <1>1, <1>7 DEF StdoutInv
  <2>2. \A d \in Caller \ {c} : at[d] = "idle" BY <1>1, <2>1 DEF Whole
  <2>3. accum' = Append(accum, byte) BY <1>1, <2>2 DEF Alone
  <2>4. ~Ended /\ ~Out BY <1>1, <2>2 DEF Ended, Out
  <2>5. at'[c] = next /\ \A d \in Caller \ {c} : at'[d] = "idle" BY <1>1, <1>4, <2>2
  <2>6. ~Out' /\ (Ended' <=> byte = Newline)
    BY <1>5, <2>5 DEF Ended, Out
  <2>7. Newlines(accum') = IF Ended' THEN {Len(accum')} ELSE {}
    <3>1. Newlines(accum) = {} BY <2>1, <2>4 DEF Whole
    <3> HIDE DEF byte
    <3> QED BY <1>3, <1>4, <2>3, <2>6, <3>1, NewlineAppended
  <2>8. sent' = Seqs!FlattenSeq(lines) \o accum'
    <3> DEFINE flat == Seqs!FlattenSeq(lines)
    <3>1. flat \in Seq(Byte) BY <1>4, FlattenType
    <3>2. sent = flat \o accum BY <2>1, <2>4 DEF Whole
    <3> HIDE DEF flat, byte
    <3>3. Append(flat \o accum, byte) = flat \o Append(accum, byte)
      BY <1>3, <1>4, <3>1, AppendToConcat
    <3>4. sent' = flat \o accum' BY <1>1, <2>3, <3>2, <3>3
    <3> QED BY <3>4 DEF flat
  <2> QED BY <1>1, <2>1, <2>5, <2>6, <2>7, <2>8 DEF Whole
<1> QED BY <1>6, <1>7 DEF StdoutInv

\* The line goes out, newline and all.
LEMMA FlushKeepsLines ==
  ASSUME StdoutInv, NEW c \in Caller, Flush(c)
  PROVE  StdoutInv'
<1>1. /\ at[c] = "flush" /\ at' = [at EXCEPT ![c] = "clear"]
      /\ lines' = Append(lines, accum)
      /\ UNCHANGED <<accum, rest, sent, overlapped>>
  BY DEF Flush
<1>2. StdoutTypeOK' BY <1>1, AppendProperties DEF StdoutInv, StdoutTypeOK
<1>3. ASSUME ~overlapped' PROVE Whole'
  <2>1. Whole BY <1>1, <1>3 DEF StdoutInv
  <2>2. \A d \in Caller \ {c} : at[d] = "idle" BY <1>1, <2>1 DEF Whole
  <2>3. at'[c] = "clear" /\ \A d \in Caller \ {c} : at'[d] = "idle"
    BY <1>1, <2>2 DEF StdoutInv, StdoutTypeOK
  <2>4. Ended /\ ~Out /\ Ended' /\ Out' BY <1>1, <2>2, <2>3 DEF Ended, Out
  <2>5. accum \in Seq(Byte) /\ lines \in Seq(Seq(Byte)) BY DEF StdoutInv, StdoutTypeOK
  <2>6. Newlines(accum) = {Len(accum)} /\ accum' = accum BY <1>1, <2>1, <2>4 DEF Whole
  <2>7. \A i \in DOMAIN lines' : Newlines(lines'[i]) = {Len(lines'[i])}
    <3>1. \A i \in DOMAIN lines' : lines'[i] = accum \/ (i \in DOMAIN lines /\ lines'[i] = lines[i])
      BY <1>1, <2>5, AppendProperties, LenProperties
    <3> QED BY <2>1, <2>6, <3>1 DEF Whole
  <2>8. sent' = Seqs!FlattenSeq(lines') \o <<>>
    <3> DEFINE flat == Seqs!FlattenSeq(lines')
    <3>1. flat = Seqs!FlattenSeq(lines) \o accum BY <1>1, <2>5, FlattenAppend
    <3>2. sent' = flat BY <1>1, <2>1, <2>4, <3>1 DEF Whole
    <3>3. flat \in Seq(Byte)
      <4>1. lines' \in Seq(Seq(Byte)) BY <1>2 DEF StdoutTypeOK
      <4> QED BY <4>1, FlattenType
    <3> HIDE DEF flat
    <3>4. flat \o <<>> = flat BY <3>3, ConcatEmptySeq
    <3> QED BY <3>2, <3>4 DEF flat
  <2> QED BY <2>3, <2>4, <2>6, <2>7, <2>8 DEF Whole
<1> QED BY <1>2, <1>3 DEF StdoutInv

\* What went out is forgotten.
LEMMA ClearKeepsLines ==
  ASSUME StdoutInv, NEW c \in Caller, Clear(c)
  PROVE  StdoutInv'
<1> DEFINE next == IF rest[c] = <<>> THEN "idle" ELSE "push"
<1>1. /\ at[c] = "clear" /\ at' = [at EXCEPT ![c] = next]
      /\ accum' = <<>>
      /\ UNCHANGED <<lines, rest, sent, overlapped>>
  BY DEF Clear, Onward
<1>2. StdoutTypeOK' BY <1>1 DEF StdoutInv, StdoutTypeOK
<1>3. ASSUME ~overlapped' PROVE Whole'
  <2>1. Whole BY <1>1, <1>3 DEF StdoutInv
  <2>2. \A d \in Caller \ {c} : at[d] = "idle" BY <1>1, <2>1 DEF Whole
  <2>3. at'[c] \in {"idle", "push"} /\ \A d \in Caller \ {c} : at'[d] = "idle"
    BY <1>1, <2>2 DEF StdoutInv, StdoutTypeOK
  <2>4. Out /\ ~Ended' /\ ~Out' BY <1>1, <2>2, <2>3 DEF Ended, Out
  <2>5. Newlines(accum') = {} BY <1>1 DEF Newlines
  <2>6. sent' = Seqs!FlattenSeq(lines') \o accum' BY <1>1, <2>1, <2>4 DEF Whole
  <2> QED BY <1>1, <2>1, <2>3, <2>4, <2>5, <2>6 DEF Whole
<1> QED BY <1>2, <1>3 DEF StdoutInv

\* As long as no two writes overlap the host gets whole lines, and between the
\* lines and the accumulator nothing of what was written is lost.
THEOREM WholeLines == Spec => []LinesAreWhole
<1>1. Init => StdoutInv BY NothingWritten DEF Init
<1>2. StdoutInv /\ [Next]_callersVars => StdoutInv'
  <2> SUFFICES ASSUME StdoutInv, [Next]_callersVars PROVE StdoutInv' OBVIOUS
  <2>1. CASE UNCHANGED stdoutVars
    BY <2>1
    DEF stdoutVars, StdoutInv, StdoutTypeOK, Whole, Newlines, Ended, Out
  <2>2. ASSUME NEW c \in Caller, Begin(c) PROVE StdoutInv'
    BY <2>1, <2>2, BeginKeepsLines DEF Begin
  <2>3. ASSUME NEW c \in Caller, Continue(c) PROVE StdoutInv'
    BY <2>1, <2>3, PushKeepsLines, FlushKeepsLines, ClearKeepsLines DEF Continue, Writes
  <2> QED BY <2>1, <2>2, <2>3 DEF Next, callersVars
<1>3. StdoutInv => LinesAreWhole BY DEF StdoutInv, Whole, LinesAreWhole, Newlines, Out
<1> QED BY <1>1, <1>2, <1>3, PTL DEF Spec
=============================================================================

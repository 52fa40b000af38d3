------------------------- MODULE ShellChannelProofs -------------------------
(***************************************************************************)
(* Proofs about ShellChannel: the types and the read lock for every value  *)
(* of the constants; and, where a quiet shell is an idle one               *)
(* (QuietIsIdle), that the shell owes markers only to the command on the   *)
(* channel and to the strays, and that an answer is late by no more lines  *)
(* than there were strays.                                                 *)
(*                                                                         *)
(* The lines are numbered as they are written and end in that order, so    *)
(* the markers in the stream are those of consecutive lines up to the last *)
(* one that ended, with the zeros of stray prompts between them.  How many *)
(* there are then bounds how old the first one is.                         *)
(***************************************************************************)
EXTENDS ShellChannel, FiniteSetTheorems, FunctionTheorems, TLAPS

-----------------------------------------------------------------------------
(* The inductive invariant.                                                *)

\* Positions of the markers in a stream.
Marks(s) == {i \in 1 .. Len(s) : IsD(s[i])}

\* The marker of a line at position i; a zero is no line's.
LineAt(s, i) == IsD(s[i]) /\ s[i].of # 0

\* The markers of lines come in the order of the lines, and from the first of
\* them on none is missing up to that of line e.
Sorted(s) == \A i, j \in 1 .. Len(s) :
    LineAt(s, i) /\ LineAt(s, j) /\ i < j => s[i].of < s[j].of
Complete(s, e) == \A i \in 1 .. Len(s) : LineAt(s, i) =>
    /\ s[i].of <= e
    /\ \A k \in s[i].of .. e : \E j \in i .. Len(s) : s[j] = D(k)

\* Lines that have ended.
Ended == written - Len(input) - (IF running = 0 THEN 0 ELSE 1)

\* The lines not started are the last ones written, the running one is the
\* one before them.
Numbered ==
    /\ Len(input) <= written
    /\ \A i \in 1 .. Len(input) : input[i] = written - Len(input) + i
    /\ running # 0 => running = written - Len(input)

\* The marker of line k is in the stream, or still to be read.
Sent(k) == \E j \in 1 .. Len(stream) : stream[j] = D(k)
Awaited(k) == k > Ended \/ Sent(k)

\* The marker of the command on the channel is still to be read.
Due(c) == exec[c].at = "reading" => exec[c].line <= written /\ Awaited(exec[c].line)

\* The shell prints a marker of no line only for a stray Ctrl-C.
Zeros == Sent(0) => strays > 0

\* Commands run, and Ctrl-C is sent, only once the bootstrap is over; and it
\* reads what it waits for as the last marker.
Early == stage \in {"drain", "marker"} => interrupt = 0 /\ ReadLockFree
Boot == stage = "marker" => Outstanding <= 1

IInv ==
    /\ ChannelTypeOK
    /\ Numbered
    /\ Sorted(stream)
    /\ Complete(stream, Ended)
    /\ \A c \in Callers : Due(c)
    /\ Zeros
    /\ Early
    /\ QuietIsIdle => Boot /\ OwesOnlyReaders /\ LagBounded

-----------------------------------------------------------------------------
(* The items of the stream.                                                *)

\* Markers and what tells them from the rest of the stream.
LEMMA ItemFacts ==
    /\ \A x \in Items : x.of \in Lines \cup {0} /\ (IsD(x) => x = D(x.of))
    /\ \A n \in Lines \cup {0} : D(n) \in Items
    /\ \A n : IsD(D(n)) /\ D(n).of = n
    /\ Ready \in Items /\ Prompt \in Items
    /\ ~IsD(Ready) /\ ~IsD(Prompt)
  BY DEF Items, IsD, D, Ready, Prompt

\* What appending to a sequence does.
LEMMA AppendFacts ==
    ASSUME NEW S, NEW s \in Seq(S), NEW x \in S
    PROVE  /\ Append(s, x) \in Seq(S)
           /\ Len(Append(s, x)) = Len(s) + 1
           /\ \A i \in 1 .. Len(s) : Append(s, x)[i] = s[i]
           /\ Append(s, x)[Len(s) + 1] = x
           /\ Len(s) \in Nat
  OBVIOUS

\* What is left when the first n items are read.
LEMMA DropFacts ==
    ASSUME NEW S, NEW s \in Seq(S), NEW n \in 1 .. Len(s),
           NEW t, t = SubSeq(s, n + 1, Len(s))
    PROVE  /\ t \in Seq(S)
           /\ Len(t) = Len(s) - n
           /\ \A i \in 1 .. Len(t) : t[i] = s[i + n]
           /\ Len(s) \in Nat
  OBVIOUS

\* The markers of a stream can be counted.
LEMMA MarksFinite ==
    ASSUME NEW s \in Seq(Items)
    PROVE  /\ IsFiniteSet(Marks(s)) /\ Cardinality(Marks(s)) \in Nat
           /\ Marks(s) \in SUBSET (1 .. Len(s))
  <1>1. Len(s) \in Nat /\ Marks(s) \in SUBSET (1 .. Len(s))
    BY DEF Marks
  <1>2. IsFiniteSet(1 .. Len(s))
    BY <1>1, FS_Interval
  <1>3. IsFiniteSet(Marks(s))
    BY <1>1, <1>2, FS_Subset
  <1> QED  BY <1>1, <1>3, FS_CardinalityType

\* The count of markers when the shell prints one thing more.
LEMMA MarksAppend ==
    ASSUME NEW s \in Seq(Items), NEW x \in Items
    PROVE  /\ IsD(x) => Cardinality(Marks(Append(s, x))) = Cardinality(Marks(s)) + 1
           /\ ~IsD(x) => Marks(Append(s, x)) = Marks(s)
  <1> DEFINE t == Append(s, x)
  <1>1. /\ Len(s) \in Nat /\ Len(t) = Len(s) + 1
        /\ t[Len(s) + 1] = x /\ \A i \in 1 .. Len(s) : t[i] = s[i]
    BY AppendFacts
  <1> HIDE DEF t
  <1>2. CASE IsD(x)
    <2>1. Marks(t) = Marks(s) \cup {Len(s) + 1}
      BY <1>1, <1>2 DEF Marks
    <2>2. Len(s) + 1 \notin Marks(s)
      BY <1>1 DEF Marks
    <2> QED  BY <1>2, <2>1, <2>2, MarksFinite, FS_AddElement DEF t
  <1>3. CASE ~IsD(x)
    <2>1. Marks(t) = Marks(s)
      BY <1>1, <1>3 DEF Marks
    <2> QED  BY <1>3, <2>1 DEF t
  <1> QED  BY <1>2, <1>3

\* A chunk takes its markers out of the stream.
LEMMA MarksDrop ==
    ASSUME NEW s \in Seq(Items), NEW n \in 1 .. Len(s),
           NEW t, t = SubSeq(s, n + 1, Len(s))
    PROVE  /\ Cardinality(Marks(t)) <= Cardinality(Marks(s))
           /\ (\E i \in 1 .. n : IsD(s[i])) =>
                 Cardinality(Marks(t)) <= Cardinality(Marks(s)) - 1
  <1>1. /\ t \in Seq(Items) /\ Len(t) = Len(s) - n /\ Len(s) \in Nat
        /\ \A i \in 1 .. Len(t) : t[i] = s[i + n]
    BY DropFacts
  <1> DEFINE f == [i \in Marks(t) |-> i + n]
  <1>2. ASSUME NEW T, \A i \in Marks(t) : i + n \in T
        PROVE  f \in Injection(Marks(t), T)
    <2>1. f \in [Marks(t) -> T]
      BY <1>2
    <2>2. \A i, j \in Marks(t) : f[i] = f[j] => i = j
      <3>1. \A i \in Marks(t) : i \in Int
        BY <1>1 DEF Marks
      <3> QED  BY <3>1, <1>1
    <2> HIDE DEF f
    <2> QED  BY <2>1, <2>2, Fun_IsInj
  <1>3. \A i \in Marks(t) : i + n \in Marks(s) /\ i + n > n
    BY <1>1 DEF Marks
  <1>4. /\ IsFiniteSet(Marks(s)) /\ Cardinality(Marks(s)) \in Nat
        /\ Cardinality(Marks(t)) \in Nat
    BY <1>1, MarksFinite
  <1>5. Cardinality(Marks(t)) <= Cardinality(Marks(s))
    <2>1. f \in Injection(Marks(t), Marks(s))
      BY <1>2, <1>3
    <2> HIDE DEF f
    <2> QED  BY <2>1, <1>4, FS_Injection
  <1>6. ASSUME NEW d \in 1 .. n, IsD(s[d])
        PROVE  Cardinality(Marks(t)) <= Cardinality(Marks(s)) - 1
    <2> DEFINE T == Marks(s) \ {d}
    <2>1. \A i \in Marks(t) : i + n \in T
      BY <1>3, <1>6, MarksFinite, <1>1
    <2>2. d \in Marks(s)
      BY <1>6, <1>1 DEF Marks
    <2>3. IsFiniteSet(T) /\ Cardinality(T) = Cardinality(Marks(s)) - 1
      BY <2>2, <1>4, FS_RemoveElement
    <2> HIDE DEF T
    <2>4. f \in Injection(Marks(t), T)
      BY <1>2, <2>1
    <2> HIDE DEF f
    <2> QED  BY <2>4, <2>3, FS_Injection
  <1> QED  BY <1>5, <1>6

-----------------------------------------------------------------------------
(* Sorted and Complete under what happens to the stream.                   *)

\* Output that is no line's marker leaves order and completeness alone.
LEMMA SameLines ==
    ASSUME NEW s \in Seq(Items), NEW x \in Items, ~(IsD(x) /\ x.of # 0), NEW e \in Int,
           Sorted(s), Complete(s, e)
    PROVE  Sorted(Append(s, x)) /\ Complete(Append(s, x), e)
  <1> DEFINE t == Append(s, x)
  <1>1. /\ Len(s) \in Nat /\ Len(t) = Len(s) + 1
        /\ t[Len(s) + 1] = x /\ \A i \in 1 .. Len(s) : t[i] = s[i]
    BY AppendFacts
  <1> HIDE DEF t
  <1>2. \A i \in 1 .. Len(t) : LineAt(t, i) => i \in 1 .. Len(s) /\ LineAt(s, i)
    BY <1>1 DEF LineAt
  <1>3. Sorted(t)
    BY <1>1, <1>2 DEF Sorted
  <1>4. Complete(t, e)
    <2> SUFFICES ASSUME NEW i \in 1 .. Len(t), LineAt(t, i)
                 PROVE  /\ t[i].of <= e
                        /\ \A k \in t[i].of .. e : \E j \in i .. Len(t) : t[j] = D(k)
      BY DEF Complete
    <2>1. i \in 1 .. Len(s) /\ LineAt(s, i) /\ t[i] = s[i]
      BY <1>1, <1>2
    <2>2. /\ s[i].of <= e
          /\ \A k \in s[i].of .. e : \E j \in i .. Len(s) : s[j] = D(k)
      BY <2>1 DEF Complete
    <2> QED  BY <2>1, <2>2, <1>1
  <1> QED  BY <1>3, <1>4 DEF t

\* The marker of the next line keeps the order and completes it by one.
LEMMA NextLine ==
    ASSUME NEW s \in Seq(Items), NEW e \in Nat, e + 1 \in Lines,
           Sorted(s), Complete(s, e)
    PROVE  Sorted(Append(s, D(e + 1))) /\ Complete(Append(s, D(e + 1)), e + 1)
  <1> DEFINE x == D(e + 1)
             t == Append(s, x)
  <1>1. x \in Items /\ IsD(x) /\ x.of = e + 1
    BY ItemFacts
  <1>2. /\ Len(s) \in Nat /\ Len(t) = Len(s) + 1
        /\ t[Len(s) + 1] = x /\ \A i \in 1 .. Len(s) : t[i] = s[i]
    BY <1>1, AppendFacts
  <1>3. \A i \in 1 .. Len(s) : s[i] \in Items /\ s[i].of \in Int
    BY ItemFacts DEF Lines
  <1> HIDE DEF t
  <1>4. \A i \in 1 .. Len(t) : LineAt(t, i) =>
            \/ i \in 1 .. Len(s) /\ LineAt(s, i)
            \/ i = Len(s) + 1
    BY <1>2 DEF LineAt
  <1>5. \A i \in 1 .. Len(s) : LineAt(s, i) => s[i].of <= e
    BY DEF Complete
  <1>6. Sorted(t)
    <2> SUFFICES ASSUME NEW i \in 1 .. Len(t), NEW j \in 1 .. Len(t),
                        LineAt(t, i), LineAt(t, j), i < j
                 PROVE  t[i].of < t[j].of
      BY DEF Sorted
    <2>1. i \in 1 .. Len(s) /\ LineAt(s, i) /\ t[i] = s[i]
      BY <1>2, <1>4
    <2>2. CASE j \in 1 .. Len(s) /\ LineAt(s, j)
      BY <2>1, <2>2, <1>2 DEF Sorted
    <2>3. CASE j = Len(s) + 1
      <3>1. t[j].of = e + 1 /\ t[i].of <= e /\ t[i].of \in Int
        BY <2>1, <2>3, <1>1, <1>2, <1>3, <1>5
      <3> QED  BY <3>1
    <2> QED  BY <2>2, <2>3, <1>4
  <1>7. Complete(t, e + 1)
    <2> SUFFICES ASSUME NEW i \in 1 .. Len(t), LineAt(t, i)
                 PROVE  /\ t[i].of <= e + 1
                        /\ \A k \in t[i].of .. e + 1 : \E j \in i .. Len(t) : t[j] = D(k)
      BY DEF Complete
    <2>1. CASE i \in 1 .. Len(s) /\ LineAt(s, i)
      <3>1. t[i] = s[i] /\ s[i].of <= e /\ s[i].of \in Int
        BY <2>1, <1>2, <1>3, <1>5
      <3>2. \A k \in s[i].of .. e : \E j \in i .. Len(s) : s[j] = D(k)
        BY <2>1 DEF Complete
      <3>3. ASSUME NEW k \in t[i].of .. e + 1
            PROVE  \E j \in i .. Len(t) : t[j] = D(k)
        <4>1. CASE k = e + 1
          BY <4>1, <1>2
        <4>2. CASE k # e + 1
          <5>1. k \in s[i].of .. e
            BY <4>2, <3>1
          <5> QED  BY <5>1, <3>2, <1>2
        <4> QED  BY <4>1, <4>2
      <3> QED  BY <3>1, <3>3
    <2>2. CASE i = Len(s) + 1
      <3>1. t[i].of = e + 1
        BY <2>2, <1>1, <1>2
      <3> QED  BY <2>2, <3>1, <1>2
    <2> QED  BY <2>1, <2>2, <1>4
  <1> QED  BY <1>6, <1>7 DEF t

\* Reading from the front keeps order and completeness of the rest.
LEMMA FewerLines ==
    ASSUME NEW s \in Seq(Items), NEW n \in 1 .. Len(s), NEW e \in Int,
           Sorted(s), Complete(s, e)
    PROVE  /\ Sorted(SubSeq(s, n + 1, Len(s)))
           /\ Complete(SubSeq(s, n + 1, Len(s)), e)
  <1> DEFINE t == SubSeq(s, n + 1, Len(s))
  <1>1. /\ t \in Seq(Items) /\ Len(t) = Len(s) - n /\ Len(s) \in Nat
        /\ \A i \in 1 .. Len(t) : t[i] = s[i + n]
    BY DropFacts
  <1> HIDE DEF t
  <1>2. \A i \in 1 .. Len(t) : i + n \in 1 .. Len(s) /\ (LineAt(t, i) => LineAt(s, i + n))
    BY <1>1 DEF LineAt
  <1>3. Sorted(t)
    <2> SUFFICES ASSUME NEW i \in 1 .. Len(t), NEW j \in 1 .. Len(t),
                        LineAt(t, i), LineAt(t, j), i < j
                 PROVE  t[i].of < t[j].of
      BY DEF Sorted
    <2>1. i + n < j + n
      BY <1>1
    <2>2. s[i + n].of < s[j + n].of
      BY <2>1, <1>2 DEF Sorted
    <2> QED  BY <2>2, <1>1
  <1>4. Complete(t, e)
    <2> SUFFICES ASSUME NEW i \in 1 .. Len(t), LineAt(t, i)
                 PROVE  /\ t[i].of <= e
                        /\ \A k \in t[i].of .. e : \E j \in i .. Len(t) : t[j] = D(k)
      BY DEF Complete
    <2>1. /\ i + n \in 1 .. Len(s) /\ LineAt(s, i + n) /\ t[i] = s[i + n]
      BY <1>1, <1>2
    <2>2. /\ s[i + n].of <= e
          /\ \A k \in s[i + n].of .. e : \E j \in i + n .. Len(s) : s[j] = D(k)
      BY <2>1 DEF Complete
    <2>3. ASSUME NEW k \in t[i].of .. e
          PROVE  \E j \in i .. Len(t) : t[j] = D(k)
      <3>1. PICK j \in i + n .. Len(s) : s[j] = D(k)
        BY <2>1, <2>2, <2>3
      <3>2. j - n \in i .. Len(t) /\ j - n \in 1 .. Len(t) /\ (j - n) + n = j
        BY <3>1, <1>1
      <3>3. t[j - n] = D(k)
        BY <3>1, <3>2, <1>1
      <3> QED  BY <3>2, <3>3
    <2> QED  BY <2>1, <2>2, <2>3
  <1> QED  BY <1>3, <1>4 DEF t

\* From the marker of line a on there are at least e - a + 1 markers.
LEMMA CountFrom ==
    ASSUME NEW s \in Seq(Items), NEW e \in Int, Complete(s, e),
           NEW i \in 1 .. Len(s), LineAt(s, i)
    PROVE  e - s[i].of + 1 <= Cardinality(Marks(s))
  <1> DEFINE a == s[i].of
             f == [k \in a .. e |-> CHOOSE j \in Marks(s) : s[j] = D(k)]
  <1>1. s[i] \in Items /\ a \in Int /\ Len(s) \in Nat
    BY ItemFacts DEF Lines
  <1>2. /\ a <= e
        /\ \A k \in a .. e : \E j \in i .. Len(s) : s[j] = D(k)
    BY DEF Complete
  <1> HIDE DEF a
  <1>3. \A k \in a .. e : \E j \in Marks(s) : s[j] = D(k)
    BY <1>1, <1>2, ItemFacts DEF Marks
  <1>4. \A k \in a .. e : f[k] \in Marks(s) /\ s[f[k]] = D(k)
    BY <1>3
  <1>5. f \in [a .. e -> Marks(s)]
    BY <1>4
  <1> HIDE DEF f
  <1>6. \A k, l \in a .. e : f[k] = f[l] => k = l
    BY <1>4, ItemFacts
  <1>7. f \in Injection(a .. e, Marks(s))
    BY <1>5, <1>6, Fun_IsInj
  <1>8. Cardinality(a .. e) <= Cardinality(Marks(s))
    BY <1>7, MarksFinite, FS_Injection
  <1>9. Cardinality(a .. e) = e - a + 1
    BY <1>1, <1>2, FS_Interval
  <1> QED  BY <1>8, <1>9 DEF a

-----------------------------------------------------------------------------
(* Types, and one caller at a time on the channel.                         *)

\* The places a caller can be.
LEMMA ExecFacts ==
    /\ IdleExec.at = "idle" /\ IdleExec \in {IdleExec} \cup Exec
    /\ [at |-> "waiting"] \in Exec /\ [at |-> "waiting"].at = "waiting"
    /\ \A n \in Lines, b \in BOOLEAN :
          [at |-> "reading", line |-> n, wedged |-> b] \in Exec
    /\ \A n \in Lines : [at |-> "recovering", line |-> n] \in Exec
    /\ \A e \in {IdleExec} \cup Exec :
          /\ e.at \in {"idle", "waiting", "reading", "recovering"}
          /\ e.at = "idle" <=> e = IdleExec
          /\ e.at \in {"reading", "recovering"} => e.line \in Lines
          /\ e.at = "reading" => /\ e.wedged \in BOOLEAN
                                 /\ \A b : [e EXCEPT !.wedged = b] =
                                       [at |-> "reading", line |-> e.line, wedged |-> b]
  <1>1. ASSUME NEW e \in Exec, e.at = "reading", NEW b
        PROVE  [e EXCEPT !.wedged = b] = [at |-> "reading", line |-> e.line, wedged |-> b]
    BY <1>1 DEF Exec
  <1> QED  BY <1>1 DEF IdleExec, Exec

\* The caller that moves, and what the others may then find.
LEMMA OneMoves ==
    ASSUME ChannelTypeOK, NEW c \in Callers, NEW e \in {IdleExec} \cup Exec,
           exec' = [exec EXCEPT ![c] = e],
           e.at \in {"reading", "recovering"} => OnChannel(c) \/ ReadLockFree
    PROVE  /\ exec' \in [Callers -> {IdleExec} \cup Exec]
           /\ exec'[c] = e
           /\ \A d \in Callers \ {c} : exec'[d] = exec[d]
           /\ \A d, f \in Callers : OnChannel(d)' /\ OnChannel(f)' => d = f
  <1>1. /\ exec' \in [Callers -> {IdleExec} \cup Exec]
        /\ exec'[c] = e
        /\ \A d \in Callers \ {c} : exec'[d] = exec[d]
    BY DEF ChannelTypeOK
  <1>2. \A d \in Callers \ {c} : OnChannel(d)' <=> OnChannel(d)
    BY <1>1 DEF OnChannel
  <1>3. OnChannel(c)' => OnChannel(c) \/ ReadLockFree
    BY <1>1 DEF OnChannel
  <1>4. \A d, f \in Callers : OnChannel(d) /\ OnChannel(f) => d = f
    BY DEF ChannelTypeOK
  <1>5. \A d, f \in Callers : OnChannel(d)' /\ OnChannel(f)' => d = f
    BY <1>2, <1>3, <1>4 DEF ReadLockFree
  <1> QED  BY <1>1, <1>5

\* Writing a line gives it the next number and puts it last.
LEMMA WriteTypes ==
    ASSUME ChannelTypeOK, Write
    PROVE  /\ written' \in 0 .. MaxLines /\ input' \in Seq(Lines)
           /\ written' = written + 1 /\ written + 1 \in Lines
           /\ Len(input') = Len(input) + 1 /\ Len(input) \in Nat
           /\ \A i \in 1 .. Len(input) : input'[i] = input[i]
           /\ input'[Len(input) + 1] = written + 1
  <1>1. /\ written' \in 0 .. MaxLines /\ written + 1 \in Lines
        /\ written' = written + 1
    BY ChannelAssumption DEF ChannelTypeOK, Write, Lines
  <1>2. input \in Seq(Lines) /\ input' = Append(input, written + 1)
    BY DEF ChannelTypeOK, Write
  <1> QED  BY <1>1, <1>2, AppendFacts

\* Reading leaves a stream.
LEMMA TakeTypes ==
    ASSUME ChannelTypeOK, NEW n \in 1 .. Len(stream), Take(n)
    PROVE  stream' \in Seq(Items)
  <1>1. stream \in Seq(Items)
    BY DEF ChannelTypeOK
  <1> QED  BY <1>1, DropFacts DEF Take

\* Steps of the shell keep the types.
LEMMA TypesOfShell ==
    ASSUME ChannelTypeOK,
           StartLine \/ FinishLine \/ AskForInput \/ InterruptCommand \/ InterruptPrompt
    PROVE  ChannelTypeOK'
  <1>1. /\ stream \in Seq(Items) /\ input \in Seq(Lines) /\ running \in Lines \cup {0}
        /\ strays \in Nat
    BY DEF ChannelTypeOK
  <1>2. 0 \in 0 .. MaxLines /\ 0 \in Lines \cup {0}
    BY ChannelAssumption
  <1>3. CASE StartLine
    <2>1. running' \in Lines /\ input' \in Seq(Lines)
      BY <1>1, <1>3 DEF StartLine
    <2> QED  BY <1>3, <2>1 DEF StartLine, ChannelTypeOK, bootVars, OnChannel
  <1>4. CASE FinishLine
    <2>1. D(running) \in Items
      BY <1>1, ItemFacts
    <2>2. (IF running = MarkerLine THEN Append(stream, Ready) ELSE stream) \in Seq(Items)
      BY <1>1, ItemFacts, AppendFacts
    <2>3. stream' \in Seq(Items)
      BY <1>4, <2>1, <2>2, AppendFacts DEF FinishLine
    <2>4. echo' \in BOOLEAN /\ prompted' \in BOOLEAN /\ running' = 0
      BY <1>4 DEF FinishLine
    <2> QED  BY <1>2, <1>4, <2>3, <2>4 DEF FinishLine, ChannelTypeOK, OnChannel
  <1>5. CASE AskForInput
    <2>1. stream' \in Seq(Items)
      BY <1>1, <1>5, ItemFacts, AppendFacts DEF AskForInput
    <2> QED  BY <1>5, <2>1 DEF AskForInput, ChannelTypeOK, bootVars, OnChannel
  <1>6. CASE InterruptCommand
    <2>1. D(running) \in Items
      BY <1>1, ItemFacts
    <2>2. stream' \in Seq(Items)
      BY <1>1, <1>6, <2>1, AppendFacts DEF InterruptCommand
    <2>3. /\ running' \in Lines \cup {0} /\ prompted' \in BOOLEAN
          /\ interrupt' \in 0 .. MaxLines
      BY <1>2, <1>6 DEF InterruptCommand, ChannelTypeOK
    <2> QED  BY <1>6, <2>2, <2>3 DEF InterruptCommand, ChannelTypeOK, bootVars, OnChannel
  <1>7. CASE InterruptPrompt
    <2>1. D(0) \in Items
      BY ItemFacts
    <2>2. stream' \in Seq(Items)
      BY <1>1, <1>7, <2>1, AppendFacts DEF InterruptPrompt
    <2>3. strays' \in Nat /\ interrupt' \in 0 .. MaxLines
      BY <1>1, <1>2, <1>7 DEF InterruptPrompt
    <2> QED  BY <1>7, <2>2, <2>3 DEF InterruptPrompt, ChannelTypeOK, bootVars, OnChannel
  <1> QED  BY <1>3, <1>4, <1>5, <1>6, <1>7

\* Steps of the bootstrap keep the types.
LEMMA TypesOfBoot ==
    ASSUME ChannelTypeOK, DrainScript \/ MarkReady \/ ReadReady \/ SetEnv \/ Lost
    PROVE  ChannelTypeOK'
  <1>1. CASE DrainScript
    <2>1. stream' \in Seq(Items)
      BY <1>1, TakeTypes DEF DrainScript
    <2> QED  BY <1>1, <2>1 DEF DrainScript, ChannelTypeOK, bootVars, OnChannel
  <1>2. CASE MarkReady
    <2>1. written' \in 0 .. MaxLines /\ input' \in Seq(Lines)
      BY <1>2, WriteTypes DEF MarkReady
    <2>2. stream \in Seq(Items)
      BY DEF ChannelTypeOK
    <2>3. stream' \in Seq(Items)
      BY <1>2, <2>2, ItemFacts, AppendFacts DEF MarkReady
    <2> QED  BY <1>2, <2>1, <2>3 DEF MarkReady, ChannelTypeOK, OnChannel
  <1>3. CASE ReadReady
    <2>1. stream' \in Seq(Items)
      BY <1>3, TakeTypes DEF ReadReady
    <2>2. stage' \in {"ready", "marker"} /\ seen' \in BOOLEAN
      BY <1>3 DEF ReadReady
    <2> QED  BY <1>3, <2>1, <2>2 DEF ReadReady, ChannelTypeOK, OnChannel
  <1>4. CASE SetEnv
    <2>1. written' \in 0 .. MaxLines /\ input' \in Seq(Lines)
      BY <1>4, WriteTypes DEF SetEnv
    <2>2. strays' \in Nat /\ envs' \in 0 .. MaxEnvs
      BY <1>4, ChannelAssumption DEF SetEnv, ChannelTypeOK
    <2> QED  BY <1>4, <2>1, <2>2 DEF SetEnv, ChannelTypeOK, bootVars, OnChannel
  <1>5. CASE Lost
    <2>1. /\ exec' \in [Callers -> {IdleExec} \cup Exec]
          /\ \A c \in Callers : ~OnChannel(c)'
      BY <1>5, ExecFacts DEF Lost, OnChannel
    <2>2. stage' = "lost"
      BY <1>5 DEF Lost
    <2> QED  BY <1>5, <2>1, <2>2 DEF Lost, ChannelTypeOK, shellVars
  <1> QED  BY <1>1, <1>2, <1>3, <1>4, <1>5

Step(c) ==
    \/ Execute(c) \/ WriteCommand(c) \/ ReadAnswer(c) \/ ReadOutput(c)
    \/ TimeOut(c) \/ SoftCancel(c) \/ AwaitNextDone(c) \/ NotRecovered(c)
    \/ Cancel(c)

\* What a step of caller c does to it.
LEMMA CallerMoves ==
    ASSUME ChannelTypeOK, NEW c \in Callers, Step(c)
    PROVE  \/ exec' = exec
           \/ \E e \in {IdleExec} \cup Exec :
                /\ exec' = [exec EXCEPT ![c] = e]
                /\ e.at \in {"reading", "recovering"} => OnChannel(c) \/ ReadLockFree
  <1>1. exec \in [Callers -> {IdleExec} \cup Exec] /\ exec[c] \in {IdleExec} \cup Exec
    BY DEF ChannelTypeOK
  <1>2. exec[c].at \in {"reading", "recovering"} => exec[c].line \in Lines
    BY <1>1, ExecFacts
  <1>3. CASE Execute(c)
    <2> DEFINE e == [at |-> "waiting"]
    <2>1. e \in Exec /\ e.at = "waiting" /\ exec' = [exec EXCEPT ![c] = e]
      BY <1>3, ExecFacts DEF Execute
    <2> HIDE DEF e
    <2> QED  BY <2>1
  <1>4. CASE WriteCommand(c)
    <2> DEFINE e == [at |-> "reading", line |-> written + 1, wedged |-> FALSE]
    <2>1. e \in Exec /\ exec' = [exec EXCEPT ![c] = e] /\ ReadLockFree
      BY <1>4, ExecFacts, WriteTypes DEF WriteCommand
    <2> HIDE DEF e
    <2> QED  BY <2>1
  <1>5. CASE ReadAnswer(c) \/ NotRecovered(c) \/ Cancel(c)
    <2>1. exec' = [exec EXCEPT ![c] = IdleExec] /\ IdleExec.at = "idle"
      BY <1>5, ExecFacts DEF ReadAnswer, NotRecovered, Cancel
    <2> QED  BY <2>1
  <1>6. CASE ReadOutput(c)
    <2>1. PICK n \in 1 .. Len(stream) :
            exec' = [exec EXCEPT ![c].wedged = @ \/ \E i \in 1 .. n : stream[i] = Prompt]
      BY <1>6 DEF ReadOutput
    <2> DEFINE b == exec[c].wedged \/ \E i \in 1 .. n : stream[i] = Prompt
               e == [at |-> "reading", line |-> exec[c].line, wedged |-> b]
    <2>2. exec[c].at = "reading" /\ b \in BOOLEAN
      BY <1>6 DEF ReadOutput
    <2>3. exec' = [exec EXCEPT ![c] = [exec[c] EXCEPT !.wedged = b]]
      BY <2>1
    <2> HIDE DEF b
    <2>4. e \in Exec /\ exec' = [exec EXCEPT ![c] = e]
      BY <1>1, <1>2, <2>2, <2>3, ExecFacts
    <2>5. OnChannel(c)
      BY <2>2 DEF OnChannel
    <2> HIDE DEF e
    <2> QED  BY <2>4, <2>5
  <1>7. CASE TimeOut(c) \/ SoftCancel(c)
    <2> DEFINE e == [at |-> "recovering", line |-> exec[c].line]
    <2>1. exec[c].at = "reading" /\ exec' = [exec EXCEPT ![c] = e]
      BY <1>7 DEF TimeOut, SoftCancel, SendInterrupt
    <2>2. e \in Exec
      BY <1>2, <2>1, ExecFacts
    <2>3. OnChannel(c)
      BY <2>1 DEF OnChannel
    <2> HIDE DEF e
    <2> QED  BY <2>1, <2>2, <2>3
  <1>8. CASE AwaitNextDone(c)
    <2>1. exec' = exec \/ exec' = [exec EXCEPT ![c] = IdleExec]
      BY <1>8 DEF AwaitNextDone
    <2> QED  BY <2>1, ExecFacts
  <1> QED  BY <1>3, <1>4, <1>5, <1>6, <1>7, <1>8 DEF Step

\* Steps of a caller keep the types.
LEMMA TypesOfCaller ==
    ASSUME ChannelTypeOK, NEW c \in Callers, Step(c)
    PROVE  ChannelTypeOK'
  <1>1. /\ exec' \in [Callers -> {IdleExec} \cup Exec]
        /\ \A d, f \in Callers : OnChannel(d)' /\ OnChannel(f)' => d = f
    <2>1. CASE exec' = exec
      BY <2>1 DEF ChannelTypeOK, OnChannel
    <2>2. CASE \E e \in {IdleExec} \cup Exec :
                 /\ exec' = [exec EXCEPT ![c] = e]
                 /\ e.at \in {"reading", "recovering"} => OnChannel(c) \/ ReadLockFree
      BY <2>2, OneMoves
    <2> QED  BY <2>1, <2>2, CallerMoves
  <1>2. CASE Execute(c)
    BY <1>1, <1>2 DEF Execute, ChannelTypeOK, bootVars, shellVars
  <1>3. CASE WriteCommand(c)
    BY <1>1, <1>3, WriteTypes DEF WriteCommand, ChannelTypeOK, bootVars
  <1>4. CASE ReadAnswer(c)
    <2>0. PICK n \in 1 .. Len(stream) : \E i \in 1 .. n :
             Take(n) /\ answer' = [answer EXCEPT ![exec[c].line] = stream[i].of]
      BY <1>4 DEF ReadAnswer
    <2>1. PICK i \in 1 .. n :
             Take(n) /\ answer' = [answer EXCEPT ![exec[c].line] = stream[i].of]
      BY <2>0
    <2>2. stream' \in Seq(Items) /\ stream \in Seq(Items)
      BY <2>1, TakeTypes DEF ChannelTypeOK
    <2>3. stream[i] \in Items
      BY <2>2
    <2>4. stream[i].of \in Lines \cup {0}
      BY <2>3, ItemFacts
    <2>5. answer' \in [Lines -> Lines \cup {0, MaxLines + 1}]
      BY <2>1, <2>4 DEF ChannelTypeOK
    <2> QED  BY <1>1, <1>4, <2>2, <2>5 DEF ReadAnswer, ChannelTypeOK, bootVars
  <1>5. CASE ReadOutput(c) \/ AwaitNextDone(c)
    <2>1. stream' \in Seq(Items)
      BY <1>5, TakeTypes DEF ReadOutput, AwaitNextDone
    <2> QED  BY <1>1, <1>5, <2>1 DEF ReadOutput, AwaitNextDone, ChannelTypeOK, bootVars
  <1>6. CASE TimeOut(c) \/ SoftCancel(c)
    <2>1. interrupt' \in 0 .. MaxLines
      BY <1>6 DEF TimeOut, SoftCancel, SendInterrupt, ChannelTypeOK
    <2> QED  BY <1>1, <1>6, <2>1 DEF TimeOut, SoftCancel, ChannelTypeOK, bootVars
  <1>7. CASE NotRecovered(c)
    BY <1>1, <1>7 DEF NotRecovered, ChannelTypeOK, shellVars
  <1>8. CASE Cancel(c)
    <2>1. strays' \in Nat /\ cancels' \in 0 .. MaxCancels
      BY <1>8, ChannelAssumption DEF Cancel, ChannelTypeOK
    <2> QED  BY <1>1, <1>8, <2>1 DEF Cancel, ChannelTypeOK, bootVars, shellVars
  <1> QED  BY <1>2, <1>3, <1>4, <1>5, <1>6, <1>7, <1>8 DEF Step

\* Every step keeps the types.
LEMMA TypesStep ==
    ASSUME ChannelTypeOK, [Next]_vars
    PROVE  ChannelTypeOK'
  <1>1. CASE UNCHANGED vars
    BY <1>1 DEF ChannelTypeOK, OnChannel, vars, bootVars, shellVars
  <1> QED  BY <1>1, TypesOfShell, TypesOfBoot, TypesOfCaller DEF Next, Step

\* The types hold at the start.
LEMMA TypesInit ==
    ASSUME Init
    PROVE  ChannelTypeOK
  <1>1. written \in 0 .. MaxLines /\ 0 \in 0 .. MaxLines
    BY ChannelAssumption DEF Init
  <1>2. input \in Seq(Lines)
    <2>1. \A i \in 1 .. ScriptLines : i \in Lines
      BY ChannelAssumption DEF Lines
    <2>2. input \in [1 .. ScriptLines -> Lines] /\ ScriptLines \in Nat
      BY <2>1, ChannelAssumption DEF Init
    <2> QED  BY <2>2
  <1>3. exec \in [Callers -> {IdleExec} \cup Exec] /\ \A c \in Callers : ~OnChannel(c)
    BY ExecFacts DEF Init, OnChannel
  <1>4. stream \in Seq(Items)
    BY DEF Init
  <1>5. answer \in [Lines -> Lines \cup {0, MaxLines + 1}]
    BY DEF Init, Unanswered
  <1>6. /\ stage \in {"drain", "marker", "ready", "lost"}
        /\ seen \in BOOLEAN /\ prompted \in BOOLEAN /\ echo \in BOOLEAN
    BY DEF Init
  <1>7. 0 \in 0 .. MaxCancels /\ 0 \in 0 .. MaxEnvs /\ 0 \in Nat
    BY ChannelAssumption
  <1>8. /\ running \in Lines \cup {0} /\ interrupt \in 0 .. MaxLines
        /\ strays \in Nat /\ cancels \in 0 .. MaxCancels /\ envs \in 0 .. MaxEnvs
    BY <1>1, <1>7 DEF Init
  <1> QED  BY <1>1, <1>2, <1>3, <1>4, <1>5, <1>6, <1>8 DEF ChannelTypeOK

-----------------------------------------------------------------------------
(* What a step does to the lines and the markers.                          *)

Ordered == Numbered /\ Sorted(stream) /\ Complete(stream, Ended)
Busy == IF running = 0 THEN 0 ELSE 1

\* Lines that ended and markers outstanding are natural numbers.
LEMMA CountFacts ==
    ASSUME ChannelTypeOK, Numbered
    PROVE  /\ Len(input) \in Nat /\ written \in Nat /\ Busy \in {0, 1}
           /\ Ended \in Nat /\ Ended = written - Len(input) - Busy
           /\ Cardinality(Marks(stream)) \in Nat
           /\ Outstanding = Cardinality(Marks(stream)) + Len(input) + Busy
           /\ Outstanding \in Nat
  <1>1. /\ Len(input) \in Nat /\ written \in Nat /\ running \in Nat
        /\ stream \in Seq(Items)
    BY DEF ChannelTypeOK, Lines
  <1>2. Busy \in {0, 1} /\ Ended = written - Len(input) - Busy
    BY DEF Busy, Ended
  <1>3. Ended \in Nat
    BY <1>1 DEF Ended, Numbered
  <1>4. Cardinality(Marks(stream)) \in Nat
    BY <1>1, MarksFinite
  <1>5. Outstanding = Cardinality(Marks(stream)) + Len(input) + Busy
    BY DEF Outstanding, Unread, Marks, Busy
  <1> QED  BY <1>1, <1>2, <1>3, <1>4, <1>5

\* The next state of those counts, from its types.
LEMMA CountFactsNext ==
    ASSUME ChannelTypeOK', Numbered'
    PROVE  /\ Len(input') \in Nat /\ written' \in Nat /\ Busy' \in {0, 1}
           /\ Ended' \in Nat /\ Ended' = written' - Len(input') - Busy'
           /\ Cardinality(Marks(stream')) \in Nat
           /\ Outstanding' = Cardinality(Marks(stream')) + Len(input') + Busy'
           /\ Outstanding' \in Nat
  <1>1. /\ Len(input') \in Nat /\ written' \in Nat /\ running' \in Nat
        /\ stream' \in Seq(Items)
    BY DEF ChannelTypeOK, Lines
  <1>2. Busy' \in {0, 1} /\ Ended' = written' - Len(input') - Busy'
    BY DEF Busy, Ended
  <1>3. Ended' \in Nat
    BY <1>1 DEF Ended, Numbered
  <1>4. Cardinality(Marks(stream')) \in Nat
    BY <1>1, MarksFinite
  <1>5. Outstanding' = Cardinality(Marks(stream')) + Len(input') + Busy'
    BY DEF Outstanding, Unread, Marks, Busy
  <1> QED  BY <1>1, <1>2, <1>3, <1>4, <1>5

\* An item is added that is no line's marker.
LEMMA ItemAdded ==
    ASSUME stream \in Seq(Items), NEW x \in Items, stream' = Append(stream, x)
    PROVE  /\ \A k : Sent(k) => Sent(k)'
           /\ \A k : x # D(k) => (Sent(k)' => Sent(k))
           /\ \A k : x = D(k) => Sent(k)'
  <1>1. /\ Len(stream) \in Nat /\ Len(stream') = Len(stream) + 1
        /\ stream'[Len(stream) + 1] = x
        /\ \A i \in 1 .. Len(stream) : stream'[i] = stream[i]
    BY AppendFacts
  <1>2. ASSUME NEW k, Sent(k)
        PROVE  Sent(k)'
    BY <1>1, <1>2 DEF Sent
  <1>3. ASSUME NEW k, x # D(k), Sent(k)'
        PROVE  Sent(k)
    <2>1. PICK j \in 1 .. Len(stream') : stream'[j] = D(k)
      BY <1>3 DEF Sent
    <2>2. j \in 1 .. Len(stream)
      BY <1>1, <1>3, <2>1
    <2> QED  BY <2>1, <2>2, <1>1 DEF Sent
  <1>4. ASSUME NEW k, x = D(k)
        PROVE  Sent(k)'
    <2>1. Len(stream) + 1 \in 1 .. Len(stream')
      BY <1>1
    <2> QED  BY <2>1, <1>1, <1>4 DEF Sent
  <1> QED  BY <1>2, <1>3, <1>4

\* The running line ends: its marker is the next one.
LEMMA LineEnds ==
    ASSUME ChannelTypeOK, Ordered, running # 0, running' = 0,
           UNCHANGED <<written, input>>
    PROVE  /\ Numbered' /\ Ended' = Ended + 1 /\ Ended + 1 = running
           /\ Busy = 1 /\ Busy' = 0
  <1>1. Numbered
    BY DEF Ordered
  <1>2. written \in Nat /\ Len(input) \in Nat
    BY <1>1, CountFacts
  <1>3. Busy = 1 /\ Busy' = 0
    BY DEF Busy
  <1>4. running = written - Len(input) /\ Numbered'
    BY <1>1 DEF Numbered
  <1>5. Ended = written - Len(input) - 1 /\ Ended' = written - Len(input)
    BY <1>2 DEF Ended
  <1> QED  BY <1>2, <1>3, <1>4, <1>5

\* Everything a step of the shell must keep.
KeepsOrder ==
    /\ Ordered'
    /\ \A k \in Lines : Awaited(k) => Awaited(k)'
    /\ written <= written'

\* A line that ends turns into its marker.
LEMMA EndedKeeps ==
    ASSUME ChannelTypeOK, Ordered, running # 0, running' = 0,
           UNCHANGED <<written, input>>,
           NEW s \in Seq(Items), Sorted(s), Complete(s, Ended),
           \A k : Sent(k) => \E j \in 1 .. Len(s) : s[j] = D(k),
           (\E j \in 1 .. Len(s) : s[j] = D(0)) => Sent(0),
           Cardinality(Marks(s)) = Cardinality(Marks(stream)),
           stream' = Append(s, D(running)), ChannelTypeOK'
    PROVE  KeepsOrder /\ Outstanding' = Outstanding /\ (Sent(0)' => Sent(0))
  <1>1. /\ Numbered' /\ Ended' = Ended + 1 /\ Ended + 1 = running
        /\ Busy = 1 /\ Busy' = 0
    BY LineEnds
  <1>2. Ended \in Nat /\ running \in Lines /\ D(running) \in Items /\ IsD(D(running))
    BY CountFacts, ItemFacts DEF Ordered, ChannelTypeOK
  <1>3. Sorted(stream') /\ Complete(stream', Ended')
    BY <1>1, <1>2, NextLine
  <1>4. Ordered'
    BY <1>1, <1>3 DEF Ordered
  <1>5. /\ Len(s) \in Nat /\ Len(stream') = Len(s) + 1
        /\ stream'[Len(s) + 1] = D(running)
        /\ \A i \in 1 .. Len(s) : stream'[i] = s[i]
    BY <1>2, AppendFacts
  <1>6. ASSUME NEW k \in Lines, Awaited(k)
        PROVE  Awaited(k)'
    <2>1. CASE Sent(k)
      BY <2>1, <1>5 DEF Awaited, Sent
    <2>2. CASE k > Ended /\ k # running
      <3>1. k > Ended'
        BY <2>2, <1>1, <1>2 DEF Lines
      <3> QED  BY <3>1 DEF Awaited
    <2>3. CASE k = running
      <3>1. Len(s) + 1 \in 1 .. Len(stream')
        BY <1>5
      <3> QED  BY <2>3, <3>1, <1>5 DEF Awaited, Sent
    <2> QED  BY <1>6, <2>1, <2>2, <2>3 DEF Awaited
  <1>7. Sent(0)' => Sent(0)
    <2> SUFFICES ASSUME NEW j \in 1 .. Len(stream'), stream'[j] = D(0)
                 PROVE  Sent(0)
      BY DEF Sent
    <2>1. D(running) # D(0)
      BY <1>2, ItemFacts DEF Lines
    <2>2. j \in 1 .. Len(s)
      BY <1>5, <2>1
    <2> QED  BY <2>2, <1>5
  <1>8. Outstanding' = Outstanding
    <2>1. Cardinality(Marks(stream')) = Cardinality(Marks(s)) + 1
      BY <1>2, MarksAppend
    <2>2. Numbered
      BY DEF Ordered
    <2>3. Numbered' /\ Len(input') = Len(input)
      BY <1>1
    <2> QED  BY <2>1, <2>2, <2>3, <1>1, CountFacts, CountFactsNext
  <1>9. written <= written'
    BY CountFacts DEF Ordered
  <1> QED  BY <1>4, <1>6, <1>7, <1>8, <1>9 DEF KeepsOrder

\* Steps of the shell owe as many markers as before.
LEMMA ShellKeeps ==
    ASSUME ChannelTypeOK, ChannelTypeOK', Ordered,
           StartLine \/ FinishLine \/ AskForInput \/ InterruptCommand
    PROVE  KeepsOrder /\ Outstanding' = Outstanding /\ (Sent(0)' => Sent(0))
  <1>1. /\ stream \in Seq(Items) /\ input \in Seq(Lines) /\ running \in Lines \cup {0}
        /\ Numbered /\ Sorted(stream) /\ Complete(stream, Ended) /\ Ended \in Nat
        /\ written \in Nat /\ Len(input) \in Nat
    BY CountFacts DEF ChannelTypeOK, Ordered
  <1>2. CASE StartLine
    <2>1. /\ running = 0 /\ running' = Head(input) /\ input' = Tail(input) /\ input # <<>>
          /\ written' = written /\ stream' = stream
      BY <1>2 DEF StartLine
    <2>2. /\ Len(input) >= 1 /\ Len(input') = Len(input) - 1 /\ running' = input[1]
          /\ running' # 0
          /\ \A i \in 1 .. Len(input') : input'[i] = input[i + 1]
      <3>1. Len(input) >= 1
        BY <1>1, <2>1
      <3>2. input[1] \in Lines /\ running' = input[1]
        BY <1>1, <2>1, <3>1
      <3>3. /\ Len(input') = Len(input) - 1
            /\ \A i \in 1 .. Len(input') : input'[i] = input[i + 1]
        BY <1>1, <2>1
      <3> QED  BY <3>1, <3>2, <3>3 DEF Lines
    <2>3. running' = written' - Len(input')
      BY <1>1, <2>1, <2>2 DEF Numbered
    <2>4. \A i \in 1 .. Len(input') : input'[i] = written' - Len(input') + i
      <3> SUFFICES ASSUME NEW i \in 1 .. Len(input')
                   PROVE  input'[i] = written' - Len(input') + i
        OBVIOUS
      <3>1. i + 1 \in 1 .. Len(input) /\ input'[i] = input[i + 1]
        BY <2>2, <1>1
      <3>2. input[i + 1] = written - Len(input) + (i + 1)
        BY <3>1, <1>1 DEF Numbered
      <3> QED  BY <3>1, <3>2, <2>1, <2>2, <1>1
    <2>5. Numbered'
      BY <1>1, <2>1, <2>2, <2>3, <2>4 DEF Numbered
    <2>6. Ended' = Ended
      BY <1>1, <2>1, <2>2 DEF Ended
    <2>7. KeepsOrder
      BY <1>1, <2>1, <2>5, <2>6 DEF KeepsOrder, Ordered, Awaited, Sent
    <2>8. Busy = 0 /\ Busy' = 1
      BY <2>1, <2>2 DEF Busy
    <2>9. Outstanding' = Outstanding
      BY <1>1, <2>1, <2>2, <2>5, <2>8, CountFacts, CountFactsNext
    <2> QED  BY <2>1, <2>7, <2>9 DEF Sent
  <1>3. CASE FinishLine
    <2> DEFINE s == IF running = MarkerLine THEN Append(stream, Ready) ELSE stream
    <2>1. Ready \in Items /\ ~IsD(Ready) /\ \A k : Ready # D(k)
      BY ItemFacts
    <2>2. s \in Seq(Items) /\ Sorted(s) /\ Complete(s, Ended)
      BY <1>1, <2>1, SameLines, AppendFacts
    <2>3. Marks(s) = Marks(stream)
      BY <1>1, <2>1, MarksAppend
    <2>4. /\ \A k : Sent(k) => \E j \in 1 .. Len(s) : s[j] = D(k)
          /\ (\E j \in 1 .. Len(s) : s[j] = D(0)) => Sent(0)
      <3>1. CASE running = MarkerLine
        <4>1. /\ s = Append(stream, Ready)
              /\ Len(stream) \in Nat /\ Len(s) = Len(stream) + 1
              /\ s[Len(stream) + 1] = Ready
              /\ \A i \in 1 .. Len(stream) : s[i] = stream[i]
          BY <3>1, <1>1, <2>1, AppendFacts
        <4> HIDE DEF s
        <4>2. \A k : Sent(k) => \E j \in 1 .. Len(s) : s[j] = D(k)
          BY <4>1 DEF Sent
        <4>3. ASSUME NEW j \in 1 .. Len(s), s[j] = D(0)
              PROVE  Sent(0)
          <5>1. j \in 1 .. Len(stream)
            BY <4>1, <4>3, <2>1
          <5> QED  BY <5>1, <4>1, <4>3 DEF Sent
        <4> QED  BY <4>2, <4>3
      <3>2. CASE running # MarkerLine
        BY <3>2 DEF Sent
      <3> QED  BY <3>1, <3>2
    <2>5. /\ running # 0 /\ running' = 0 /\ UNCHANGED <<written, input>>
          /\ stream' = Append(s, D(running))
      BY <1>3 DEF FinishLine
    <2> HIDE DEF s
    <2> QED  BY <2>2, <2>3, <2>4, <2>5, EndedKeeps
  <1>4. CASE AskForInput
    <2>1. Prompt \in Items /\ ~IsD(Prompt) /\ \A k : Prompt # D(k)
      BY ItemFacts
    <2>2. stream' = Append(stream, Prompt) /\ UNCHANGED <<written, input, running>>
      BY <1>4 DEF AskForInput
    <2>3. /\ Sorted(stream') /\ Complete(stream', Ended) /\ Marks(stream') = Marks(stream)
      BY <1>1, <2>1, <2>2, SameLines, MarksAppend
    <2>4. Ended' = Ended /\ Numbered' /\ Busy' = Busy
      BY <1>1, <2>2 DEF Ended, Numbered, Busy
    <2>5. /\ \A k : Sent(k) => Sent(k)'
          /\ Sent(0)' => Sent(0)
      BY <1>1, <2>1, <2>2, ItemAdded
    <2>6. KeepsOrder
      BY <1>1, <2>2, <2>3, <2>4, <2>5 DEF KeepsOrder, Ordered, Awaited
    <2>7. Outstanding' = Outstanding
      BY <1>1, <2>2, <2>3, <2>4, CountFacts, CountFactsNext
    <2> QED  BY <2>5, <2>6, <2>7
  <1>5. CASE InterruptCommand
    <2>1. CASE UNCHANGED <<running, prompted, stream>>
      <3>1. UNCHANGED <<written, input, running, stream>>
        BY <1>5, <2>1 DEF InterruptCommand
      <3>2. Ended' = Ended /\ Numbered' /\ Outstanding' = Outstanding
        BY <1>1, <3>1 DEF Ended, Numbered, Outstanding, Unread
      <3> QED  BY <1>1, <3>1, <3>2 DEF KeepsOrder, Ordered, Awaited, Sent
    <2>2. CASE running' = 0 /\ stream' = Append(stream, D(running))
      <3>1. /\ running # 0 /\ UNCHANGED <<written, input>>
        BY <1>5 DEF InterruptCommand
      <3>2. /\ \A k : Sent(k) => \E j \in 1 .. Len(stream) : stream[j] = D(k)
            /\ (\E j \in 1 .. Len(stream) : stream[j] = D(0)) => Sent(0)
        BY DEF Sent
      <3> QED  BY <1>1, <2>2, <3>1, <3>2, EndedKeeps
    <2> QED  BY <1>5, <2>1, <2>2 DEF InterruptCommand
  <1> QED  BY <1>2, <1>3, <1>4, <1>5

\* A Ctrl-C at the prompt: a marker of no line.
LEMMA StrayKeeps ==
    ASSUME ChannelTypeOK, ChannelTypeOK', Ordered, InterruptPrompt
    PROVE  KeepsOrder /\ Outstanding' = Outstanding + 1
  <1>1. /\ stream \in Seq(Items) /\ Numbered /\ Sorted(stream)
        /\ Complete(stream, Ended) /\ Ended \in Nat /\ written \in Nat
    BY CountFacts DEF ChannelTypeOK, Ordered
  <1>2. D(0) \in Items /\ IsD(D(0)) /\ D(0).of = 0
    BY ItemFacts
  <1>3. stream' = Append(stream, D(0)) /\ UNCHANGED <<written, input, running>>
    BY DEF InterruptPrompt
  <1>4. /\ Sorted(stream') /\ Complete(stream', Ended)
        /\ Cardinality(Marks(stream')) = Cardinality(Marks(stream)) + 1
    BY <1>1, <1>2, <1>3, SameLines, MarksAppend
  <1>5. Ended' = Ended /\ Numbered' /\ Busy' = Busy
    BY <1>1, <1>3 DEF Ended, Numbered, Busy
  <1>6. \A k : Sent(k) => Sent(k)'
    BY <1>1, <1>2, <1>3, ItemAdded
  <1>7. KeepsOrder
    BY <1>1, <1>3, <1>4, <1>5, <1>6 DEF KeepsOrder, Ordered, Awaited
  <1>8. Outstanding' = Outstanding + 1
    BY <1>1, <1>3, <1>4, <1>5, CountFacts, CountFactsNext
  <1> QED  BY <1>7, <1>8

\* A line is written.
LEMMA WriteNumbers ==
    ASSUME ChannelTypeOK, Numbered, Write, UNCHANGED running
    PROVE  /\ Numbered' /\ Ended' = Ended /\ Busy' = Busy
           /\ written' = written + 1 /\ written + 1 \in Lines
           /\ Len(input') = Len(input) + 1
  <1>1. written \in Nat /\ Len(input) \in Nat
    BY CountFacts
  <1>2. /\ written' = written + 1 /\ written + 1 \in Lines
        /\ Len(input') = Len(input) + 1
        /\ \A i \in 1 .. Len(input) : input'[i] = input[i]
        /\ input'[Len(input) + 1] = written + 1
    BY WriteTypes
  <1>3. written' - Len(input') = written - Len(input)
    BY <1>1, <1>2
  <1>4. \A i \in 1 .. Len(input') : input'[i] = written' - Len(input') + i
    <2> SUFFICES ASSUME NEW i \in 1 .. Len(input')
                 PROVE  input'[i] = written' - Len(input') + i
      OBVIOUS
    <2>1. CASE i \in 1 .. Len(input)
      <3>1. input'[i] = input[i] /\ input[i] = written - Len(input) + i
        BY <2>1, <1>2 DEF Numbered
      <3> QED  BY <3>1, <1>3
    <2>2. CASE i = Len(input) + 1
      BY <2>2, <1>1, <1>2, <1>3
    <2> QED  BY <2>1, <2>2, <1>1, <1>2
  <1>5. Numbered'
    <2>1. Len(input') <= written'
      BY <1>1, <1>2 DEF Numbered
    <2>2. running' # 0 => running' = written' - Len(input')
      BY <1>3 DEF Numbered
    <2> QED  BY <2>1, <2>2, <1>4 DEF Numbered
  <1>6. Ended' = Ended /\ Busy' = Busy
    BY <1>3 DEF Ended, Busy
  <1> QED  BY <1>2, <1>5, <1>6

\* A line written is one marker more to come.
LEMMA WriteKeeps ==
    ASSUME ChannelTypeOK, ChannelTypeOK', Ordered, Write, UNCHANGED <<running, stream>>
    PROVE  /\ KeepsOrder /\ Outstanding' = Outstanding + 1 /\ (Sent(0)' => Sent(0))
           /\ written' = written + 1 /\ Awaited(written)' /\ written + 1 \in Lines
  <1>1. /\ Numbered /\ Sorted(stream) /\ Complete(stream, Ended) /\ Ended \in Nat
        /\ written \in Nat /\ Len(input) \in Nat /\ Busy \in {0, 1}
        /\ Ended = written - Len(input) - Busy
    BY CountFacts DEF Ordered
  <1>2. /\ Numbered' /\ Ended' = Ended /\ Busy' = Busy
        /\ written' = written + 1 /\ written + 1 \in Lines
        /\ Len(input') = Len(input) + 1
    BY <1>1, WriteNumbers
  <1>3. KeepsOrder
    BY <1>1, <1>2 DEF KeepsOrder, Ordered, Awaited, Sent
  <1>4. Outstanding' = Outstanding + 1
    BY <1>1, <1>2, CountFacts, CountFactsNext
  <1>5. written' > Ended'
    BY <1>1, <1>2
  <1> QED  BY <1>2, <1>3, <1>4, <1>5 DEF Awaited, Sent

\* A chunk is read: it takes its markers, and only them.
LEMMA ReadKeeps ==
    ASSUME ChannelTypeOK, ChannelTypeOK', Ordered, NEW n \in 1 .. Len(stream), Take(n),
           UNCHANGED <<written, input, running>>
    PROVE  /\ Ordered' /\ Ended' = Ended
           /\ Outstanding' <= Outstanding
           /\ HasD(n) => Outstanding' <= Outstanding - 1
           /\ ~HasD(n) => \A k : Sent(k) => Sent(k)'
           /\ Sent(0)' => Sent(0)
  <1>1. /\ stream \in Seq(Items) /\ Numbered /\ Sorted(stream)
        /\ Complete(stream, Ended) /\ Ended \in Nat /\ Len(stream) \in Nat
    BY CountFacts DEF ChannelTypeOK, Ordered
  <1>2. stream' = SubSeq(stream, n + 1, Len(stream))
    BY DEF Take
  <1>3. /\ Len(stream') = Len(stream) - n
        /\ \A i \in 1 .. Len(stream') : stream'[i] = stream[i + n]
    BY <1>1, <1>2, DropFacts
  <1>4. Sorted(stream') /\ Complete(stream', Ended)
    <2>1. Ended \in Int
      BY <1>1
    <2>2. /\ Sorted(SubSeq(stream, n + 1, Len(stream)))
          /\ Complete(SubSeq(stream, n + 1, Len(stream)), Ended)
      BY <1>1, <2>1, FewerLines
    <2> QED  BY <1>2, <2>2
  <1>5. Ended' = Ended /\ Numbered' /\ Busy' = Busy
    BY <1>1 DEF Ended, Numbered, Busy
  <1>6. /\ Cardinality(Marks(stream')) <= Cardinality(Marks(stream))
        /\ HasD(n) => Cardinality(Marks(stream')) <= Cardinality(Marks(stream)) - 1
    BY <1>1, <1>2, MarksDrop DEF HasD
  <1>7. /\ Outstanding' <= Outstanding
        /\ HasD(n) => Outstanding' <= Outstanding - 1
    <2>1. /\ Outstanding = Cardinality(Marks(stream)) + Len(input) + Busy
          /\ Cardinality(Marks(stream)) \in Nat /\ Len(input) \in Nat /\ Busy \in {0, 1}
      BY <1>1, CountFacts
    <2>2. /\ Outstanding' = Cardinality(Marks(stream')) + Len(input) + Busy
          /\ Cardinality(Marks(stream')) \in Nat
      BY <1>5, CountFactsNext
    <2> QED  BY <2>1, <2>2, <1>6
  <1>8. ASSUME ~HasD(n), NEW k, Sent(k)
        PROVE  Sent(k)'
    <2>1. PICK j \in 1 .. Len(stream) : stream[j] = D(k)
      BY <1>8 DEF Sent
    <2>2. IsD(stream[j])
      BY <2>1, ItemFacts
    <2>3. j \notin 1 .. n
      BY <2>2, <1>8 DEF HasD
    <2>4. j - n \in 1 .. Len(stream') /\ (j - n) + n = j
      BY <2>3, <1>1, <1>3
    <2>5. stream'[j - n] = D(k)
      BY <2>1, <2>4, <1>3
    <2> QED  BY <2>4, <2>5 DEF Sent
  <1>9. Sent(0)' => Sent(0)
    <2> SUFFICES ASSUME NEW j \in 1 .. Len(stream'), stream'[j] = D(0)
                 PROVE  Sent(0)
      BY DEF Sent
    <2>1. j + n \in 1 .. Len(stream) /\ stream[j + n] = D(0)
      BY <1>1, <1>3
    <2> QED  BY <2>1 DEF Sent
  <1>10. Ordered'
    BY <1>4, <1>5 DEF Ordered
  <1> QED  BY <1>5, <1>7, <1>8, <1>9, <1>10

\* A step that neither writes, runs nor reads keeps order and debts.
LEMMA NothingRead ==
    ASSUME Ordered, UNCHANGED <<written, input, running, stream>>
    PROVE  /\ Ordered' /\ Outstanding' = Outstanding
           /\ \A k : Awaited(k)' <=> Awaited(k)
           /\ Sent(0)' <=> Sent(0)
  <1>1. Ended' = Ended /\ Numbered' /\ Outstanding' = Outstanding
    BY DEF Ordered, Numbered, Ended, Outstanding, Unread
  <1> QED  BY <1>1 DEF Ordered, Awaited, Sent

-----------------------------------------------------------------------------
(* The markers owed.                                                       *)

\* The answer of the command on the channel: the markers behind the first one
\* are at least as many as the lines written since, and no more than what is
\* owed.
LEMMA AnswerIsRecent ==
    ASSUME IInv, QuietIsIdle, stage = "ready", NEW c \in Callers, exec[c].at = "reading",
           NEW i \in 1 .. Len(stream), FirstD(i)
    PROVE  \/ stream[i].of = 0 /\ strays > 0
           \/ /\ stream[i].of \in 1 .. exec[c].line
              /\ exec[c].line <= stream[i].of + strays
  <1> DEFINE a == stream[i].of
             l == exec[c].line
  <1>1. /\ ChannelTypeOK /\ Numbered /\ Sorted(stream) /\ Complete(stream, Ended)
        /\ Zeros /\ Due(c) /\ OwesOnlyReaders
    BY DEF IInv
  <1>2. /\ stream \in Seq(Items) /\ strays \in Nat
        /\ exec[c] \in {IdleExec} \cup Exec
    BY <1>1 DEF ChannelTypeOK
  <1>3. l \in Lines /\ l <= written /\ Awaited(l)
    BY <1>1, <1>2, ExecFacts DEF Due
  <1>4. stream[i] \in Items /\ IsD(stream[i]) /\ \A j \in 1 .. i - 1 : ~IsD(stream[j])
    BY <1>2 DEF FirstD
  <1>5. a \in Lines \cup {0} /\ stream[i] = D(a)
    BY <1>4, ItemFacts
  <1>6. CASE a = 0
    <2>1. Sent(0)
      BY <1>5, <1>6 DEF Sent
    <2> QED  BY <2>1, <1>1, <1>6 DEF Zeros
  <1>7. CASE a # 0
    <2>1. LineAt(stream, i) /\ a \in Nat /\ a >= 1 /\ l \in Nat
      BY <1>3, <1>4, <1>5, <1>7 DEF LineAt, Lines
    <2>2. a <= Ended
      BY <1>1, <2>1 DEF Complete
    <2>3. /\ Outstanding = Cardinality(Marks(stream)) + Len(input) + Busy
          /\ Cardinality(Marks(stream)) \in Nat /\ Len(input) \in Nat /\ Busy \in {0, 1}
          /\ Ended \in Nat /\ Ended = written - Len(input) - Busy /\ written \in Nat
      BY <1>1, CountFacts
    <2>4. Ended - a + 1 <= Cardinality(Marks(stream))
      <3>1. Ended \in Int
        BY <2>3
      <3> QED  BY <1>1, <1>2, <2>1, <3>1, CountFrom
    <2>5. Outstanding <= 1 + strays
      BY <1>1, <1>2, <2>3 DEF OwesOnlyReaders, Readers
    <2>6. l <= a + strays
      <3> HIDE DEF a, l
      <3> QED  BY <1>2, <1>3, <2>1, <2>3, <2>4, <2>5
    <2>7. a <= l
      <3>1. CASE l > Ended
        <4> HIDE DEF a, l
        <4> QED  BY <3>1, <2>1, <2>2, <2>3
      <3>2. CASE Sent(l)
        <4>1. PICK j \in 1 .. Len(stream) : stream[j] = D(l)
          BY <3>2 DEF Sent
        <4>2. IsD(stream[j]) /\ stream[j].of = l /\ LineAt(stream, j)
          BY <4>1, <1>3, ItemFacts DEF LineAt, Lines
        <4>3. j \notin 1 .. i - 1
          BY <4>2, <1>4
        <4>4. j = i \/ i < j
          BY <4>3, <1>2
        <4>5. i < j => a < l
          BY <4>2, <2>1, <1>1 DEF Sorted
        <4> QED  BY <4>2, <4>4, <4>5, <2>1
      <3> QED  BY <3>1, <3>2, <1>3 DEF Awaited
    <2> QED  BY <2>1, <2>6, <2>7
  <1> QED  BY <1>6, <1>7

\* Answers given stay within the lag when strays only grow.
LEMMA AnswersKept ==
    ASSUME ChannelTypeOK, LagBounded, answer' = answer, strays' \in Nat, strays <= strays'
    PROVE  LagBounded'
  <1> SUFFICES ASSUME NEW n \in Lines
               PROVE  \/ answer[n] = Unanswered
                      \/ answer[n] = 0 /\ strays' > 0
                      \/ answer[n] \in 1 .. n /\ n <= answer[n] + strays'
    BY DEF LagBounded, Unanswered
  <1>1. \/ answer[n] = Unanswered
        \/ answer[n] = 0 /\ strays > 0
        \/ answer[n] \in 1 .. n /\ n <= answer[n] + strays
    BY DEF LagBounded
  <1>2. strays \in Nat /\ n \in Nat
    BY DEF ChannelTypeOK, Lines
  <1> QED  BY <1>1, <1>2

\* Commands that stay on the channel keep what is due to them.
LEMMA DueKept ==
    ASSUME ChannelTypeOK, NEW c \in Callers, Due(c), exec'[c] = exec[c],
           written \in Nat, written' \in Nat, written <= written',
           \A k \in Lines : Awaited(k) => Awaited(k)'
    PROVE  Due(c)'
  <1> SUFFICES ASSUME exec[c].at = "reading"
               PROVE  exec[c].line <= written' /\ Awaited(exec[c].line)'
    BY DEF Due, Awaited, Sent
  <1>1. exec[c].line \in Lines
    BY ExecFacts DEF ChannelTypeOK
  <1>2. exec[c].line <= written /\ Awaited(exec[c].line)
    BY DEF Due
  <1>3. exec[c].line <= written'
    BY <1>1, <1>2 DEF Lines
  <1> DEFINE l == exec[c].line
  <1>4. exec'[c].line = exec[c].line
    OBVIOUS
  <1>5. l > Ended' \/ \E j \in 1 .. Len(stream') : stream'[j] = D(l)
    <2> HIDE DEF l
    <2>1. l \in Lines /\ Awaited(l)
      BY <1>1, <1>2 DEF l
    <2> QED  BY <2>1 DEF Awaited, Sent
  <1> QED  BY <1>3, <1>4, <1>5 DEF Awaited, Sent

-----------------------------------------------------------------------------
(* The steps.                                                              *)

Tally == Boot /\ OwesOnlyReaders /\ LagBounded

\* The invariant, in the parts the steps use.
LEMMA Unpacked ==
    ASSUME IInv
    PROVE  /\ ChannelTypeOK /\ Ordered /\ Numbered /\ Zeros /\ Early
           /\ \A c \in Callers : Due(c)
           /\ QuietIsIdle => Tally
           /\ Outstanding \in Nat /\ Readers \in {0, 1} /\ strays \in Nat
           /\ Ended \in Nat /\ written \in Nat
  <1>1. ChannelTypeOK /\ Numbered
    BY DEF IInv
  <1>2. Outstanding \in Nat /\ Ended \in Nat /\ written \in Nat
    BY <1>1, CountFacts
  <1>3. Readers \in {0, 1} /\ strays \in Nat
    BY <1>1 DEF Readers, ChannelTypeOK
  <1> QED  BY <1>1, <1>2, <1>3 DEF IInv, Ordered, Tally

\* The invariant, from its parts.
LEMMA Packed ==
    ASSUME ChannelTypeOK', Ordered', \A c \in Callers : Due(c)', Zeros', Early',
           QuietIsIdle => Tally'
    PROVE  IInv'
  BY DEF IInv, Ordered, Tally

\* The claim about the next state, in numbers.
LEMMA OwedNext ==
    ASSUME NEW o \in Nat, NEW n \in Nat, NEW k \in Nat, Outstanding' = o,
           Readers' = n, strays' = k, o <= n + k
    PROVE  OwesOnlyReaders'
  BY DEF OwesOnlyReaders

\* Steps of the shell keep the invariant.
LEMMA ShellStep ==
    ASSUME IInv, ChannelTypeOK',
           StartLine \/ FinishLine \/ AskForInput \/ InterruptCommand \/ InterruptPrompt
    PROVE  IInv'
  <1>1. /\ ChannelTypeOK /\ Ordered /\ Zeros /\ Early /\ \A c \in Callers : Due(c)
        /\ QuietIsIdle => Tally
        /\ Outstanding \in Nat /\ Readers \in {0, 1} /\ strays \in Nat /\ written \in Nat
    BY Unpacked
  <1>2. /\ stage' = stage /\ exec' = exec /\ answer' = answer /\ written' = written
        /\ interrupt' = interrupt \/ interrupt' = 0
    BY DEF StartLine, FinishLine, AskForInput, InterruptCommand, InterruptPrompt, bootVars
  <1>3. /\ Early' /\ Readers' = Readers
    BY <1>1, <1>2 DEF Early, ReadLockFree, Readers, OnChannel
  <1>4. ASSUME KeepsOrder
        PROVE  Ordered' /\ \A c \in Callers : Due(c)'
    <2>1. \A c \in Callers : exec'[c] = exec[c] /\ written' \in Nat /\ written <= written'
      BY <1>1, <1>2
    <2> QED  BY <2>1, <1>1, <1>4, DueKept DEF KeepsOrder
  <1>5. CASE StartLine \/ FinishLine \/ AskForInput \/ InterruptCommand
    <2>1. KeepsOrder /\ Outstanding' = Outstanding /\ (Sent(0)' => Sent(0))
      BY <1>1, <1>5, ShellKeeps
    <2>2. strays' = strays
      BY <1>5 DEF StartLine, FinishLine, AskForInput, InterruptCommand
    <2>3. Zeros'
      BY <1>1, <2>1, <2>2 DEF Zeros
    <2>4. ASSUME QuietIsIdle
          PROVE  Tally'
      <3>1. LagBounded'
        BY <1>1, <1>2, <2>2, <2>4, AnswersKept DEF Tally
      <3>2. Boot' /\ OwesOnlyReaders'
        BY <1>1, <1>2, <1>3, <2>1, <2>2, <2>4 DEF Tally, Boot, OwesOnlyReaders
      <3> QED  BY <3>1, <3>2 DEF Tally
    <2> QED  BY <1>3, <1>4, <2>1, <2>3, <2>4, Packed
  <1>6. CASE InterruptPrompt
    <2>1. KeepsOrder /\ Outstanding' = Outstanding + 1
      BY <1>1, <1>6, StrayKeeps
    <2>2. strays' = strays + 1 /\ interrupt # 0
      BY <1>6 DEF InterruptPrompt
    <2>3. Zeros'
      BY <1>1, <2>2 DEF Zeros
    <2>4. ASSUME QuietIsIdle
          PROVE  Tally'
      <3>1. LagBounded'
        BY <1>1, <1>2, <2>2, <2>4, AnswersKept DEF Tally
      <3>2. Boot'
        BY <1>1, <1>2, <2>2 DEF Boot, Early
      <3>3. OwesOnlyReaders'
        BY <1>1, <1>2, <1>3, <2>1, <2>2, <2>4 DEF Tally, OwesOnlyReaders
      <3> QED  BY <3>1, <3>2, <3>3 DEF Tally
    <2> QED  BY <1>3, <1>4, <2>1, <2>3, <2>4, Packed
  <1> QED  BY <1>5, <1>6

\* Nobody is on the channel before and after.
LEMMA NobodyReads ==
    ASSUME ReadLockFree, exec' = exec
    PROVE  ReadLockFree' /\ \A c \in Callers : Due(c)'
  BY DEF ReadLockFree, OnChannel, Due

\* The bootstrap reads: the script's output, then the readiness marker.
LEMMA BootReadStep ==
    ASSUME IInv, ChannelTypeOK', DrainScript \/ ReadReady
    PROVE  IInv'
  <1>1. /\ ChannelTypeOK /\ Ordered /\ Zeros /\ Early /\ (QuietIsIdle => Tally)
        /\ Outstanding \in Nat /\ strays \in Nat
    BY Unpacked
  <1>2. /\ exec' = exec /\ answer' = answer /\ interrupt' = interrupt /\ strays' = strays
        /\ stage \in {"drain", "marker"} /\ UNCHANGED <<written, input, running>>
    BY DEF DrainScript, ReadReady, bootVars
  <1>3. PICK n \in 1 .. Len(stream) :
          /\ Take(n)
          /\ \/ stage' = "drain"
             \/ stage = "marker" /\ stage' = "marker"
             \/ stage = "marker" /\ stage' = "ready" /\ HasD(n)
    <2>1. CASE DrainScript
      BY <2>1 DEF DrainScript, bootVars
    <2>2. CASE ReadReady
      <3>1. PICK n \in 1 .. Len(stream) :
              /\ Take(n)
              /\ stage' = IF \E i \in 1 .. n :
                               IsD(stream[i]) /\ (seen \/ \E j \in 1 .. i - 1 : stream[j] = Ready)
                          THEN "ready" ELSE "marker"
        BY <2>2 DEF ReadReady
      <3>2. stage' = "marker" \/ (stage' = "ready" /\ HasD(n))
        BY <3>1 DEF HasD
      <3> QED  BY <2>2, <3>1, <3>2 DEF ReadReady
    <2> QED  BY <2>1, <2>2
  <1>4. /\ Ordered' /\ Outstanding' <= Outstanding
        /\ HasD(n) => Outstanding' <= Outstanding - 1
        /\ Sent(0)' => Sent(0)
    BY <1>1, <1>2, <1>3, ReadKeeps
  <1>5. Zeros'
    BY <1>1, <1>2, <1>4 DEF Zeros
  <1>6. ReadLockFree' /\ (\A c \in Callers : Due(c)') /\ Early'
    <2>1. ReadLockFree /\ interrupt = 0
      BY <1>1, <1>2 DEF Early
    <2> QED  BY <2>1, <1>2, NobodyReads DEF Early
  <1>7. Outstanding' \in Nat
    BY <1>4, CountFactsNext DEF Ordered
  <1>8. ASSUME QuietIsIdle
        PROVE  Tally'
    <2>1. LagBounded'
      BY <1>1, <1>2, <1>8, AnswersKept DEF Tally
    <2>2. stage = "marker" => Outstanding <= 1
      BY <1>1, <1>8 DEF Tally, Boot
    <2>3. Boot'
      BY <1>1, <1>3, <1>4, <1>7, <2>2 DEF Boot
    <2>4. Readers' \in Nat /\ strays' \in Nat
      BY <1>1, <1>2 DEF Readers
    <2>5. OwesOnlyReaders'
      <3>1. CASE stage' # "ready"
        BY <3>1 DEF OwesOnlyReaders
      <3>2. CASE stage' = "ready"
        <4>1. stage = "marker" /\ HasD(n)
          BY <1>3, <3>2
        <4>2. Outstanding' = 0
          BY <4>1, <1>1, <1>4, <1>7, <2>2
        <4>3. PICK m \in Nat, k \in Nat : m = Readers' /\ k = strays'
          BY <2>4
        <4>4. 0 <= m + k
          OBVIOUS
        <4> QED  BY <4>2, <4>3, <4>4, OwedNext
      <3> QED  BY <3>1, <3>2
    <2> QED  BY <2>1, <2>3, <2>5 DEF Tally
  <1> QED  BY <1>4, <1>5, <1>6, <1>8, Packed

\* The bootstrap writes the readiness marker.
LEMMA MarkReadyStep ==
    ASSUME IInv, ChannelTypeOK', MarkReady
    PROVE  IInv'
  <1>1. /\ ChannelTypeOK /\ Ordered /\ Numbered /\ Zeros /\ Early /\ (QuietIsIdle => Tally)
        /\ Ended \in Nat
    BY Unpacked
  <1>2. /\ exec' = exec /\ answer' = answer /\ interrupt' = interrupt /\ strays' = strays
        /\ stage = "drain" /\ stage' = "marker" /\ Write /\ running' = running
        /\ stream = <<>> /\ stream' = (IF echo THEN Append(stream, Ready) ELSE stream)
        /\ QuietIsIdle => input = <<>> /\ running = 0
    BY DEF MarkReady
  <1>3. /\ Numbered' /\ Ended' = Ended /\ Busy' = Busy /\ Len(input') = Len(input) + 1
    BY <1>1, <1>2, WriteNumbers
  <1>4. Ready \in Items /\ ~IsD(Ready) /\ \A k : Ready # D(k)
    BY ItemFacts
  <1>5. stream \in Seq(Items) /\ Ended \in Int
    BY <1>1 DEF ChannelTypeOK
  <1>6. Sorted(stream') /\ Complete(stream', Ended') /\ Marks(stream') = Marks(stream)
    <2>1. Sorted(stream) /\ Complete(stream, Ended)
      BY <1>1 DEF Ordered
    <2>2. CASE echo
      <3>1. stream' = Append(stream, Ready)
        BY <1>2, <2>2
      <3> QED  BY <2>1, <3>1, <1>3, <1>4, <1>5, SameLines, MarksAppend
    <2>3. CASE ~echo
      BY <2>1, <2>3, <1>2, <1>3
    <2> QED  BY <2>2, <2>3
  <1>7. Ordered'
    BY <1>3, <1>6 DEF Ordered
  <1>8. Zeros'
    <2>1. Sent(0)' => Sent(0)
      <3>1. CASE echo
        BY <3>1, <1>2, <1>4, <1>5, ItemAdded
      <3>2. CASE ~echo
        BY <3>2, <1>2 DEF Sent
      <3> QED  BY <3>1, <3>2
    <2> QED  BY <2>1, <1>1, <1>2 DEF Zeros
  <1>9. (\A c \in Callers : Due(c)') /\ Early'
    <2>1. ReadLockFree /\ interrupt = 0
      BY <1>1, <1>2 DEF Early
    <2> QED  BY <2>1, <1>2, NobodyReads DEF Early
  <1>10. ASSUME QuietIsIdle
         PROVE  Tally'
    <2>1. LagBounded'
      <3>1. strays' \in Nat /\ strays <= strays'
        BY <1>1, <1>2 DEF ChannelTypeOK
      <3> QED  BY <3>1, <1>1, <1>2, <1>10, AnswersKept DEF Tally
    <2>2. Len(input) = 0 /\ Busy = 0
      BY <1>2, <1>10 DEF Busy
    <2>3. Marks(stream) = {}
      <3>1. Len(stream) = 0
        BY <1>2
      <3> QED  BY <3>1 DEF Marks
    <2>4. Cardinality(Marks(stream')) = 0
      BY <1>6, <2>3, FS_EmptySet
    <2>5. Outstanding' = 1
      BY <1>3, <2>2, <2>4, CountFactsNext
    <2> QED  BY <1>2, <2>1, <2>5 DEF Tally, Boot, OwesOnlyReaders
  <1> QED  BY <1>7, <1>8, <1>9, <1>10, Packed

\* set_env writes its line.
LEMMA SetEnvStep ==
    ASSUME IInv, ChannelTypeOK', SetEnv
    PROVE  IInv'
  <1>1. /\ ChannelTypeOK /\ Ordered /\ Zeros /\ Early /\ \A c \in Callers : Due(c)
        /\ QuietIsIdle => Tally
        /\ Outstanding \in Nat /\ Readers \in {0, 1} /\ strays \in Nat /\ written \in Nat
    BY Unpacked
  <1>2. /\ stage = "ready" /\ stage' = stage /\ exec' = exec /\ answer' = answer
        /\ Write /\ UNCHANGED <<running, stream>> /\ strays' = strays + 1
    BY DEF SetEnv, bootVars
  <1>3. /\ KeepsOrder /\ Outstanding' = Outstanding + 1 /\ written' = written + 1
    BY <1>1, <1>2, WriteKeeps
  <1>4. Ordered' /\ \A c \in Callers : Due(c)'
    <2>1. \A c \in Callers : exec'[c] = exec[c] /\ written' \in Nat /\ written <= written'
      BY <1>1, <1>2, <1>3
    <2> QED  BY <2>1, <1>1, <1>3, DueKept DEF KeepsOrder
  <1>5. Zeros' /\ Early'
    BY <1>1, <1>2 DEF Zeros, Early
  <1>6. ASSUME QuietIsIdle
        PROVE  Tally'
    <2>1. LagBounded'
      BY <1>1, <1>2, <1>6, AnswersKept DEF Tally
    <2>2. Readers' = Readers
      BY <1>2 DEF Readers, OnChannel
    <2>3. OwesOnlyReaders' /\ Boot'
      BY <1>1, <1>2, <1>3, <1>6, <2>2 DEF Tally, OwesOnlyReaders, Boot
    <2> QED  BY <2>1, <2>3 DEF Tally
  <1> QED  BY <1>4, <1>5, <1>6, Packed

\* Once the caller on the channel is gone, or no longer reading, nobody reads.
LEMMA LastReader ==
    ASSUME ChannelTypeOK, NEW c \in Callers, OnChannel(c),
           \A d \in Callers \ {c} : exec'[d] = exec[d],
           exec'[c].at # "reading"
    PROVE  /\ \A d \in Callers : Due(d)'
           /\ Readers = 1
           /\ Readers' = IF OnChannel(c)' THEN 1 ELSE 0
  <1>1. \A d \in Callers \ {c} : ~OnChannel(d)
    BY DEF ChannelTypeOK
  <1>2. \A d \in Callers \ {c} : ~OnChannel(d)'
    BY <1>1 DEF OnChannel
  <1>3. \A d \in Callers : exec'[d].at # "reading"
    BY <1>2 DEF OnChannel
  <1>4. \A d \in Callers : Due(d)'
    BY <1>3 DEF Due
  <1> QED  BY <1>2, <1>4 DEF Readers

\* A step that touches only its caller.
LEMMA QuietStep ==
    ASSUME IInv, ChannelTypeOK', NEW c \in Callers,
           Execute(c) \/ TimeOut(c) \/ SoftCancel(c) \/ NotRecovered(c) \/ Cancel(c)
    PROVE  IInv'
  <1>1. /\ ChannelTypeOK /\ Ordered /\ Zeros /\ Early /\ (QuietIsIdle => Tally)
        /\ \A d \in Callers : Due(d)
        /\ Outstanding \in Nat /\ Readers \in {0, 1} /\ strays \in Nat /\ written \in Nat
    BY Unpacked
  <1>2. UNCHANGED <<written, input, running, stream>> /\ answer' = answer
    BY DEF Execute, TimeOut, SoftCancel, NotRecovered, Cancel, shellVars
  <1>3. /\ Ordered' /\ Outstanding' = Outstanding
        /\ (\A k : Awaited(k)' <=> Awaited(k)) /\ (Sent(0)' <=> Sent(0))
    BY <1>1, <1>2, NothingRead
  <1>4. \A d \in Callers \ {c} : exec'[d] = exec[d]
    BY <1>1 DEF Execute, TimeOut, SoftCancel, SendInterrupt, NotRecovered, Cancel, ChannelTypeOK
  <1>5. exec'[c].at # "reading"
    <2>1. exec \in [Callers -> {IdleExec} \cup Exec]
      BY <1>1 DEF ChannelTypeOK
    <2> QED  BY <2>1, ExecFacts
             DEF Execute, TimeOut, SoftCancel, SendInterrupt, NotRecovered, Cancel
  <1>6. \A d \in Callers : Due(d)'
    <2>1. Due(c)'
      BY <1>5 DEF Due
    <2>2. ASSUME NEW d \in Callers \ {c}
          PROVE  Due(d)'
      BY <2>2, <1>1, <1>2, <1>3, <1>4, DueKept
    <2> QED  BY <2>1, <2>2
  <1>7. CASE Execute(c)
    <2>1. stage = "ready" /\ stage' = stage /\ strays' = strays /\ exec[c] = IdleExec
      BY <1>7 DEF Execute, bootVars
    <2>2. exec'[c].at = "waiting" /\ exec[c].at = "idle"
      BY <1>1, <1>7, <2>1, ExecFacts DEF Execute, ChannelTypeOK
    <2>3. Readers' = Readers
      BY <1>4, <2>2 DEF Readers, OnChannel
    <2>4. Zeros' /\ Early'
      BY <1>1, <1>3, <2>1 DEF Zeros, Early
    <2>5. ASSUME QuietIsIdle
          PROVE  Tally'
      <3>1. LagBounded'
        BY <1>1, <1>2, <2>1, <2>5, AnswersKept DEF Tally
      <3> QED  BY <3>1, <1>1, <1>3, <2>1, <2>3, <2>5 DEF Tally, Boot, OwesOnlyReaders
    <2> QED  BY <1>3, <1>6, <2>4, <2>5, Packed
  <1>8. CASE TimeOut(c) \/ SoftCancel(c)
    <2>1. stage = "ready" /\ stage' = stage /\ strays' = strays /\ exec[c].at = "reading"
      BY <1>8 DEF TimeOut, SoftCancel, bootVars
    <2>2. OnChannel(c) /\ OnChannel(c)'
      BY <1>1, <1>8, <2>1 DEF TimeOut, SoftCancel, SendInterrupt, OnChannel, ChannelTypeOK
    <2>3. Readers' = Readers
      BY <1>1, <1>4, <1>5, <2>2, LastReader
    <2>4. Zeros' /\ Early'
      BY <1>1, <1>3, <2>1 DEF Zeros, Early
    <2>5. ASSUME QuietIsIdle
          PROVE  Tally'
      <3>1. LagBounded'
        BY <1>1, <1>2, <2>1, <2>5, AnswersKept DEF Tally
      <3> QED  BY <3>1, <1>1, <1>3, <2>1, <2>3, <2>5 DEF Tally, Boot, OwesOnlyReaders
    <2> QED  BY <1>3, <1>6, <2>4, <2>5, Packed
  <1>9. CASE NotRecovered(c)
    <2>1. stage' = "lost" /\ strays' = strays
      BY <1>9 DEF NotRecovered
    <2>2. Zeros' /\ Early'
      BY <1>1, <1>3, <2>1 DEF Zeros, Early
    <2>3. ASSUME QuietIsIdle
          PROVE  Tally'
      <3>1. LagBounded'
        BY <1>1, <1>2, <2>1, <2>3, AnswersKept DEF Tally
      <3> QED  BY <3>1, <2>1 DEF Tally, Boot, OwesOnlyReaders
    <2> QED  BY <1>3, <1>6, <2>2, <2>3, Packed
  <1>10. CASE Cancel(c)
    <2>1. /\ stage' = stage /\ interrupt' = interrupt
          /\ strays' = (IF OnChannel(c) THEN strays + 1 ELSE strays)
          /\ exec' = [exec EXCEPT ![c] = IdleExec]
      BY <1>10 DEF Cancel, bootVars, shellVars
    <2>2. exec'[c].at = "idle" /\ strays' \in Nat /\ strays <= strays'
      BY <1>1, <2>1, ExecFacts DEF ChannelTypeOK
    <2>3. \A d \in Callers : OnChannel(d)' => OnChannel(d)
      BY <1>4, <2>2 DEF OnChannel
    <2>4. Zeros' /\ Early'
      BY <1>1, <1>3, <2>1, <2>2, <2>3 DEF Zeros, Early, ReadLockFree
    <2>5. \A m, k \in Nat : m = Readers' /\ k = strays' => Readers + strays <= m + k
      <3>1. CASE OnChannel(c)
        <4>1. Readers = 1
          BY <1>1, <1>4, <1>5, <3>1, LastReader
        <4>2. strays' = strays + 1
          BY <3>1, <2>1
        <4>3. \A m \in Nat : 1 + strays <= m + (strays + 1)
          BY <1>1
        <4> QED  BY <4>1, <4>2, <4>3
      <3>2. CASE ~OnChannel(c)
        <4>1. \A d \in Callers : OnChannel(d)' <=> OnChannel(d)
          BY <1>4, <2>2, <3>2 DEF OnChannel
        <4>2. Readers' = Readers
          BY <4>1 DEF Readers
        <4> QED  BY <4>2, <3>2, <2>1, <1>1
      <3> QED  BY <3>1, <3>2
    <2>6. ASSUME QuietIsIdle
          PROVE  Tally'
      <3>1. LagBounded'
        BY <1>1, <1>2, <2>2, <2>6, AnswersKept DEF Tally
      <3>2. Readers' \in Nat /\ Readers \in Nat
        BY DEF Readers
      <3>3. stage = "ready" => Outstanding <= Readers + strays
        BY <1>1, <2>6 DEF Tally, OwesOnlyReaders
      <3>4. Boot'
        BY <1>1, <1>3, <2>1, <2>6 DEF Tally, Boot
      <3>5. OwesOnlyReaders'
        <4>1. CASE stage # "ready"
          BY <4>1, <2>1 DEF OwesOnlyReaders
        <4>2. CASE stage = "ready"
          <5>1. PICK m \in Nat, k \in Nat : m = Readers' /\ k = strays'
            BY <2>2, <3>2
          <5>2. Readers + strays <= m + k
            BY <2>5, <5>1
          <5>3. Outstanding <= m + k
            BY <1>1, <3>2, <3>3, <4>2, <5>2
          <5> QED  BY <1>1, <1>3, <5>1, <5>3, OwedNext
        <4> QED  BY <4>1, <4>2
      <3> QED  BY <3>1, <3>4, <3>5 DEF Tally
    <2> QED  BY <1>3, <1>6, <2>4, <2>6, Packed
  <1> QED  BY <1>7, <1>8, <1>9, <1>10

\* The channel ends, or the bootstrap runs into its deadline.
LEMMA LostStep ==
    ASSUME IInv, ChannelTypeOK', Lost
    PROVE  IInv'
  <1>1. /\ ChannelTypeOK /\ Ordered /\ Zeros /\ (QuietIsIdle => Tally) /\ strays \in Nat
    BY Unpacked
  <1>2. /\ UNCHANGED <<written, input, running, stream>> /\ answer' = answer
        /\ strays' = strays /\ stage' = "lost"
    BY DEF Lost, shellVars
  <1>3. Ordered' /\ (Sent(0)' <=> Sent(0))
    BY <1>1, <1>2, NothingRead
  <1>4. \A d \in Callers : Due(d)'
    BY ExecFacts DEF Lost, Due
  <1>5. Zeros' /\ Early'
    BY <1>1, <1>2, <1>3 DEF Zeros, Early
  <1>6. ASSUME QuietIsIdle
        PROVE  Tally'
    <2>1. LagBounded'
      BY <1>1, <1>2, <1>6, AnswersKept DEF Tally
    <2> QED  BY <2>1, <1>2 DEF Tally, Boot, OwesOnlyReaders
  <1> QED  BY <1>3, <1>4, <1>5, <1>6, Packed

\* A caller gets the read lock and writes its command.
LEMMA WriteCommandStep ==
    ASSUME IInv, ChannelTypeOK', NEW c \in Callers, WriteCommand(c)
    PROVE  IInv'
  <1>1. /\ ChannelTypeOK /\ Ordered /\ Zeros /\ (QuietIsIdle => Tally)
        /\ Outstanding \in Nat /\ strays \in Nat /\ written \in Nat
    BY Unpacked
  <1>2. /\ stage = "ready" /\ stage' = stage /\ answer' = answer /\ strays' = strays
        /\ Write /\ UNCHANGED <<running, stream>> /\ ReadLockFree
        /\ exec' = [exec EXCEPT ![c] = [at |-> "reading", line |-> written + 1, wedged |-> FALSE]]
    BY DEF WriteCommand, bootVars
  <1>3. /\ KeepsOrder /\ Outstanding' = Outstanding + 1 /\ written' = written + 1
        /\ (Sent(0)' => Sent(0)) /\ Awaited(written)'
    BY <1>1, <1>2, WriteKeeps
  <1>4. /\ exec'[c].at = "reading" /\ exec'[c].line = written'
        /\ \A d \in Callers \ {c} : exec'[d] = exec[d]
    BY <1>1, <1>2, <1>3 DEF ChannelTypeOK
  <1>5. \A d \in Callers : Due(d)'
    <2>1. Due(c)'
      <3>1. exec'[c].line <= written'
        BY <1>1, <1>3, <1>4
      <3>2. Awaited(exec[c].line)'
        BY <1>3, <1>4 DEF Awaited, Sent
      <3> QED  BY <3>1, <3>2 DEF Due
    <2>2. ASSUME NEW d \in Callers \ {c}
          PROVE  Due(d)'
      <3>1. ~OnChannel(d) /\ exec'[d] = exec[d]
        BY <2>2, <1>2, <1>4 DEF ReadLockFree
      <3> QED  BY <3>1 DEF OnChannel, Due
    <2> QED  BY <2>1, <2>2
  <1>6. Zeros' /\ Early'
    BY <1>1, <1>2, <1>3 DEF Zeros, Early
  <1>7. ASSUME QuietIsIdle
        PROVE  Tally'
    <2>1. LagBounded'
      BY <1>1, <1>2, <1>7, AnswersKept DEF Tally
    <2>2. Readers = 0
      BY <1>2 DEF Readers, ReadLockFree
    <2>3. Readers' = 1
      BY <1>4 DEF Readers, OnChannel
    <2>4. Outstanding <= strays
      BY <1>1, <1>2, <1>7, <2>2 DEF Tally, OwesOnlyReaders
    <2>5. Outstanding + 1 \in Nat /\ Outstanding + 1 <= 1 + strays
      BY <1>1, <2>4
    <2>6. OwesOnlyReaders'
      BY <1>1, <1>2, <1>3, <2>3, <2>5, OwedNext
    <2> QED  BY <1>2, <2>1, <2>6 DEF Tally, Boot
  <1> QED  BY <1>3, <1>5, <1>6, <1>7, Packed DEF KeepsOrder

\* A caller reads the first marker as its answer.
LEMMA ReadAnswerStep ==
    ASSUME IInv, ChannelTypeOK', NEW c \in Callers, ReadAnswer(c)
    PROVE  IInv'
  <1>1. /\ ChannelTypeOK /\ Ordered /\ Zeros /\ (QuietIsIdle => Tally)
        /\ Outstanding \in Nat /\ strays \in Nat
    BY Unpacked
  <1>2. /\ stage = "ready" /\ stage' = stage /\ strays' = strays /\ exec[c].at = "reading"
        /\ UNCHANGED <<written, input, running>>
        /\ exec' = [exec EXCEPT ![c] = IdleExec]
    BY DEF ReadAnswer, bootVars
  <1>3. PICK n \in 1 .. Len(stream) : \E i \in 1 .. n :
          /\ FirstD(i) /\ Take(n)
          /\ answer' = [answer EXCEPT ![exec[c].line] = stream[i].of]
    BY DEF ReadAnswer
  <1>4. PICK i \in 1 .. n :
          /\ FirstD(i) /\ Take(n)
          /\ answer' = [answer EXCEPT ![exec[c].line] = stream[i].of]
    BY <1>3
  <1>5. HasD(n) /\ i \in 1 .. Len(stream)
    <2>1. Len(stream) \in Nat
      BY <1>1 DEF ChannelTypeOK
    <2> QED  BY <1>4, <2>1 DEF HasD, FirstD
  <1>6. /\ Ordered' /\ Outstanding' <= Outstanding - 1 /\ (Sent(0)' => Sent(0))
    BY <1>1, <1>2, <1>4, <1>5, ReadKeeps
  <1>7. /\ OnChannel(c) /\ exec'[c].at = "idle" /\ ~OnChannel(c)'
        /\ \A d \in Callers \ {c} : exec'[d] = exec[d]
    BY <1>1, <1>2, ExecFacts DEF OnChannel, ChannelTypeOK
  <1>8. (\A d \in Callers : Due(d)') /\ Readers = 1 /\ Readers' = 0
    BY <1>1, <1>7, LastReader
  <1>9. Zeros' /\ Early'
    BY <1>1, <1>2, <1>6 DEF Zeros, Early
  <1>10. ASSUME QuietIsIdle
         PROVE  Tally'
    <2>1. Outstanding' \in Nat
      BY <1>6, CountFactsNext DEF Ordered
    <2>2. Outstanding <= 1 + strays
      BY <1>1, <1>2, <1>8, <1>10 DEF Tally, OwesOnlyReaders
    <2>3. PICK o \in Nat : o = Outstanding'
      BY <2>1
    <2>4. o <= 0 + strays
      BY <1>1, <1>6, <2>2, <2>3
    <2>5. OwesOnlyReaders'
      BY <1>1, <1>2, <1>8, <2>3, <2>4, OwedNext
    <2>6. LagBounded'
      <3>1. /\ exec[c].line \in Lines /\ answer \in [Lines -> Lines \cup {0, MaxLines + 1}]
        BY <1>1, <1>2, ExecFacts DEF ChannelTypeOK
      <3>2. \/ stream[i].of = 0 /\ strays > 0
            \/ /\ stream[i].of \in 1 .. exec[c].line
               /\ exec[c].line <= stream[i].of + strays
        BY <1>2, <1>4, <1>5, <1>10, AnswerIsRecent
      <3> SUFFICES ASSUME NEW k \in Lines
                   PROVE  \/ answer'[k] = Unanswered
                          \/ answer'[k] = 0 /\ strays > 0
                          \/ answer'[k] \in 1 .. k /\ k <= answer'[k] + strays
        BY <1>2 DEF LagBounded, Unanswered
      <3>3. CASE k = exec[c].line
        <4>1. answer'[k] = stream[i].of
          BY <1>4, <3>1, <3>3
        <4> QED  BY <3>2, <3>3, <4>1
      <3>4. CASE k # exec[c].line
        <4>1. answer'[k] = answer[k]
          BY <1>4, <3>1, <3>4
        <4> QED  BY <4>1, <1>1, <1>10 DEF Tally, LagBounded
      <3> QED  BY <3>3, <3>4
    <2> QED  BY <1>2, <2>5, <2>6 DEF Tally, Boot
  <1> QED  BY <1>6, <1>8, <1>9, <1>10, Packed

\* A chunk without a marker.
LEMMA ReadOutputStep ==
    ASSUME IInv, ChannelTypeOK', NEW c \in Callers, ReadOutput(c)
    PROVE  IInv'
  <1>1. /\ ChannelTypeOK /\ Ordered /\ Zeros /\ (QuietIsIdle => Tally)
        /\ Outstanding \in Nat /\ Readers \in {0, 1} /\ strays \in Nat /\ written \in Nat
        /\ \A d \in Callers : Due(d)
    BY Unpacked
  <1>2. /\ stage = "ready" /\ stage' = stage /\ strays' = strays /\ answer' = answer
        /\ exec[c].at = "reading" /\ UNCHANGED <<written, input, running>>
    BY DEF ReadOutput, bootVars
  <1>3. PICK n \in 1 .. Len(stream) :
          /\ ~HasD(n) /\ Take(n)
          /\ exec' = [exec EXCEPT ![c].wedged = @ \/ \E i \in 1 .. n : stream[i] = Prompt]
    BY DEF ReadOutput
  <1>4. /\ Ordered' /\ Ended' = Ended /\ Outstanding' <= Outstanding
        /\ (\A k : Sent(k) => Sent(k)') /\ (Sent(0)' => Sent(0))
    BY <1>1, <1>2, <1>3, ReadKeeps
  <1>5. /\ exec'[c].at = "reading" /\ exec'[c].line = exec[c].line
        /\ \A d \in Callers \ {c} : exec'[d] = exec[d]
    <2> DEFINE b == exec[c].wedged \/ \E i \in 1 .. n : stream[i] = Prompt
    <2>1. exec' = [exec EXCEPT ![c] = [exec[c] EXCEPT !.wedged = b]]
      BY <1>3
    <2>2. exec \in [Callers -> {IdleExec} \cup Exec]
      BY <1>1 DEF ChannelTypeOK
    <2> HIDE DEF b
    <2>3. [exec[c] EXCEPT !.wedged = b]
             = [at |-> "reading", line |-> exec[c].line, wedged |-> b]
      BY <1>2, <2>2, ExecFacts
    <2> QED  BY <2>1, <2>2, <2>3
  <1>6. \A k \in Lines : Awaited(k) => Awaited(k)'
    BY <1>4 DEF Awaited
  <1>7. \A d \in Callers : Due(d)'
    <2>1. Due(c)'
      <3>1. exec[c].line \in Lines
        BY <1>1, <1>2, ExecFacts DEF ChannelTypeOK
      <3>2. exec[c].line <= written /\ Awaited(exec[c].line)
        BY <1>1, <1>2 DEF Due
      <3>3. PICK l \in Lines : l = exec[c].line
        BY <3>1
      <3>4. l <= written' /\ Awaited(l)'
        BY <1>2, <1>6, <3>2, <3>3
      <3> QED  BY <1>5, <3>3, <3>4 DEF Due, Awaited, Sent
    <2>2. ASSUME NEW d \in Callers \ {c}
          PROVE  Due(d)'
      BY <2>2, <1>1, <1>2, <1>5, <1>6, DueKept
    <2> QED  BY <2>1, <2>2
  <1>8. Zeros' /\ Early'
    BY <1>1, <1>2, <1>4 DEF Zeros, Early
  <1>9. ASSUME QuietIsIdle
        PROVE  Tally'
    <2>1. LagBounded'
      BY <1>1, <1>2, <1>9, AnswersKept DEF Tally
    <2>2. Readers' = Readers
      BY <1>2, <1>5 DEF Readers, OnChannel
    <2>3. PICK o \in Nat : o = Outstanding'
      BY <1>4, CountFactsNext DEF Ordered
    <2>4. Readers \in Nat /\ o <= Readers + strays
      BY <1>1, <1>2, <1>4, <1>9, <2>3 DEF Tally, OwesOnlyReaders
    <2>5. OwesOnlyReaders'
      BY <1>1, <1>2, <2>2, <2>3, <2>4, OwedNext
    <2> QED  BY <1>2, <2>1, <2>5 DEF Tally, Boot
  <1> QED  BY <1>4, <1>7, <1>8, <1>9, Packed

\* A caller recovering from a timeout takes the next marker.
LEMMA AwaitNextDoneStep ==
    ASSUME IInv, ChannelTypeOK', NEW c \in Callers, AwaitNextDone(c)
    PROVE  IInv'
  <1>1. /\ ChannelTypeOK /\ Ordered /\ Zeros /\ (QuietIsIdle => Tally)
        /\ Outstanding \in Nat /\ strays \in Nat
    BY Unpacked
  <1>2. /\ stage = "ready" /\ stage' = stage /\ strays' = strays /\ answer' = answer
        /\ exec[c].at = "recovering" /\ UNCHANGED <<written, input, running>>
    BY DEF AwaitNextDone, bootVars
  <1>3. PICK n \in 1 .. Len(stream) :
          /\ Take(n)
          /\ exec' = IF HasD(n) THEN [exec EXCEPT ![c] = IdleExec] ELSE exec
    BY DEF AwaitNextDone
  <1>4. /\ Ordered' /\ Outstanding' <= Outstanding
        /\ HasD(n) => Outstanding' <= Outstanding - 1
        /\ Sent(0)' => Sent(0)
    BY <1>1, <1>2, <1>3, ReadKeeps
  <1>5. /\ OnChannel(c) /\ exec'[c].at # "reading"
        /\ \A d \in Callers \ {c} : exec'[d] = exec[d]
        /\ ~HasD(n) => OnChannel(c)'
    BY <1>1, <1>2, <1>3, ExecFacts DEF OnChannel, ChannelTypeOK
  <1>6. /\ \A d \in Callers : Due(d)'
        /\ Readers = 1 /\ Readers' = IF OnChannel(c)' THEN 1 ELSE 0
    BY <1>1, <1>5, LastReader
  <1>7. Zeros' /\ Early'
    BY <1>1, <1>2, <1>4 DEF Zeros, Early
  <1>8. ASSUME QuietIsIdle
        PROVE  Tally'
    <2>1. LagBounded'
      BY <1>1, <1>2, <1>8, AnswersKept DEF Tally
    <2>2. PICK o \in Nat : o = Outstanding'
      BY <1>4, CountFactsNext DEF Ordered
    <2>3. Outstanding <= 1 + strays
      BY <1>1, <1>2, <1>6, <1>8 DEF Tally, OwesOnlyReaders
    <2>4. PICK m \in Nat : m = Readers'
      BY <1>6
    <2>5. o <= m + strays
      <3>1. CASE HasD(n)
        BY <3>1, <1>1, <1>4, <2>2, <2>3
      <3>2. CASE ~HasD(n)
        <4>1. m = 1
          BY <3>2, <1>5, <1>6, <2>4
        <4> QED  BY <4>1, <1>1, <1>4, <2>2, <2>3
      <3> QED  BY <3>1, <3>2
    <2>6. OwesOnlyReaders'
      BY <1>1, <1>2, <2>2, <2>4, <2>5, OwedNext
    <2> QED  BY <1>2, <2>1, <2>6 DEF Tally, Boot
  <1> QED  BY <1>4, <1>6, <1>7, <1>8, Packed

-----------------------------------------------------------------------------
(* The theorems.                                                           *)

\* The invariant holds at the start.
LEMMA InvariantInit ==
    ASSUME Init
    PROVE  IInv
  <1>1. ChannelTypeOK
    BY TypesInit
  <1>2. /\ written = ScriptLines /\ running = 0 /\ stream = <<>> /\ stage = "drain"
        /\ input = [i \in 1 .. ScriptLines |-> i] /\ interrupt = 0
        /\ exec = [c \in Callers |-> IdleExec]
        /\ answer = [n \in Lines |-> Unanswered]
    BY DEF Init
  <1>3. ScriptLines \in Nat /\ Len(input) = ScriptLines /\ Len(stream) = 0
    BY <1>2, ChannelAssumption
  <1>4. Numbered
    BY <1>2, <1>3 DEF Numbered
  <1>5. Sorted(stream) /\ Complete(stream, Ended) /\ Zeros
    BY <1>3 DEF Sorted, Complete, Zeros, Sent
  <1>6. Early /\ \A c \in Callers : Due(c)
    BY <1>2, ExecFacts DEF Early, ReadLockFree, OnChannel, Due
  <1>7. Boot /\ OwesOnlyReaders /\ LagBounded
    BY <1>2 DEF Boot, OwesOnlyReaders, LagBounded
  <1> QED  BY <1>1, <1>4, <1>5, <1>6, <1>7 DEF IInv

\* Every step keeps the invariant.
LEMMA InvariantNext ==
    ASSUME IInv, [Next]_vars
    PROVE  IInv'
  <1>1. ChannelTypeOK'
    BY TypesStep DEF IInv
  <1>2. CASE UNCHANGED vars
    <2>1. /\ UNCHANGED <<stage, written, input, running, interrupt, stream, exec, answer, strays>>
      BY <1>2 DEF vars, bootVars, shellVars
    <2>2. Ended' = Ended /\ Outstanding' = Outstanding /\ Readers' = Readers
      BY <2>1 DEF Ended, Outstanding, Unread, Readers, OnChannel
    <2>3. Numbered' /\ Zeros' /\ Early' /\ \A c \in Callers : Due(c)'
      BY <2>1, <2>2
      DEF IInv, Numbered, Zeros, Early, ReadLockFree, OnChannel, Due, Awaited, Sent
    <2>4. Sorted(stream') /\ Complete(stream', Ended')
      BY <2>1, <2>2 DEF IInv
    <2>5. QuietIsIdle => (Boot /\ OwesOnlyReaders /\ LagBounded)'
      BY <2>1, <2>2 DEF IInv, Boot, OwesOnlyReaders, LagBounded, Unanswered
    <2> QED  BY <1>1, <2>3, <2>4, <2>5 DEF IInv
  <1>3. CASE StartLine \/ FinishLine \/ AskForInput \/ InterruptCommand \/ InterruptPrompt
    BY <1>1, <1>3, ShellStep
  <1>4. CASE DrainScript \/ ReadReady
    BY <1>1, <1>4, BootReadStep
  <1>5. CASE MarkReady
    BY <1>1, <1>5, MarkReadyStep
  <1>6. CASE SetEnv
    BY <1>1, <1>6, SetEnvStep
  <1>7. CASE Lost
    BY <1>1, <1>7, LostStep
  <1>8. ASSUME NEW c \in Callers, Step(c)
        PROVE  IInv'
    BY <1>1, <1>8, QuietStep, WriteCommandStep, ReadAnswerStep, ReadOutputStep,
       AwaitNextDoneStep DEF Step
  <1> QED  BY <1>2, <1>3, <1>4, <1>5, <1>6, <1>7, <1>8 DEF Next, Step

\* The lines of the shell and its markers keep their order, a command on the
\* channel keeps its marker, and the accounts below hold (execute_in_session,
\* bootstrap_osc133, set_env).
THEOREM ChannelInvariant == Spec => []IInv
  <1>1. Init => IInv
    BY InvariantInit
  <1>2. IInv /\ [Next]_vars => IInv'
    BY InvariantNext
  <1> QED  BY <1>1, <1>2, PTL DEF Spec

\* Every state of the channel is well typed, and one caller at a time is
\* between its command and its marker (_read_lock), for any callers, script and
\* bounds, whether or not a quiet shell is an idle one.
THEOREM ChannelTypeCorrect == Spec => []ChannelTypeOK
  <1>1. IInv => ChannelTypeOK
    BY DEF IInv
  <1> QED  BY <1>1, ChannelInvariant, PTL

\* Where a quiet shell is an idle one, the shell owes no more markers than one
\* to the command on the channel and one to every stray: a session whose
\* timeouts were recovered is in step again (_soft_cancel, _await_next_done).
THEOREM OnlyReadersAreOwed ==
    ASSUME QuietIsIdle
    PROVE  Spec => []OwesOnlyReaders
  <1>1. IInv => OwesOnlyReaders
    BY DEF IInv
  <1> QED  BY <1>1, ChannelInvariant, PTL

\* And a command is answered by its own marker, or by one late by no more lines
\* than there were strays, never by a later one (_execute_locked).
THEOREM AnswersAreRecent ==
    ASSUME QuietIsIdle
    PROVE  Spec => []LagBounded
  <1>1. IInv => LagBounded
    BY DEF IInv
  <1> QED  BY <1>1, ChannelInvariant, PTL

=============================================================================

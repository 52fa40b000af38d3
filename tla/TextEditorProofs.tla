-------------------------- MODULE TextEditorProofs --------------------------
(* Theorems about TextEditor, for every value of its constants.            *)
(*                                                                         *)
(* First where the calls' files are (IInv).  Then what the operators on    *)
(* texts compute: the folds that join the lines and apply the patches are  *)
(* followed step by step, and what holds at every step is shown by looking *)
(* at the first step where it would not.  Last what the calls have read    *)
(* and are about to write (Texted), which rests on both.                   *)
EXTENDS TextEditor, FiniteSetTheorems, NaturalsInduction, WellFoundedInduction, SequenceTheorems, TLAPS

-----------------------------------------------------------------------------
(* The inductive invariant.                                                *)

IsTmp(f) ==
    \/ f = Absent
    \/ \E text, old : \E owner \in Owners :
          f = [text |-> text, owner |-> owner, old |-> old]
TmpFiles == tmp = [c \in Calls |-> tmp[c]] /\ \A c \in Calls : IsTmp(tmp[c])

TargetFile ==
    \/ target = Absent
    \/ \E text : \E owner \in Owners : target = [text |-> text, owner |-> owner]

\* Types, without those of the texts.
Shaped ==
    /\ TargetFile
    /\ posix \in BOOLEAN
    /\ TmpFiles
    /\ want = [c \in Calls |-> want[c]]
    /\ pc \in [Calls -> Points]
    /\ sudo \in [Calls -> BOOLEAN]
    /\ created \in [Calls -> BOOLEAN]
    /\ up \in [Calls -> BOOLEAN]
    /\ script \in [Calls -> ScriptRuns \cup {"none", "ok", "failed", "killed"}]
    /\ stat \in [Calls -> Owners \cup {"none"}]
    /\ result \in [Calls -> Results]

Staging == {"stat", "stage_open", "stage_write"}

\* A call that has not got past its checks has written nothing and may not be
\* expected to; one that has writes over SFTP or by a sudo script.
Planned(c) ==
    /\ pc[c] \in {"read", "patch"} => want[c] = {}
    /\ want[c] = {} => tmp[c] = Absent /\ ~sudo[c] /\ ~created[c]
    /\ pc[c] \in Session \cup {"cleanup"} => want[c] # {} /\ ~sudo[c]
    /\ pc[c] \in Staging => script[c] = "none"
    /\ pc[c] \in Staging \cup {"place", "unstage"} => sudo[c]
    /\ script[c] # "none" => sudo[c]
    /\ pc[c] \in {"stage_open", "stage_write"} \/ script[c] \in ScriptRuns => stat[c] \in Owners

\* A tmp file that is in place, or given up for lost, is not there any more.
Reclaimed(c) ==
    /\ created[c] => pc[c] \in {"write", "rename", "remove", "move", "cleanup", "done"}
    /\ ~sudo[c] /\ pc[c] \in {"sweep", "verify"} => tmp[c] = Absent
    /\ result[c] = "ok" => pc[c] = "done"
    /\ ~sudo[c] /\ result[c] = "ok" => tmp[c] = Absent
    /\ pc[c] = "done" /\ created[c] /\ up[c] /\ ~sudo[c] => tmp[c] = Absent

OnlySudo == \A c \in Calls : want[c] # {} => sudo[c]

\* The path names a file: always with posix-rename, and as long as every patch
\* went by sudo.
Named ==
    /\ posix => target # Absent /\ \A c \in Calls : pc[c] \notin {"remove", "move"}
    /\ OnlySudo => target # Absent /\ target.owner = "root"

\* What a sudo script is about to move in place has the owner of the file.
Owned(c) ==
    /\ script[c] \in {"chown", "mv"} => tmp[c] # Absent
    /\ OnlySudo => /\ pc[c] \in {"stage_open", "stage_write"} => stat[c] = "root"
                   /\ script[c] \in ScriptRuns => stat[c] = "root"
                   /\ script[c] = "mv" => tmp[c].owner = "root"

IInv ==
    /\ Shaped /\ Named
    /\ \A c \in Calls : Planned(c) /\ Reclaimed(c) /\ Owned(c)


-----------------------------------------------------------------------------
(* Some order of the patches is sorted.                                    *)

\* A set of natural numbers has a least element.
LEMMA Smallest ==
    ASSUME NEW T \in SUBSET Nat, T # {}
    PROVE  \E n \in T : \A m \in T : n <= m
  <1> DEFINE R == OpToRel(<, Nat)
  <1>1. PICK n \in T : \A m \in T : <<m, n>> \notin R
    <2> HIDE DEF R
    <2>1. IsWellFoundedOn(R, Nat)
      BY NatLessThanWellFounded DEF R
    <2> QED
      BY <2>1, WFMin
  <1>2. \A m \in T : ~(m < n)
    BY <1>1 DEF OpToRel
  <1> QED
    BY <1>2

\* o lists 1 .. k without repetition, by rising s.
Sorts(o, k, s) ==
    /\ o \in [1 .. k -> 1 .. k]
    /\ \A i, j \in 1 .. k : i < j => o[i] # o[j] /\ s[o[i]] <= s[o[j]]

\* The next number is put in its place in a sorted list.
LEMMA Inserted ==
    ASSUME NEW n \in Nat, NEW s \in [1 .. n -> Int], NEW k \in Nat, k + 1 <= n,
           NEW o, Sorts(o, k, s)
    PROVE  \E p : Sorts(p, k + 1, s)
  <1> DEFINE b == k + 1
             T == {i \in 1 .. k : s[o[i]] > s[b]} \cup {b}
  <1>1. /\ o \in [1 .. k -> 1 .. k]
        /\ \A i, j \in 1 .. k : i < j => o[i] # o[j] /\ s[o[i]] <= s[o[j]]
        /\ \A i \in 1 .. k : s[o[i]] \in Int
        /\ s[b] \in Int /\ b \in Nat
    <2>1. /\ o \in [1 .. k -> 1 .. k] /\ b \in 1 .. n
          /\ \A i, j \in 1 .. k : i < j => o[i] # o[j] /\ s[o[i]] <= s[o[j]]
      BY DEF Sorts
    <2>2. \A i \in 1 .. k : o[i] \in 1 .. n
      BY <2>1
    <2>3. \A i \in 1 .. n : s[i] \in Int
      OBVIOUS
    <2> HIDE DEF b
    <2>4. s[b] \in Int
      BY <2>1, <2>3
    <2>5. \A i \in 1 .. k : s[o[i]] \in Int
      BY <2>2, <2>3
    <2>6. b \in Nat
      BY <2>1
    <2> QED
      BY <2>1, <2>4, <2>5, <2>6
  <1>2. PICK t \in T : \A m \in T : t <= m
    <2>1. T \in SUBSET Nat /\ T # {}
      BY <1>1
    <2> HIDE DEF T
    <2> QED
      BY <2>1, Smallest
  <1>3. t \in 1 .. b
    BY <1>1, <1>2
  <1>4. \A i \in 1 .. k : i < t => s[o[i]] <= s[b]
    <2> SUFFICES ASSUME NEW i \in 1 .. k, i < t, ~(s[o[i]] <= s[b]) PROVE FALSE
      OBVIOUS
    <2>1. s[o[i]] > s[b]
      BY <1>1
    <2> QED
      BY <1>2, <1>3, <2>1
  <1>5. \A i \in 1 .. k : i >= t => s[b] <= s[o[i]]
    <2> SUFFICES ASSUME NEW i \in 1 .. k, i >= t PROVE s[b] <= s[o[i]]
      OBVIOUS
    <2>1. t \in 1 .. k /\ s[o[t]] > s[b]
      BY <1>2, <1>3
    <2>2. CASE i = t
      BY <1>1, <2>1, <2>2
    <2>3. CASE i > t
      <3>1. s[o[t]] <= s[o[i]]
        BY <1>1, <2>1, <2>3
      <3>2. s[o[t]] \in Int /\ s[o[i]] \in Int /\ s[b] \in Int
        BY <1>1, <2>1
      <3> HIDE DEF b
      <3> QED
        BY <2>1, <3>1, <3>2
    <2> QED
      BY <1>3, <2>2, <2>3
  <1> DEFINE p == [i \in 1 .. b |-> IF i < t THEN o[i] ELSE IF i = t THEN b ELSE o[i - 1]]
  <1>6. p \in [1 .. b -> 1 .. b]
    <2>1. ASSUME NEW i \in 1 .. b PROVE p[i] \in 1 .. b
      <3>1. \A j \in 1 .. k : o[j] \in 1 .. b
        BY <1>1
      <3>2. CASE i < t
        BY <1>3, <3>1, <3>2
      <3>3. CASE i = t
        BY <1>1, <3>3
      <3>4. CASE i > t
        <4>1. i - 1 \in 1 .. k /\ p[i] = o[i - 1]
          BY <1>1, <1>3, <3>4
        <4> QED
          BY <3>1, <4>1
      <3> QED
        BY <1>3, <3>2, <3>3, <3>4
    <2> QED
      BY <2>1
  <1>p. \A i \in 1 .. b : p[i] = IF i < t THEN o[i] ELSE IF i = t THEN b ELSE o[i - 1]
    OBVIOUS
  <1> HIDE DEF p, T
  <1>7. ASSUME NEW i \in 1 .. b, NEW j \in 1 .. b, i < j
        PROVE  p[i] # p[j] /\ s[p[i]] <= s[p[j]]
    <2>1. CASE j < t
      <3>1. i \in 1 .. k /\ j \in 1 .. k /\ p[i] = o[i] /\ p[j] = o[j]
        BY <1>1, <1>3, <1>7, <1>p, <2>1
      <3> QED
        BY <1>1, <1>7, <3>1
    <2>2. CASE j = t
      <3>1. i \in 1 .. k /\ i < t /\ p[i] = o[i] /\ p[j] = b /\ o[i] \in 1 .. k
        BY <1>1, <1>3, <1>7, <1>p, <2>2
      <3> QED
        BY <1>1, <1>4, <3>1
    <2>3. CASE j > t /\ i < t
      <3>1. /\ i \in 1 .. k /\ j - 1 \in 1 .. k /\ i < j - 1
            /\ p[i] = o[i] /\ p[j] = o[j - 1]
        BY <1>1, <1>3, <1>7, <1>p, <2>3
      <3> QED
        BY <1>1, <3>1
    <2>4. CASE i = t
      <3>1. /\ j - 1 \in 1 .. k /\ j - 1 >= t
            /\ p[i] = b /\ p[j] = o[j - 1] /\ o[j - 1] \in 1 .. k
        BY <1>1, <1>3, <1>7, <1>p, <2>4
      <3>2. s[b] <= s[o[j - 1]]
        BY <1>5, <3>1
      <3>3. o[j - 1] # b
        BY <3>1
      <3> QED
        BY <3>1, <3>2, <3>3
    <2>5. CASE i > t
      <3>1. /\ i - 1 \in 1 .. k /\ j - 1 \in 1 .. k /\ i - 1 < j - 1
            /\ p[i] = o[i - 1] /\ p[j] = o[j - 1]
        BY <1>1, <1>3, <1>7, <1>p, <2>5
      <3> QED
        BY <1>1, <3>1
    <2> QED
      BY <1>3, <1>7, <2>1, <2>2, <2>3, <2>4, <2>5
  <1>8. Sorts(p, b, s)
    BY <1>6, <1>7 DEF Sorts
  <1> QED
    BY <1>8

\* Every list of starts has a sorted order.
LEMMA SomeOrder ==
    ASSUME NEW n \in Nat, NEW s \in [1 .. n -> Int]
    PROVE  \E o : Sorts(o, n, s)
  <1> DEFINE Bad == {k \in 0 .. n : ~ \E o : Sorts(o, k, s)}
  <1>1. CASE Bad = {}
    <2>1. n \in 0 .. n
      OBVIOUS
    <2>2. n \notin Bad
      BY <1>1
    <2> QED
      BY <2>1, <2>2
  <1>2. CASE Bad # {}
    <2>1. PICK b \in Bad : \A m \in Bad : b <= m
      <3>1. Bad \in SUBSET Nat
        OBVIOUS
      <3> HIDE DEF Bad
      <3> QED
        BY <1>2, <3>1, Smallest
    <2>2. b # 0
      <3>1. Sorts(<<>>, 0, s)
        BY DEF Sorts
      <3> QED
        BY <2>1, <3>1
    <2>3. PICK o : Sorts(o, b - 1, s)
      <3>1. b - 1 \in 0 .. n /\ b - 1 \notin Bad
        BY <2>1, <2>2
      <3> QED
        BY <3>1
    <2>4. b - 1 \in Nat /\ (b - 1) + 1 <= n /\ (b - 1) + 1 = b
      BY <2>1, <2>2
    <2>5. \E p : Sorts(p, b, s)
      <3>1. \E p : Sorts(p, (b - 1) + 1, s)
        BY <2>3, <2>4, Inserted
      <3> QED
        BY <2>4, <3>1
    <2> QED
      BY <2>1, <2>5
  <1> QED
    BY <1>1, <1>2

\* The caller of a patch that is not refused may expect some text.
LEMMA SomeExpected ==
    ASSUME NEW c \in Calls, NEW a \in Asks[c], NEW text
    PROVE  Expected(text, a.patches, a.auto_newline) # {}
  <1> DEFINE n == Len(a.patches)
             s == [i \in 1 .. n |-> a.patches[i].start]
  <1>1. n \in Nat /\ s \in [1 .. n -> Int]
    BY EditorAssumption
  <1>2. PICK o : Sorts(o, n, s)
    <2> HIDE DEF n, s
    <2> QED
      BY <1>1, SomeOrder
  <1>3. o \in {q \in [1 .. n -> 1 .. n] :
                  \A i, j \in 1 .. n :
                      i < j => q[i] # q[j] /\ a.patches[q[i]].start <= a.patches[q[j]].start}
    <2>1. /\ o \in [1 .. n -> 1 .. n]
          /\ \A i, j \in 1 .. n : i < j => o[i] # o[j] /\ s[o[i]] <= s[o[j]]
      BY <1>2 DEF Sorts
    <2>2. \A i \in 1 .. n : s[o[i]] = a.patches[o[i]].start
      BY <2>1
    <2> QED
      BY <2>1, <2>2
  <1> QED
    BY <1>3 DEF Expected


-----------------------------------------------------------------------------
(* The steps.                                                              *)

\* Call d is left alone.
Same(d) ==
    /\ tmp'[d] = tmp[d] /\ want'[d] = want[d] /\ pc'[d] = pc[d] /\ sudo'[d] = sudo[d]
    /\ created'[d] = created[d] /\ up'[d] = up[d] /\ script'[d] = script[d]
    /\ stat'[d] = stat[d] /\ result'[d] = result[d]

\* One tmp file is made, changed or removed.
LEMMA TmpChange ==
    ASSUME TmpFiles, NEW c \in Calls, NEW f, IsTmp(f), tmp' = [tmp EXCEPT ![c] = f]
    PROVE  TmpFiles'
  <1>1. \A d \in Calls : tmp'[d] = IF d = c THEN f ELSE tmp[d]
    BY DEF TmpFiles
  <1>2. tmp' = [d \in Calls |-> IF d = c THEN f ELSE tmp[d]]
    BY DEF TmpFiles
  <1>3. tmp' = [d \in Calls |-> tmp'[d]]
    BY <1>2
  <1>4. \A d \in Calls : IsTmp(tmp[d])
    BY DEF TmpFiles
  <1>5. ASSUME NEW d \in Calls PROVE IsTmp(tmp'[d])
    BY <1>1, <1>4
  <1> QED
    BY <1>3, <1>5 DEF TmpFiles, IsTmp

\* A tmp file with one field changed is a tmp file.
LEMMA TmpField ==
    ASSUME NEW f, IsTmp(f), f # Absent, NEW v
    PROVE  /\ IsTmp([f EXCEPT !.text = v]) /\ IsTmp([f EXCEPT !.old = v])
           /\ v \in Owners => IsTmp([f EXCEPT !.owner = v])
  <1>1. PICK text, old : \E owner \in Owners :
            f = [text |-> text, owner |-> owner, old |-> old]
    BY DEF IsTmp
  <1>2. PICK owner \in Owners : f = [text |-> text, owner |-> owner, old |-> old]
    BY <1>1
  <1>3. /\ [f EXCEPT !.text = v] = [text |-> v, owner |-> owner, old |-> old]
        /\ [f EXCEPT !.old = v] = [text |-> text, owner |-> owner, old |-> v]
        /\ [f EXCEPT !.owner = v] = [text |-> text, owner |-> v, old |-> old]
    BY <1>2
  <1>4. ASSUME NEW x, NEW o \in Owners, NEW y
        PROVE  IsTmp([text |-> x, owner |-> o, old |-> y])
    BY DEF IsTmp
  <1> QED
    BY <1>2, <1>3, <1>4

\* A tmp file is renamed over the target.
LEMMA Renamed ==
    ASSUME TmpFiles, NEW c \in Calls, RenameRequest(c)
    PROVE  TargetFile' /\ target' # Absent
  <1>1. IsTmp(tmp[c]) /\ tmp[c] # Absent
    BY DEF TmpFiles, RenameRequest
  <1>2. tmp[c].owner \in Owners
    <2>1. PICK text, old : \E owner \in Owners :
              tmp[c] = [text |-> text, owner |-> owner, old |-> old]
      BY <1>1 DEF IsTmp
    <2> QED
      BY <2>1
  <1>3. target' = [text |-> tmp[c].text, owner |-> tmp[c].owner]
    BY DEF RenameRequest
  <1> QED
    BY <1>2, <1>3 DEF TargetFile, Absent

\* The target has an owner.
LEMMA TargetOwner ==
    ASSUME TargetFile, target # Absent
    PROVE  target.owner \in Owners
  <1>1. PICK text : \E owner \in Owners : target = [text |-> text, owner |-> owner]
    BY DEF TargetFile
  <1> QED
    BY <1>1

\* Files that are left alone are files.
LEMMA SameFiles ==
    ASSUME TmpFiles, TargetFile, UNCHANGED <<target, tmp>>
    PROVE  TmpFiles' /\ TargetFile'
  BY DEF TmpFiles, IsTmp, TargetFile

\* chown leaves the tmp file with the recorded owner.
LEMMA ChownEffect ==
    ASSUME TmpFiles, NEW c \in Calls, tmp[c] # Absent, ScriptChown(c)
    PROVE  tmp'[c] # Absent /\ tmp'[c].owner = stat[c]
  <1>1. IsTmp(tmp[c]) /\ tmp'[c] = [tmp[c] EXCEPT !.owner = stat[c]]
    BY DEF TmpFiles, ScriptChown
  <1>2. PICK x, o, y : tmp[c] = [text |-> x, owner |-> o, old |-> y]
    BY <1>1 DEF IsTmp
  <1>3. tmp'[c] = [text |-> x, owner |-> stat[c], old |-> y]
    BY <1>1, <1>2
  <1> QED
    BY <1>3 DEF Absent

\* A file that grows old keeps its owner.
LEMMA AgeEffect ==
    ASSUME TmpFiles, NEW c \in Calls, Age(c)
    PROVE  tmp'[c] # Absent /\ tmp'[c].owner = tmp[c].owner
  <1>1. IsTmp(tmp[c]) /\ tmp[c] # Absent
    BY DEF TmpFiles, Age
  <1>v. PICK v : tmp'[c] = [tmp[c] EXCEPT !.old = v]
    BY DEF TmpFiles, Age
  <1>2. PICK x, o, y : tmp[c] = [text |-> x, owner |-> o, old |-> y]
    BY <1>1 DEF IsTmp
  <1>3. tmp'[c] = [text |-> x, owner |-> o, old |-> v]
    BY <1>2, <1>v
  <1>4. tmp[c].owner = o /\ tmp'[c].owner = o
    BY <1>2, <1>3
  <1>5. tmp'[c] # Absent
    BY <1>3 DEF Absent
  <1> QED
    BY <1>4, <1>5

CallOK(c) == Planned(c) /\ Reclaimed(c) /\ Owned(c)

\* What remains to show of a step of call c.
LEMMA OneCall ==
    ASSUME IInv, NEW c \in Calls, \A d \in Calls : d # c => Same(d), OnlySudo' => OnlySudo,
           Shaped', Named', CallOK(c)'
    PROVE  IInv'
  <1>1. ASSUME NEW d \in Calls, d # c PROVE CallOK(d)'
    <2>1. Same(d) /\ Planned(d) /\ Reclaimed(d) /\ Owned(d)
      BY <1>1 DEF IInv
    <2>2. Planned(d)'
      BY <2>1 DEF Same, Planned
    <2>3. Reclaimed(d)'
      BY <2>1 DEF Same, Reclaimed
    <2>4. Owned(d)'
      BY <2>1 DEF Same, Owned
    <2> QED
      BY <2>2, <2>3, <2>4 DEF CallOK
  <1> QED
    BY <1>1 DEF IInv, CallOK

\* A write that is not by sudo has been asked for, or none has.
LEMMA NotOnly ==
    ASSUME NEW c \in Calls, want[c] # {}, ~sudo[c]
    PROVE  ~OnlySudo
  BY DEF OnlySudo

\* A page is read, whatever is on it.
Reads(c) ==
    /\ pc[c] = "read" /\ \E p \in {"read", "patch"} : pc' = [pc EXCEPT ![c] = p]
    /\ UNCHANGED <<target, tmp, posix, sudo, want, created, up, script, stat, result>>

\* What is on the page does not matter to the files.
LEMMA ReadEffect ==
    ASSUME NEW c \in Calls, Read(c)
    PROVE  Reads(c)
  <1> DEFINE P(limit, end) == Page(target.text, page[c].start, end, limit)
  <1>1. PICK limit \in 0 .. READ_MAX_LINES,
             end \in IF page[c].hashes = {} THEN ReadEnds ELSE {page[c].end} :
          Goto(c, IF P(limit, end).next_start = 0 THEN "patch" ELSE "read")
    BY DEF Read
  <1>2. /\ pc[c] = "read"
        /\ UNCHANGED <<target, tmp, posix, sudo, want, created, up, script, stat>>
    BY DEF Read, fileVars, flags, sudoVars
  <1> HIDE DEF P
  <1> QED
    BY <1>1, <1>2 DEF Goto, Reads

\* A call reads, verifies, or finds posix-rename missing.
LEMMA ReadingStep ==
    ASSUME IInv, NEW c \in Calls,
           Reads(c) \/ ReadFails(c) \/ Verify(c) \/ PosixRenameUnsupported(c)
    PROVE  IInv'
  <1> USE DEF Reads, ReadFails, Verify, PosixRenameUnsupported,
           fileVars, planVars, flags, sudoVars, Goto, Return
  <1>0. Shaped /\ Named /\ Planned(c) /\ Reclaimed(c) /\ Owned(c)
    BY DEF IInv
  <1>1. UNCHANGED <<want, sudo, posix>> /\ (OnlySudo' <=> OnlySudo)
    BY DEF OnlySudo
  <1>2. \A d \in Calls : d # c => Same(d)
    BY <1>0 DEF Same, Shaped, TmpFiles
  <1>3. Shaped'
    <2>1. TmpFiles' /\ TargetFile'
      BY <1>0, SameFiles DEF Shaped
    <2>2. pc' \in [Calls -> Points]
      BY <1>0 DEF Shaped, Points, Session
    <2>r. result' \in [Calls -> Results]
      BY <1>0 DEF Shaped, Results
    <2>3. stat' \in [Calls -> Owners \cup {"none"}]
      BY <1>0, TargetOwner DEF Shaped
    <2>4. script' \in [Calls -> ScriptRuns \cup {"none", "ok", "failed", "killed"}]
      BY <1>0 DEF Shaped, ScriptRuns
    <2> QED
      BY <1>0, <1>1, <2>1, <2>2, <2>3, <2>4, <2>r DEF Shaped
  <1>4. Named'
    BY <1>0, <1>1, NotOnly DEF Named, Planned, Owned, Shaped, Session
  <1>5. Planned(c)'
    BY <1>0, TargetOwner DEF Planned, Shaped, TmpFiles, Session, Staging,
       ScriptRuns, Absent
  <1>6. Reclaimed(c)'
    BY <1>0 DEF Reclaimed, Planned, Shaped, TmpFiles, Session, Staging, ScriptRuns
  <1>7. Owned(c)'
    BY <1>0, <1>1, NotOnly DEF Owned, Named, Planned, Shaped, TmpFiles, Session, Staging,
       ScriptRuns, Absent
  <1> QED
    BY <1>1, <1>2, <1>3, <1>4, <1>5, <1>6, <1>7, OneCall DEF CallOK

\* A sudo call looks at the target and stages its copy.
LEMMA StagingStep ==
    ASSUME IInv, NEW c \in Calls,
           SudoStat(c) \/ SudoStatFails(c) \/ StageOpen(c) \/ StageWrite(c) \/
           StageBreaks(c)
    PROVE  IInv'
  <1> USE DEF SudoStat, SudoStatFails, StageOpen, StageWrite, StageBreaks,
           fileVars, planVars, flags, sudoVars, Goto, Return
  <1>0. Shaped /\ Named /\ Planned(c) /\ Reclaimed(c) /\ Owned(c)
    BY DEF IInv
  <1>1. UNCHANGED <<want, sudo, posix>> /\ (OnlySudo' <=> OnlySudo)
    BY DEF OnlySudo
  <1>2. \A d \in Calls : d # c => Same(d)
    BY <1>0 DEF Same, Shaped, TmpFiles
  <1>3. Shaped'
    <2>1. TmpFiles' /\ TargetFile'
      BY <1>0, SameFiles DEF Shaped
    <2>2. pc' \in [Calls -> Points]
      BY <1>0 DEF Shaped, Points, Session
    <2>r. result' \in [Calls -> Results]
      BY <1>0 DEF Shaped, Results
    <2>3. stat' \in [Calls -> Owners \cup {"none"}]
      BY <1>0, TargetOwner DEF Shaped
    <2>4. script' \in [Calls -> ScriptRuns \cup {"none", "ok", "failed", "killed"}]
      BY <1>0 DEF Shaped, ScriptRuns
    <2> QED
      BY <1>0, <1>1, <2>1, <2>2, <2>3, <2>4, <2>r DEF Shaped
  <1>4. Named'
    BY <1>0, <1>1, NotOnly DEF Named, Planned, Owned, Shaped, Session
  <1>5. Planned(c)'
    BY <1>0, TargetOwner DEF Planned, Shaped, TmpFiles, Session, Staging,
       ScriptRuns, Absent
  <1>6. Reclaimed(c)'
    BY <1>0 DEF Reclaimed, Planned, Shaped, TmpFiles, Session, Staging, ScriptRuns
  <1>7. Owned(c)'
    BY <1>0, <1>1, NotOnly DEF Owned, Named, Planned, Shaped, TmpFiles, Session, Staging,
       ScriptRuns, Absent
  <1> QED
    BY <1>1, <1>2, <1>3, <1>4, <1>5, <1>6, <1>7, OneCall DEF CallOK

\* A sudo call waits for its script, which may be killed, and cleans up.
LEMMA PlacingStep ==
    ASSUME IInv, NEW c \in Calls,
           ScriptKilled(c) \/ PlaceReturns(c) \/ PlaceGivesUp(c) \/ Unstage(c)
    PROVE  IInv'
  <1> USE DEF ScriptKilled, PlaceReturns, PlaceGivesUp, Unstage,
           fileVars, planVars, flags, sudoVars, Goto, Return
  <1>0. Shaped /\ Named /\ Planned(c) /\ Reclaimed(c) /\ Owned(c)
    BY DEF IInv
  <1>1. UNCHANGED <<want, sudo, posix>> /\ (OnlySudo' <=> OnlySudo)
    BY DEF OnlySudo
  <1>2. \A d \in Calls : d # c => Same(d)
    BY <1>0 DEF Same, Shaped, TmpFiles
  <1>3. Shaped'
    <2>1. TmpFiles' /\ TargetFile'
      BY <1>0, SameFiles DEF Shaped
    <2>2. pc' \in [Calls -> Points]
      BY <1>0 DEF Shaped, Points, Session
    <2>r. result' \in [Calls -> Results]
      BY <1>0 DEF Shaped, Results
    <2>3. stat' \in [Calls -> Owners \cup {"none"}]
      BY <1>0, TargetOwner DEF Shaped
    <2>4. script' \in [Calls -> ScriptRuns \cup {"none", "ok", "failed", "killed"}]
      BY <1>0 DEF Shaped, ScriptRuns
    <2> QED
      BY <1>0, <1>1, <2>1, <2>2, <2>3, <2>4, <2>r DEF Shaped
  <1>4. Named'
    BY <1>0, <1>1, NotOnly DEF Named, Planned, Owned, Shaped, Session
  <1>5. Planned(c)'
    BY <1>0, TargetOwner DEF Planned, Shaped, TmpFiles, Session, Staging,
       ScriptRuns, Absent
  <1>6. Reclaimed(c)'
    BY <1>0 DEF Reclaimed, Planned, Shaped, TmpFiles, Session, Staging, ScriptRuns
  <1>7. Owned(c)'
    BY <1>0, <1>1, NotOnly DEF Owned, Named, Planned, Shaped, TmpFiles, Session, Staging,
       ScriptRuns, Absent
  <1> QED
    BY <1>1, <1>2, <1>3, <1>4, <1>5, <1>6, <1>7, OneCall DEF CallOK

\* A tmp file is put in place.
LEMMA RenamedStep ==
    ASSUME IInv, NEW c \in Calls,
           PosixRename(c) \/ Rename(c) \/ ScriptMv(c)
    PROVE  IInv'
  <1> USE DEF PosixRename, Rename, ScriptMv,
           fileVars, planVars, flags, sudoVars, Goto, Return, RenameRequest
  <1>0. Shaped /\ Named /\ Planned(c) /\ Reclaimed(c) /\ Owned(c)
    BY DEF IInv
  <1>1. UNCHANGED <<want, sudo, posix>> /\ (OnlySudo' <=> OnlySudo)
    BY DEF OnlySudo
  <1>2. \A d \in Calls : d # c => Same(d)
    BY <1>0 DEF Same, Shaped, TmpFiles
  <1>3. Shaped'
    <2>1. TmpFiles /\ IsTmp(Absent) /\ tmp' = [tmp EXCEPT ![c] = Absent]
      BY <1>0 DEF Shaped, IsTmp
    <2>2. TmpFiles' /\ TargetFile'
      BY <2>1, TmpChange, Renamed
    <2> QED
      BY <1>0, <1>1, <2>2 DEF Shaped, Owners, Results, Points, Session, ScriptRuns
  <1>4. Named'
    BY <1>0, <1>1, NotOnly, Renamed DEF Named, Planned, Owned, Shaped, Session
  <1>5. Planned(c)'
    BY <1>0, TargetOwner DEF Planned, Shaped, TmpFiles, Session, Staging,
       ScriptRuns, Absent
  <1>6. Reclaimed(c)'
    BY <1>0 DEF Reclaimed, Planned, Shaped, TmpFiles, Session, Staging, ScriptRuns
  <1>7. Owned(c)'
    BY <1>0, <1>1, NotOnly DEF Owned, Named, Planned, Shaped, TmpFiles, Session, Staging,
       ScriptRuns, Absent
  <1> QED
    BY <1>1, <1>2, <1>3, <1>4, <1>5, <1>6, <1>7, OneCall DEF CallOK

\* A tmp file is made, changed or removed.
LEMMA TmpStep ==
    ASSUME IInv, NEW c \in Calls,
           Open(c) \/ Write(c) \/ Cleanup(c) \/ ScriptCp(c) \/ ScriptChown(c) \/
           ScriptFails(c) \/ Age(c)
    PROVE  IInv'
  <1> USE DEF Open, Write, Cleanup, ScriptCp, ScriptChown, ScriptFails, Age,
           fileVars, planVars, flags, sudoVars, Goto, Return, OpenRequest, WriteRequest
  <1>0. Shaped /\ Named /\ Planned(c) /\ Reclaimed(c) /\ Owned(c)
    BY DEF IInv
  <1>1. UNCHANGED <<want, sudo, posix>> /\ (OnlySudo' <=> OnlySudo)
    BY DEF OnlySudo
  <1>2. \A d \in Calls : d # c => Same(d)
    BY <1>0 DEF Same, Shaped, TmpFiles
  <1>3. Shaped'
    <2>1. TmpFiles /\ IsTmp(tmp[c]) /\ IsTmp(Absent)
      BY <1>0 DEF Shaped, TmpFiles, IsTmp
    <2>2. PICK f : IsTmp(f) /\ tmp' = [tmp EXCEPT ![c] = f]
      <3>1. ASSUME NEW text, NEW owner \in Owners
            PROVE  IsTmp([text |-> text, owner |-> owner, old |-> FALSE])
        BY DEF IsTmp
      <3>2. CASE Open(c) \/ ScriptCp(c)
        BY <3>1, <3>2 DEF Owners
      <3>3. CASE ScriptFails(c)
        BY <2>1, <3>3
      <3>4. CASE Cleanup(c)
        <4>1. CASE tmp' = tmp
          BY <2>1, <4>1 DEF TmpFiles
        <4> QED
          BY <2>1, <3>4, <4>1
      <3>5. CASE Write(c)
        <4>1. CASE tmp' = tmp
          BY <2>1, <4>1 DEF TmpFiles
        <4> QED
          BY <2>1, <3>5, <4>1, TmpField
      <3>6. CASE ScriptChown(c)
        <4>1. tmp[c] # Absent /\ stat[c] \in Owners
          BY <1>0, <3>6 DEF Planned, Owned, ScriptRuns
        <4> QED
          BY <2>1, <3>6, <4>1, TmpField
      <3>7. CASE Age(c)
        BY <2>1, <3>7, TmpField
      <3> QED
        BY <3>2, <3>3, <3>4, <3>5, <3>6, <3>7
    <2>3. TmpFiles' /\ TargetFile'
      BY <1>0, <2>1, <2>2, TmpChange DEF Shaped, TargetFile
    <2> QED
      BY <1>0, <1>1, <2>3 DEF Shaped, Owners, Results, Points, Session, ScriptRuns
  <1>4. Named'
    BY <1>0, <1>1, NotOnly DEF Named, Planned, Owned, Shaped, Session
  <1>5. Planned(c)'
    BY <1>0, TargetOwner DEF Planned, Shaped, TmpFiles, Session, Staging,
       ScriptRuns, Absent
  <1>6. Reclaimed(c)'
    BY <1>0 DEF Reclaimed, Planned, Shaped, TmpFiles, Session, Staging, ScriptRuns
  <1>7. Owned(c)'
    <2>1. TmpFiles /\ IsTmp(tmp[c])
      BY <1>0 DEF Shaped, TmpFiles
    <2>2. CASE Open(c) \/ Write(c) \/ Cleanup(c) \/ ScriptFails(c)
      BY <1>0, <1>1, <2>2, NotOnly DEF Owned, Planned, Shaped, Session, ScriptRuns
    <2>3. CASE ScriptCp(c)
      BY <1>0, <1>1, <2>1, <2>3 DEF Owned, Shaped, TmpFiles, ScriptRuns, Absent, Planned, Staging
    <2>4. CASE ScriptChown(c)
      <3>2. tmp[c] # Absent /\ script' = [script EXCEPT ![c] = "mv"] /\ UNCHANGED <<pc, stat>>
        BY <1>0, <2>4 DEF Owned
      <3>3. tmp'[c] # Absent /\ tmp'[c].owner = stat[c]
        BY <2>1, <2>4, <3>2, ChownEffect
      <3>4. script'[c] = "mv" /\ script[c] = "chown"
        BY <1>0, <2>4, <3>2 DEF Shaped
      <3>5. OnlySudo => stat[c] = "root"
        BY <1>0, <3>4 DEF Owned, ScriptRuns
      <3> QED
        BY <1>0, <1>1, <3>2, <3>3, <3>4, <3>5 DEF Owned
    <2>5. CASE Age(c)
      <3>2. tmp[c] # Absent /\ UNCHANGED <<pc, stat, script>>
        BY <2>5
      <3>3. tmp'[c] # Absent /\ tmp'[c].owner = tmp[c].owner
        BY <2>1, <2>5, AgeEffect
      <3> QED
        BY <1>0, <1>1, <3>2, <3>3 DEF Owned
    <2> QED
      BY <2>2, <2>3, <2>4, <2>5
  <1> QED
    BY <1>1, <1>2, <1>3, <1>4, <1>5, <1>6, <1>7, OneCall DEF CallOK

\* The fallback removes the target.
LEMMA RemoveTargetStep ==
    ASSUME IInv, NEW c \in Calls, RemoveTarget(c)
    PROVE  IInv'
  <1> USE DEF RemoveTarget, RemoveRequest, planVars, flags, sudoVars, Goto
  <1>0. Shaped /\ Named /\ Planned(c) /\ Reclaimed(c) /\ Owned(c)
    BY DEF IInv
  <1>1. UNCHANGED <<want, sudo, posix>> /\ (OnlySudo' <=> OnlySudo)
    BY DEF OnlySudo
  <1>2. \A d \in Calls : d # c => Same(d)
    BY <1>0 DEF Same, Shaped
  <1>3. Shaped'
    BY <1>0 DEF Shaped, TmpFiles, IsTmp, TargetFile, Points, Session
  <1>4. Named'
    BY <1>0, <1>1, NotOnly DEF Named, Planned, Shaped, Session
  <1>5. Planned(c)' /\ Reclaimed(c)' /\ Owned(c)'
    BY <1>0, <1>1 DEF Planned, Reclaimed, Owned, Shaped, Session, Staging
  <1> QED
    BY <1>1, <1>2, <1>3, <1>4, <1>5, OneCall DEF CallOK

\* A request of _atomic_write breaks.
LEMMA BreakStep ==
    ASSUME IInv, NEW c \in Calls, Break(c)
    PROVE  IInv'
  <1> USE DEF planVars, flags, sudoVars, Goto
  <1>0. Shaped /\ Named /\ Planned(c) /\ Reclaimed(c) /\ Owned(c)
    BY DEF IInv
  <1>1. UNCHANGED <<want, sudo, posix>> /\ (OnlySudo' <=> OnlySudo)
    BY DEF Break, OnlySudo
  <1>2. /\ pc[c] \in Session /\ pc' = [pc EXCEPT ![c] = "cleanup"]
        /\ UNCHANGED <<created, script, stat, result>>
        /\ up' \in [Calls -> BOOLEAN] /\ \A d \in Calls : d # c => up'[d] = up[d]
    BY <1>0 DEF Break, Shaped
  <1>3. /\ TmpFiles' /\ TargetFile'
        /\ \A d \in Calls : d # c => tmp'[d] = tmp[d]
        /\ target' # target => target' # Absent \/ pc[c] = "remove"
    <2>1. CASE UNCHANGED <<target, tmp>>
      BY <1>0, <2>1, SameFiles DEF Shaped
    <2>2. CASE pc[c] = "open" /\ OpenRequest(c)
      <3>1. IsTmp([text |-> <<>>, owner |-> "login", old |-> FALSE])
        BY DEF IsTmp, Owners
      <3> QED
        BY <1>0, <2>2, <3>1, TmpChange DEF OpenRequest, Shaped, TmpFiles, TargetFile
    <2>3. CASE WriteRequest(c, SubSeq(new_full[c], 1, Len(new_full[c]) - 1))
      <3>1. TargetFile' /\ target' = target
        BY <1>0, <2>3 DEF WriteRequest, Shaped, TargetFile
      <3>2. CASE tmp[c] = Absent
        BY <1>0, <2>3, <3>1, <3>2, SameFiles DEF WriteRequest, Shaped
      <3>3. CASE tmp[c] # Absent
        <4>1. PICK text : tmp' = [tmp EXCEPT ![c] = [tmp[c] EXCEPT !.text = text]]
          BY <2>3, <3>3 DEF WriteRequest
        <4>2. IsTmp([tmp[c] EXCEPT !.text = text])
          BY <1>0, <3>3, TmpField DEF Shaped, TmpFiles
        <4> QED
          BY <1>0, <3>1, <4>1, <4>2, TmpChange DEF Shaped, TmpFiles
      <3> QED
        BY <3>2, <3>3
    <2>4. CASE RenameRequest(c)
      <3>1. IsTmp(Absent) /\ tmp' = [tmp EXCEPT ![c] = Absent]
        BY <2>4 DEF IsTmp, RenameRequest
      <3> QED
        BY <1>0, <2>4, <3>1, TmpChange, Renamed DEF Shaped, TmpFiles
    <2>5. CASE pc[c] = "remove" /\ RemoveRequest
      BY <1>0, <2>5 DEF RemoveRequest, Shaped, TmpFiles, IsTmp, TargetFile
    <2> QED
      BY <2>1, <2>2, <2>3, <2>4, <2>5 DEF Break
  <1>4. \A d \in Calls : d # c => Same(d)
    BY <1>0, <1>1, <1>2, <1>3 DEF Same, Shaped
  <1>5. Shaped'
    BY <1>0, <1>1, <1>2, <1>3 DEF Shaped, Points
  <1>6. want[c] # {} /\ ~sudo[c] /\ ~OnlySudo /\ script[c] = "none"
    <2>1. want[c] # {} /\ ~sudo[c] /\ script[c] = "none"
      BY <1>0, <1>2 DEF Planned
    <2> QED
      BY <2>1, NotOnly
  <1>7. Named'
    BY <1>0, <1>1, <1>2, <1>3, <1>6 DEF Named, Shaped
  <1>8. pc'[c] = "cleanup"
    BY <1>0, <1>2 DEF Shaped
  <1>9. Planned(c)'
    BY <1>1, <1>2, <1>6, <1>8 DEF Planned, Session, Staging, ScriptRuns
  <1>10. Reclaimed(c)' /\ Owned(c)'
    BY <1>0, <1>1, <1>2, <1>6, <1>8 DEF Reclaimed, Owned, Session, ScriptRuns
  <1> QED
    BY <1>1, <1>4, <1>5, <1>7, <1>9, <1>10, OneCall DEF CallOK

\* Old tmp files of calls that do not use sudo are swept.
LEMMA SweepStep ==
    ASSUME IInv, NEW c \in Calls, Sweep(c)
    PROVE  IInv'
  <1> USE DEF planVars, flags, sudoVars, Goto
  <1>0. Shaped /\ Named
    BY DEF IInv
  <1>1. PICK gone \in SUBSET {d \in Calls : tmp[d] # Absent /\ ~sudo[d] /\ tmp[d].old} :
            tmp' = [d \in Calls |-> IF d \in gone THEN Absent ELSE tmp[d]]
    BY DEF Sweep
  <1>2. /\ UNCHANGED <<target, posix, want, sudo, created, up, script, stat, result>>
        /\ pc[c] = "sweep" /\ pc' = [pc EXCEPT ![c] = "verify"]
        /\ (OnlySudo' <=> OnlySudo)
    BY DEF Sweep, OnlySudo
  <1>3. \A d \in Calls : /\ tmp'[d] = Absent \/ tmp'[d] = tmp[d]
                         /\ sudo[d] => tmp'[d] = tmp[d]
    BY <1>1
  <1>4. Shaped'
    <2>1. TmpFiles'
      <3>1. tmp' = [d \in Calls |-> tmp'[d]]
        BY <1>1
      <3> QED
        BY <1>0, <1>3, <3>1 DEF Shaped, TmpFiles, IsTmp
    <2> QED
      BY <1>0, <1>2, <2>1 DEF Shaped, TargetFile, Points
  <1>5. Named'
    BY <1>0, <1>2 DEF Named, Shaped
  <1>6. ASSUME NEW d \in Calls PROVE Planned(d)' /\ Reclaimed(d)' /\ Owned(d)'
    <2>1. Planned(d) /\ Reclaimed(d) /\ Owned(d)
      BY DEF IInv
    <2>2. CASE d # c
      <3>1. pc'[d] = pc[d]
        BY <1>0, <1>2, <2>2 DEF Shaped
      <3>2. Planned(d)'
        BY <1>2, <1>3, <2>1, <3>1 DEF Planned
      <3>3. Reclaimed(d)'
        BY <1>2, <1>3, <2>1, <3>1 DEF Reclaimed
      <3>4. Owned(d)'
        BY <1>2, <1>3, <2>1, <3>1 DEF Owned, Planned
      <3> QED
        BY <3>2, <3>3, <3>4
    <2>3. CASE d = c
      <3>1. pc'[d] = "verify" /\ pc[d] = "sweep"
        BY <1>0, <1>2, <2>3 DEF Shaped
      <3>2. Planned(d)'
        BY <1>2, <1>3, <2>1, <3>1 DEF Planned, Session, Staging
      <3>3. Reclaimed(d)'
        BY <1>2, <1>3, <2>1, <3>1 DEF Reclaimed
      <3>4. Owned(d)'
        BY <1>2, <1>3, <2>1, <3>1 DEF Owned, Planned
      <3> QED
        BY <3>2, <3>3, <3>4
    <2> QED
      BY <2>2, <2>3
  <1> QED
    BY <1>4, <1>5, <1>6 DEF IInv

\* The patch is refused, or accepted and about to be written.
LEMMA PatchStep ==
    ASSUME IInv, NEW c \in Calls, Patch(c)
    PROVE  IInv'
  <1> USE DEF fileVars, flags, sudoVars, Goto, Return
  <1>0. /\ Shaped /\ Named /\ Planned(c) /\ Reclaimed(c) /\ Owned(c)
        /\ want[c] = {} /\ tmp[c] = Absent /\ ~sudo[c] /\ ~created[c]
    <2>1. Shaped /\ Named /\ Planned(c) /\ Reclaimed(c) /\ Owned(c)
      BY DEF IInv
    <2> QED
      BY <2>1 DEF Patch, Planned
  <1>1. /\ UNCHANGED <<target, tmp, posix, created, up, script, stat>>
        /\ pc[c] = "patch"
    BY DEF Patch
  <1>2. CASE /\ UNCHANGED <<sudo, want>> /\ pc' = [pc EXCEPT ![c] = "done"]
             /\ result' = [result EXCEPT ![c] = "refused"]
    <2>1. OnlySudo' <=> OnlySudo
      BY <1>2 DEF OnlySudo
    <2>2. \A d \in Calls : d # c => Same(d)
      BY <1>0, <1>1, <1>2 DEF Same, Shaped
    <2>3. TmpFiles' /\ TargetFile'
      BY <1>0, <1>1, SameFiles DEF Shaped
    <2>4. Shaped'
      BY <1>0, <1>1, <1>2, <2>3 DEF Shaped, Points, Results
    <2>5. Named'
      BY <1>0, <1>1, <1>2, <2>1 DEF Named, Shaped
    <2>6. Planned(c)' /\ Reclaimed(c)' /\ Owned(c)'
      BY <1>0, <1>1, <1>2, <2>1 DEF Planned, Reclaimed, Owned, Shaped, Session, Staging
    <2> QED
      BY <2>1, <2>2, <2>4, <2>5, <2>6, OneCall DEF CallOK
  <1>3. ASSUME NEW a \in Asks[c], NEW expected, expected # {}, a.use_sudo \in BOOLEAN,
               want' = [want EXCEPT ![c] = expected], sudo' = [sudo EXCEPT ![c] = a.use_sudo],
               pc' = [pc EXCEPT ![c] = IF a.use_sudo THEN "stat" ELSE "open"],
               UNCHANGED result
        PROVE  IInv'
    <2>0. /\ want'[c] # {} /\ sudo'[c] = a.use_sudo
          /\ pc'[c] = IF a.use_sudo THEN "stat" ELSE "open"
      BY <1>0, <1>3 DEF Shaped
    <2>1. \A d \in Calls : d # c => Same(d)
      BY <1>0, <1>1, <1>3 DEF Same, Shaped
    <2>2. OnlySudo' => OnlySudo
      BY <1>0, <2>1 DEF OnlySudo, Same
    <2>3. TmpFiles' /\ TargetFile'
      BY <1>0, <1>1, SameFiles DEF Shaped
    <2>4. Shaped'
      <3>1. want' = [d \in Calls |-> want'[d]]
        BY <1>0, <1>3 DEF Shaped
      <3>2. sudo' \in [Calls -> BOOLEAN] /\ pc' \in [Calls -> Points]
        BY <1>0, <1>3 DEF Shaped, Points, Session
      <3> QED
        BY <1>0, <1>1, <1>3, <2>3, <3>1, <3>2 DEF Shaped
    <2>5. Named'
      BY <1>0, <1>1, <1>3, <2>2 DEF Named, Shaped
    <2>6. Planned(c)'
      BY <1>0, <1>1, <2>0 DEF Planned, Session, Staging, ScriptRuns
    <2>7. Reclaimed(c)' /\ Owned(c)'
      BY <1>0, <1>1, <1>3, <2>0, <2>2 DEF Reclaimed, Owned, Planned, ScriptRuns
    <2> QED
      BY <2>1, <2>2, <2>4, <2>5, <2>6, <2>7, OneCall DEF CallOK
  <1>4. PICK a \in Asks[c] :
          \/ /\ UNCHANGED <<sudo, want>> /\ pc' = [pc EXCEPT ![c] = "done"]
             /\ result' = [result EXCEPT ![c] = "refused"]
          \/ /\ want' = [want EXCEPT ![c] =
                           Expected(page[c].file_hash[2], a.patches, a.auto_newline)]
             /\ sudo' = [sudo EXCEPT ![c] = a.use_sudo]
             /\ pc' = [pc EXCEPT ![c] = IF a.use_sudo THEN "stat" ELSE "open"]
             /\ UNCHANGED result
    BY DEF Patch
  <1>5. a.use_sudo \in BOOLEAN
    BY EditorAssumption
  <1>6. Expected(page[c].file_hash[2], a.patches, a.auto_newline) # {}
    BY SomeExpected
  <1> QED
    BY <1>2, <1>3, <1>4, <1>5, <1>6

\* Another program saves the file.
LEMMA ForeignStep ==
    ASSUME IInv, ForeignWrite
    PROVE  IInv'
  <1>0. Shaped /\ Named
    BY DEF IInv
  <1>1. /\ UNCHANGED <<tmp, posix, pc, sudo, want, created, up, script, stat, result>>
        /\ (OnlySudo' <=> OnlySudo)
    BY DEF ForeignWrite, planVars, flags, sudoVars, OnlySudo
  <1>2. PICK t : target' = [text |-> t, owner |-> IF target = Absent THEN "other" ELSE target.owner]
    BY DEF ForeignWrite
  <1>3. TargetFile' /\ target' # Absent
    <2>1. (IF target = Absent THEN "other" ELSE target.owner) \in Owners
      BY <1>0, TargetOwner DEF Shaped, Owners
    <2> QED
      BY <1>2, <2>1 DEF TargetFile, Absent
  <1>4. Shaped'
    BY <1>0, <1>1, <1>3 DEF Shaped, TmpFiles, IsTmp
  <1>5. Named'
    BY <1>0, <1>1, <1>2, <1>3 DEF Named
  <1>6. ASSUME NEW d \in Calls PROVE Planned(d)' /\ Reclaimed(d)' /\ Owned(d)'
    <2>1. Planned(d) /\ Reclaimed(d) /\ Owned(d)
      BY DEF IInv
    <2> QED
      BY <1>1, <2>1 DEF Planned, Reclaimed, Owned
  <1> QED
    BY <1>4, <1>5, <1>6 DEF IInv

-----------------------------------------------------------------------------
(* The theorems.                                                           *)

\* The inductive invariant of calls that read and patch one file.
THEOREM EditorInvariant == Spec => []IInv
  <1>1. Init => IInv
    <2> SUFFICES ASSUME Init PROVE IInv
      OBVIOUS
    <2> USE DEF Init
    <2>1. TmpFiles /\ TargetFile
      BY DEF TmpFiles, IsTmp, TargetFile, Owners
    <2>2. Shaped
      BY <2>1 DEF Shaped, Points, Session, ScriptRuns, Owners, Results
    <2>3. Named
      BY DEF Named, Absent
    <2>4. ASSUME NEW c \in Calls PROVE Planned(c) /\ Reclaimed(c) /\ Owned(c)
      BY DEF Planned, Reclaimed, Owned, Session, Staging, ScriptRuns
    <2> QED
      BY <2>2, <2>3, <2>4 DEF IInv
  <1>2. IInv /\ [Next]_vars => IInv'
    <2> SUFFICES ASSUME IInv, [Next]_vars PROVE IInv'
      OBVIOUS
    <2>1. CASE UNCHANGED vars
      <3>1. /\ Shaped' <=> Shaped
            /\ Named' <=> Named
        BY <2>1 DEF vars, Shaped, TmpFiles, IsTmp, TargetFile, Named, OnlySudo
      <3>2. ASSUME NEW c \in Calls
            PROVE  CallOK(c) => CallOK(c)'
        BY <2>1 DEF vars, CallOK, Planned, Reclaimed, Owned, OnlySudo
      <3> QED
        BY <3>1, <3>2 DEF IInv, CallOK
    <2>2. CASE Next
      BY <2>2, ReadEffect, ReadingStep, StagingStep, PlacingStep, RenamedStep, TmpStep,
         RemoveTargetStep, BreakStep, SweepStep,
         PatchStep, ForeignStep DEF Next
    <2> QED
      BY <2>1, <2>2
  <1> QED
    BY <1>1, <1>2, PTL DEF Spec

\* With posix-rename the path names a file at every moment, and while only
\* sudo patches write it, it keeps its owner, however the calls' requests and
\* scripts interleave, break or go on alone.
THEOREM FileKept == Spec => []FileSurvives
  <1>1. IInv => FileSurvives
    BY DEF IInv, Named, FileSurvives, OnlySudo
  <1> QED
    BY <1>1, EditorInvariant, PTL

\* A call that knows of its tmp file and could remove it has left none.
THEOREM TmpFilesReclaimed == Spec => []TmpReclaimed
  <1>1. IInv => TmpReclaimed
    BY DEF IInv, Reclaimed, TmpReclaimed
  <1> QED
    BY <1>1, EditorInvariant, PTL

-----------------------------------------------------------------------------
(* Folds: FoldLeft, by which the lines are joined and the patches applied.  *)

\* A set of natural numbers that is not empty and bounded has a greatest one.
LEMMA LargestOf ==
    ASSUME NEW b \in Nat, NEW T \in SUBSET (0 .. b), T # {}
    PROVE  Max(T) \in T /\ \A m \in T : Max(T) >= m
  <1> DEFINE U == {b - k : k \in T}
  <1>1. \A k \in T : k \in Int /\ b - k \in Nat
    OBVIOUS
  <1>2. U \in SUBSET Nat /\ U # {}
    BY <1>1
  <1> HIDE DEF U
  <1>3. PICK u \in U : \A v \in U : u <= v
    BY <1>2, Smallest
  <1> USE DEF U
  <1>4. PICK k \in T : u = b - k
    BY <1>3
  <1>5. \A m \in T : k >= m
    <2> SUFFICES ASSUME NEW m \in T PROVE k >= m
      OBVIOUS
    <2>1. b - m \in U
      OBVIOUS
    <2>2. b - k <= b - m
      BY <1>3, <1>4, <2>1
    <2> QED
      BY <1>1, <2>2
  <1> QED
    BY <1>5 DEF Max

\* f folds step over the subsets of 1 .. m, the greatest member last.
Folds(f, m, X, base, step) ==
    /\ f \in [SUBSET (1 .. m) -> X]
    /\ \A s \in SUBSET (1 .. m) :
          f[s] = IF s = {} THEN base ELSE step[Max(s)][f[s \ {Max(s)}]]

\* The greatest number of a set that has b and no greater one is b.
LEMMA GreatestIs ==
    ASSUME NEW b \in Nat, NEW T \in SUBSET (0 .. b), b \in T
    PROVE  Max(T) = b
  <1>1. b \in T /\ \A y \in T : b >= y
    OBVIOUS
  <1>2. \A x \in T : (\A y \in T : x >= y) => x = b
    OBVIOUS
  <1> QED
    BY <1>1, <1>2 DEF Max

\* A fold over 1 .. m - 1 is extended to m.
LEMMA FoldExtended ==
    ASSUME NEW n \in Nat, NEW m \in 1 .. n, NEW X, NEW base \in X,
           NEW step \in [1 .. n -> [X -> X]], NEW f, Folds(f, m - 1, X, base, step)
    PROVE  \E h : Folds(h, m, X, base, step)
  <1> DEFINE h == [s \in SUBSET (1 .. m) |->
                      IF m \in s THEN step[m][f[s \ {m}]] ELSE f[s]]
  <1>1. \A s \in SUBSET (1 .. m) : m \notin s => s \in SUBSET (1 .. m - 1)
    OBVIOUS
  <1>2. \A s \in SUBSET (1 .. m) : s \ {m} \in SUBSET (1 .. m - 1)
    OBVIOUS
  <1>3. \A s \in SUBSET (1 .. m - 1) :
           f[s] \in X /\ f[s] = IF s = {} THEN base ELSE step[Max(s)][f[s \ {Max(s)}]]
    BY DEF Folds
  <1>4. h \in [SUBSET (1 .. m) -> X]
    <2> SUFFICES ASSUME NEW s \in SUBSET (1 .. m)
                 PROVE  (IF m \in s THEN step[m][f[s \ {m}]] ELSE f[s]) \in X
      OBVIOUS
    <2>1. step[m] \in [X -> X]
      OBVIOUS
    <2> QED
      BY <1>1, <1>2, <1>3, <2>1
  <1>5. ASSUME NEW s \in SUBSET (1 .. m)
        PROVE  h[s] = IF s = {} THEN base ELSE step[Max(s)][h[s \ {Max(s)}]]
    <2>1. CASE m \in s
      <3>1. Max(s) = m
        <4>1. s \in SUBSET (0 .. m)
          OBVIOUS
        <4> QED
          BY <2>1, <4>1, GreatestIs
      <3>2. h[s \ {m}] = f[s \ {m}]
        OBVIOUS
      <3> QED
        BY <2>1, <3>1, <3>2
    <2>2. CASE m \notin s
      <3>1. CASE s = {}
        BY <1>3, <2>2, <3>1
      <3>2. CASE s # {}
        <4>1. s \in SUBSET (0 .. m)
          OBVIOUS
        <4>2. Max(s) \in s
          <5>1. m \in Nat
            OBVIOUS
          <5> HIDE DEF h
          <5> QED
            BY <3>2, <4>1, <5>1, LargestOf
        <4>3. h[s \ {Max(s)}] = f[s \ {Max(s)}]
          BY <2>2
        <4>4. h[s] = f[s]
          BY <2>2
        <4>5. f[s] = step[Max(s)][f[s \ {Max(s)}]]
          BY <1>1, <1>3, <2>2, <3>2
        <4> HIDE DEF h
        <4> QED
          BY <3>2, <4>3, <4>4, <4>5
      <3> QED
        BY <3>1, <3>2
    <2> QED
      BY <2>1, <2>2
  <1> HIDE DEF h
  <1>6. Folds(h, m, X, base, step)
    BY <1>4, <1>5 DEF Folds
  <1> QED
    BY <1>6

\* There is a fold over 1 .. n: the function that FoldLeft chooses exists.
LEMMA FoldExists ==
    ASSUME NEW n \in Nat, NEW X, NEW base \in X, NEW step \in [1 .. n -> [X -> X]]
    PROVE  \E f : Folds(f, n, X, base, step)
  <1> DEFINE Bad == {m \in 0 .. n : ~ \E f : Folds(f, m, X, base, step)}
  <1>1. Bad \in SUBSET Nat
    OBVIOUS
  <1>2. 0 \notin Bad
    <2> DEFINE f == [s \in {{}} |-> base]
    <2>1. SUBSET (1 .. 0) = {{}}
      OBVIOUS
    <2>2. f \in [SUBSET (1 .. 0) -> X]
      BY <2>1
    <2>3. \A s \in SUBSET (1 .. 0) : s = {} /\ f[s] = base
      BY <2>1
    <2>4. Folds(f, 0, X, base, step)
      BY <2>2, <2>3 DEF Folds
    <2> HIDE DEF f
    <2> QED
      BY <2>4
  <1>3. ASSUME NEW m \in Bad, \A k \in Bad : m <= k
        PROVE  FALSE
    <2>1. m \in 1 .. n /\ m - 1 \in 0 .. n /\ m - 1 \notin Bad
      BY <1>2, <1>3
    <2>2. PICK f : Folds(f, m - 1, X, base, step)
      BY <2>1
    <2>3. \E h : Folds(h, m, X, base, step)
      BY <2>1, <2>2, FoldExtended
    <2> QED
      BY <1>3, <2>3
  <1>4. Bad = {}
    <2> HIDE DEF Bad
    <2> QED
      BY <1>1, <1>3, Smallest
  <1>5. n \in 0 .. n
    OBVIOUS
  <1>6. n \notin Bad
    BY <1>4
  <1> QED
    BY <1>5, <1>6

-----------------------------------------------------------------------------
\* Joining lines adds one after the other to what is there.
LEMMA JoinSteps ==
    ASSUME NEW lines \in Seq(Texts)
    PROVE  \E F : /\ F \in [0 .. Len(lines) -> Texts]
                  /\ F[0] = <<>>
                  /\ \A k \in 1 .. Len(lines) : F[k] = F[k - 1] \o lines[k]
                  /\ Join(lines) = F[Len(lines)]
  <1> DEFINE n == Len(lines)
             step == [k \in 1 .. n |-> [t \in Texts |-> t \o lines[k]]]
             g == CHOOSE g : g = [s \in SUBSET DOMAIN lines |->
                            IF s = {} THEN <<>> ELSE g[s \ {Max(s)}] \o lines[Max(s)]]
  <1>1. n \in Nat /\ DOMAIN lines = 1 .. n /\ \A k \in 1 .. n : lines[k] \in Texts
    OBVIOUS
  <1>2. <<>> \in Texts /\ \A t, u \in Texts : t \o u \in Texts
    BY DEF Texts
  <1>3. step \in [1 .. n -> [Texts -> Texts]]
    BY <1>1, <1>2
  <1>4. PICK f : Folds(f, n, Texts, <<>>, step)
    <2> HIDE DEF step, n
    <2> QED
      BY <1>1, <1>2, <1>3, FoldExists
  <1>5. f = [s \in SUBSET DOMAIN lines |->
                IF s = {} THEN <<>> ELSE f[s \ {Max(s)}] \o lines[Max(s)]]
    <2>1. f \in [SUBSET (1 .. n) -> Texts]
      BY <1>4 DEF Folds
    <2>2. ASSUME NEW s \in SUBSET (1 .. n), s # {}
          PROVE  f[s] = f[s \ {Max(s)}] \o lines[Max(s)]
      <3>1. f[s] = step[Max(s)][f[s \ {Max(s)}]]
        BY <1>4, <2>2 DEF Folds
      <3>2. Max(s) \in 1 .. n
        <4>1. s \in SUBSET (0 .. n)
          BY <1>1
        <4>2. Max(s) \in s
          BY <1>1, <2>2, <4>1, LargestOf
        <4> QED
          BY <4>2
      <3>3. f[s \ {Max(s)}] \in Texts
        BY <2>1
      <3> QED
        BY <3>1, <3>2, <3>3
    <2>3. f[{}] = <<>>
      BY <1>4 DEF Folds
    <2>4. f = [s \in SUBSET (1 .. n) |-> f[s]]
      BY <2>1
    <2>5. \A s \in SUBSET (1 .. n) :
             f[s] = IF s = {} THEN <<>> ELSE f[s \ {Max(s)}] \o lines[Max(s)]
      BY <2>2, <2>3
    <2> QED
      BY <1>1, <2>4, <2>5
  <1>6. g = [s \in SUBSET DOMAIN lines |->
                            IF s = {} THEN <<>> ELSE g[s \ {Max(s)}] \o lines[Max(s)]]
    BY <1>5
  <1>7. Join(lines) = g[DOMAIN lines]
    BY <1>6 DEF Join, FoldLeft, MapThenFoldSet
  <1> DEFINE F == [k \in 0 .. n |-> g[1 .. k]]
             Bad == {k \in 0 .. n : F[k] \notin Texts}
  <1> HIDE DEF g, step
  <1>8. F[0] = <<>>
    <2>1. 1 .. 0 = {} /\ 0 \in 0 .. n
      BY <1>1
    <2> QED
      BY <1>6, <2>1
  <1>9. ASSUME NEW k \in 1 .. n
        PROVE  F[k] = F[k - 1] \o lines[k]
    <2>1. k - 1 \in 0 .. n /\ k \in 0 .. n /\ k \in Nat /\ k - 1 \in Nat
      BY <1>1
    <2>2. 1 .. k \in SUBSET DOMAIN lines /\ 1 .. k # {}
      <3>1. DOMAIN lines = 1 .. n /\ n \in Nat
        BY <1>1
      <3>2. \A i \in 1 .. k : i \in 1 .. n
        BY <2>1, <3>1
      <3>3. k \in 1 .. k
        BY <2>1
      <3> QED
        BY <3>1, <3>2, <3>3
    <2>3. Max(1 .. k) = k
      <3>1. 1 .. k \in SUBSET (0 .. k) /\ k \in 1 .. k
        BY <2>1
      <3> QED
        BY <2>1, <3>1, GreatestIs
    <2>4. (1 .. k) \ {k} = 1 .. k - 1
      BY <2>1
    <2>5. g[1 .. k] = g[1 .. k - 1] \o lines[k]
      BY <1>6, <2>2, <2>3, <2>4
    <2> QED
      BY <2>1, <2>5
  <1>10. Bad = {}
    <2>1. Bad \in SUBSET Nat /\ 0 \notin Bad
      BY <1>1, <1>2, <1>8
    <2>2. ASSUME NEW m \in Bad, \A k \in Bad : m <= k
          PROVE  FALSE
      <3>1. m \in 1 .. n /\ m - 1 \in 0 .. n /\ m - 1 \notin Bad
        BY <1>1, <2>1, <2>2
      <3>2. F[m - 1] \in Texts
        BY <3>1
      <3>3. F[m] = F[m - 1] \o lines[m]
        BY <1>9, <3>1
      <3>4. F[m] \in Texts
        BY <1>1, <1>2, <3>1, <3>2, <3>3
      <3> QED
        BY <2>2, <3>4
    <2> HIDE DEF Bad
    <2> QED
      BY <2>1, <2>2, Smallest
  <1>11. F \in [0 .. n -> Texts]
    BY <1>10
  <1>12. Join(lines) = F[n]
    BY <1>1, <1>7
  <1> HIDE DEF F
  <1> QED
    BY <1>8, <1>9, <1>11, <1>12


\* Texts put together.
LEMMA TextsConcat ==
    ASSUME NEW x \in Texts, NEW y \in Texts
    PROVE  x \o y \in Texts /\ x \o <<>> = x /\ <<>> \o x = x
  <1>1. x \in Seq(Tokens) /\ y \in Seq(Tokens)
    BY DEF Texts
  <1>2. x \o <<>> = x /\ <<>> \o x = x
    BY <1>1, ConcatEmptySeq
  <1>3. x \o y \in Seq(Tokens)
    BY <1>1
  <1> QED
    BY <1>2, <1>3 DEF Texts

\* Three sequences may be concatenated from either end.  The definition keeps
\* the law, which makes the provers run in circles, to the sequences meant.
Associate(x, y, w) == (x \o y) \o w = x \o (y \o w)

\* Lists of lines may.
LEMMA ListsAssociate ==
    ASSUME NEW x \in Seq(Texts), NEW y \in Seq(Texts), NEW w \in Seq(Texts)
    PROVE  Associate(x, y, w)
  BY ConcatAssociative DEF Associate

\* Texts may.
LEMMA TextsAssociate ==
    ASSUME NEW x \in Texts, NEW y \in Texts, NEW w \in Texts
    PROVE  Associate(x, y, w)
  <1>1. x \in Seq(Tokens) /\ y \in Seq(Tokens) /\ w \in Seq(Tokens)
    BY DEF Texts
  <1> QED
    BY <1>1, ConcatAssociative DEF Associate

\* Joined lines are a text.
LEMMA JoinTyped ==
    ASSUME NEW lines \in Seq(Texts)
    PROVE  Join(lines) \in Texts
  <1>1. PICK F : /\ F \in [0 .. Len(lines) -> Texts]
                 /\ Join(lines) = F[Len(lines)]
    BY JoinSteps
  <1>2. Len(lines) \in 0 .. Len(lines)
    OBVIOUS
  <1> QED
    BY <1>1, <1>2

\* No lines are the empty text.
LEMMA JoinNone == Join(<<>>) = <<>>
  <1>1. <<>> \in Seq(Texts) /\ Len(<<>>) = 0
    OBVIOUS
  <1>2. PICK F : F[0] = <<>> /\ Join(<<>>) = F[Len(<<>>)]
    BY <1>1, JoinSteps
  <1> QED
    BY <1>1, <1>2

\* One more line at the end is joined at the end.
LEMMA JoinLast ==
    ASSUME NEW p \in Seq(Texts), NEW q \in Seq(Texts), Len(q) = Len(p) + 1,
           \A i \in 1 .. Len(p) : q[i] = p[i]
    PROVE  Join(q) = Join(p) \o q[Len(q)]
  <1> DEFINE n == Len(p)
  <1>1. PICK F : /\ F[0] = <<>>
                 /\ \A k \in 1 .. Len(p) : F[k] = F[k - 1] \o p[k]
                 /\ Join(p) = F[Len(p)]
    BY JoinSteps
  <1>2. PICK G : /\ G[0] = <<>>
                 /\ \A k \in 1 .. Len(q) : G[k] = G[k - 1] \o q[k]
                 /\ Join(q) = G[Len(q)]
    BY JoinSteps
  <1>3. n \in Nat
    OBVIOUS
  <1> DEFINE Bad == {k \in 0 .. n : F[k] # G[k]}
  <1>4. Bad = {}
    <2>1. Bad \in SUBSET Nat /\ 0 \notin Bad
      BY <1>1, <1>2, <1>3
    <2>2. ASSUME NEW m \in Bad, \A k \in Bad : m <= k
          PROVE  FALSE
      <3>1. m \in 1 .. n /\ m \in 1 .. Len(q) /\ m - 1 \in 0 .. n /\ m - 1 \notin Bad
        BY <1>3, <2>1, <2>2
      <3>2. F[m - 1] = G[m - 1]
        BY <3>1
      <3>3. F[m] = G[m]
        BY <1>1, <1>2, <3>1, <3>2
      <3> QED
        BY <2>2, <3>3
    <2> HIDE DEF Bad
    <2> QED
      BY <2>1, <2>2, Smallest
  <1>5. F[n] = G[n]
    <2>1. n \in 0 .. n /\ n \notin Bad
      BY <1>3, <1>4
    <2> QED
      BY <2>1
  <1>6. Len(q) \in 1 .. Len(q) /\ Len(q) - 1 = n
    BY <1>3
  <1>7. G[Len(q)] = G[n] \o q[Len(q)]
    BY <1>2, <1>6
  <1> QED
    BY <1>1, <1>2, <1>5, <1>7

\* Joining two lists of lines is joining what each joins to.
LEMMA JoinConcat ==
    ASSUME NEW p \in Seq(Texts), NEW q \in Seq(Texts)
    PROVE  Join(p \o q) = Join(p) \o Join(q)
  <1> DEFINE n == Len(q)
             upto(k) == SubSeq(q, 1, k)
             Bad == {k \in 0 .. n : Join(p \o upto(k)) # Join(p) \o Join(upto(k))}
  <1>1. n \in Nat
    OBVIOUS
  <1>2. \A k \in 0 .. n : /\ upto(k) \in Seq(Texts) /\ Len(upto(k)) = k
                          /\ \A i \in 1 .. k : upto(k)[i] = q[i]
    <2> SUFFICES ASSUME NEW k \in 0 .. n
                 PROVE  /\ upto(k) \in Seq(Texts) /\ Len(upto(k)) = k
                        /\ \A i \in 1 .. k : upto(k)[i] = q[i]
      OBVIOUS
    <2>1. \A i \in 1 .. k : q[i] \in Texts
      BY <1>1
    <2>2. k \in Int /\ 1 \in Int
      BY <1>1
    <2> QED
      BY <2>1, <2>2, SubSeqProperties
  <1>3. Bad \in SUBSET Nat
    BY <1>1
  <1>4. 0 \notin Bad
    <2>1. upto(0) = <<>>
      OBVIOUS
    <2>2. p \o <<>> = p
      BY ConcatEmptySeq
    <2>3. Join(p) \o <<>> = Join(p)
      BY JoinTyped, ConcatEmptySeq DEF Texts
    <2> QED
      BY <2>1, <2>2, <2>3, JoinNone
  <1> HIDE DEF upto
  <1>5. ASSUME NEW m \in Bad, \A k \in Bad : m <= k
        PROVE  FALSE
    <2>1. m \in 1 .. n /\ m \in 0 .. n /\ m - 1 \in 0 .. n /\ m - 1 \notin Bad
      <3>1. m \in 0 .. n /\ m # 0
        BY <1>4, <1>5
      <3>2. m \in 1 .. n /\ m - 1 \in 0 .. n /\ m - 1 \in Int /\ ~(m <= m - 1)
        BY <1>1, <3>1
      <3> HIDE DEF Bad
      <3> QED
        BY <1>5, <3>1, <3>2
    <2>2. PICK a \in Seq(Texts) : a = upto(m - 1) /\ Len(a) = m - 1
      BY <1>2, <2>1
    <2>3. PICK b \in Seq(Texts) : b = upto(m) /\ Len(b) = m
      BY <1>2, <2>1
    <2>4. Join(p \o a) = Join(p) \o Join(a)
      BY <2>1, <2>2
    <2>5. \A i \in 1 .. Len(a) : b[i] = a[i]
      <3>1. \A i \in 1 .. m - 1 : a[i] = q[i]
        BY <1>2, <2>1, <2>2
      <3>2. \A i \in 1 .. m : b[i] = q[i]
        BY <1>2, <2>1, <2>3
      <3>3. Len(a) = m - 1 /\ \A i \in 1 .. m - 1 : i \in 1 .. m
        BY <1>1, <2>1, <2>2
      <3> QED
        BY <3>1, <3>2, <3>3
    <2>6. Join(b) = Join(a) \o b[Len(b)]
      <3>1. Len(b) = Len(a) + 1
        BY <1>1, <2>1, <2>2, <2>3
      <3> QED
        BY <2>5, <3>1, JoinLast
    <2>7. /\ p \o a \in Seq(Texts) /\ p \o b \in Seq(Texts)
          /\ Len(p \o b) = Len(p \o a) + 1
          /\ (p \o b)[Len(p \o b)] = b[Len(b)]
          /\ \A i \in 1 .. Len(p \o a) : (p \o b)[i] = (p \o a)[i]
      <3>1. /\ p \o a \in Seq(Texts) /\ Len(p \o a) = Len(p) + Len(a)
            /\ \A i \in 1 .. Len(p) + Len(a) : (p \o a)[i] = IF i <= Len(p) THEN p[i] ELSE a[i - Len(p)]
        BY ConcatProperties
      <3>2. /\ p \o b \in Seq(Texts) /\ Len(p \o b) = Len(p) + Len(b)
            /\ \A i \in 1 .. Len(p) + Len(b) : (p \o b)[i] = IF i <= Len(p) THEN p[i] ELSE b[i - Len(p)]
        BY ConcatProperties
      <3>3. Len(p) \in Nat /\ Len(a) \in Nat /\ Len(b) = Len(a) + 1
        BY <1>1, <2>1, <2>2, <2>3
      <3>4. (p \o b)[Len(p) + Len(b)] = b[Len(b)]
        BY <3>2, <3>3
      <3>5. ASSUME NEW i \in 1 .. Len(p) + Len(a) PROVE (p \o b)[i] = (p \o a)[i]
        <4>1. i \in 1 .. Len(p) + Len(b)
          BY <3>3
        <4>2. CASE i <= Len(p)
          BY <3>1, <3>2, <4>1, <4>2
        <4>3. CASE ~(i <= Len(p))
          <5>1. i - Len(p) \in 1 .. Len(a)
            BY <3>3, <4>3
          <5> QED
            BY <2>5, <3>1, <3>2, <4>1, <4>3, <5>1
        <4> QED
          BY <4>2, <4>3
      <3> QED
        BY <3>1, <3>2, <3>3, <3>4, <3>5
    <2>8. Join(p \o b) = Join(p \o a) \o b[Len(b)]
      BY <2>7, JoinLast
    <2>9. (Join(p) \o Join(a)) \o b[Len(b)] = Join(p) \o (Join(a) \o b[Len(b)])
      <3>1. PICK x \in Texts, y \in Texts : x = Join(p) /\ y = Join(a)
        BY JoinTyped
      <3>2. PICK w \in Texts : w = b[Len(b)]
        BY <1>1, <2>1, <2>3
      <3>3. Associate(x, y, w)
        BY TextsAssociate
      <3> QED
        BY <3>1, <3>2, <3>3 DEF Associate
    <2>10. Join(p \o b) = Join(p) \o Join(b)
      BY <2>4, <2>6, <2>8, <2>9
    <2> QED
      BY <1>5, <2>3, <2>10
  <1>6. Bad = {}
    <2> HIDE DEF Bad
    <2> QED
      BY <1>3, <1>5, Smallest
  <1>7. n \in 0 .. n /\ n \notin Bad
    BY <1>1, <1>6
  <1>8. upto(n) = q
    BY SubSeqFull DEF upto
  <1> QED
    BY <1>7, <1>8

\* Adjacent lists of lines of a text.
LEMMA JoinAdjacent ==
    ASSUME NEW lines \in Seq(Texts), NEW m \in 1 .. Len(lines) + 1,
           NEW k \in m - 1 .. Len(lines), NEW n \in k .. Len(lines)
    PROVE  Join(SubSeq(lines, m, k)) \o Join(SubSeq(lines, k + 1, n)) = Join(SubSeq(lines, m, n))
  <1>1. SubSeq(lines, m, k) \o SubSeq(lines, k + 1, n) = SubSeq(lines, m, n)
    BY ConcatAdjacentSubSeq
  <1>2. SubSeq(lines, m, k) \in Seq(Texts) /\ SubSeq(lines, k + 1, n) \in Seq(Texts)
    <2>1. \A i \in m .. k : lines[i] \in Texts
      OBVIOUS
    <2>2. \A i \in k + 1 .. n : lines[i] \in Texts
      OBVIOUS
    <2>3. m \in Int /\ k \in Int /\ n \in Int /\ k + 1 \in Int
      OBVIOUS
    <2> QED
      BY <2>1, <2>2, <2>3, SubSeqProperties
  <1> QED
    BY <1>1, <1>2, JoinConcat


-----------------------------------------------------------------------------
(* The lines of a text.                                                    *)

\* Where its lines end, how many end at or before a token, where line k ends.
Ends(text) == {i \in DOMAIN text : text[i] = NL \/ i = Len(text)}
EndsBy(text, e) == Cardinality({i \in Ends(text) : i <= e})
Nth(text, k) == IF k = 0 THEN 0 ELSE CHOOSE e \in Ends(text) : EndsBy(text, e) = k

\* SplitKeepends cuts after each end.
LEMMA SplitIs ==
    ASSUME NEW text
    PROVE  SplitKeepends(text) =
              [k \in 1 .. Cardinality(Ends(text)) |-> SubSeq(text, Nth(text, k - 1) + 1, Nth(text, k))]
  BY DEF SplitKeepends, Ends, EndsBy, Nth

\* The ends are finitely many, and so are those by a token.
LEMMA EndsFinite ==
    ASSUME NEW text \in Texts
    PROVE  /\ Len(text) \in Nat /\ Ends(text) \in SUBSET (1 .. Len(text))
           /\ IsFiniteSet(Ends(text)) /\ Cardinality(Ends(text)) \in Nat
  <1>1. Len(text) \in Nat /\ DOMAIN text = 1 .. Len(text)
    BY DEF Texts
  <1>2. Ends(text) \in SUBSET (1 .. Len(text))
    BY <1>1 DEF Ends
  <1>3. IsFiniteSet(Ends(text))
    <2>1. IsFiniteSet(1 .. Len(text))
      BY <1>1, FS_Interval
    <2> QED
      BY <1>2, <2>1, FS_Subset
  <1> QED
    BY <1>1, <1>2, <1>3, FS_CardinalityType

\* More ends lie at or before a later token.
LEMMA EndsByRises ==
    ASSUME NEW text \in Texts, NEW d \in Int, NEW e \in Int, d <= e
    PROVE  EndsBy(text, d) \in Nat /\ EndsBy(text, e) \in Nat /\ EndsBy(text, d) <= EndsBy(text, e)
  <1> DEFINE D == {i \in Ends(text) : i <= d}
             E == {i \in Ends(text) : i <= e}
  <1>1. \A i \in Ends(text) : i \in Int
    BY EndsFinite
  <1>2. D \in SUBSET E /\ E \in SUBSET Ends(text)
    BY <1>1
  <1>3. IsFiniteSet(Ends(text))
    BY EndsFinite
  <1> HIDE DEF D, E
  <1>4. IsFiniteSet(E)
    BY <1>2, <1>3, FS_Subset
  <1>5. IsFiniteSet(D) /\ Cardinality(D) <= Cardinality(E)
    BY <1>2, <1>4, FS_Subset
  <1>6. Cardinality(D) \in Nat /\ Cardinality(E) \in Nat
    BY <1>4, <1>5, FS_CardinalityType
  <1> USE DEF D, E
  <1> QED
    BY <1>5, <1>6 DEF EndsBy

\* None lies before the first token, all by the last; an end counts itself.
LEMMA EndsByNext ==
    ASSUME NEW text \in Texts, NEW e \in Nat \ {0}
    PROVE  EndsBy(text, e) = EndsBy(text, e - 1) + IF e \in Ends(text) THEN 1 ELSE 0
  <1> DEFINE D == {i \in Ends(text) : i <= e - 1}
             E == {i \in Ends(text) : i <= e}
  <1>1. \A i \in Ends(text) : i \in Int
    BY EndsFinite
  <1>2. IsFiniteSet(D)
    <2>1. IsFiniteSet(Ends(text)) /\ D \in SUBSET Ends(text)
      BY EndsFinite
    <2> HIDE DEF D
    <2> QED
      BY <2>1, FS_Subset
  <1>3. Cardinality(D) \in Nat
    BY <1>2, FS_CardinalityType
  <1>4. CASE e \in Ends(text)
    <2>1. E = D \cup {e} /\ e \notin D
      <3>1. \A i \in Ends(text) : i <= e <=> i <= e - 1 \/ i = e
        BY <1>1
      <3>2. ~(e <= e - 1) /\ e <= e
        OBVIOUS
      <3> QED
        BY <1>4, <3>1, <3>2, Zenon
    <2>2. Cardinality(D \cup {e}) = Cardinality(D) + 1
      <3> HIDE DEF D, E
      <3> QED
        BY <1>2, <2>1, FS_AddElement
    <2> QED
      BY <1>4, <2>1, <2>2 DEF EndsBy
  <1>5. CASE e \notin Ends(text)
    <2>1. E = D
      BY <1>1, <1>5
    <2>2. EndsBy(text, e) = EndsBy(text, e - 1)
      BY <2>1 DEF EndsBy
    <2>3. EndsBy(text, e - 1) \in Nat
      BY <1>3 DEF EndsBy
    <2> QED
      BY <1>5, <2>2, <2>3
  <1> QED
    BY <1>4, <1>5

\* Before a text there is no end of a line, by its end there are all of them.
LEMMA EndsByBounds ==
    ASSUME NEW text \in Texts
    PROVE  EndsBy(text, 0) = 0 /\ EndsBy(text, Len(text)) = Cardinality(Ends(text))
  <1>1. {i \in Ends(text) : i <= 0} = {}
    BY EndsFinite
  <1>2. {i \in Ends(text) : i <= Len(text)} = Ends(text)
    BY EndsFinite
  <1> QED
    BY <1>1, <1>2, FS_EmptySet DEF EndsBy

\* Line k ends where the k-th end is.
LEMMA NthIs ==
    ASSUME NEW text \in Texts, NEW k \in 1 .. Cardinality(Ends(text))
    PROVE  Nth(text, k) \in Ends(text) /\ EndsBy(text, Nth(text, k)) = k
  <1> DEFINE n == Cardinality(Ends(text))
             T == {e \in 0 .. Len(text) : EndsBy(text, e) >= k}
  <1>1. n \in Nat /\ Len(text) \in Nat /\ k \in Nat /\ k # 0
    BY EndsFinite
  <1>2. Len(text) \in T
    BY <1>1, EndsByBounds
  <1>3. PICK e \in T : \A m \in T : e <= m
    <2>1. T \in SUBSET Nat /\ T # {}
      BY <1>1, <1>2
    <2> HIDE DEF T
    <2> QED
      BY <2>1, Smallest
  <1>4. e # 0
    BY <1>1, <1>3, EndsByBounds
  <1>5. e \in Nat \ {0} /\ e - 1 \in 0 .. Len(text)
    BY <1>1, <1>3, <1>4
  <1>6. e - 1 \notin T
    BY <1>1, <1>3, <1>5
  <1>7. EndsBy(text, e - 1) \in Nat /\ EndsBy(text, e - 1) < k
    <2>1. EndsBy(text, e - 1) \in Nat
      <3>1. e - 1 \in Int /\ e - 1 <= e - 1
        BY <1>5
      <3> QED
        BY <3>1, EndsByRises
    <2> QED
      BY <1>1, <1>5, <1>6, <2>1
  <1>8. EndsBy(text, e) = EndsBy(text, e - 1) + IF e \in Ends(text) THEN 1 ELSE 0
    BY <1>5, EndsByNext
  <1>9. EndsBy(text, e) >= k
    BY <1>3
  <1>10. e \in Ends(text) /\ EndsBy(text, e) = k
    BY <1>1, <1>7, <1>8, <1>9
  <1> QED
    BY <1>1, <1>10 DEF Nth

\* The ends of the lines rise, from before the first token to the last.
LEMMA NthRises ==
    ASSUME NEW text \in Texts, NEW k \in 1 .. Cardinality(Ends(text))
    PROVE  /\ Nth(text, k - 1) \in 0 .. Len(text) /\ Nth(text, k) \in 1 .. Len(text)
           /\ Nth(text, k - 1) < Nth(text, k)
  <1>1. Cardinality(Ends(text)) \in Nat /\ Len(text) \in Nat
    BY EndsFinite
  <1>2. Nth(text, k) \in 1 .. Len(text) /\ EndsBy(text, Nth(text, k)) = k
    BY NthIs, EndsFinite
  <1>3. CASE k = 1
    BY <1>1, <1>2, <1>3 DEF Nth
  <1>4. CASE k # 1
    <2>1. k - 1 \in 1 .. Cardinality(Ends(text))
      BY <1>1, <1>4
    <2>2. PICK d \in 1 .. Len(text) : d = Nth(text, k - 1) /\ EndsBy(text, d) = k - 1
      BY <2>1, NthIs, EndsFinite
    <2>3. PICK e \in 1 .. Len(text) : e = Nth(text, k) /\ EndsBy(text, e) = k
      BY <1>2
    <2>4. ASSUME e <= d PROVE FALSE
      <3>1. e \in Int /\ d \in Int
        BY <1>1
      <3>2. EndsBy(text, e) <= EndsBy(text, d)
        BY <2>4, <3>1, EndsByRises
      <3>3. k <= k - 1 /\ k \in Int
        BY <1>1, <2>2, <2>3, <3>2
      <3> QED
        BY <3>3
    <2> QED
      BY <1>1, <2>2, <2>3, <2>4
  <1> QED
    BY <1>3, <1>4

\* The last line ends where the text ends.
LEMMA NthLast ==
    ASSUME NEW text \in Texts
    PROVE  Nth(text, Cardinality(Ends(text))) = Len(text)
  <1> DEFINE n == Cardinality(Ends(text))
  <1>1. n \in Nat /\ Len(text) \in Nat /\ DOMAIN text = 1 .. Len(text)
    BY EndsFinite DEF Texts
  <1>2. CASE Len(text) = 0
    <2>1. Ends(text) = {}
      BY <1>2, EndsFinite
    <2>2. n = 0
      BY <2>1, FS_EmptySet
    <2> QED
      BY <1>2, <2>2 DEF Nth
  <1>3. CASE Len(text) # 0
    <2>1. Len(text) \in Ends(text)
      BY <1>1, <1>3 DEF Ends
    <2>2. PICK l \in Nat \ {0} : l = Len(text)
      BY <1>1, <1>3
    <2>3. EndsBy(text, l) = EndsBy(text, l - 1) + 1
      BY <2>1, <2>2, EndsByNext
    <2>4. EndsBy(text, l - 1) \in Nat /\ EndsBy(text, l) = n
      <3>1. l - 1 \in Int /\ l - 1 <= l - 1
        BY <2>2
      <3> QED
        BY <2>2, <3>1, EndsByRises, EndsByBounds
    <2>5. n \in 1 .. n
      BY <1>1, <2>3, <2>4
    <2>6. PICK e \in 1 .. l : e = Nth(text, n) /\ EndsBy(text, e) = n
      BY <2>2, <2>5, NthIs, EndsFinite
    <2>7. ASSUME e <= l - 1 PROVE FALSE
      <3>1. e \in Int /\ l - 1 \in Int
        BY <2>2
      <3>2. EndsBy(text, e) <= EndsBy(text, l - 1)
        BY <2>7, <3>1, EndsByRises
      <3> QED
        BY <1>1, <2>3, <2>4, <2>6, <3>2
    <2> QED
      BY <2>2, <2>6, <2>7
  <1> QED
    BY <1>2, <1>3

\* Lines are texts.
LEMMA LinesTyped ==
    ASSUME NEW text \in Texts
    PROVE  /\ SplitKeepends(text) \in Seq(Texts)
           /\ Len(SplitKeepends(text)) = Cardinality(Ends(text))
  <1> DEFINE n == Cardinality(Ends(text))
  <1>1. n \in Nat /\ Len(text) \in Nat
    BY EndsFinite
  <1>2. ASSUME NEW k \in 1 .. n
        PROVE  SubSeq(text, Nth(text, k - 1) + 1, Nth(text, k)) \in Texts
    <2>1. PICK d \in 0 .. Len(text), e \in 1 .. Len(text) : d = Nth(text, k - 1) /\ e = Nth(text, k)
      BY NthRises
    <2>2. \A i \in d + 1 .. e : text[i] \in Tokens
      BY <1>1 DEF Texts
    <2>3. d + 1 \in Int /\ e \in Int
      BY <1>1
    <2>4. SubSeq(text, d + 1, e) \in Seq(Tokens)
      BY <2>2, <2>3, SubSeqProperties
    <2> QED
      BY <2>1, <2>4 DEF Texts
  <1>3. SplitKeepends(text) = [k \in 1 .. n |-> SubSeq(text, Nth(text, k - 1) + 1, Nth(text, k))]
    BY SplitIs
  <1> DEFINE lines == [k \in 1 .. n |-> SubSeq(text, Nth(text, k - 1) + 1, Nth(text, k))]
  <1>4. \A k \in 1 .. n : lines[k] \in Texts
    BY <1>2
  <1>5. DOMAIN lines = 1 .. n /\ lines = [k \in 1 .. n |-> lines[k]]
    OBVIOUS
  <1> HIDE DEF lines
  <1>6. lines \in Seq(Texts) /\ Len(lines) = n
    BY <1>1, <1>4, <1>5
  <1> USE DEF lines
  <1> QED
    BY <1>3, <1>6

\* The first lines of a text joined are what comes before the end of the last
\* of them.
LEMMA FirstLines ==
    ASSUME NEW text \in Texts, NEW k \in 0 .. Cardinality(Ends(text))
    PROVE  Join(SubSeq(SplitKeepends(text), 1, k)) = SubSeq(text, 1, Nth(text, k))
  <1> DEFINE n == Cardinality(Ends(text))
             lines == SplitKeepends(text)
             first(j) == SubSeq(lines, 1, j)
             Bad == {j \in 0 .. n : Join(first(j)) # SubSeq(text, 1, Nth(text, j))}
  <1>1. n \in Nat /\ lines \in Seq(Texts) /\ Len(lines) = n
    BY LinesTyped, EndsFinite
  <1>2. Bad \in SUBSET Nat
    BY <1>1
  <1>3. 0 \notin Bad
    <2>1. first(0) = <<>> /\ SubSeq(text, 1, 0) = <<>> /\ Nth(text, 0) = 0
      BY DEF Nth
    <2> QED
      BY <2>1, JoinNone
  <1>4. ASSUME NEW m \in Bad, \A j \in Bad : m <= j
        PROVE  FALSE
    <2>1. m \in 1 .. n /\ m - 1 \in 0 .. n /\ m - 1 \notin Bad
      BY <1>1, <1>3, <1>4
    <2>2. Join(first(m - 1)) = SubSeq(text, 1, Nth(text, m - 1))
      BY <2>1
    <2>3. PICK d \in 0 .. Len(text), e \in 1 .. Len(text) :
             d = Nth(text, m - 1) /\ e = Nth(text, m) /\ d < e
      BY <2>1, NthRises
    <2>4. lines[m] = SubSeq(text, d + 1, e)
      BY <2>1, <2>3, SplitIs
    <2>5. SubSeq(text, 1, d) \o SubSeq(text, d + 1, e) = SubSeq(text, 1, e)
      <3>1. Len(text) \in Nat
        BY EndsFinite
      <3>2. 1 \in 1 .. Len(text) + 1 /\ d \in 1 - 1 .. Len(text) /\ e \in d .. Len(text)
        BY <2>3, <3>1
      <3>3. text \in Seq(Tokens)
        BY DEF Texts
      <3> QED
        BY <3>2, <3>3, ConcatAdjacentSubSeq
    <2>6. Join(first(m)) = Join(first(m - 1)) \o lines[m]
      <3>1. \A j \in 0 .. n : /\ first(j) \in Seq(Texts) /\ Len(first(j)) = j
                              /\ \A i \in 1 .. j : first(j)[i] = lines[i]
        <4> HIDE DEF lines, n
        <4> SUFFICES ASSUME NEW j \in 0 .. n
                     PROVE  /\ first(j) \in Seq(Texts) /\ Len(first(j)) = j
                            /\ \A i \in 1 .. j : first(j)[i] = lines[i]
          OBVIOUS
        <4>1. \A i \in 1 .. j : lines[i] \in Texts
          BY <1>1
        <4>2. j \in Int /\ 1 \in Int
          BY <1>1
        <4> QED
          BY <4>1, <4>2, SubSeqProperties
      <3> HIDE DEF first, lines, n
      <3>2. PICK p \in Seq(Texts) : p = first(m - 1) /\ Len(p) = m - 1 /\ \A i \in 1 .. m - 1 : p[i] = lines[i]
        BY <2>1, <3>1
      <3>3. PICK q \in Seq(Texts) : q = first(m) /\ Len(q) = m /\ \A i \in 1 .. m : q[i] = lines[i]
        BY <1>1, <2>1, <3>1
      <3>4. Len(q) = Len(p) + 1 /\ \A i \in 1 .. Len(p) : q[i] = p[i]
        BY <1>1, <2>1, <3>2, <3>3
      <3>5. q[Len(q)] = lines[m]
        BY <1>1, <2>1, <3>3
      <3>6. Join(q) = Join(p) \o q[Len(q)]
        BY <3>4, JoinLast
      <3> QED
        BY <3>2, <3>3, <3>5, <3>6
    <2>7. Join(first(m)) = SubSeq(text, 1, Nth(text, m))
      BY <2>2, <2>3, <2>4, <2>5, <2>6
    <2> QED
      BY <1>4, <2>7
  <1>5. Bad = {}
    <2> HIDE DEF Bad
    <2> QED
      BY <1>2, <1>4, Smallest
  <1> QED
    BY <1>5

\* The lines of a text joined are the text.
LEMMA SplitJoined ==
    ASSUME NEW text \in Texts
    PROVE  Join(SplitKeepends(text)) = text
  <1> DEFINE n == Cardinality(Ends(text))
  <1>1. n \in Nat /\ n \in 0 .. n
    BY EndsFinite
  <1>2. Join(SubSeq(SplitKeepends(text), 1, n)) = SubSeq(text, 1, Nth(text, n))
    BY <1>1, FirstLines
  <1>3. SubSeq(SplitKeepends(text), 1, n) = SplitKeepends(text)
    BY LinesTyped, SubSeqFull
  <1>4. SubSeq(text, 1, Len(text)) = text
    BY SubSeqFull DEF Texts
  <1> QED
    BY <1>2, <1>3, <1>4, NthLast


-----------------------------------------------------------------------------
(* Pages.                                                                  *)

\* The last line asked for, and a walk's text up to a line.
Requested(text, end) ==
    IF end = ToEOF THEN Len(SplitKeepends(text))
    ELSE Greater(0, Lesser(Len(SplitKeepends(text)), end))
FirstLinesOf(text, k) == Join(SubSeq(SplitKeepends(text), 1, k))
IsEnd(end) == end = ToEOF \/ end \in Int

\* No more lines are asked for than there are.
LEMMA RequestedBounds ==
    ASSUME NEW text \in Texts, NEW end, IsEnd(end)
    PROVE  /\ Len(SplitKeepends(text)) \in Nat
           /\ Requested(text, end) \in 0 .. Len(SplitKeepends(text))
  <1>1. Len(SplitKeepends(text)) \in Nat
    BY LinesTyped, EndsFinite
  <1> QED
    BY <1>1 DEF Requested, IsEnd, Greater, Lesser

\* Some lines of a text joined are a text.
LEMMA SomeLines ==
    ASSUME NEW lines \in Seq(Texts), NEW m \in Nat \ {0}, NEW n \in 0 .. Len(lines)
    PROVE  SubSeq(lines, m, n) \in Seq(Texts) /\ Join(SubSeq(lines, m, n)) \in Texts
  <1>1. \A i \in m .. n : lines[i] \in Texts
    OBVIOUS
  <1>2. m \in Int /\ n \in Int
    OBVIOUS
  <1>3. SubSeq(lines, m, n) \in Seq(Texts)
    BY <1>1, <1>2, SubSeqProperties
  <1> QED
    BY <1>3, JoinTyped

\* A page is a run of lines, at least one if any is asked for, and the next
\* page begins with the line after them.
RunOfLines(p, lines, start, n) ==
    \/ start > n /\ p.next_start = 0 /\ p.content = <<>>
    \/ start <= n /\ p.next_start = 0 /\ p.content = Join(SubSeq(lines, start, n))
    \/ \E cut \in start .. n : p.next_start = cut + 1 /\ p.content = Join(SubSeq(lines, start, cut))

\* What Page returns is such a run.
LEMMA PageIs ==
    ASSUME NEW text \in Texts, NEW start \in Nat \ {0}, NEW end, IsEnd(end), NEW limit \in Nat
    PROVE  RunOfLines(Page(text, start, end, limit), SplitKeepends(text), start, Requested(text, end))
  <1> DEFINE lines == SplitKeepends(text)
             s == Greater(0, start - 1)
             n == Requested(text, end)
             cap == Lesser(n, s + Greater(1, limit))
             fits(k) == k = s + 1 \/ Len(Join(SubSeq(lines, s + 1, k))) <= READ_MAX_BYTES
             T == {k \in s + 1 .. cap : fits(k)}
             p == Page(text, start, end, limit)
  <1>1. n \in Nat /\ s \in Nat /\ s + 1 = start /\ cap \in Nat /\ cap <= n
    BY RequestedBounds DEF Greater, Lesser
  <1>2. CASE s >= n
    BY <1>1, <1>2 DEF Page, Requested, RunOfLines
  <1>3. CASE ~(s >= n)
    <2>1. s + 1 \in s + 1 .. cap
      BY <1>1, <1>3 DEF Greater, Lesser
    <2>2. T \in SUBSET (0 .. cap) /\ T # {}
      BY <1>1, <2>1
    <2>3. Max(T) \in T
      <3> HIDE DEF T
      <3> QED
        BY <1>1, <2>2, LargestOf
    <2>4. Max(T) \in start .. n
      BY <1>1, <2>3
    <2>5. p = [content |-> Join(SubSeq(lines, s + 1, Max(T))),
               next_start |-> IF Max(T) < n THEN Max(T) + 1 ELSE 0]
      BY <1>3 DEF Page, Requested
    <2> HIDE DEF T, p, lines, n, s, cap
    <2>6. PICK cut \in start .. n : cut = Max(T)
      BY <2>4
    <2>7. CASE cut < n
      BY <1>1, <2>5, <2>6, <2>7 DEF lines, n, p, RunOfLines
    <2>8. CASE ~(cut < n)
      <3>1. cut = n
        BY <1>1, <2>8
      <3> QED
        BY <1>1, <2>5, <2>6, <2>8, <3>1 DEF lines, n, p, RunOfLines
    <2> QED
      BY <2>7, <2>8
  <1> QED
    BY <1>2, <1>3

\* What a page has is a text, and it is followed by a later one or none.
LEMMA PageTyped ==
    ASSUME NEW text \in Texts, NEW start \in Nat \ {0}, NEW end, IsEnd(end), NEW limit \in Nat
    PROVE  LET p == Page(text, start, end, limit)
           IN  /\ p.content \in Texts
               /\ p.next_start = 0 \/ (p.next_start \in Nat \ {0} /\ p.next_start > start)
  <1> DEFINE p == Page(text, start, end, limit)
             lines == SplitKeepends(text)
             n == Requested(text, end)
  <1>1. n \in 0 .. Len(lines) /\ Len(lines) \in Nat /\ lines \in Seq(Texts)
    BY RequestedBounds, LinesTyped
  <1>2. <<>> \in Texts
    BY DEF Texts
  <1>3. \/ p.next_start = 0 /\ p.content = <<>>
        \/ p.next_start = 0 /\ p.content = Join(SubSeq(lines, start, n))
        \/ \E cut \in start .. n : p.next_start = cut + 1 /\ p.content = Join(SubSeq(lines, start, cut))
    <2>1. RunOfLines(p, lines, start, n)
      BY PageIs
    <2> HIDE DEF p, lines, n
    <2> QED
      BY <2>1 DEF RunOfLines
  <1> HIDE DEF p, lines, n
  <1>4. CASE p.next_start = 0 /\ p.content = <<>>
    BY <1>2, <1>4 DEF p
  <1>5. CASE p.next_start = 0 /\ p.content = Join(SubSeq(lines, start, n))
    BY <1>1, <1>5, SomeLines DEF p
  <1>6. ASSUME NEW cut \in start .. n, p.next_start = cut + 1,
               p.content = Join(SubSeq(lines, start, cut))
        PROVE  p.content \in Texts /\ p.next_start \in Nat \ {0} /\ p.next_start > start
    <2>1. cut \in 0 .. Len(lines) /\ cut + 1 \in Nat \ {0} /\ cut + 1 > start
      BY <1>1
    <2> QED
      BY <1>1, <1>6, <2>1, SomeLines
  <1> QED
    BY <1>3, <1>4, <1>5, <1>6 DEF p

\* A reader that goes on from next_start gets on, whatever the lengths of
\* the lines, the byte cap, the limit and the end asked for: a page has at
\* least a line (remote_read).
THEOREM PagingAdvances ==
    ASSUME NEW text \in Texts, NEW start \in Nat \ {0}, NEW end \in Int \cup {ToEOF},
           NEW limit \in Nat
    PROVE  LET next == Page(text, start, end, limit).next_start
           IN  next = 0 \/ next > start
  <1>1. IsEnd(end)
    BY DEF IsEnd
  <1> QED
    BY <1>1, PageTyped

\* A walk that has the lines before a page of the same text has, with the
\* page, the lines before the next page, or all it asked for.
Continues(p, text, start, end) ==
    LET content == FirstLinesOf(text, start - 1) \o p.content
    IN  IF p.next_start = 0
        THEN content = FirstLinesOf(text, Requested(text, end))
        ELSE /\ p.next_start - 1 <= Requested(text, end)
             /\ content = FirstLinesOf(text, p.next_start - 1)

\* A page read from where the walk stopped continues it.
LEMMA PageContinues ==
    ASSUME NEW text \in Texts, NEW start \in Nat \ {0}, NEW end, IsEnd(end), NEW limit \in Nat,
           start - 1 <= Requested(text, end)
    PROVE  Continues(Page(text, start, end, limit), text, start, end)
  <1> DEFINE p == Page(text, start, end, limit)
             lines == SplitKeepends(text)
             n == Requested(text, end)
             content == FirstLinesOf(text, start - 1) \o p.content
  <1>1. n \in 0 .. Len(lines) /\ Len(lines) \in Nat /\ lines \in Seq(Texts)
    BY RequestedBounds, LinesTyped
  <1>2. \/ start > n /\ p.next_start = 0 /\ p.content = <<>>
        \/ start <= n /\ p.next_start = 0 /\ p.content = Join(SubSeq(lines, start, n))
        \/ \E cut \in start .. n : p.next_start = cut + 1 /\ p.content = Join(SubSeq(lines, start, cut))
    <2>1. RunOfLines(p, lines, start, n)
      BY PageIs
    <2> HIDE DEF p, lines, n
    <2> QED
      BY <2>1 DEF RunOfLines
  <1>3. start - 1 <= n
    OBVIOUS
  <1>4. ASSUME NEW cut \in start .. n
        PROVE  FirstLinesOf(text, start - 1) \o Join(SubSeq(lines, start, cut)) = FirstLinesOf(text, cut)
    <2> HIDE DEF lines, n
    <2>1. PICK k \in Nat : k = start - 1
      OBVIOUS
    <2>2. k \in 1 - 1 .. Len(lines) /\ cut \in k .. Len(lines) /\ k + 1 = start /\ 1 \in 1 .. Len(lines) + 1
      BY <1>1, <2>1
    <2>3. Join(SubSeq(lines, 1, k)) \o Join(SubSeq(lines, k + 1, cut)) = Join(SubSeq(lines, 1, cut))
      BY <1>1, <2>2, JoinAdjacent
    <2> QED
      BY <2>1, <2>2, <2>3 DEF FirstLinesOf, lines
  <1>5. CASE start > n /\ p.next_start = 0 /\ p.content = <<>>
    <2>1. n = start - 1
      BY <1>1, <1>3, <1>5
    <2>2. FirstLinesOf(text, n) \in Texts
      BY <1>1, SomeLines DEF FirstLinesOf
    <2> QED
      BY <1>5, <2>1, <2>2, TextsConcat DEF Continues
  <1>6. CASE start <= n /\ p.next_start = 0 /\ p.content = Join(SubSeq(lines, start, n))
    <2>1. n \in start .. n
      BY <1>1, <1>6
    <2> QED
      BY <1>4, <1>6, <2>1 DEF Continues
  <1>7. ASSUME NEW cut \in start .. n, p.next_start = cut + 1,
               p.content = Join(SubSeq(lines, start, cut))
        PROVE  /\ p.next_start # 0 /\ p.next_start - 1 <= n
               /\ content = FirstLinesOf(text, p.next_start - 1)
    <2>1. cut + 1 # 0 /\ cut + 1 - 1 = cut /\ cut <= n
      BY <1>1
    <2> QED
      BY <1>4, <1>7, <2>1
  <1> QED
    BY <1>2, <1>5, <1>6, <1>7 DEF Continues

-----------------------------------------------------------------------------
(* Patches.                                                                *)

IsPatch(p) == p.start \in Int /\ IsEnd(p.end) /\ p.contents \in Texts
ArePatches(patches) ==
    /\ Len(patches) \in Nat /\ DOMAIN patches = 1 .. Len(patches)
    /\ \A i \in 1 .. Len(patches) : IsPatch(patches[i])

\* What the tool is given.
LEMMA AsksPatches ==
    ASSUME NEW c \in Calls, NEW a \in Asks[c]
    PROVE  ArePatches(a.patches) /\ a.use_sudo \in BOOLEAN
  BY EditorAssumption DEF ArePatches, IsPatch, IsEnd, Texts

\* What replaces the lines of a patch is a text.
LEMMA NewTyped ==
    ASSUME NEW p, IsPatch(p), NEW lines, NEW auto_newline
    PROVE  NewContents(p, lines, auto_newline) \in Texts
  <1>1. p.contents \in Seq(Tokens) /\ NL \in Tokens
    BY EditorAssumption DEF IsPatch, Texts
  <1>2. Append(p.contents, NL) \in Seq(Tokens)
    BY <1>1, AppendProperties
  <1> QED
    BY <1>1, <1>2 DEF NewContents, Texts

\* The end of a patch lies in the file.
LEMMA EndBounds ==
    ASSUME NEW p, IsPatch(p), NEW total \in Nat
    PROVE  EIdx(p, total) \in 0 .. total
  BY DEF IsPatch, IsEnd, EIdx, Greater, Lesser

\* One patch before another in the order they are applied in.
Before(patches, i, j) ==
    \/ patches[i].start > patches[j].start
    \/ patches[i].start = patches[j].start /\ i < j

\* The patches have an order to be applied in.
LEMMA ApplyOrder ==
    ASSUME NEW patches, ArePatches(patches)
    PROVE  \E o \in [1 .. Len(patches) -> 1 .. Len(patches)] :
              \A i, j \in 1 .. Len(patches) : i < j => Before(patches, o[i], o[j])
  <1> DEFINE n == Len(patches)
             earlier(i) == {j \in 1 .. n : Before(patches, j, i)}
             rank == [i \in 1 .. n |-> Cardinality(earlier(i))]
  <1>1. n \in Nat /\ \A i \in 1 .. n : patches[i].start \in Int
    BY DEF ArePatches, IsPatch
  <1> HIDE DEF n
  <1>2. IsFiniteSet(1 .. n)
    BY <1>1, FS_Interval
  <1>3. \A i \in 1 .. n : IsFiniteSet(earlier(i)) /\ Cardinality(earlier(i)) \in Nat
    <2> SUFFICES ASSUME NEW i \in 1 .. n
                 PROVE  IsFiniteSet(earlier(i)) /\ Cardinality(earlier(i)) \in Nat
      OBVIOUS
    <2>1. earlier(i) \in SUBSET (1 .. n)
      OBVIOUS
    <2> HIDE DEF earlier
    <2>2. IsFiniteSet(earlier(i))
      BY <1>2, <2>1, FS_Subset
    <2> QED
      BY <2>2, FS_CardinalityType
  <1>4. rank \in [1 .. n -> Int]
    <2> HIDE DEF earlier
    <2> QED
      BY <1>3
  <1>5. PICK o : Sorts(o, n, rank)
    <2> HIDE DEF rank
    <2> QED
      BY <1>1, <1>4, SomeOrder
  <1>6. /\ o \in [1 .. n -> 1 .. n]
        /\ \A i, j \in 1 .. n : i < j => o[i] # o[j] /\ rank[o[i]] <= rank[o[j]]
    BY <1>5 DEF Sorts
  <1>7. ASSUME NEW i \in 1 .. n, NEW j \in 1 .. n, Before(patches, j, i)
        PROVE  rank[j] < rank[i]
    <2>1. \A k \in earlier(j) : Before(patches, k, i)
      <3> SUFFICES ASSUME NEW k \in 1 .. n, Before(patches, k, j) PROVE Before(patches, k, i)
        OBVIOUS
      <3>1. PICK a \in Int, b \in Int, d \in Int :
               a = patches[k].start /\ b = patches[j].start /\ d = patches[i].start
        BY <1>1
      <3>2. a > b \/ (a = b /\ k < j)
        BY <3>1 DEF Before
      <3>3. b > d \/ (b = d /\ j < i)
        BY <1>7, <3>1 DEF Before
      <3>4. k \in Int /\ j \in Int /\ i \in Int
        BY <1>1
      <3>5. a > d \/ (a = d /\ k < i)
        BY <3>2, <3>3, <3>4
      <3> QED
        BY <3>1, <3>5 DEF Before
    <2>2. earlier(j) \in SUBSET earlier(i)
      BY <2>1
    <2>3. j \in earlier(i)
      BY <1>7
    <2>4. j \notin earlier(j)
      <3>1. patches[j].start \in Int /\ j \in Int
        BY <1>1
      <3> QED
        BY <3>1 DEF Before
    <2>5. PICK A, B : A = earlier(j) /\ B = earlier(i)
      OBVIOUS
    <2> HIDE DEF earlier
    <2>6. /\ IsFiniteSet(A) /\ IsFiniteSet(B) /\ A \in SUBSET B /\ A # B
          /\ Cardinality(A) \in Nat /\ Cardinality(B) \in Nat
      BY <1>3, <2>2, <2>3, <2>4, <2>5
    <2>7. Cardinality(A) <= Cardinality(B) /\ Cardinality(A) # Cardinality(B)
      BY <2>6, FS_Subset
    <2>8. rank[j] = Cardinality(A) /\ rank[i] = Cardinality(B)
      BY <2>5
    <2> QED
      BY <2>6, <2>7, <2>8
  <1>8. ASSUME NEW i \in 1 .. n, NEW j \in 1 .. n, i < j
        PROVE  Before(patches, o[i], o[j])
    <2>1. o[i] \in 1 .. n /\ o[j] \in 1 .. n /\ o[i] # o[j] /\ rank[o[i]] <= rank[o[j]]
      BY <1>6, <1>8
    <2>2. rank[o[i]] \in Int /\ rank[o[j]] \in Int
      BY <1>4, <2>1
    <2> HIDE DEF rank
    <2>3. ~ Before(patches, o[j], o[i])
      BY <1>7, <2>1, <2>2
    <2>4. PICK a \in Int, b \in Int : a = patches[o[i]].start /\ b = patches[o[j]].start
      BY <1>1, <2>1
    <2>5. ~(b > a) /\ ~(b = a /\ o[j] < o[i])
      BY <2>3, <2>4 DEF Before
    <2>6. PICK x \in Int, y \in Int : x = o[i] /\ y = o[j] /\ x # y
      BY <1>1, <2>1
    <2>7. a > b \/ (a = b /\ x < y)
      BY <2>5, <2>6
    <2> QED
      BY <2>4, <2>6, <2>7 DEF Before
  <1>9. \A i, j \in 1 .. n : i < j => Before(patches, o[i], o[j])
    BY <1>8
  <1> QED
    BY <1>6, <1>9 DEF n

\* The patches are applied by falling start, each once.
LEMMA SortedIs ==
    ASSUME NEW patches, ArePatches(patches)
    PROVE  \E o \in [1 .. Len(patches) -> 1 .. Len(patches)] :
              /\ SortedPatches(patches) = [k \in 1 .. Len(patches) |-> patches[o[k]]]
              /\ \A i, j \in 1 .. Len(patches) :
                    i < j => o[i] # o[j] /\ patches[o[i]].start >= patches[o[j]].start
  <1> DEFINE n == Len(patches)
             o == CHOOSE o \in [DOMAIN patches -> DOMAIN patches] :
                     \A i, j \in DOMAIN patches : i < j => Before(patches, o[i], o[j])
  <1>1. n \in Nat /\ DOMAIN patches = 1 .. n /\ \A i \in 1 .. n : patches[i].start \in Int
    BY DEF ArePatches, IsPatch
  <1>2. \E p \in [DOMAIN patches -> DOMAIN patches] :
           \A i, j \in DOMAIN patches : i < j => Before(patches, p[i], p[j])
    BY <1>1, ApplyOrder
  <1>3. /\ o \in [DOMAIN patches -> DOMAIN patches]
        /\ \A i, j \in DOMAIN patches : i < j => Before(patches, o[i], o[j])
    BY <1>2
  <1>4. SortedPatches(patches) = [k \in DOMAIN patches |-> patches[o[k]]]
    BY DEF SortedPatches, Before
  <1> HIDE DEF o, n
  <1>5. ASSUME NEW i \in 1 .. n, NEW j \in 1 .. n, i < j
        PROVE  o[i] # o[j] /\ patches[o[i]].start >= patches[o[j]].start
    <2>1. o[i] \in 1 .. n /\ o[j] \in 1 .. n /\ Before(patches, o[i], o[j])
      BY <1>1, <1>3, <1>5
    <2>2. PICK a \in Int, b \in Int : a = patches[o[i]].start /\ b = patches[o[j]].start
      BY <1>1, <2>1
    <2>3. PICK x \in Int, y \in Int : x = o[i] /\ y = o[j]
      BY <1>1, <2>1
    <2>4. a > b \/ (a = b /\ x < y)
      BY <2>1, <2>2, <2>3 DEF Before
    <2>5. a >= b /\ (x = y => a > b)
      BY <2>4
    <2>6. x # y
      BY <2>2, <2>3, <2>5
    <2> QED
      BY <2>2, <2>3, <2>5, <2>6
  <1> QED
    BY <1>1, <1>3, <1>4, <1>5 DEF n

\* Where a patch ends that is not before its start.
UptoIdx(p, total) == Greater(SIdx(p), EIdx(p, total))

\* Lines are replaced, and those before them stay.
LEMMA SliceSet ==
    ASSUME NEW x \in Seq(Texts), NEW s \in 0 .. Len(x), NEW e \in Int,
           NEW new \in Seq(Texts)
    PROVE  /\ SetSlice(x, s, e, new) \in Seq(Texts)
           /\ Len(SetSlice(x, s, e, new)) >= s
           /\ \A i \in 1 .. s : SetSlice(x, s, e, new)[i] = x[i]
  <1> DEFINE m == Greater(s, e)
             a == SubSeq(x, 1, s)
             b == SubSeq(x, m + 1, Len(x))
  <1>1. s \in Nat /\ m \in Nat /\ Len(x) \in Nat /\ \A i \in 1 .. Len(x) : x[i] \in Texts
    BY DEF Greater
  <1>2. /\ a \in Seq(Texts) /\ Len(a) = s /\ \A i \in 1 .. s : a[i] = x[i]
    <2>1. \A i \in 1 .. s : x[i] \in Texts
      BY <1>1
    <2>2. 1 \in Int /\ s \in Int
      BY <1>1
    <2> QED
      BY <1>1, <2>1, <2>2, SubSeqProperties
  <1>3. b \in Seq(Texts)
    <2> HIDE DEF m
    <2>1. \A i \in m + 1 .. Len(x) : x[i] \in Texts
      BY <1>1
    <2>2. m + 1 \in Int /\ Len(x) \in Int
      BY <1>1
    <2> QED
      BY <2>1, <2>2, SubSeqProperties
  <1>4. SetSlice(x, s, e, new) = (a \o new) \o b
    BY DEF SetSlice
  <1> HIDE DEF a, b, m
  <1>5. /\ a \o new \in Seq(Texts) /\ Len(a \o new) = s + Len(new) /\ Len(new) \in Nat
        /\ \A i \in 1 .. s : (a \o new)[i] = x[i]
    <2>1. /\ a \o new \in Seq(Texts) /\ Len(a \o new) = Len(a) + Len(new)
          /\ \A i \in 1 .. Len(a) + Len(new) : (a \o new)[i] = IF i <= Len(a) THEN a[i] ELSE new[i - Len(a)]
      BY <1>2, ConcatProperties
    <2>2. Len(new) \in Nat
      OBVIOUS
    <2>3. \A i \in 1 .. s : i <= Len(a) /\ i \in 1 .. Len(a) + Len(new)
      BY <1>1, <1>2, <2>2
    <2> QED
      BY <1>2, <2>1, <2>2, <2>3
  <1>6. PICK y \in Seq(Texts) : y = a \o new
    BY <1>5
  <1>7. /\ y \o b \in Seq(Texts) /\ Len(y \o b) = Len(y) + Len(b) /\ Len(b) \in Nat
        /\ \A i \in 1 .. Len(y) + Len(b) : (y \o b)[i] = IF i <= Len(y) THEN y[i] ELSE b[i - Len(y)]
    BY <1>3, ConcatProperties
  <1>8. \A i \in 1 .. s : i <= Len(y) /\ i \in 1 .. Len(y) + Len(b)
    BY <1>1, <1>5, <1>6, <1>7
  <1> QED
    BY <1>1, <1>4, <1>5, <1>6, <1>7, <1>8

\* The lines before the first and after each of the patches.
Applies(G, text, patches, auto_newline) ==
    LET lines == SplitKeepends(text)
        sorted == SortedPatches(patches)
    IN  /\ G \in [0 .. Len(patches) -> Seq(Texts)]
        /\ G[0] = lines
        /\ \A k \in 1 .. Len(patches) :
              G[k] = SetSlice(G[k - 1], SIdx(sorted[k]), EIdx(sorted[k], Len(lines)),
                              SplitKeepends(NewContents(sorted[k], lines, auto_newline)))
        /\ Patched(text, patches, auto_newline) = Join(G[Len(patches)])

\* What the patches are applied to, from the bottom of the file up: the lines
\* before a patch are still there when its turn comes.
LEMMA ApplySteps ==
    ASSUME NEW text \in Texts, NEW patches, ArePatches(patches), NEW auto_newline,
           \A i \in 1 .. Len(patches) : SIdx(patches[i]) \in 0 .. Len(SplitKeepends(text))
    PROVE  \E G : Applies(G, text, patches, auto_newline)
  <1> DEFINE lines == SplitKeepends(text)
             sorted == SortedPatches(patches)
             n == Len(patches)
             at(k) == SIdx(sorted[k])
             to(k) == EIdx(sorted[k], Len(lines))
             new(k) == SplitKeepends(NewContents(sorted[k], lines, auto_newline))
             \* A list too short for a patch does not come up.
             step == [k \in 1 .. n |-> [x \in Seq(Texts) |->
                         IF at(k) <= Len(x) THEN SetSlice(x, at(k), to(k), new(k))
                         ELSE [i \in 1 .. Len(lines) |-> <<>>]]]
             g == CHOOSE g : g = [s \in SUBSET DOMAIN sorted |->
                     IF s = {} THEN lines
                     ELSE SetSlice(g[s \ {Max(s)}], SIdx(sorted[Max(s)]),
                                   EIdx(sorted[Max(s)], Len(lines)),
                                   SplitKeepends(NewContents(sorted[Max(s)], lines, auto_newline)))]
  <1>1. /\ n \in Nat /\ DOMAIN patches = 1 .. n /\ \A i \in 1 .. n : IsPatch(patches[i])
        /\ lines \in Seq(Texts) /\ Len(lines) \in Nat
    BY LinesTyped, EndsFinite DEF ArePatches
  <1>2. PICK o \in [1 .. n -> 1 .. n] :
           /\ sorted = [k \in 1 .. n |-> patches[o[k]]]
           /\ \A i, j \in 1 .. n : i < j => o[i] # o[j] /\ patches[o[i]].start >= patches[o[j]].start
    BY SortedIs
  <1>3. \A k \in 1 .. n : /\ sorted[k] = patches[o[k]] /\ IsPatch(sorted[k])
                          /\ SIdx(sorted[k]) \in 0 .. Len(lines)
    <2> HIDE DEF sorted, lines, n
    <2> QED
      BY <1>1, <1>2 DEF n, lines
  <1>4. DOMAIN sorted = 1 .. n
    <2> HIDE DEF sorted, n
    <2> QED
      BY <1>2
  <1> HIDE DEF sorted, n, lines
  <1>5. \A k \in 1 .. n : /\ at(k) \in 0 .. Len(lines) /\ to(k) \in Int /\ new(k) \in Seq(Texts)
    <2> SUFFICES ASSUME NEW k \in 1 .. n
                 PROVE  at(k) \in 0 .. Len(lines) /\ to(k) \in Int /\ new(k) \in Seq(Texts)
      OBVIOUS
    <2>1. IsPatch(sorted[k])
      BY <1>3
    <2>2. to(k) \in Int
      BY <1>1, <2>1, EndBounds
    <2>3. new(k) \in Seq(Texts)
      BY <2>1, NewTyped, LinesTyped
    <2> QED
      BY <1>3, <2>2, <2>3
  <1>6. \A i, j \in 1 .. n : i < j => at(j) <= at(i)
    <2> SUFFICES ASSUME NEW i \in 1 .. n, NEW j \in 1 .. n, i < j PROVE at(j) <= at(i)
      OBVIOUS
    <2>1. sorted[i].start >= sorted[j].start
      BY <1>2, <1>3
    <2>2. sorted[i].start \in Int /\ sorted[j].start \in Int
      BY <1>3 DEF IsPatch
    <2> QED
      BY <2>1, <2>2 DEF SIdx
  <1> HIDE DEF at, to, new
  <1>7. ASSUME NEW k \in 1 .. n, NEW x \in Seq(Texts), at(k) <= Len(x)
        PROVE  /\ SetSlice(x, at(k), to(k), new(k)) \in Seq(Texts)
               /\ Len(SetSlice(x, at(k), to(k), new(k))) >= at(k)
    <2>1. at(k) \in 0 .. Len(x)
      BY <1>5, <1>7
    <2> QED
      BY <1>5, <2>1, SliceSet
  <1>8. <<>> \in Texts
    BY DEF Texts
  <1>9. [i \in 1 .. Len(lines) |-> <<>>] \in Seq(Texts) /\ Len([i \in 1 .. Len(lines) |-> <<>>]) = Len(lines)
    BY <1>1, <1>8
  <1>10. step \in [1 .. n -> [Seq(Texts) -> Seq(Texts)]]
    <2> SUFFICES ASSUME NEW k \in 1 .. n, NEW x \in Seq(Texts)
                 PROVE  (IF at(k) <= Len(x) THEN SetSlice(x, at(k), to(k), new(k))
                         ELSE [i \in 1 .. Len(lines) |-> <<>>]) \in Seq(Texts)
      OBVIOUS
    <2> QED
      BY <1>7, <1>9
  <1>11. PICK f : Folds(f, n, Seq(Texts), lines, step)
    <2> HIDE DEF step
    <2> QED
      BY <1>1, <1>10, FoldExists
  <1>12. f \in [SUBSET (1 .. n) -> Seq(Texts)] /\ f[{}] = lines
    BY <1>11 DEF Folds
  <1>13. ASSUME NEW s \in SUBSET (1 .. n), s # {}
         PROVE  /\ Max(s) \in s /\ \A z \in s : Max(s) >= z
                /\ f[s] = step[Max(s)][f[s \ {Max(s)}]]
                /\ Len(f[s]) >= at(Max(s))
    <2>1. Max(s) \in s /\ \A z \in s : Max(s) >= z
      <3>1. s \in SUBSET (0 .. n)
        BY <1>1
      <3> HIDE DEF step
      <3> QED
        BY <1>1, <1>13, <3>1, LargestOf
    <2>2. f[s] = step[Max(s)][f[s \ {Max(s)}]]
      <3> HIDE DEF step
      <3> QED
        BY <1>11, <1>13 DEF Folds
    <2>3. PICK k \in 1 .. n, x \in Seq(Texts) : k = Max(s) /\ x = f[s \ {Max(s)}]
      BY <1>12, <2>1
    <2>4. f[s] = IF at(k) <= Len(x) THEN SetSlice(x, at(k), to(k), new(k))
                 ELSE [i \in 1 .. Len(lines) |-> <<>>]
      BY <2>2, <2>3
    <2>5. Len(f[s]) >= at(k)
      BY <1>1, <1>5, <1>7, <1>9, <2>4
    <2> QED
      BY <2>1, <2>2, <2>3, <2>5
  <1>14. ASSUME NEW s \in SUBSET (1 .. n), s # {}
         PROVE  /\ Max(s) \in 1 .. n
                /\ f[s \ {Max(s)}] \in Seq(Texts) /\ Len(f[s \ {Max(s)}]) >= at(Max(s))
                /\ f[s] = SetSlice(f[s \ {Max(s)}], at(Max(s)), to(Max(s)), new(Max(s)))
    <2>1. PICK k \in 1 .. n : k = Max(s) /\ k \in s
      BY <1>13, <1>14
    <2>2. PICK t \in SUBSET (1 .. n) : t = s \ {k}
      OBVIOUS
    <2>3. PICK x \in Seq(Texts) : x = f[t]
      BY <1>12
    <2>4. Len(x) >= at(k)
      <3>1. CASE t = {}
        BY <1>1, <1>5, <1>12, <2>3, <3>1
      <3>2. CASE t # {}
        <4>1. PICK j \in 1 .. n : j = Max(t) /\ j \in t /\ Len(x) >= at(j)
          BY <1>13, <2>3, <3>2
        <4>2. j < k
          <5>1. \A z \in s : k >= z
            BY <1>13, <1>14, <2>1
          <5>2. j \in s /\ j # k
            BY <2>2, <4>1
          <5> QED
            BY <1>1, <5>1, <5>2
        <4>3. at(k) <= at(j)
          BY <1>6, <4>2
        <4>4. at(k) \in Int /\ at(j) \in Int /\ Len(x) \in Nat
          BY <1>5
        <4> QED
          BY <4>1, <4>3, <4>4
      <3> QED
        BY <3>1, <3>2
    <2>5. f[s] = step[k][x]
      BY <1>13, <1>14, <2>1, <2>2, <2>3
    <2>6. f[s] = SetSlice(x, at(k), to(k), new(k))
      BY <1>5, <2>4, <2>5
    <2> QED
      BY <2>1, <2>2, <2>3, <2>4, <2>6
  <1> HIDE DEF step
  <1>15. f = [s \in SUBSET DOMAIN sorted |->
                 IF s = {} THEN lines
                 ELSE SetSlice(f[s \ {Max(s)}], SIdx(sorted[Max(s)]),
                               EIdx(sorted[Max(s)], Len(lines)),
                               SplitKeepends(NewContents(sorted[Max(s)], lines, auto_newline)))]
    <2>1. \A s \in SUBSET (1 .. n) :
             f[s] = IF s = {} THEN lines
                    ELSE SetSlice(f[s \ {Max(s)}], SIdx(sorted[Max(s)]),
                                  EIdx(sorted[Max(s)], Len(lines)),
                                  SplitKeepends(NewContents(sorted[Max(s)], lines, auto_newline)))
      BY <1>12, <1>14 DEF at, to, new
    <2>2. f = [s \in SUBSET (1 .. n) |-> f[s]]
      BY <1>12
    <2> QED
      BY <1>4, <2>1, <2>2
  <1>16. g = [s \in SUBSET DOMAIN sorted |->
                 IF s = {} THEN lines
                 ELSE SetSlice(g[s \ {Max(s)}], SIdx(sorted[Max(s)]),
                               EIdx(sorted[Max(s)], Len(lines)),
                               SplitKeepends(NewContents(sorted[Max(s)], lines, auto_newline)))]
    BY <1>15
  <1>17. Patched(text, patches, auto_newline) = Join(g[DOMAIN sorted])
    BY <1>16 DEF Patched, FoldLeft, MapThenFoldSet, lines, sorted
  <1> DEFINE G == [k \in 0 .. n |-> g[1 .. k]]
             fine(k) == G[k] \in Seq(Texts) /\ \A j \in 1 .. n : k < j => at(j) <= Len(G[k])
             Bad == {k \in 0 .. n : ~fine(k)}
  <1> HIDE DEF g
  <1>18. G[0] = lines
    <2>1. 1 .. 0 = {} /\ 0 \in 0 .. n
      BY <1>1
    <2> QED
      BY <1>4, <1>16, <2>1
  <1>19. ASSUME NEW k \in 1 .. n
         PROVE  G[k] = SetSlice(G[k - 1], at(k), to(k), new(k))
    <2>1. k - 1 \in 0 .. n /\ k \in 0 .. n /\ k \in Nat /\ k - 1 \in Nat
      BY <1>1
    <2>2. 1 .. k \in SUBSET DOMAIN sorted /\ 1 .. k # {}
      <3>1. \A i \in 1 .. k : i \in 1 .. n
        BY <1>1, <2>1
      <3>2. k \in 1 .. k
        BY <2>1
      <3> QED
        BY <1>4, <3>1, <3>2
    <2>3. Max(1 .. k) = k
      <3>1. 1 .. k \in SUBSET (0 .. k) /\ k \in 1 .. k
        BY <2>1
      <3> QED
        BY <2>1, <3>1, GreatestIs
    <2>4. (1 .. k) \ {k} = 1 .. k - 1
      BY <2>1
    <2>5. g[1 .. k] = SetSlice(g[1 .. k - 1], at(k), to(k), new(k))
      BY <1>16, <2>2, <2>3, <2>4 DEF at, to, new
    <2> QED
      BY <2>1, <2>5
  <1>20. fine(0)
    <2>1. \A j \in 1 .. n : at(j) <= Len(lines)
      BY <1>1, <1>5
    <2> HIDE DEF G
    <2> QED
      BY <1>1, <1>18, <2>1
  <1> HIDE DEF G
  <1>21. ASSUME NEW k \in 1 .. n, fine(k - 1)
         PROVE  fine(k)
    <2>1. k \in Int /\ k - 1 < k
      BY <1>1
    <2>2. PICK x \in Seq(Texts) : x = G[k - 1] /\ at(k) <= Len(x)
      BY <1>21, <2>1
    <2>3. G[k] = SetSlice(x, at(k), to(k), new(k))
      BY <1>19, <2>2
    <2>4. PICK y \in Seq(Texts) : y = G[k] /\ Len(y) >= at(k)
      BY <1>7, <2>2, <2>3
    <2>5. ASSUME NEW j \in 1 .. n, k < j PROVE at(j) <= Len(y)
      <3>1. at(j) <= at(k)
        BY <1>6, <2>5
      <3>2. at(j) \in Int /\ at(k) \in Int /\ Len(y) \in Nat
        BY <1>5
      <3> QED
        BY <2>4, <3>1, <3>2
    <2> QED
      BY <2>4, <2>5
  <1> HIDE DEF fine
  <1>22. Bad = {}
    <2>1. Bad \in SUBSET Nat /\ 0 \notin Bad
      BY <1>1, <1>20
    <2>2. ASSUME NEW m \in Bad, \A k \in Bad : m <= k
          PROVE  FALSE
      <3>1. m \in 1 .. n /\ m - 1 \in 0 .. n /\ m - 1 \notin Bad
        BY <1>1, <2>1, <2>2
      <3>2. fine(m - 1)
        BY <3>1
      <3>3. fine(m)
        BY <1>21, <3>1, <3>2
      <3> QED
        BY <2>2, <3>3
    <2> HIDE DEF Bad
    <2> QED
      BY <2>1, <2>2, Smallest
  <1>23. \A k \in 0 .. n : G[k] \in Seq(Texts)
    BY <1>22 DEF fine
  <1>24. G = [k \in 0 .. n |-> G[k]]
    BY DEF G
  <1>25. G \in [0 .. n -> Seq(Texts)]
    BY <1>23, <1>24
  <1>26. Patched(text, patches, auto_newline) = Join(G[n])
    BY <1>1, <1>4, <1>17 DEF G
  <1>27. Applies(G, text, patches, auto_newline)
    BY <1>18, <1>19, <1>25, <1>26 DEF Applies, at, to, new, n, lines, sorted
  <1> QED
    BY <1>27

\* The orders Expected considers, and the text it has for one.
Orders(patches) ==
    {o \in [1 .. Len(patches) -> 1 .. Len(patches)] :
        \A i, j \in 1 .. Len(patches) :
            i < j => o[i] # o[j] /\ patches[o[i]].start <= patches[o[j]].start}
Rendered(text, patches, auto_newline, o) ==
    LET lines == SplitKeepends(text)
        copy(acc, k) ==
            LET p == patches[k]
            IN  [text |-> acc.text \o Join(SubSeq(lines, acc.upto + 1, SIdx(p)))
                                   \o NewContents(p, lines, auto_newline),
                 upto |-> Greater(acc.upto, Greater(SIdx(p), EIdx(p, Len(lines))))]
        acc == FoldLeft(copy, [text |-> <<>>, upto |-> 0], o)
    IN  acc.text \o Join(SubSeq(lines, acc.upto + 1, Len(lines)))

\* Expected has one text for each of the orders.
LEMMA ExpectedIs ==
    ASSUME NEW text, NEW patches, NEW auto_newline
    PROVE  Expected(text, patches, auto_newline) =
              {Rendered(text, patches, auto_newline, o) : o \in Orders(patches)}
  BY DEF Expected, Rendered, Orders

\* What has been copied when the pass from the top has come to a patch.
Copies(H, text, patches, auto_newline, o) ==
    LET lines == SplitKeepends(text)
    IN  /\ H \in [0 .. Len(patches) -> [text : Texts, upto : 0 .. Len(lines)]]
        /\ H[0] = [text |-> <<>>, upto |-> 0]
        /\ \A k \in 1 .. Len(patches) :
              LET p == patches[o[k]]
              IN  H[k] = [text |-> H[k - 1].text
                               \o Join(SubSeq(lines, H[k - 1].upto + 1, SIdx(p)))
                               \o NewContents(p, lines, auto_newline),
                          upto |-> Greater(H[k - 1].upto, Greater(SIdx(p), EIdx(p, Len(lines))))]
        /\ Rendered(text, patches, auto_newline, o) =
              H[Len(patches)].text \o Join(SubSeq(lines, H[Len(patches)].upto + 1, Len(lines)))

\* The pass from the top, step by step.
LEMMA CopySteps ==
    ASSUME NEW text \in Texts, NEW patches, ArePatches(patches), NEW auto_newline,
           \A i \in 1 .. Len(patches) : SIdx(patches[i]) \in 0 .. Len(SplitKeepends(text)),
           NEW o \in [1 .. Len(patches) -> 1 .. Len(patches)]
    PROVE  \E H : Copies(H, text, patches, auto_newline, o)
  <1> DEFINE lines == SplitKeepends(text)
             n == Len(patches)
             X == [text : Texts, upto : 0 .. Len(lines)]
             first == [text |-> <<>>, upto |-> 0]
             copied(acc, k) ==
                 [text |-> acc.text \o Join(SubSeq(lines, acc.upto + 1, SIdx(patches[o[k]])))
                                    \o NewContents(patches[o[k]], lines, auto_newline),
                  upto |-> Greater(acc.upto, Greater(SIdx(patches[o[k]]),
                                                     EIdx(patches[o[k]], Len(lines))))]
             step == [k \in 1 .. n |-> [acc \in X |-> copied(acc, k)]]
             g == CHOOSE g : g = [s \in SUBSET DOMAIN o |->
                     IF s = {} THEN first
                     ELSE [text |-> g[s \ {Max(s)}].text
                               \o Join(SubSeq(lines, g[s \ {Max(s)}].upto + 1,
                                              SIdx(patches[o[Max(s)]])))
                               \o NewContents(patches[o[Max(s)]], lines, auto_newline),
                           upto |-> Greater(g[s \ {Max(s)}].upto,
                                            Greater(SIdx(patches[o[Max(s)]]),
                                                    EIdx(patches[o[Max(s)]], Len(lines))))]]
  <1>1. /\ n \in Nat /\ \A i \in 1 .. n : IsPatch(patches[i])
        /\ lines \in Seq(Texts) /\ Len(lines) \in Nat
        /\ \A k \in 1 .. n : o[k] \in 1 .. n
        /\ \A i \in 1 .. n : SIdx(patches[i]) \in 0 .. Len(lines)
        /\ DOMAIN o = 1 .. n
    BY LinesTyped, EndsFinite DEF ArePatches
  <1> HIDE DEF n, lines
  <1>2. first \in X
    BY <1>1 DEF Texts
  <1>3. ASSUME NEW acc \in X, NEW k \in 1 .. n
        PROVE  copied(acc, k) \in X
    <2>1. PICK p : p = patches[o[k]] /\ IsPatch(p)
      BY <1>1
    <2>2. PICK i \in 0 .. Len(lines), e \in 0 .. Len(lines) : i = SIdx(p) /\ e = EIdx(p, Len(lines))
      BY <1>1, <2>1, EndBounds
    <2>3. PICK u \in 0 .. Len(lines), t \in Texts : u = acc.upto /\ t = acc.text
      OBVIOUS
    <2>4. PICK w \in Texts : w = Join(SubSeq(lines, u + 1, i))
      <3>1. u + 1 \in Nat \ {0}
        BY <1>1
      <3> QED
        BY <1>1, <3>1, SomeLines
    <2>5. PICK v \in Texts : v = NewContents(p, lines, auto_newline)
      BY <2>1, NewTyped
    <2>6. t \o w \in Texts
      BY TextsConcat
    <2>7. (t \o w) \o v \in Texts
      BY <2>6, TextsConcat
    <2>8. Greater(u, Greater(i, e)) \in 0 .. Len(lines)
      BY <1>1 DEF Greater
    <2>9. copied(acc, k) = [text |-> (t \o w) \o v, upto |-> Greater(u, Greater(i, e))]
      BY <2>1, <2>2, <2>3, <2>4, <2>5
    <2> HIDE DEF copied
    <2> QED
      BY <2>7, <2>8, <2>9
  <1>4. step \in [1 .. n -> [X -> X]]
    <2> HIDE DEF copied, X
    <2> QED
      BY <1>3
  <1>5. PICK f : Folds(f, n, X, first, step)
    <2> HIDE DEF step, X, first
    <2> QED
      BY <1>1, <1>2, <1>4, FoldExists
  <1>6. f \in [SUBSET (1 .. n) -> X] /\ f[{}] = first
    BY <1>5 DEF Folds
  <1>7. ASSUME NEW s \in SUBSET (1 .. n), s # {}
        PROVE  f[s] = copied(f[s \ {Max(s)}], Max(s))
    <2>1. Max(s) \in s
      <3>1. s \in SUBSET (0 .. n)
        BY <1>1
      <3> HIDE DEF step, X, first
      <3> QED
        BY <1>1, <1>7, <3>1, LargestOf
    <2>2. f[s] = step[Max(s)][f[s \ {Max(s)}]]
      <3> HIDE DEF step, X, first
      <3> QED
        BY <1>5, <1>7 DEF Folds
    <2>3. PICK k \in 1 .. n, acc \in X : k = Max(s) /\ acc = f[s \ {Max(s)}]
      <3> HIDE DEF X
      <3> QED
        BY <1>6, <2>1
    <2> HIDE DEF copied, X
    <2> QED
      BY <2>2, <2>3
  <1> HIDE DEF step, X
  <1>8. f = [s \in SUBSET DOMAIN o |->
                 IF s = {} THEN first
                 ELSE [text |-> f[s \ {Max(s)}].text
                           \o Join(SubSeq(lines, f[s \ {Max(s)}].upto + 1,
                                          SIdx(patches[o[Max(s)]])))
                           \o NewContents(patches[o[Max(s)]], lines, auto_newline),
                       upto |-> Greater(f[s \ {Max(s)}].upto,
                                        Greater(SIdx(patches[o[Max(s)]]),
                                                EIdx(patches[o[Max(s)]], Len(lines))))]]
    <2>1. \A s \in SUBSET (1 .. n) :
             f[s] = IF s = {} THEN first ELSE copied(f[s \ {Max(s)}], Max(s))
      <3> HIDE DEF copied, first
      <3> QED
        BY <1>6, <1>7
    <2>2. f = [s \in SUBSET (1 .. n) |-> f[s]]
      BY <1>6
    <2>3. f = [s \in SUBSET (1 .. n) |->
                 IF s = {} THEN first ELSE copied(f[s \ {Max(s)}], Max(s))]
      <3> HIDE DEF copied, first
      <3> QED
        BY <2>1, <2>2
    <2> QED
      BY <1>1, <2>3
  <1>9. g = [s \in SUBSET DOMAIN o |->
                 IF s = {} THEN first
                 ELSE [text |-> g[s \ {Max(s)}].text
                           \o Join(SubSeq(lines, g[s \ {Max(s)}].upto + 1,
                                          SIdx(patches[o[Max(s)]])))
                           \o NewContents(patches[o[Max(s)]], lines, auto_newline),
                       upto |-> Greater(g[s \ {Max(s)}].upto,
                                        Greater(SIdx(patches[o[Max(s)]]),
                                                EIdx(patches[o[Max(s)]], Len(lines))))]]
    BY <1>8
  <1>10. Rendered(text, patches, auto_newline, o) =
            g[DOMAIN o].text \o Join(SubSeq(lines, g[DOMAIN o].upto + 1, Len(lines)))
    BY <1>9 DEF Rendered, FoldLeft, MapThenFoldSet, lines
  <1> DEFINE H == [k \in 0 .. n |-> g[1 .. k]]
             Bad == {k \in 0 .. n : H[k] \notin X}
  <1> HIDE DEF g
  <1>11. H[0] = first
    <2>1. 1 .. 0 = {} /\ 0 \in 0 .. n
      BY <1>1
    <2> HIDE DEF first
    <2> QED
      BY <1>1, <1>9, <2>1
  <1>12. ASSUME NEW k \in 1 .. n
         PROVE  H[k] = copied(H[k - 1], k)
    <2>1. k - 1 \in 0 .. n /\ k \in 0 .. n /\ k \in Nat /\ k - 1 \in Nat
      BY <1>1
    <2>2. 1 .. k \in SUBSET DOMAIN o /\ 1 .. k # {}
      <3>1. \A i \in 1 .. k : i \in 1 .. n
        BY <1>1, <2>1
      <3>2. k \in 1 .. k
        BY <2>1
      <3> QED
        BY <1>1, <3>1, <3>2
    <2>3. Max(1 .. k) = k
      <3>1. 1 .. k \in SUBSET (0 .. k) /\ k \in 1 .. k
        BY <2>1
      <3> QED
        BY <2>1, <3>1, GreatestIs
    <2>4. (1 .. k) \ {k} = 1 .. k - 1
      BY <2>1
    <2>5. PICK s \in SUBSET DOMAIN o : s = 1 .. k
      BY <2>2
    <2>6. g[s] = copied(g[s \ {Max(s)}], Max(s))
      BY <1>9, <2>2, <2>5
    <2> HIDE DEF copied
    <2>7. g[1 .. k] = copied(g[1 .. k - 1], k)
      BY <2>3, <2>4, <2>5, <2>6
    <2> QED
      BY <2>1, <2>7
  <1> HIDE DEF H, copied, first
  <1>13. Bad = {}
    <2>1. Bad \in SUBSET Nat /\ 0 \notin Bad
      BY <1>1, <1>2, <1>11
    <2>2. ASSUME NEW m \in Bad, \A k \in Bad : m <= k
          PROVE  FALSE
      <3>1. m \in 1 .. n /\ m - 1 \in 0 .. n /\ m - 1 \notin Bad
        BY <1>1, <2>1, <2>2
      <3>2. H[m - 1] \in X
        BY <3>1
      <3>3. H[m] \in X
        BY <1>3, <1>12, <3>1, <3>2
      <3> QED
        BY <2>2, <3>3
    <2> HIDE DEF Bad
    <2> QED
      BY <2>1, <2>2, Smallest
  <1>14. \A k \in 0 .. n : H[k] \in X
    BY <1>13
  <1>15. H = [k \in 0 .. n |-> H[k]]
    BY DEF H
  <1>16. H \in [0 .. n -> X]
    BY <1>14, <1>15
  <1>17. Rendered(text, patches, auto_newline, o) =
            H[n].text \o Join(SubSeq(lines, H[n].upto + 1, Len(lines)))
    <2>1. n \in 0 .. n
      BY <1>1
    <2>2. H[n] = g[1 .. n]
      BY <2>1 DEF H
    <2>3. DOMAIN o = 1 .. n
      BY <1>1
    <2> QED
      BY <1>10, <2>2, <2>3
  <1> QED
    BY <1>11, <1>12, <1>16, <1>17 DEF copied, first, X, n, lines, Copies

\* The patches of a call that is not refused lie apart, and the order they are
\* applied in, turned round, is one Expected considers.
LEMMA PatchesApart ==
    ASSUME NEW text \in Texts, NEW patches, ArePatches(patches), ~Refused(text, patches)
    PROVE  LET total == Len(SplitKeepends(text))
               n == Len(patches)
               sorted == SortedPatches(patches)
           IN  \E o \in [1 .. n -> 1 .. n] :
                  /\ [j \in 1 .. n |-> o[n + 1 - j]] \in Orders(patches)
                  /\ \A k \in 1 .. n : /\ sorted[k] = patches[o[k]] /\ IsPatch(sorted[k])
                                       /\ SIdx(sorted[k]) \in 0 .. total
                                       /\ EIdx(sorted[k], total) \in 0 .. total
                  /\ \A k \in 2 .. n : UptoIdx(sorted[k], total) <= SIdx(sorted[k - 1])
  <1> DEFINE total == Len(SplitKeepends(text))
             n == Len(patches)
             sorted == SortedPatches(patches)
  <1>1. n \in Nat /\ DOMAIN patches = 1 .. n /\ total \in Nat /\ \A i \in 1 .. n : IsPatch(patches[i])
    BY LinesTyped, EndsFinite DEF ArePatches
  <1>2. PICK o \in [1 .. n -> 1 .. n] :
           /\ sorted = [k \in 1 .. n |-> patches[o[k]]]
           /\ \A i, j \in 1 .. n : i < j => o[i] # o[j] /\ patches[o[i]].start >= patches[o[j]].start
    BY SortedIs
  <1>3. \A i \in 1 .. n : SIdx(patches[i]) \in 0 .. total
    BY <1>1 DEF Refused
  <1>4. ~Overlapping(sorted, total)
    BY DEF Refused
  <1> HIDE DEF sorted, total, n
  <1>5. \A k \in 1 .. n : o[k] \in 1 .. n /\ sorted[k] = patches[o[k]]
    BY <1>2
  <1>6. ASSUME NEW k \in 1 .. n
        PROVE  /\ sorted[k] = patches[o[k]] /\ IsPatch(sorted[k])
               /\ SIdx(sorted[k]) \in 0 .. total
               /\ EIdx(sorted[k], total) \in 0 .. total
    BY <1>1, <1>3, <1>5, EndBounds
  <1>7. ASSUME NEW k \in 2 .. n
        PROVE  UptoIdx(sorted[k], total) <= SIdx(sorted[k - 1])
    <2>1. k \in 1 .. n /\ k - 1 \in 1 .. n /\ k - 1 < k /\ k - 1 + 1 = k /\ k - 1 \in 1 .. n - 1
      BY <1>1
    <2>2. Len(sorted) = n
      BY <1>1, <1>2
    <2>3. ~((IF sorted[k].end = ToEOF THEN total ELSE Greater(0, sorted[k].end)) > SIdx(sorted[k - 1]))
      BY <1>4, <2>1, <2>2 DEF Overlapping
    <2>4. sorted[k - 1].start >= sorted[k].start
      BY <1>2, <1>5, <2>1
    <2>5. PICK p, q : p = sorted[k] /\ q = sorted[k - 1] /\ IsPatch(p) /\ IsPatch(q)
      BY <1>6, <2>1
    <2>6. p.start \in Int /\ q.start \in Int /\ SIdx(p) <= SIdx(q) /\ SIdx(p) \in Int /\ SIdx(q) \in Int
      BY <2>4, <2>5 DEF IsPatch, SIdx
    <2>7. EIdx(p, total) <= SIdx(q) /\ EIdx(p, total) \in Int
      <3>1. CASE p.end = ToEOF
        BY <1>1, <2>3, <2>5, <2>6, <3>1 DEF EIdx
      <3>2. CASE p.end # ToEOF
        <4>1. p.end \in Int
          BY <2>5, <3>2 DEF IsPatch, IsEnd
        <4>2. ~(Greater(0, p.end) > SIdx(q))
          BY <2>3, <2>5, <3>2
        <4> QED
          BY <1>1, <2>6, <3>2, <4>1, <4>2 DEF EIdx, Greater, Lesser
      <3> QED
        BY <3>1, <3>2
    <2> QED
      BY <2>5, <2>6, <2>7 DEF UptoIdx, Greater
  <1> DEFINE r == [j \in 1 .. n |-> o[n + 1 - j]]
  <1>8. r \in Orders(patches)
    <2>1. \A j \in 1 .. n : n + 1 - j \in 1 .. n
      BY <1>1
    <2>2. r \in [1 .. n -> 1 .. n]
      BY <2>1
    <2>3. ASSUME NEW i \in 1 .. n, NEW j \in 1 .. n, i < j
          PROVE  r[i] # r[j] /\ patches[r[i]].start <= patches[r[j]].start
      <3>1. PICK a \in 1 .. n, b \in 1 .. n : a = n + 1 - j /\ b = n + 1 - i /\ a < b
        BY <1>1, <2>3
      <3>2. o[a] # o[b] /\ patches[o[a]].start >= patches[o[b]].start
        BY <1>2, <3>1
      <3>3. patches[o[a]].start \in Int /\ patches[o[b]].start \in Int
        BY <1>1, <1>5 DEF IsPatch
      <3>4. r[i] = o[b] /\ r[j] = o[a]
        BY <3>1
      <3> QED
        BY <3>2, <3>3, <3>4
    <2> HIDE DEF r
    <2> QED
      BY <2>2, <2>3 DEF Orders, n
  <1> QED
    BY <1>2, <1>6, <1>7, <1>8 DEF sorted, total, n

\* What comes after the first part of two.
LEMMA AfterFirst ==
    ASSUME NEW a \in Seq(Texts), NEW b \in Seq(Texts)
    PROVE  SubSeq(a \o b, Len(a) + 1, Len(a \o b)) = b
  <1>1. /\ a \o b \in Seq(Texts) /\ Len(a \o b) = Len(a) + Len(b)
        /\ \A i \in 1 .. Len(a) + Len(b) : (a \o b)[i] = IF i <= Len(a) THEN a[i] ELSE b[i - Len(a)]
    BY ConcatProperties
  <1>2. Len(a) \in Nat /\ Len(b) \in Nat
    OBVIOUS
  <1>3. PICK y \in Seq(Texts) : y = a \o b
    BY <1>1
  <1>4. PICK m \in Nat, l \in Nat : m = Len(a) /\ l = Len(y) /\ l = m + Len(b)
    BY <1>1, <1>2, <1>3
  <1>5. \A i \in m + 1 .. l : y[i] \in Texts
    BY <1>3, <1>4
  <1>6. /\ SubSeq(y, m + 1, l) \in Seq(Texts)
        /\ Len(SubSeq(y, m + 1, l)) = IF m + 1 <= l THEN l - (m + 1) + 1 ELSE 0
        /\ \A i \in 1 .. l - (m + 1) + 1 : SubSeq(y, m + 1, l)[i] = y[m + 1 + i - 1]
    <2>1. m + 1 \in Int /\ l \in Int
      OBVIOUS
    <2> QED
      BY <1>5, <2>1, SubSeqProperties
  <1>7. Len(SubSeq(y, m + 1, l)) = Len(b)
    BY <1>2, <1>4, <1>6
  <1>8. \A i \in 1 .. Len(b) : SubSeq(y, m + 1, l)[i] = b[i]
    <2> SUFFICES ASSUME NEW i \in 1 .. Len(b) PROVE SubSeq(y, m + 1, l)[i] = b[i]
      OBVIOUS
    <2>1. i \in 1 .. l - (m + 1) + 1 /\ m + 1 + i - 1 \in 1 .. l /\ ~(m + 1 + i - 1 <= m)
          /\ m + 1 + i - 1 - m = i
      BY <1>2, <1>4
    <2>2. SubSeq(y, m + 1, l)[i] = y[m + 1 + i - 1]
      BY <1>6, <2>1
    <2>3. y[m + 1 + i - 1] = b[m + 1 + i - 1 - m]
      BY <1>1, <1>3, <1>4, <2>1
    <2> QED
      BY <2>1, <2>2, <2>3
  <1>9. SubSeq(y, m + 1, l) = b
    BY <1>6, <1>7, <1>8, SeqEqual
  <1> QED
    BY <1>3, <1>4, <1>9

\* The order parts are put together in does not matter: a name for it, since
\* the law itself makes the provers run in circles.
Regroups(a, b, d, e) == ((a \o b) \o d) \o e = a \o ((b \o d) \o e)

\* Lists of lines may be grouped so.
LEMMA ListsRegroup ==
    ASSUME NEW a \in Seq(Texts), NEW b \in Seq(Texts), NEW d \in Seq(Texts), NEW e \in Seq(Texts)
    PROVE  Regroups(a, b, d, e)
  <1>1. Associate(a, b, d)
    BY ListsAssociate
  <1>2. PICK w \in Seq(Texts) : w = b \o d
    BY ConcatProperties
  <1>3. Associate(a, w, e)
    BY ListsAssociate
  <1> QED
    BY <1>1, <1>2, <1>3 DEF Regroups, Associate

\* Texts may be grouped so.
LEMMA TextsRegroup ==
    ASSUME NEW a \in Texts, NEW b \in Texts, NEW d \in Texts, NEW e \in Texts
    PROVE  Regroups(a, b, d, e)
  <1>1. Associate(a, b, d)
    BY TextsAssociate
  <1>2. PICK w \in Texts : w = b \o d
    BY TextsConcat
  <1>3. Associate(a, w, e)
    BY TextsAssociate
  <1> QED
    BY <1>1, <1>2, <1>3 DEF Regroups, Associate

\* The text from a line on, after lines below it have been replaced.
LEMMA SliceJoined ==
    ASSUME NEW x \in Seq(Texts), NEW s \in 0 .. Len(x), NEW e \in 0 .. Len(x),
           NEW new \in Seq(Texts), NEW u \in 0 .. s
    PROVE  LET y == SetSlice(x, s, e, new)
           IN  Join(SubSeq(y, u + 1, Len(y))) =
                  (Join(SubSeq(x, u + 1, s)) \o Join(new))
                  \o Join(SubSeq(x, Greater(s, e) + 1, Len(x)))
  <1> DEFINE m == Greater(s, e)
             y == SetSlice(x, s, e, new)
  <1>1. s \in Nat /\ u \in Nat /\ Len(x) \in Nat /\ m \in s .. Len(x) /\ m \in Nat
    BY DEF Greater
  <1> HIDE DEF m
  <1>2. PICK a \in Seq(Texts) : a = SubSeq(x, 1, u) /\ Len(a) = u
    <2>1. \A i \in 1 .. u : x[i] \in Texts
      BY <1>1
    <2>2. 1 \in Int /\ u \in Int
      BY <1>1
    <2>3. SubSeq(x, 1, u) \in Seq(Texts) /\ Len(SubSeq(x, 1, u)) = IF 1 <= u THEN u - 1 + 1 ELSE 0
      BY <2>1, <2>2, SubSeqProperties
    <2>4. Len(SubSeq(x, 1, u)) = u
      <3>1. 1 <= u => u - 1 + 1 = u
        BY <1>1
      <3>2. ~(1 <= u) => u = 0
        BY <1>1
      <3> QED
        BY <2>3, <3>1, <3>2
    <2> QED
      BY <2>3, <2>4, Zenon
  <1>3. PICK b \in Seq(Texts) : b = SubSeq(x, u + 1, s)
    <2>1. u + 1 \in Nat \ {0}
      BY <1>1
    <2> QED
      BY <2>1, SomeLines
  <1>4. PICK d \in Seq(Texts) : d = SubSeq(x, m + 1, Len(x))
    <2>1. m + 1 \in Nat \ {0} /\ Len(x) \in 0 .. Len(x)
      BY <1>1
    <2> QED
      BY <2>1, SomeLines
  <1>5. a \o b = SubSeq(x, 1, s)
    <2>1. 1 \in 1 .. Len(x) + 1 /\ u \in 1 - 1 .. Len(x) /\ s \in u .. Len(x)
      BY <1>1
    <2> QED
      BY <1>2, <1>3, <2>1, ConcatAdjacentSubSeq
  <1>6. y = ((a \o b) \o new) \o d
    BY <1>4, <1>5 DEF SetSlice, m
  <1>7. b \o new \in Seq(Texts) /\ (b \o new) \o d \in Seq(Texts)
    <2>1. b \o new \in Seq(Texts)
      BY ConcatProperties
    <2> QED
      BY <2>1, ConcatProperties
  <1>8. ((a \o b) \o new) \o d = a \o ((b \o new) \o d)
    <2>1. Regroups(a, b, new, d)
      BY ListsRegroup
    <2> QED
      BY <2>1 DEF Regroups
  <1>9. PICK w \in Seq(Texts) : w = (b \o new) \o d
    BY <1>7
  <1>10. y = a \o w
    BY <1>6, <1>8, <1>9
  <1>11. SubSeq(y, u + 1, Len(y)) = w
    BY <1>2, <1>10, AfterFirst
  <1>12. Join(w) = (Join(b) \o Join(new)) \o Join(d)
    <2>1. Join(b \o new) = Join(b) \o Join(new)
      BY JoinConcat
    <2>2. PICK v \in Seq(Texts) : v = b \o new
      BY <1>7
    <2>3. Join(v \o d) = Join(v) \o Join(d)
      BY JoinConcat
    <2> QED
      BY <1>9, <2>1, <2>2, <2>3
  <1> QED
    BY <1>3, <1>4, <1>11, <1>12 DEF m

\* Two lists that begin alike have the same lines there.
LEMMA SameLines ==
    ASSUME NEW x \in Seq(Texts), NEW y \in Seq(Texts), NEW s \in Nat, s <= Len(x), s <= Len(y),
           \A i \in 1 .. s : x[i] = y[i], NEW u \in 0 .. s
    PROVE  SubSeq(x, u + 1, s) = SubSeq(y, u + 1, s)
  <1>1. \A i \in 1 .. s : x[i] \in Texts
    OBVIOUS
  <1>2. \A i \in 1 .. s : y[i] \in Texts
    OBVIOUS
  <1>3. /\ u + 1 \in Int /\ s \in Int
        /\ \A i \in u + 1 .. s : x[i] \in Texts /\ y[i] \in Texts
    BY <1>1, <1>2
  <1>4. /\ SubSeq(x, u + 1, s) \in Seq(Texts)
        /\ Len(SubSeq(x, u + 1, s)) = IF u + 1 <= s THEN s - (u + 1) + 1 ELSE 0
        /\ \A i \in 1 .. s - (u + 1) + 1 : SubSeq(x, u + 1, s)[i] = x[u + 1 + i - 1]
    BY <1>3, SubSeqProperties
  <1>5. /\ SubSeq(y, u + 1, s) \in Seq(Texts)
        /\ Len(SubSeq(y, u + 1, s)) = IF u + 1 <= s THEN s - (u + 1) + 1 ELSE 0
        /\ \A i \in 1 .. s - (u + 1) + 1 : SubSeq(y, u + 1, s)[i] = y[u + 1 + i - 1]
    BY <1>3, SubSeqProperties
  <1>6. \A i \in 1 .. s - (u + 1) + 1 : u + 1 + i - 1 \in 1 .. s
    OBVIOUS
  <1>7. \A i \in 1 .. s - (u + 1) + 1 : SubSeq(x, u + 1, s)[i] = SubSeq(y, u + 1, s)[i]
    BY <1>4, <1>5, <1>6
  <1>8. PICK v \in Seq(Texts), w \in Seq(Texts) : v = SubSeq(x, u + 1, s) /\ w = SubSeq(y, u + 1, s)
    BY <1>4, <1>5
  <1>9. Len(v) = Len(w) /\ \A i \in 1 .. Len(v) : i \in 1 .. s - (u + 1) + 1
    BY <1>4, <1>5, <1>8
  <1>10. \A i \in 1 .. Len(v) : v[i] = w[i]
    BY <1>7, <1>8, <1>9
  <1>11. v = w
    BY <1>9, <1>10, SeqEqual
  <1> QED
    BY <1>8, <1>11

\* Patches applied from the bottom up, one after the other, give the text
\* that one pass from the top gives: whatever a patch has shifted lies below
\* the patches still to come (remote_patch).
THEOREM PatchesApply ==
    ASSUME NEW text \in Texts, NEW patches, ArePatches(patches), NEW auto_newline,
           ~Refused(text, patches)
    PROVE  Patched(text, patches, auto_newline) \in Expected(text, patches, auto_newline)
  <1> DEFINE lines == SplitKeepends(text)
             total == Len(lines)
             n == Len(patches)
             sorted == SortedPatches(patches)
             at(k) == SIdx(sorted[k])
             to(k) == EIdx(sorted[k], total)
             new(k) == NewContents(sorted[k], lines, auto_newline)
  <1>1. /\ n \in Nat /\ total \in Nat /\ lines \in Seq(Texts) /\ DOMAIN patches = 1 .. n
    BY LinesTyped, EndsFinite DEF ArePatches
  <1>2. \A i \in 1 .. n : SIdx(patches[i]) \in 0 .. total
    BY <1>1 DEF Refused
  <1>3. PICK o \in [1 .. n -> 1 .. n] :
           /\ [j \in 1 .. n |-> o[n + 1 - j]] \in Orders(patches)
           /\ \A k \in 1 .. n : /\ sorted[k] = patches[o[k]] /\ IsPatch(sorted[k])
                                /\ at(k) \in 0 .. total /\ to(k) \in 0 .. total
           /\ \A k \in 2 .. n : UptoIdx(sorted[k], total) <= at(k - 1)
    BY PatchesApart
  <1> DEFINE r == [j \in 1 .. n |-> o[n + 1 - j]]
  <1>4. PICK G : /\ G \in [0 .. n -> Seq(Texts)]
                 /\ G[0] = lines
                 /\ \A k \in 1 .. n : G[k] = SetSlice(G[k - 1], at(k), to(k), SplitKeepends(new(k)))
                 /\ Patched(text, patches, auto_newline) = Join(G[n])
    <2>1. PICK G : Applies(G, text, patches, auto_newline)
      BY <1>2, ApplySteps
    <2> QED
      BY <2>1 DEF Applies
  <1>5. r \in Orders(patches) /\ r \in [1 .. n -> 1 .. n]
    BY <1>3 DEF Orders
  <1>6. PICK H : /\ H \in [0 .. n -> [text : Texts, upto : 0 .. total]]
                 /\ H[0] = [text |-> <<>>, upto |-> 0]
                 /\ \A k \in 1 .. n :
                       LET p == patches[r[k]]
                       IN  H[k] = [text |-> H[k - 1].text
                                        \o Join(SubSeq(lines, H[k - 1].upto + 1, SIdx(p)))
                                        \o NewContents(p, lines, auto_newline),
                                   upto |-> Greater(H[k - 1].upto, Greater(SIdx(p), EIdx(p, total)))]
                 /\ Rendered(text, patches, auto_newline, r) =
                       H[n].text \o Join(SubSeq(lines, H[n].upto + 1, total))
    <2> HIDE DEF r
    <2>1. PICK H : Copies(H, text, patches, auto_newline, r)
      BY <1>2, <1>5, CopySteps
    <2> QED
      BY <2>1 DEF Copies
  <1> HIDE DEF lines, total, n, sorted
  <1>7. \A k \in 1 .. n : new(k) \in Texts
    BY <1>3, NewTyped
  <1>8. ASSUME NEW k \in 1 .. n
        PROVE  /\ n - k \in 0 .. n /\ n - k + 1 \in 0 .. n
               /\ H[n - k + 1] = [text |-> (H[n - k].text \o Join(SubSeq(lines, H[n - k].upto + 1, at(k))))
                                           \o new(k),
                                  upto |-> Greater(H[n - k].upto, Greater(at(k), to(k)))]
    <2>1. PICK j \in 1 .. n : j = n - k + 1 /\ j - 1 = n - k /\ n + 1 - j = k
      BY <1>1
    <2>2. r[j] = o[k]
      BY <2>1
    <2>3. patches[r[j]] = sorted[k]
      BY <1>3, <2>2
    <2>4. n - k \in 0 .. n /\ n - k + 1 \in 0 .. n
      BY <1>1
    <2> HIDE DEF r
    <2> QED
      BY <1>6, <2>1, <2>3, <2>4
  <1> HIDE DEF r, at, to, new
  <1>9. \A k \in 1 .. n : /\ at(k) \in 0 .. total /\ to(k) \in 0 .. total
                          /\ at(k) \in Nat /\ to(k) \in Nat /\ at(k) <= total
    <2>1. \A k \in 1 .. n : at(k) \in 0 .. total /\ to(k) \in 0 .. total
      BY <1>3 DEF at, to
    <2>2. total \in Nat
      BY <1>1
    <2> QED
      BY <2>1, <2>2
  <1>10. \A k \in 2 .. n : at(k) <= at(k - 1) /\ to(k) <= at(k - 1)
    <2> SUFFICES ASSUME NEW k \in 2 .. n PROVE at(k) <= at(k - 1) /\ to(k) <= at(k - 1)
      OBVIOUS
    <2>1. k \in 1 .. n /\ k - 1 \in 1 .. n
      BY <1>1
    <2>2. Greater(at(k), to(k)) <= at(k - 1)
      BY <1>3 DEF UptoIdx, at, to
    <2> QED
      BY <1>9, <2>1, <2>2 DEF Greater
  \* The lines above a patch are the file's when its turn comes.
  <1> DEFINE bound(k) == IF k = 0 THEN total ELSE at(k)
             whole(k) == /\ bound(k) <= Len(G[k])
                         /\ \A i \in 1 .. bound(k) : G[k][i] = lines[i]
             Bad == {k \in 0 .. n : ~whole(k)}
  <1>11. \A k \in 0 .. n : G[k] \in Seq(Texts) /\ Len(G[k]) \in Nat /\ bound(k) \in Nat
    <2>1. \A k \in 0 .. n : G[k] \in Seq(Texts)
      BY <1>4
    <2>2. \A k \in 0 .. n : Len(G[k]) \in Nat
      BY <2>1
    <2>3. ASSUME NEW k \in 0 .. n PROVE bound(k) \in Nat
      <3>1. k # 0 => k \in 1 .. n
        BY <1>1
      <3> QED
        BY <1>1, <1>9, <3>1
    <2> HIDE DEF bound
    <2> QED
      BY <2>1, <2>2, <2>3
  <1>12. \A k \in 1 .. n : at(k) <= bound(k - 1) /\ to(k) <= bound(k - 1)
    <2> SUFFICES ASSUME NEW k \in 1 .. n
                 PROVE  at(k) <= bound(k - 1) /\ to(k) <= bound(k - 1)
      OBVIOUS
    <2>1. CASE k = 1
      BY <1>1, <1>9, <2>1
    <2>2. CASE k # 1
      BY <1>1, <1>10, <2>2
    <2> QED
      BY <2>1, <2>2
  <1>13. whole(0)
    <2>1. total \in Nat /\ total = Len(lines)
      BY <1>1 DEF total
    <2> QED
      BY <1>4, <2>1
  <1>14. ASSUME NEW k \in 1 .. n, whole(k - 1)
         PROVE  whole(k)
    <2>1. k - 1 \in 0 .. n /\ k # 0 /\ k \in 0 .. n
      BY <1>1
    <2>2. PICK x \in Seq(Texts), y \in Seq(Texts) :
             x = G[k - 1] /\ y = G[k] /\ y = SetSlice(x, at(k), to(k), SplitKeepends(new(k)))
      BY <1>4, <1>11, <2>1
    <2>3. bound(k - 1) \in Nat /\ Len(x) \in Nat /\ bound(k - 1) <= Len(x) /\ at(k) <= bound(k - 1)
          /\ \A i \in 1 .. bound(k - 1) : x[i] = lines[i]
      BY <1>11, <1>12, <1>14, <2>1, <2>2
    <2> HIDE DEF bound
    <2>4. at(k) \in 0 .. Len(x) /\ at(k) \in Nat
      BY <1>9, <2>3
    <2>5. SplitKeepends(new(k)) \in Seq(Texts)
      BY <1>7, LinesTyped DEF new
    <2>6. Len(y) >= at(k) /\ \A i \in 1 .. at(k) : y[i] = x[i]
      <3>1. to(k) \in Int
        BY <1>9
      <3> QED
        BY <2>2, <2>4, <2>5, <3>1, SliceSet
    <2>7. \A i \in 1 .. at(k) : i \in 1 .. bound(k - 1)
      BY <2>3, <2>4
    <2>8. \A i \in 1 .. at(k) : y[i] = lines[i]
      BY <2>3, <2>6, <2>7
    <2>9. at(k) <= Len(y)
      BY <2>4, <2>6
    <2> QED
      BY <2>1, <2>2, <2>8, <2>9 DEF bound
  <1> HIDE DEF whole
  <1>15. \A k \in 0 .. n : whole(k)
    <2>1. Bad \in SUBSET Nat /\ 0 \notin Bad
      BY <1>1, <1>13
    <2>2. ASSUME NEW m \in Bad, \A k \in Bad : m <= k
          PROVE  FALSE
      <3>1. m \in 1 .. n /\ m - 1 \in 0 .. n /\ m - 1 \notin Bad
        BY <1>1, <2>1, <2>2
      <3>2. whole(m - 1)
        BY <3>1
      <3> QED
        BY <1>14, <2>2, <3>1, <3>2
    <2>3. Bad = {}
      <3> HIDE DEF Bad
      <3> QED
        BY <2>1, <2>2, Smallest
    <2> QED
      BY <2>3
  \* What has been copied lies above the next patch.
  <1> DEFINE above(j) == j < n => H[j].upto <= at(n - j)
             Low == {j \in 0 .. n : ~above(j)}
  <1>16. above(0)
    BY <1>1, <1>6, <1>9
  <1>17. ASSUME NEW j \in 0 .. n, j # 0, above(j - 1)
         PROVE  above(j)
    <2> SUFFICES ASSUME j < n PROVE H[j].upto <= at(n - j)
      OBVIOUS
    <2>1. PICK k \in 2 .. n : k = n - (j - 1) /\ k - 1 = n - j /\ n - k = j - 1 /\ n - k + 1 = j
      BY <1>1, <1>17
    <2>2. k \in 1 .. n /\ k - 1 \in 1 .. n /\ j - 1 < n /\ j - 1 \in 0 .. n
      BY <1>1, <1>17, <2>1
    <2>3. H[j].upto = Greater(H[j - 1].upto, Greater(at(k), to(k)))
      <3>1. H[n - k + 1].upto = Greater(H[n - k].upto, Greater(at(k), to(k)))
        <4>1. H[n - k + 1] = [text |-> (H[n - k].text \o Join(SubSeq(lines, H[n - k].upto + 1, at(k))))
                                         \o new(k),
                              upto |-> Greater(H[n - k].upto, Greater(at(k), to(k)))]
          BY <1>8, <2>2
        <4> QED
          BY <4>1
      <3> QED
        BY <2>1, <3>1
    <2>4. H[j - 1].upto <= at(k) /\ H[j - 1].upto \in 0 .. total
      BY <1>6, <1>17, <2>1, <2>2
    <2>5. at(k) <= at(k - 1) /\ to(k) <= at(k - 1)
      BY <1>10, <2>1
    <2>6. /\ at(k) \in Int /\ to(k) \in Int /\ at(k - 1) \in Int /\ H[j - 1].upto \in Int
      <3>1. at(k) \in Nat /\ to(k) \in Nat /\ at(k - 1) \in Nat
        BY <1>9, <2>2
      <3>2. \A i \in 0 .. total : i \in Int
        BY <1>1
      <3> QED
        BY <2>4, <3>1, <3>2
    <2>7. H[j].upto <= at(k - 1)
      BY <2>3, <2>4, <2>5, <2>6 DEF Greater
    <2> QED
      BY <2>1, <2>7
  <1> HIDE DEF above
  <1>18. \A j \in 0 .. n : above(j)
    <2>1. Low \in SUBSET Nat /\ 0 \notin Low
      BY <1>1, <1>16
    <2>2. ASSUME NEW m \in Low, \A j \in Low : m <= j
          PROVE  FALSE
      <3>1. m \in 0 .. n /\ m # 0 /\ m - 1 \in 0 .. n /\ m - 1 \notin Low
        BY <1>1, <2>1, <2>2
      <3>2. above(m - 1)
        BY <3>1
      <3> QED
        BY <1>17, <2>2, <3>1, <3>2
    <2>3. Low = {}
      <3> HIDE DEF Low
      <3> QED
        BY <2>1, <2>2, Smallest
    <2> QED
      BY <2>3
  \* The text copied from above, then what the patches from below have left.
  <1> DEFINE mixed(k) == H[n - k].text \o Join(SubSeq(G[k], H[n - k].upto + 1, Len(G[k])))
             Off == {k \in 0 .. n : mixed(k) # mixed(0)}
  <1>19. ASSUME NEW k \in 1 .. n
         PROVE  mixed(k) = mixed(k - 1)
    <2>1. k - 1 \in 0 .. n /\ k \in 0 .. n /\ n - k \in 0 .. n /\ n - k < n /\ n - (n - k) = k
          /\ n - (k - 1) = n - k + 1 /\ n - k + 1 \in 0 .. n
      BY <1>1
    <2>2. PICK x \in Seq(Texts), y \in Seq(Texts) :
             x = G[k - 1] /\ y = G[k] /\ y = SetSlice(x, at(k), to(k), SplitKeepends(new(k)))
      BY <1>4, <1>11, <2>1
    <2>3. PICK t \in Texts, u \in 0 .. total : t = H[n - k].text /\ u = H[n - k].upto
      BY <1>6, <2>1
    <2>4. u <= at(k)
      BY <1>18, <2>1, <2>3 DEF above
    <2>5. PICK s \in Nat, e \in Nat : s = at(k) /\ e = to(k) /\ s <= total
      BY <1>9
    <2>6. /\ u \in Nat /\ u \in 0 .. s /\ Len(x) \in Nat /\ s \in 0 .. Len(x) /\ e \in 0 .. Len(x)
          /\ \A i \in 1 .. s : x[i] = lines[i]
      <3>1. whole(k - 1)
        BY <1>15, <2>1
      <3>2. bound(k - 1) \in Nat /\ bound(k - 1) <= Len(x) /\ \A i \in 1 .. bound(k - 1) : x[i] = lines[i]
        BY <1>11, <2>1, <2>2, <3>1 DEF whole
      <3>3. s <= bound(k - 1) /\ e <= bound(k - 1)
        BY <1>12, <2>5
      <3> HIDE DEF bound
      <3>4. Len(x) \in Nat
        OBVIOUS
      <3>5. \A i \in 1 .. s : i \in 1 .. bound(k - 1)
        BY <3>2, <3>3
      <3>6. \A i \in 1 .. s : x[i] = lines[i]
        BY <3>2, <3>5
      <3>7. u \in Nat /\ u \in 0 .. s
        BY <1>1, <2>4, <2>5
      <3>8. s <= Len(x) /\ e <= Len(x)
        BY <2>5, <3>2, <3>3, <3>4
      <3> QED
        BY <2>5, <3>4, <3>6, <3>7, <3>8
    <2>7. PICK c \in Texts : c = new(k)
      BY <1>7 DEF new
    <2>8. PICK w \in Seq(Texts) : w = SplitKeepends(c) /\ Join(w) = c
      BY LinesTyped, SplitJoined
    <2>9. Join(SubSeq(y, u + 1, Len(y))) =
             (Join(SubSeq(x, u + 1, s)) \o Join(w)) \o Join(SubSeq(x, Greater(s, e) + 1, Len(x)))
      <3>1. y = SetSlice(x, s, e, w)
        BY <2>2, <2>5, <2>7, <2>8
      <3>2. s \in 0 .. Len(x) /\ e \in 0 .. Len(x) /\ u \in 0 .. s
        BY <2>6
      <3> QED
        BY <3>1, <3>2, SliceJoined
    <2>10. SubSeq(x, u + 1, s) = SubSeq(lines, u + 1, s)
      <3>1. s <= Len(x) /\ s <= Len(lines)
        BY <1>1, <2>5, <2>6 DEF total
      <3> QED
        BY <1>1, <2>6, <3>1, SameLines
    <2>11. PICK b \in Texts : b = Join(SubSeq(lines, u + 1, s))
      <3>1. u + 1 \in Nat \ {0} /\ s \in 0 .. Len(lines)
        BY <1>1, <2>5, <2>6 DEF total
      <3> QED
        BY <1>1, <3>1, SomeLines
    <2>12. PICK d \in Texts : d = Join(SubSeq(x, Greater(s, e) + 1, Len(x)))
      <3>1. Greater(s, e) + 1 \in Nat \ {0} /\ Len(x) \in 0 .. Len(x)
        BY <2>6 DEF Greater
      <3> QED
        BY <3>1, SomeLines
    <2>13. mixed(k) = t \o ((b \o c) \o d)
      BY <2>2, <2>3, <2>8, <2>9, <2>10, <2>11, <2>12
    <2>14. H[n - k + 1].text = (t \o b) \o c /\ H[n - k + 1].upto = Greater(s, e)
      <3>1. /\ H[n - k + 1].text = (t \o b) \o c
            /\ H[n - k + 1].upto = Greater(u, Greater(s, e))
        <4>1. H[n - k + 1] = [text |-> (H[n - k].text \o Join(SubSeq(lines, H[n - k].upto + 1, at(k))))
                                         \o new(k),
                              upto |-> Greater(H[n - k].upto, Greater(at(k), to(k)))]
          BY <1>8
        <4>2. H[n - k + 1] = [text |-> (t \o b) \o c, upto |-> Greater(u, Greater(s, e))]
          BY <2>3, <2>5, <2>7, <2>11, <4>1
        <4> QED
          BY <4>2
      <3>2. Greater(u, Greater(s, e)) = Greater(s, e)
        BY <2>5, <2>6 DEF Greater
      <3> QED
        BY <3>1, <3>2
    <2>15. mixed(k - 1) = ((t \o b) \o c) \o d
      BY <2>1, <2>2, <2>12, <2>14
    <2>16. Regroups(t, b, c, d)
      BY TextsRegroup
    <2> HIDE DEF mixed
    <2> QED
      BY <2>13, <2>15, <2>16 DEF Regroups
  <1> HIDE DEF mixed
  <1>20. \A k \in 0 .. n : mixed(k) = mixed(0)
    <2>1. Off \in SUBSET Nat /\ 0 \notin Off
      BY <1>1
    <2>2. ASSUME NEW m \in Off, \A k \in Off : m <= k
          PROVE  FALSE
      <3>1. m \in 1 .. n /\ m - 1 \in 0 .. n /\ m - 1 \notin Off
        BY <1>1, <2>1, <2>2
      <3>2. mixed(m - 1) = mixed(0) /\ mixed(m) = mixed(m - 1)
        BY <1>19, <3>1
      <3> QED
        BY <2>2, <3>2
    <2>3. Off = {}
      <3> HIDE DEF Off
      <3> QED
        BY <2>1, <2>2, Smallest
    <2> QED
      BY <2>3
  <1>21. mixed(0) = Rendered(text, patches, auto_newline, r)
    <2>1. n - 0 = n /\ Len(lines) = total
      BY <1>1 DEF total
    <2> QED
      BY <1>4, <1>6, <2>1 DEF mixed
  <1>22. mixed(n) = Patched(text, patches, auto_newline)
    <2>1. n - n = 0 /\ n \in 0 .. n
      BY <1>1
    <2>2. PICK x \in Seq(Texts) : x = G[n]
      BY <1>11, <2>1
    <2>3. SubSeq(x, 1, Len(x)) = x
      BY SubSeqFull
    <2>4. PICK t \in Texts : t = Join(x)
      BY JoinTyped
    <2>5. <<>> \o t = t
      BY TextsConcat
    <2>6. H[0].text = <<>> /\ H[0].upto + 1 = 1
      BY <1>6
    <2>7. mixed(n) = <<>> \o Join(SubSeq(x, 1, Len(x)))
      BY <2>1, <2>2, <2>6 DEF mixed
    <2> QED
      BY <1>4, <2>2, <2>3, <2>4, <2>5, <2>7
  <1>23. Patched(text, patches, auto_newline) = Rendered(text, patches, auto_newline, r)
    <2>1. n \in 0 .. n
      BY <1>1
    <2> QED
      BY <1>20, <1>21, <1>22, <2>1
  <1> QED
    BY <1>5, <1>23, ExpectedIs

-----------------------------------------------------------------------------
(* What the calls have read and are about to write.                        *)

\* A call that is not refused computes a text.
LEMMA PatchedTyped ==
    ASSUME NEW text \in Texts, NEW patches, ArePatches(patches), NEW auto_newline,
           ~Refused(text, patches)
    PROVE  Patched(text, patches, auto_newline) \in Texts
  <1>1. /\ Len(patches) \in Nat /\ Len(patches) \in 0 .. Len(patches)
        /\ DOMAIN patches = 1 .. Len(patches)
    BY DEF ArePatches
  <1>2. \A i \in 1 .. Len(patches) : SIdx(patches[i]) \in 0 .. Len(SplitKeepends(text))
    BY <1>1 DEF Refused
  <1>3. PICK G : Applies(G, text, patches, auto_newline)
    BY <1>2, ApplySteps
  <1>4. G[Len(patches)] \in Seq(Texts)
    BY <1>1, <1>3 DEF Applies
  <1>5. Patched(text, patches, auto_newline) = Join(G[Len(patches)])
    BY <1>3 DEF Applies
  <1> QED
    BY <1>4, <1>5, JoinTyped

\* What its caller may expect are texts.
LEMMA ExpectedTyped ==
    ASSUME NEW text \in Texts, NEW patches, ArePatches(patches), NEW auto_newline,
           ~Refused(text, patches), NEW t \in Expected(text, patches, auto_newline)
    PROVE  t \in Texts
  <1> DEFINE n == Len(patches)
             lines == SplitKeepends(text)
  <1>1. n \in 0 .. n /\ DOMAIN patches = 1 .. n /\ lines \in Seq(Texts) /\ Len(lines) \in Nat
    BY LinesTyped, EndsFinite DEF ArePatches
  <1>2. \A i \in 1 .. n : SIdx(patches[i]) \in 0 .. Len(lines)
    BY <1>1 DEF Refused
  <1>3. PICK o \in Orders(patches) : t = Rendered(text, patches, auto_newline, o)
    BY ExpectedIs
  <1>4. o \in [1 .. n -> 1 .. n]
    BY DEF Orders
  <1>5. PICK H : Copies(H, text, patches, auto_newline, o)
    BY <1>2, <1>4, CopySteps
  <1>c. /\ H \in [0 .. n -> [text : Texts, upto : 0 .. Len(lines)]]
        /\ Rendered(text, patches, auto_newline, o) =
              H[n].text \o Join(SubSeq(lines, H[n].upto + 1, Len(lines)))
    BY <1>5 DEF Copies
  <1> HIDE DEF n, lines
  <1>6. H[n].text \in Texts /\ H[n].upto + 1 \in Nat \ {0} /\ Len(lines) \in 0 .. Len(lines)
    BY <1>1, <1>c
  <1>7. Join(SubSeq(lines, H[n].upto + 1, Len(lines))) \in Texts
    BY <1>1, <1>6, SomeLines
  <1> QED
    BY <1>3, <1>c, <1>6, <1>7, TextsConcat

\* The lines a walk has read, as long as its pages have one hash: those before
\* the next page, then all it asked for.
Walked(c, t) ==
    /\ page[c].file_hash = Sha256(t)
    /\ pc[c] = "read" => /\ page[c].start - 1 <= Requested(t, page[c].end)
                         /\ page[c].content = FirstLinesOf(t, page[c].start - 1)
    /\ pc[c] = "patch" => page[c].content = FirstLinesOf(t, Requested(t, page[c].end))
Walking(c) ==
    /\ page[c].start \in Nat \ {0} /\ page[c].content \in Texts /\ IsEnd(page[c].end)
    /\ IsFiniteSet(page[c].hashes) /\ \A h \in page[c].hashes : \E t \in Texts : h = Sha256(t)
    /\ page[c].hashes = {} => page[c].start = 1 /\ page[c].content = <<>>
    /\ \A t \in Texts :
          pc[c] \in {"read", "patch"} /\ page[c].hashes = {Sha256(t)} => Walked(c, t)

\* A call writes the text it computed, and that is one its caller may expect.
\* What is ready to be moved in place is that text, whole.
Wanted(c) ==
    /\ new_full[c] \in Texts /\ \A t \in want[c] : t \in Texts
    /\ want[c] # {} => new_full[c] \in want[c]
    /\ tmp[c] # Absent => tmp[c].text \in Texts /\ tmp[c].old \in BOOLEAN
    /\ stage[c] # Absent => stage[c] \in Texts
    /\ pc[c] \in {"rename", "remove", "move"} \/ script[c] \in {"chown", "mv"} =>
          (tmp[c] # Absent => tmp[c].text = new_full[c])
    /\ script[c] = "cp" => (stage[c] # Absent => stage[c] = new_full[c])

Contents ==
    /\ target # Absent => target.text \in Texts
    /\ page = [c \in Calls |-> page[c]]
    /\ new_full = [c \in Calls |-> new_full[c]]
    /\ stage = [c \in Calls |-> stage[c]]
    /\ foreign \in 0 .. MaxForeign

Texted == Contents /\ \A c \in Calls : Walking(c) /\ Wanted(c)

\* Call d is left alone, but for its tmp file, which may be swept.
Kept(d) ==
    /\ page'[d] = page[d] /\ new_full'[d] = new_full[d] /\ stage'[d] = stage[d]
    /\ want'[d] = want[d] /\ pc'[d] = pc[d] /\ script'[d] = script[d]
    /\ tmp'[d] = tmp[d] \/ tmp'[d] = Absent

\* Losing a tmp file makes none of this false.
LEMMA KeptText ==
    ASSUME NEW d \in Calls, Walking(d), Wanted(d), Kept(d)
    PROVE  Walking(d)' /\ Wanted(d)'
  <1>1. Walking(d)'
    BY DEF Kept, Walking, Walked
  <1>2. Wanted(d)'
    BY DEF Kept, Wanted
  <1> QED
    BY <1>1, <1>2

\* What remains to show of a step of call c.
LEMMA OneText ==
    ASSUME Texted, NEW c \in Calls, \A d \in Calls : d # c => Kept(d),
           Contents', Walking(c)', Wanted(c)'
    PROVE  Texted'
  <1>1. ASSUME NEW d \in Calls, d # c PROVE Walking(d)' /\ Wanted(d)'
    BY <1>1, KeptText DEF Texted
  <1> QED
    BY <1>1 DEF Texted

\* The walk of a call that reads no page is where it was.
LEMMA WalkKept ==
    ASSUME NEW c \in Calls, Walking(c), page'[c] = page[c],
           pc'[c] = pc[c] \/ pc'[c] \notin {"read", "patch"}
    PROVE  Walking(c)'
  BY DEF Walking, Walked

\* Without pages, nothing has been read.
LEMMA NoWalk ==
    ASSUME NEW c \in Calls, page'[c] = NoPage
    PROVE  Walking(c)'
  <1>1. <<>> \in Texts /\ IsFiniteSet({})
    BY FS_EmptySet DEF Texts
  <1>2. \A t : {} # {Sha256(t)}
    OBVIOUS
  <1>3. /\ page'[c].start = 1 /\ page'[c].end = ToEOF /\ page'[c].content = <<>> /\ page'[c].hashes = {}
    BY DEF NoPage
  <1> QED
    BY <1>1, <1>2, <1>3 DEF Walking, IsEnd

\* The fields of a tmp file one of which is changed.
LEMMA TmpFields ==
    ASSUME NEW f, IsTmp(f), f # Absent, NEW v
    PROVE  /\ [f EXCEPT !.text = v].text = v /\ [f EXCEPT !.text = v].old = f.old
           /\ [f EXCEPT !.old = v].text = f.text /\ [f EXCEPT !.old = v].old = v
           /\ [f EXCEPT !.owner = v].text = f.text /\ [f EXCEPT !.owner = v].old = f.old
  <1>1. PICK x, o, y : f = [text |-> x, owner |-> o, old |-> y]
    BY DEF IsTmp
  <1>2. f.text = x /\ f.old = y
    BY <1>1
  <1>3. /\ [f EXCEPT !.text = v] = [text |-> v, owner |-> o, old |-> y]
        /\ [f EXCEPT !.old = v] = [text |-> x, owner |-> o, old |-> v]
        /\ [f EXCEPT !.owner = v] = [text |-> x, owner |-> v, old |-> y]
    BY <1>1
  <1>4. /\ [f EXCEPT !.text = v].text = v /\ [f EXCEPT !.text = v].old = y
    BY <1>3
  <1>5. [f EXCEPT !.old = v].text = x /\ [f EXCEPT !.old = v].old = v
    BY <1>3
  <1>6. [f EXCEPT !.owner = v].text = x /\ [f EXCEPT !.owner = v].old = y
    BY <1>3
  <1> QED
    BY <1>2, <1>4, <1>5, <1>6

\* Steps that change no text: at most, files are removed.
LEMMA PlainTextStep ==
    ASSUME IInv, Texted, NEW c \in Calls,
           \/ Verify(c) \/ PosixRenameUnsupported(c) \/ RemoveTarget(c) \/ Cleanup(c)
           \/ SudoStat(c) \/ SudoStatFails(c) \/ Unstage(c)
           \/ ScriptFails(c) \/ ScriptKilled(c) \/ PlaceReturns(c) \/ PlaceGivesUp(c)
    PROVE  Texted'
  <1> USE DEF Verify, PosixRenameUnsupported, RemoveTarget, Cleanup, SudoStat, SudoStatFails,
           Unstage, ScriptFails, ScriptKilled, PlaceReturns, PlaceGivesUp,
           fileVars, planVars, flags, sudoVars, Goto, Return, RemoveRequest
  <1>0. /\ Shaped /\ Contents /\ Walking(c) /\ Wanted(c)
        /\ tmp = [d \in Calls |-> tmp[d]] /\ stage = [d \in Calls |-> stage[d]]
        /\ pc \in [Calls -> Points]
        /\ script \in [Calls -> ScriptRuns \cup {"none", "ok", "failed", "killed"}]
    BY DEF IInv, Texted, Shaped, TmpFiles, Contents
  <1>1. /\ UNCHANGED <<page, new_full, want, foreign>>
        /\ target' = target \/ target' = Absent
    OBVIOUS
  <1>2. stage' = stage \/ stage' = [stage EXCEPT ![c] = Absent]
    OBVIOUS
  <1>3. tmp' = tmp \/ tmp' = [tmp EXCEPT ![c] = Absent]
    OBVIOUS
  <1>4. \/ script' = script
        \/ script' = [script EXCEPT ![c] = "failed"]
        \/ script' = [script EXCEPT ![c] = "killed"]
    OBVIOUS
  <1>5. \/ pc' = pc
        \/ pc[c] \in {"rename", "remove"} /\ \E p \in {"remove", "move"} : pc' = [pc EXCEPT ![c] = p]
        \/ \E p \in Points \ {"read", "patch", "rename", "remove", "move"} : pc' = [pc EXCEPT ![c] = p]
    BY DEF Points, Session
  <1>6. stage' = [d \in Calls |-> stage'[d]]
    BY <1>0, <1>2
  <1>7. Contents'
    BY <1>0, <1>1, <1>6 DEF Contents
  <1>8. \A d \in Calls : d # c => Kept(d)
    BY <1>0, <1>1, <1>2, <1>3, <1>4, <1>5 DEF Kept
  <1>9. Walking(c)'
    <2>1. pc'[c] = pc[c] \/ pc'[c] \notin {"read", "patch"}
      BY <1>0, <1>5
    <2> QED
      BY <1>0, <1>1, <2>1, WalkKept
  <1>10. Wanted(c)'
    <2>1. tmp'[c] = tmp[c] \/ tmp'[c] = Absent
      BY <1>0, <1>3
    <2>2. stage'[c] = stage[c] \/ stage'[c] = Absent
      BY <1>0, <1>2
    <2>3. script'[c] = script[c] \/ script'[c] \in {"failed", "killed"}
      BY <1>0, <1>4
    <2>4. pc'[c] \in {"rename", "remove", "move"} => pc[c] \in {"rename", "remove", "move"}
      BY <1>0, <1>5
    <2>5. /\ new_full'[c] \in Texts /\ (\A t \in want'[c] : t \in Texts)
          /\ (want'[c] # {} => new_full'[c] \in want'[c])
          /\ new_full'[c] = new_full[c]
      BY <1>0, <1>1 DEF Wanted
    <2> QED
      BY <1>0, <2>1, <2>2, <2>3, <2>4, <2>5 DEF Wanted
  <1> QED
    BY <1>7, <1>8, <1>9, <1>10, OneText

\* A call gives up reading.
LEMMA GivesUpStep ==
    ASSUME IInv, Texted, NEW c \in Calls, ReadFails(c)
    PROVE  Texted'
  <1>0. /\ Contents /\ Walking(c) /\ Wanted(c) /\ page = [d \in Calls |-> page[d]]
        /\ pc \in [Calls -> Points]
    BY DEF IInv, Texted, Shaped, Contents
  <1>1. /\ UNCHANGED <<target, tmp, stage, new_full, want, script, foreign>>
        /\ page' = [page EXCEPT ![c] = NoPage] /\ pc' = [pc EXCEPT ![c] = "done"]
    BY DEF ReadFails, Return, fileVars, sudoVars
  <1>2. page'[c] = NoPage /\ pc'[c] = "done" /\ page' = [d \in Calls |-> page'[d]]
    BY <1>0, <1>1
  <1>3. Contents'
    BY <1>0, <1>1, <1>2 DEF Contents
  <1>4. \A d \in Calls : d # c => Kept(d)
    BY <1>0, <1>1 DEF Kept
  <1>5. Walking(c)'
    BY <1>2, NoWalk
  <1>6. Wanted(c)'
    BY <1>0, <1>1, <1>2 DEF Wanted
  <1> QED
    BY <1>3, <1>4, <1>5, <1>6, OneText

\* A call's files are written.
LEMMA WritingTextStep ==
    ASSUME IInv, Texted, NEW c \in Calls,
           UNCHANGED <<target, page, new_full, want, foreign>>,
           stage' = [stage EXCEPT ![c] = stage'[c]], tmp' = [tmp EXCEPT ![c] = tmp'[c]],
           pc' = [pc EXCEPT ![c] = pc'[c]], script' = [script EXCEPT ![c] = script'[c]],
           pc'[c] = pc[c] \/ pc'[c] \notin {"read", "patch"},
           tmp'[c] # Absent => tmp'[c].text \in Texts /\ tmp'[c].old \in BOOLEAN,
           stage'[c] # Absent => stage'[c] \in Texts,
           pc'[c] \in {"rename", "remove", "move"} \/ script'[c] \in {"chown", "mv"} =>
              (tmp'[c] # Absent => tmp'[c].text = new_full[c]),
           script'[c] = "cp" => (stage'[c] # Absent => stage'[c] = new_full[c])
    PROVE  Texted'
  <1>0. /\ Contents /\ Walking(c) /\ Wanted(c) /\ stage = [d \in Calls |-> stage[d]]
        /\ tmp = [d \in Calls |-> tmp[d]] /\ pc \in [Calls -> Points]
        /\ script \in [Calls -> ScriptRuns \cup {"none", "ok", "failed", "killed"}]
    BY DEF IInv, Texted, Shaped, Contents, TmpFiles
  <1>1. \A d \in Calls : d # c => Kept(d)
    BY <1>0 DEF Kept
  <1>2. stage' = [d \in Calls |-> stage'[d]]
    BY <1>0
  <1>3. Contents'
    BY <1>0, <1>2 DEF Contents
  <1>4. Walking(c)'
    BY <1>0, WalkKept
  <1>5. Wanted(c)'
    <2>1. new_full[c] \in Texts /\ (\A t \in want[c] : t \in Texts) /\ (want[c] # {} => new_full[c] \in want[c])
      BY <1>0 DEF Wanted
    <2>2. new_full'[c] = new_full[c] /\ want'[c] = want[c]
      OBVIOUS
    <2> QED
      BY <2>1, <2>2 DEF Wanted
  <1> QED
    BY <1>1, <1>3, <1>4, <1>5, OneText

\* Requests that write a tmp file or a staged copy, and scripts that copy it.
LEMMA OpenText ==
    ASSUME IInv, Texted, NEW c \in Calls,
           \/ Open(c)
           \/ Break(c) /\ pc[c] = "open" /\ OpenRequest(c)
    PROVE  Texted'
  <1> USE DEF Open, Break, OpenRequest, Goto, planVars, sudoVars
  <1>0. /\ Contents /\ Wanted(c) /\ stage = [d \in Calls |-> stage[d]]
        /\ tmp = [d \in Calls |-> tmp[d]] /\ pc \in [Calls -> Points]
        /\ script \in [Calls -> ScriptRuns \cup {"none", "ok", "failed", "killed"}]
        /\ Planned(c)
    BY DEF IInv, Texted, Shaped, Contents, TmpFiles
  <1>1. script[c] = "none"
    BY <1>0 DEF Planned, Session
  <1>2. /\ UNCHANGED <<target, page, new_full, want, foreign, stage, script>>
        /\ pc' = [pc EXCEPT ![c] = "write"] \/ pc' = [pc EXCEPT ![c] = "cleanup"]
        /\ tmp' = [tmp EXCEPT ![c] = [text |-> <<>>, owner |-> "login", old |-> FALSE]]
    OBVIOUS
  <1>3. tmp'[c] = [text |-> <<>>, owner |-> "login", old |-> FALSE]
    BY <1>0, <1>2
  <1>4. /\ tmp'[c].text \in Texts /\ tmp'[c].old \in BOOLEAN
        /\ tmp' = [tmp EXCEPT ![c] = tmp'[c]]
    <2>1. <<>> \in Texts
      BY DEF Texts
    <2>2. tmp'[c].text = <<>> /\ tmp'[c].old = FALSE
      BY <1>3
    <2> QED
      BY <1>2, <1>3, <2>1, <2>2
  <1>5. /\ pc' = [pc EXCEPT ![c] = pc'[c]] /\ pc'[c] \in {"write", "cleanup"}
        /\ stage' = [stage EXCEPT ![c] = stage'[c]] /\ script' = [script EXCEPT ![c] = script'[c]]
        /\ stage'[c] = stage[c] /\ script'[c] = "none"
    BY <1>0, <1>1, <1>2
  <1>6. stage'[c] # Absent => stage'[c] \in Texts
    BY <1>0, <1>5 DEF Wanted
  <1> QED
    BY <1>2, <1>4, <1>5, <1>6, WritingTextStep

\* The patched text is written to the tmp file, whole, or in part when the request
\* breaks.
LEMMA WriteText ==
    ASSUME IInv, Texted, NEW c \in Calls,
           \/ Write(c)
           \/ /\ Break(c) /\ pc[c] = "write"
              /\ WriteRequest(c, SubSeq(new_full[c], 1, Len(new_full[c]) - 1))
    PROVE  Texted'
  <1>0. /\ Contents /\ Wanted(c) /\ stage = [d \in Calls |-> stage[d]]
        /\ tmp = [d \in Calls |-> tmp[d]] /\ pc \in [Calls -> Points]
        /\ script \in [Calls -> ScriptRuns \cup {"none", "ok", "failed", "killed"}]
        /\ Planned(c) /\ IsTmp(tmp[c])
    BY DEF IInv, Texted, Shaped, Contents, TmpFiles
  <1>1. SUFFICES ASSUME NEW text, NEW p,
                        /\ WriteRequest(c, text)
                        /\ \/ p = "rename" /\ text = new_full[c]
                           \/ p = "cleanup" /\ text = SubSeq(new_full[c], 1, Len(new_full[c]) - 1)
                        /\ pc' = [pc EXCEPT ![c] = p]
                 PROVE  Texted'
    <2>1. CASE Write(c)
      BY <2>1 DEF Write, Goto
    <2>2. CASE Break(c) /\ WriteRequest(c, SubSeq(new_full[c], 1, Len(new_full[c]) - 1))
      BY <2>2 DEF Break, Goto
    <2> QED
      BY <2>1, <2>2
  <1>2. /\ UNCHANGED <<target, page, new_full, want, foreign, stage, script>> /\ pc[c] = "write"
    BY DEF Write, Break, WriteRequest, planVars, sudoVars
  <1>3. script[c] = "none"
    BY <1>0, <1>2 DEF Planned, Session
  <1>4. text \in Texts
    <2>1. PICK t \in Seq(Tokens) : t = new_full[c]
      BY <1>0 DEF Wanted, Texts
    <2>2. \A i \in 1 .. Len(t) - 1 : t[i] \in Tokens
      OBVIOUS
    <2>3. SubSeq(t, 1, Len(t) - 1) \in Seq(Tokens)
      BY <2>2, SubSeqProperties
    <2> QED
      BY <1>1, <2>1, <2>3 DEF Texts
  <1>5. /\ tmp' = [tmp EXCEPT ![c] = tmp'[c]]
        /\ tmp'[c] # Absent => tmp[c] # Absent /\ tmp'[c] = [tmp[c] EXCEPT !.text = text]
    BY <1>0, <1>1 DEF WriteRequest
  <1>6. tmp'[c] # Absent => tmp'[c].text = text /\ tmp'[c].old \in BOOLEAN
    <2>1. tmp[c] # Absent => tmp[c].old \in BOOLEAN
      BY <1>0 DEF Wanted
    <2> SUFFICES ASSUME tmp'[c] # Absent
                 PROVE  tmp'[c].text = text /\ tmp'[c].old \in BOOLEAN
      OBVIOUS
    <2>2. PICK f : f = tmp[c] /\ f # Absent /\ IsTmp(f) /\ tmp'[c] = [f EXCEPT !.text = text]
      BY <1>0, <1>5
    <2>3. [f EXCEPT !.text = text].text = text /\ [f EXCEPT !.text = text].old = f.old
      BY <2>2, TmpFields
    <2> QED
      BY <2>1, <2>2, <2>3
  <1>7. /\ pc' = [pc EXCEPT ![c] = pc'[c]] /\ pc'[c] = p
        /\ stage' = [stage EXCEPT ![c] = stage'[c]] /\ script' = [script EXCEPT ![c] = script'[c]]
        /\ stage'[c] = stage[c] /\ script'[c] = "none"
    BY <1>0, <1>1, <1>2, <1>3
  <1>8. stage'[c] # Absent => stage'[c] \in Texts
    BY <1>0, <1>7 DEF Wanted
  <1> QED
    BY <1>1, <1>2, <1>4, <1>5, <1>6, <1>7, <1>8, WritingTextStep

\* The patched text is staged in $HOME.
LEMMA StageText ==
    ASSUME IInv, Texted, NEW c \in Calls,
           StageOpen(c) \/ StageWrite(c) \/ StageBreaks(c)
    PROVE  Texted'
  <1> USE DEF StageOpen, StageWrite, StageBreaks, Goto, Return, planVars, sudoVars
  <1>0. /\ Contents /\ Wanted(c) /\ stage = [d \in Calls |-> stage[d]]
        /\ tmp = [d \in Calls |-> tmp[d]] /\ pc \in [Calls -> Points]
        /\ script \in [Calls -> ScriptRuns \cup {"none", "ok", "failed", "killed"}]
        /\ Planned(c)
    BY DEF IInv, Texted, Shaped, Contents, TmpFiles
  <1>1. /\ UNCHANGED <<target, page, new_full, want, foreign, tmp>>
        /\ \E p \in {"stage_write", "place", "done"} : pc' = [pc EXCEPT ![c] = p]
        /\ pc[c] \in {"stage_open", "stage_write"}
    OBVIOUS
  <1>2. script[c] = "none"
    BY <1>0, <1>1 DEF Planned, Staging
  <1>3. \/ stage' = stage /\ script' = script
        \/ stage' = [stage EXCEPT ![c] = <<>>] /\ script' = script
        \/ stage' = [stage EXCEPT ![c] = new_full[c]] /\ script' \in {script, [script EXCEPT ![c] = "cp"]}
    OBVIOUS
  <1>4. /\ stage' = [stage EXCEPT ![c] = stage'[c]] /\ script' = [script EXCEPT ![c] = script'[c]]
        /\ pc' = [pc EXCEPT ![c] = pc'[c]] /\ pc'[c] \in {"stage_write", "place", "done"}
        /\ tmp' = [tmp EXCEPT ![c] = tmp'[c]] /\ tmp'[c] = tmp[c]
    BY <1>0, <1>1, <1>3
  <1>5. /\ stage'[c] \in {stage[c], <<>>, new_full[c]} /\ script'[c] \in {"none", "cp"}
        /\ script'[c] = "cp" => stage'[c] = new_full[c]
    BY <1>0, <1>2, <1>3
  <1>6. /\ stage'[c] # Absent => stage'[c] \in Texts
        /\ tmp'[c] # Absent => tmp'[c].text \in Texts /\ tmp'[c].old \in BOOLEAN
    <2>1. <<>> \in Texts
      BY DEF Texts
    <2>2. /\ new_full[c] \in Texts
          /\ stage[c] # Absent => stage[c] \in Texts
          /\ tmp[c] # Absent => tmp[c].text \in Texts /\ tmp[c].old \in BOOLEAN
      BY <1>0 DEF Wanted
    <2> QED
      BY <1>4, <1>5, <2>1, <2>2
  <1> QED
    BY <1>1, <1>4, <1>5, <1>6, WritingTextStep

\* The script copies the staged text and gives the copy its owner; a file ages.
LEMMA ScriptText ==
    ASSUME IInv, Texted, NEW c \in Calls, ScriptCp(c) \/ ScriptChown(c) \/ Age(c)
    PROVE  Texted'
  <1>0. /\ Contents /\ Wanted(c) /\ stage = [d \in Calls |-> stage[d]]
        /\ tmp = [d \in Calls |-> tmp[d]] /\ pc \in [Calls -> Points]
        /\ script \in [Calls -> ScriptRuns \cup {"none", "ok", "failed", "killed"}]
        /\ Planned(c) /\ Owned(c) /\ IsTmp(tmp[c])
    BY DEF IInv, Texted, Shaped, Contents, TmpFiles
  <1>1. UNCHANGED <<target, page, new_full, want, foreign, stage, pc>>
    BY DEF ScriptCp, ScriptChown, Age, planVars, sudoVars
  <1>2. /\ stage' = [stage EXCEPT ![c] = stage'[c]] /\ pc' = [pc EXCEPT ![c] = pc'[c]]
        /\ pc'[c] = pc[c] /\ stage'[c] = stage[c]
    BY <1>0, <1>1
  <1>3. stage'[c] # Absent => stage'[c] \in Texts
    BY <1>0, <1>2 DEF Wanted
  <1>4. CASE ScriptCp(c)
    <2>1. /\ script[c] = "cp" /\ stage[c] # Absent /\ script' = [script EXCEPT ![c] = "chown"]
          /\ tmp' = [tmp EXCEPT ![c] = [text |-> stage[c], owner |-> "cp", old |-> FALSE]]
      BY <1>4 DEF ScriptCp
    <2>2. tmp'[c] = [text |-> stage[c], owner |-> "cp", old |-> FALSE]
      BY <1>0, <2>1
    <2>3. tmp'[c].text = stage[c] /\ tmp'[c].old \in BOOLEAN
      BY <2>2
    <2>4. stage[c] = new_full[c] /\ stage[c] \in Texts
      BY <1>0, <2>1 DEF Wanted
    <2>5. script'[c] = "chown" /\ script' = [script EXCEPT ![c] = script'[c]]
          /\ tmp' = [tmp EXCEPT ![c] = tmp'[c]]
      BY <1>0, <2>1, <2>2
    <2> QED
      BY <1>1, <1>2, <1>3, <2>3, <2>4, <2>5, WritingTextStep
  <1>5. CASE ScriptChown(c)
    <2>1. /\ script[c] = "chown" /\ script' = [script EXCEPT ![c] = "mv"]
          /\ tmp' = [tmp EXCEPT ![c].owner = stat[c]]
      BY <1>5 DEF ScriptChown
    <2>2. tmp[c] # Absent /\ tmp'[c] = [tmp[c] EXCEPT !.owner = stat[c]]
      BY <1>0, <2>1 DEF Owned
    <2>3. tmp'[c].text = tmp[c].text /\ tmp'[c].old = tmp[c].old
      BY <1>0, <2>2, TmpFields
    <2>4. tmp[c].text = new_full[c] /\ tmp[c].text \in Texts /\ tmp[c].old \in BOOLEAN
      BY <1>0, <2>1, <2>2 DEF Wanted
    <2>5. script'[c] = "mv" /\ script' = [script EXCEPT ![c] = script'[c]]
          /\ tmp' = [tmp EXCEPT ![c] = tmp'[c]]
      BY <1>0, <2>1, <2>2
    <2> QED
      BY <1>1, <1>2, <1>3, <2>3, <2>4, <2>5, WritingTextStep
  <1>6. CASE Age(c)
    <2>1. /\ UNCHANGED script /\ tmp[c] # Absent /\ tmp' = [tmp EXCEPT ![c].old = TRUE]
      BY <1>6 DEF Age, sudoVars
    <2>2. tmp'[c] = [tmp[c] EXCEPT !.old = TRUE]
      BY <1>0, <2>1
    <2>3. tmp'[c].text = tmp[c].text /\ tmp'[c].old = TRUE
      BY <1>0, <2>1, <2>2, TmpFields
    <2>4. tmp[c].text \in Texts
      BY <1>0, <2>1 DEF Wanted
    <2>5. script'[c] = script[c] /\ script' = [script EXCEPT ![c] = script'[c]]
          /\ tmp' = [tmp EXCEPT ![c] = tmp'[c]]
      BY <1>0, <2>1, <2>2
    <2>6. pc[c] \in {"rename", "remove", "move"} \/ script[c] \in {"chown", "mv"} =>
             tmp[c].text = new_full[c]
      BY <1>0, <2>1 DEF Wanted
    <2>7. script'[c] = "cp" => (stage'[c] # Absent => stage'[c] = new_full[c])
      BY <1>0, <1>2, <2>5 DEF Wanted
    <2> QED
      BY <1>1, <1>2, <1>3, <2>3, <2>4, <2>5, <2>6, <2>7, WritingTextStep
  <1> QED
    BY <1>4, <1>5, <1>6

\* A tmp file is moved in place, or the target removed, and the call hears of
\* it or not.
LEMMA MovedText ==
    ASSUME IInv, Texted, NEW c \in Calls, RenameRequest(c),
           pc[c] \in {"rename", "move"} \/ script[c] = "mv",
           UNCHANGED <<page, new_full, want, foreign, stage>>,
           pc' = [pc EXCEPT ![c] = pc'[c]], script' = [script EXCEPT ![c] = script'[c]],
           pc'[c] = pc[c] \/ pc'[c] \notin {"read", "patch"},
           script'[c] \in {script[c], "ok"}
    PROVE  Texted' /\ target'.text = new_full[c] /\ target'.text \in want[c]
  <1>0. /\ Contents /\ Walking(c) /\ Wanted(c) /\ stage = [d \in Calls |-> stage[d]]
        /\ tmp = [d \in Calls |-> tmp[d]] /\ pc \in [Calls -> Points]
        /\ script \in [Calls -> ScriptRuns \cup {"none", "ok", "failed", "killed"}]
        /\ Planned(c)
    BY DEF IInv, Texted, Shaped, Contents, TmpFiles
  <1>1. /\ tmp[c] # Absent /\ tmp' = [tmp EXCEPT ![c] = Absent]
        /\ target' = [text |-> tmp[c].text, owner |-> tmp[c].owner]
    BY DEF RenameRequest
  <1>2. tmp'[c] = Absent /\ target'.text = tmp[c].text
    BY <1>0, <1>1
  <1>3. tmp[c].text = new_full[c] /\ new_full[c] \in Texts
    BY <1>0, <1>1 DEF Wanted
  <1>4. want[c] # {}
    BY <1>0 DEF Planned, Session, ScriptRuns
  <1>5. new_full[c] \in want[c]
    BY <1>0, <1>4 DEF Wanted
  <1>6. Contents'
    BY <1>0, <1>2, <1>3 DEF Contents
  <1>7. \A d \in Calls : d # c => Kept(d)
    BY <1>0, <1>1 DEF Kept
  <1>8. Walking(c)'
    BY <1>0, WalkKept
  <1>9. Wanted(c)'
    BY <1>0, <1>2 DEF Wanted
  <1> QED
    BY <1>2, <1>3, <1>5, <1>6, <1>7, <1>8, <1>9, OneText

\* What a rename or the script puts at the path is what its caller may expect.
LEMMA RenameText ==
    ASSUME IInv, Texted, NEW c \in Calls,
           \/ PosixRename(c) \/ Rename(c) \/ ScriptMv(c)
           \/ Break(c) /\ pc[c] \in {"rename", "move"} /\ RenameRequest(c)
    PROVE  Texted' /\ target'.text \in want[c]
  <1> USE DEF PosixRename, Rename, ScriptMv, Break, planVars, sudoVars, Goto
  <1>0. pc \in [Calls -> Points] /\ script \in [Calls -> ScriptRuns \cup {"none", "ok", "failed", "killed"}]
    BY DEF IInv, Shaped
  <1>1. /\ RenameRequest(c)
        /\ pc[c] \in {"rename", "move"} \/ script[c] = "mv"
        /\ UNCHANGED <<page, new_full, want, foreign, stage>>
    OBVIOUS
  <1>2. /\ pc' = [pc EXCEPT ![c] = pc'[c]]
        /\ pc'[c] = pc[c] \/ pc'[c] \in {"sweep", "cleanup"}
    BY <1>0
  <1>3. script' = [script EXCEPT ![c] = script'[c]] /\ script'[c] \in {script[c], "ok"}
    BY <1>0
  <1>4. pc'[c] = pc[c] \/ pc'[c] \notin {"read", "patch"}
    BY <1>2
  <1> HIDE DEF PosixRename, Rename, ScriptMv, Break, planVars, sudoVars, Goto
  <1> QED
    BY <1>1, <1>2, <1>3, <1>4, MovedText

\* A request breaks.
LEMMA BreakText ==
    ASSUME IInv, Texted, NEW c \in Calls, Break(c)
    PROVE  Texted'
  <1>0. /\ Contents /\ Walking(c) /\ Wanted(c) /\ stage = [d \in Calls |-> stage[d]]
        /\ tmp = [d \in Calls |-> tmp[d]] /\ pc \in [Calls -> Points]
    BY DEF IInv, Texted, Shaped, Contents, TmpFiles
  <1>1. /\ UNCHANGED <<page, new_full, want, foreign, stage, script>>
        /\ pc' = [pc EXCEPT ![c] = "cleanup"]
    BY DEF Break, Goto, planVars, sudoVars
  <1>2. CASE UNCHANGED tmp /\ target' \in {target, Absent}
    <2>1. Contents'
      BY <1>0, <1>1, <1>2 DEF Contents
    <2>2. \A d \in Calls : d # c => Kept(d)
      BY <1>0, <1>1, <1>2 DEF Kept
    <2>3. pc'[c] = "cleanup"
      BY <1>0, <1>1
    <2>4. Walking(c)'
      BY <1>0, <1>1, <2>3, WalkKept
    <2>5. Wanted(c)'
      BY <1>0, <1>1, <1>2, <2>3 DEF Wanted
    <2> QED
      BY <2>1, <2>2, <2>4, <2>5, OneText
  <1>3. CASE pc[c] = "open" /\ OpenRequest(c)
    BY <1>3, OpenText
  <1>4. CASE pc[c] = "write" /\ WriteRequest(c, SubSeq(new_full[c], 1, Len(new_full[c]) - 1))
    BY <1>4, WriteText
  <1>5. CASE pc[c] \in {"rename", "move"} /\ RenameRequest(c)
    BY <1>5, RenameText
  <1>6. \/ UNCHANGED tmp /\ target' \in {target, Absent}
        \/ pc[c] = "open" /\ OpenRequest(c)
        \/ pc[c] = "write" /\ WriteRequest(c, SubSeq(new_full[c], 1, Len(new_full[c]) - 1))
        \/ pc[c] \in {"rename", "move"} /\ RenameRequest(c)
    BY DEF Break, RemoveRequest
  <1> QED
    BY <1>2, <1>3, <1>4, <1>5, <1>6

\* Tmp files are swept, never those of sudo scripts.
LEMMA SweepText ==
    ASSUME IInv, Texted, NEW c \in Calls, Sweep(c)
    PROVE  Texted'
  <1>0. /\ Contents /\ Walking(c) /\ Wanted(c) /\ tmp = [d \in Calls |-> tmp[d]]
        /\ pc \in [Calls -> Points]
    BY DEF IInv, Texted, Shaped, Contents, TmpFiles
  <1>1. /\ UNCHANGED <<target, page, new_full, want, foreign, stage, script>>
        /\ pc' = [pc EXCEPT ![c] = "verify"] /\ pc[c] = "sweep"
    BY DEF Sweep, Goto, planVars, sudoVars
  <1>2. PICK gone : tmp' = [d \in Calls |-> IF d \in gone THEN Absent ELSE tmp[d]]
    BY DEF Sweep
  <1>3. \A d \in Calls : tmp'[d] = tmp[d] \/ tmp'[d] = Absent
    BY <1>2
  <1>4. Contents'
    BY <1>0, <1>1 DEF Contents
  <1>5. \A d \in Calls : d # c => Kept(d)
    BY <1>0, <1>1, <1>3 DEF Kept
  <1>6. pc'[c] = "verify"
    BY <1>0, <1>1
  <1>7. Walking(c)'
    BY <1>0, <1>1, <1>6, WalkKept
  <1>8. Wanted(c)'
    <2>1. tmp'[c] = tmp[c] \/ tmp'[c] = Absent
      BY <1>3
    <2>2. /\ new_full'[c] \in Texts
          /\ \A t \in want'[c] : t \in Texts
          /\ want'[c] # {} => new_full'[c] \in want'[c]
          /\ tmp'[c] # Absent => tmp'[c].text \in Texts /\ tmp'[c].old \in BOOLEAN
          /\ stage'[c] # Absent => stage'[c] \in Texts
      BY <1>0, <1>1, <2>1 DEF Wanted
    <2>3. /\ script'[c] \in {"chown", "mv"} => (tmp'[c] # Absent => tmp'[c].text = new_full'[c])
          /\ script'[c] = "cp" => (stage'[c] # Absent => stage'[c] = new_full'[c])
      BY <1>0, <1>1, <2>1 DEF Wanted
    <2> QED
      BY <1>6, <2>2, <2>3 DEF Wanted
  <1> QED
    BY <1>4, <1>5, <1>7, <1>8, OneText

\* Another program saves the file.
LEMMA ForeignText ==
    ASSUME IInv, Texted, ForeignWrite
    PROVE  Texted'
  <1>1. UNCHANGED <<tmp, stage, pc, page, new_full, want, script>>
    BY DEF ForeignWrite, planVars, sudoVars
  <1>2. PICK t \in ForeignTexts :
           target' = [text |-> t, owner |-> IF target = Absent THEN "other" ELSE target.owner]
    BY DEF ForeignWrite
  <1>3. target'.text = t /\ t \in Texts
    BY <1>2, EditorAssumption DEF Texts
  <1>4. foreign' \in 0 .. MaxForeign
    BY EditorAssumption DEF ForeignWrite, Texted, Contents
  <1>5. Contents'
    BY <1>1, <1>3, <1>4 DEF Texted, Contents
  <1>6. ASSUME NEW d \in Calls PROVE Walking(d)' /\ Wanted(d)'
    <2>1. Kept(d) /\ Walking(d) /\ Wanted(d)
      BY <1>1 DEF Kept, Texted
    <2> QED
      BY <2>1, KeptText
  <1> QED
    BY <1>5, <1>6 DEF Texted

\* A patch is computed from the text its caller read.
LEMMA PatchText ==
    ASSUME IInv, Texted, NEW c \in Calls, Patch(c)
    PROVE  Texted'
  <1>0. /\ Contents /\ Walking(c) /\ Wanted(c) /\ Planned(c)
        /\ page = [d \in Calls |-> page[d]] /\ new_full = [d \in Calls |-> new_full[d]]
        /\ want = [d \in Calls |-> want[d]] /\ pc \in [Calls -> Points]
    BY DEF IInv, Texted, Shaped, Contents
  <1>1. /\ UNCHANGED <<target, tmp, stage, script, foreign>>
        /\ pc[c] = "patch" /\ target # Absent
    BY DEF Patch, fileVars, sudoVars
  <1>2. /\ tmp[c] = Absent /\ target.text \in Texts
        /\ script[c] = "none"
    BY <1>0, <1>1 DEF Planned, Contents
  <1>3. PICK a \in Asks[c] :
          LET full == target.text
              stale == Sha256(full) # page[c].file_hash
          IN  \/ /\ page' = [page EXCEPT ![c] = NoPage] /\ UNCHANGED <<new_full, want>>
                 /\ pc' = [pc EXCEPT ![c] = "done"]
              \/ /\ ~stale /\ ~Refused(full, a.patches)
                 /\ new_full' = [new_full EXCEPT ![c] = Patched(full, a.patches, a.auto_newline)]
                 /\ want' = [want EXCEPT ![c] =
                                Expected(page[c].file_hash[2], a.patches, a.auto_newline)]
                 /\ page' = [page EXCEPT ![c] = NoPage]
                 /\ pc' = [pc EXCEPT ![c] = IF a.use_sudo THEN "stat" ELSE "open"]
    BY DEF Patch, Goto, Return
  <1>4. page' = [page EXCEPT ![c] = NoPage] /\ \E p \in {"done", "stat", "open"} : pc' = [pc EXCEPT ![c] = p]
    BY <1>3
  <1>5. page' = [d \in Calls |-> page'[d]] /\ page'[c] = NoPage /\ pc'[c] \in {"done", "stat", "open"}
    BY <1>0, <1>4
  <1>6. Walking(c)'
    BY <1>5, NoWalk
  <1>7. \A d \in Calls : d # c => page'[d] = page[d] /\ pc'[d] = pc[d]
    BY <1>0, <1>4
  <1>8. stage[c] # Absent => stage[c] \in Texts
    BY <1>0 DEF Wanted
  <1>9. CASE UNCHANGED <<new_full, want>>
    <2>1. Contents'
      BY <1>0, <1>1, <1>5, <1>9 DEF Contents
    <2>2. \A d \in Calls : d # c => Kept(d)
      BY <1>1, <1>7, <1>9 DEF Kept
    <2>3. Wanted(c)'
      BY <1>0, <1>1, <1>2, <1>5, <1>9 DEF Wanted
    <2> QED
      BY <1>6, <2>1, <2>2, <2>3, OneText
  <1>10. ASSUME Sha256(target.text) = page[c].file_hash, ~Refused(target.text, a.patches),
                new_full' = [new_full EXCEPT ![c] = Patched(target.text, a.patches, a.auto_newline)],
                want' = [want EXCEPT ![c] =
                            Expected(page[c].file_hash[2], a.patches, a.auto_newline)]
         PROVE  Texted'
    <2>1. page[c].file_hash[2] = target.text
      <3>1. <<"sha256", target.text>>[2] = target.text
        OBVIOUS
      <3> QED
        BY <1>10, <3>1 DEF Sha256
    <2>2. ArePatches(a.patches)
      BY AsksPatches
    <2>3. /\ new_full'[c] = Patched(target.text, a.patches, a.auto_newline)
          /\ want'[c] = Expected(target.text, a.patches, a.auto_newline)
          /\ new_full' = [d \in Calls |-> new_full'[d]]
          /\ \A d \in Calls : d # c => new_full'[d] = new_full[d] /\ want'[d] = want[d]
      BY <1>0, <1>10, <2>1
    <2>4. PICK t : t = target.text /\ t \in Texts
      BY <1>2
    <2>5. Patched(t, a.patches, a.auto_newline) \in Texts
      BY <1>10, <2>2, <2>4, PatchedTyped
    <2>6. Patched(t, a.patches, a.auto_newline) \in Expected(t, a.patches, a.auto_newline)
      BY <1>10, <2>2, <2>4, PatchesApply
    <2>7. \A x \in Expected(t, a.patches, a.auto_newline) : x \in Texts
      BY <1>10, <2>2, <2>4, ExpectedTyped
    <2>8. /\ new_full'[c] \in Texts /\ new_full'[c] \in want'[c]
          /\ \A x \in want'[c] : x \in Texts
      BY <2>3, <2>4, <2>5, <2>6, <2>7
    <2>9. Contents'
      BY <1>0, <1>1, <1>5, <2>3 DEF Contents
    <2>10. \A d \in Calls : d # c => Kept(d)
      BY <1>1, <1>7, <2>3 DEF Kept
    <2>11. Wanted(c)'
      <3>1. tmp'[c] = Absent /\ stage'[c] = stage[c] /\ script'[c] = "none"
        BY <1>1, <1>2
      <3> QED
        BY <1>5, <1>8, <2>8, <3>1 DEF Wanted
    <2> QED
      BY <1>6, <2>9, <2>10, <2>11, OneText
  <1> QED
    BY <1>3, <1>9, <1>10

\* What a read of page c found, and the page that followed.
Found(c, p, end) ==
    /\ IsEnd(end) /\ (page[c].hashes # {} => end = page[c].end)
    /\ page'[c].start = (IF p.next_start = 0 THEN page[c].start ELSE p.next_start)
    /\ page'[c].end = end
    /\ page'[c].content = page[c].content \o p.content
    /\ page'[c].hashes = page[c].hashes \cup {Sha256(target.text)}
    /\ page'[c].file_hash = Sha256(target.text)
    /\ pc'[c] = IF p.next_start = 0 THEN "patch" ELSE "read"

\* A read finds a page of the file as it is now.
LEMMA ReadFinds ==
    ASSUME IInv, Texted, NEW c \in Calls, Read(c)
    PROVE  /\ UNCHANGED <<target, tmp, stage, new_full, want, script, foreign>>
           /\ target # Absent /\ pc[c] = "read"
           /\ page' = [d \in Calls |-> page'[d]]
           /\ \A d \in Calls : d # c => page'[d] = page[d] /\ pc'[d] = pc[d]
           /\ \E limit \in Nat : \E end :
                 Found(c, Page(target.text, page[c].start, end, limit), end)
  <1>0. /\ page = [d \in Calls |-> page[d]] /\ pc \in [Calls -> Points]
        /\ Walking(c)
    BY DEF IInv, Texted, Shaped, Contents
  <1>1. /\ UNCHANGED <<target, tmp, stage, new_full, want, script, foreign>>
        /\ target # Absent /\ pc[c] = "read"
    BY DEF Read, fileVars, sudoVars
  <1> DEFINE P(limit, end) == Page(target.text, page[c].start, end, limit)
             next(limit, end) ==
                [start |-> IF P(limit, end).next_start = 0 THEN page[c].start
                           ELSE P(limit, end).next_start,
                 end |-> end,
                 content |-> page[c].content \o P(limit, end).content,
                 hashes |-> page[c].hashes \cup {Sha256(target.text)},
                 file_hash |-> Sha256(target.text)]
  <1>2. PICK limit \in 0 .. READ_MAX_LINES,
             end \in IF page[c].hashes = {} THEN ReadEnds ELSE {page[c].end} :
          /\ page' = [page EXCEPT ![c] = next(limit, end)]
          /\ pc' = [pc EXCEPT ![c] = IF P(limit, end).next_start = 0 THEN "patch" ELSE "read"]
    BY DEF Read, Goto
  <1>3. IsEnd(end) /\ (page[c].hashes # {} => end = page[c].end)
    BY <1>0, EditorAssumption DEF Walking, IsEnd
  <1>4. limit \in Nat
    BY EditorAssumption
  <1>5. PICK p : p = P(limit, end)
    OBVIOUS
  <1>6. page'[c] = next(limit, end)
    <2> HIDE DEF next
    <2> QED
      BY <1>0, <1>2
  <1>7. page'[c] = [start |-> IF p.next_start = 0 THEN page[c].start ELSE p.next_start,
                    end |-> end,
                    content |-> page[c].content \o p.content,
                    hashes |-> page[c].hashes \cup {Sha256(target.text)},
                    file_hash |-> Sha256(target.text)]
    <2> HIDE DEF P
    <2> QED
      BY <1>5, <1>6
  <1>8. /\ page' = [d \in Calls |-> page'[d]]
        /\ \A d \in Calls : d # c => page'[d] = page[d] /\ pc'[d] = pc[d]
    <2> HIDE DEF next, P
    <2> QED
      BY <1>0, <1>2
  <1>9. pc'[c] = IF p.next_start = 0 THEN "patch" ELSE "read"
    <2> HIDE DEF P
    <2> QED
      BY <1>0, <1>2, <1>5
  <1>10. /\ page'[c].start = (IF p.next_start = 0 THEN page[c].start ELSE p.next_start)
         /\ page'[c].end = end
         /\ page'[c].content = page[c].content \o p.content
         /\ page'[c].hashes = page[c].hashes \cup {Sha256(target.text)}
         /\ page'[c].file_hash = Sha256(target.text)
    <2> HIDE DEF P, next
    <2>1. PICK s, t, hs, h :
             /\ s = (IF p.next_start = 0 THEN page[c].start ELSE p.next_start)
             /\ t = page[c].content \o p.content
             /\ hs = page[c].hashes \cup {Sha256(target.text)} /\ h = Sha256(target.text)
      OBVIOUS
    <2>2. page'[c] = [start |-> s, end |-> end, content |-> t, hashes |-> hs, file_hash |-> h]
      BY <1>7, <2>1
    <2>3. /\ page'[c].start = s /\ page'[c].end = end /\ page'[c].content = t
          /\ page'[c].hashes = hs /\ page'[c].file_hash = h
      BY <2>2
    <2> QED
      BY <2>1, <2>3
  <1>11. Found(c, p, end)
    BY <1>3, <1>9, <1>10 DEF Found
  <1>12. \E k \in Nat : \E e : Found(c, Page(target.text, page[c].start, e, k), e)
    BY <1>4, <1>5, <1>11
  <1> QED
    BY <1>1, <1>8, <1>12

\* No line is the empty text.
LEMMA NoLines ==
    ASSUME NEW text \in Texts
    PROVE  FirstLinesOf(text, 0) = <<>>
  <1>1. SubSeq(SplitKeepends(text), 1, 0) = <<>>
    BY LinesTyped, SubSeqEmpty
  <1> QED
    BY <1>1, JoinNone DEF FirstLinesOf

\* A call reads the next page: of the same text, or of another one, which
\* shows in the hashes.
LEMMA ReadText ==
    ASSUME IInv, Texted, NEW c \in Calls, Read(c)
    PROVE  /\ Texted'
           /\ pc'[c] = "read" => page'[c].start > page[c].start
           /\ \A d \in Calls : d # c => page'[d] = page[d]
  <1>0. Contents /\ Walking(c) /\ Wanted(c)
    BY DEF Texted
  <1>1. /\ UNCHANGED <<target, tmp, stage, new_full, want, script, foreign>>
        /\ target # Absent /\ pc[c] = "read"
        /\ page' = [d \in Calls |-> page'[d]]
        /\ \A d \in Calls : d # c => page'[d] = page[d] /\ pc'[d] = pc[d]
    BY ReadFinds
  <1>2. PICK limit \in Nat : \E end :
          Found(c, Page(target.text, page[c].start, end, limit), end)
    BY ReadFinds
  <1>e. PICK end : Found(c, Page(target.text, page[c].start, end, limit), end)
    BY <1>2
  <1>3. PICK text \in Texts : text = target.text
    BY <1>0, <1>1 DEF Contents
  <1>4. PICK start \in Nat \ {0} : start = page[c].start
    BY <1>0 DEF Walking
  <1>5. PICK content \in Texts : content = page[c].content
    BY <1>0 DEF Walking
  <1>6. PICK p : p = Page(text, start, end, limit)
    OBVIOUS
  <1>7. /\ IsEnd(end) /\ (page[c].hashes # {} => end = page[c].end)
        /\ page'[c].start = (IF p.next_start = 0 THEN start ELSE p.next_start)
        /\ page'[c].end = end
        /\ page'[c].content = content \o p.content
        /\ page'[c].hashes = page[c].hashes \cup {Sha256(text)}
        /\ page'[c].file_hash = Sha256(text)
        /\ pc'[c] = IF p.next_start = 0 THEN "patch" ELSE "read"
    BY <1>e, <1>3, <1>4, <1>5, <1>6 DEF Found
  <1>8. /\ p.content \in Texts
        /\ p.next_start = 0 \/ (p.next_start \in Nat \ {0} /\ p.next_start > start)
    BY <1>6, <1>7, PageTyped
  <1>9. page'[c].start \in Nat \ {0} /\ page'[c].content \in Texts
    BY <1>7, <1>8, TextsConcat
  <1>10. pc'[c] = "read" => page'[c].start > page[c].start
    BY <1>4, <1>7, <1>8
  <1>11. Contents'
    BY <1>0, <1>1 DEF Contents
  <1>12. \A d \in Calls : d # c => Kept(d)
    BY <1>1 DEF Kept
  <1>13. Wanted(c)'
    BY <1>0, <1>1, <1>7 DEF Wanted
  <1>14. /\ IsFiniteSet(page[c].hashes) /\ \A h \in page[c].hashes : \E t \in Texts : h = Sha256(t)
         /\ page[c].hashes = {} => start = 1 /\ content = <<>>
         /\ \A t \in Texts : page[c].hashes = {Sha256(t)} => Walked(c, t)
    BY <1>0, <1>1, <1>4, <1>5 DEF Walking
  <1>15. /\ IsFiniteSet(page'[c].hashes) /\ page'[c].hashes # {}
         /\ \A h \in page'[c].hashes : \E t \in Texts : h = Sha256(t)
    <2>1. IsFiniteSet(page[c].hashes \cup {Sha256(text)})
      BY <1>14, FS_AddElement
    <2>2. \A h \in page[c].hashes \cup {Sha256(text)} : \E t \in Texts : h = Sha256(t)
      BY <1>14
    <2> QED
      BY <1>7, <2>1, <2>2
  <1>16. ASSUME NEW t \in Texts, page'[c].hashes = {Sha256(t)}
         PROVE  Walked(c, t)'
    <2>1. Sha256(text) = Sha256(t) /\ (page[c].hashes = {} \/ page[c].hashes = {Sha256(text)})
      BY <1>7, <1>16
    <2>2. text = t
      <3>1. <<"sha256", text>>[2] = text /\ <<"sha256", t>>[2] = t
        OBVIOUS
      <3> QED
        BY <2>1, <3>1 DEF Sha256
    <2>3. start - 1 <= Requested(text, end) /\ content = FirstLinesOf(text, start - 1)
      <3>1. CASE page[c].hashes = {}
        <4>1. start - 1 = 0 /\ content = <<>>
          BY <1>14, <3>1
        <4> QED
          BY <1>7, <4>1, NoLines, RequestedBounds
      <3>2. CASE page[c].hashes = {Sha256(text)}
        <4>1. Walked(c, text) /\ end = page[c].end
          BY <1>7, <1>14, <3>2
        <4> QED
          BY <1>1, <1>4, <1>5, <4>1 DEF Walked
      <3> QED
        BY <2>1, <3>1, <3>2
    <2>4. IF p.next_start = 0
          THEN content \o p.content = FirstLinesOf(text, Requested(text, end))
          ELSE /\ p.next_start - 1 <= Requested(text, end)
               /\ content \o p.content = FirstLinesOf(text, p.next_start - 1)
      <3>1. IsEnd(end) /\ start - 1 <= Requested(text, end)
        BY <1>7, <2>3
      <3>2. Continues(Page(text, start, end, limit), text, start, end)
        BY <3>1, PageContinues
      <3> QED
        BY <1>6, <2>3, <3>2 DEF Continues
    <2> QED
      BY <1>7, <2>2, <2>4 DEF Walked
  <1>17. Walking(c)'
    BY <1>7, <1>9, <1>15, <1>16 DEF Walking
  <1> QED
    BY <1>1, <1>10, <1>11, <1>12, <1>13, <1>17, OneText

\* What the calls hold are texts, and those the theorems below are about.
THEOREM TextsHeld == Spec => []Texted
  <1>1. Init => Texted
    <2> SUFFICES ASSUME Init PROVE Texted
      OBVIOUS
    <2> USE DEF Init
    <2>1. <<>> \in Texts /\ FirstText \in Texts /\ 0 \in 0 .. MaxForeign
      BY EditorAssumption DEF Texts
    <2>2. Contents
      BY <2>1 DEF Contents
    <2>3. ASSUME NEW c \in Calls PROVE Walking(c) /\ Wanted(c)
      <3>1. /\ page[c].start = 1 /\ page[c].end = ToEOF /\ page[c].content = <<>> /\ page[c].hashes = {}
        BY DEF NoPage
      <3>2. IsFiniteSet({}) /\ \A t : {} # {Sha256(t)}
        BY FS_EmptySet
      <3>3. \A t \in Texts : page[c].hashes # {Sha256(t)}
        BY <3>1, <3>2
      <3>5. /\ page[c].start \in Nat \ {0} /\ page[c].content \in Texts /\ IsEnd(page[c].end)
            /\ IsFiniteSet(page[c].hashes)
            /\ \A h \in page[c].hashes : \E t \in Texts : h = Sha256(t)
        <4>1. \A h \in {} : \E t \in Texts : h = Sha256(t)
          OBVIOUS
        <4>2. 1 \in Nat \ {0} /\ IsEnd(ToEOF)
          BY DEF IsEnd
        <4> QED
          BY <2>1, <3>1, <3>2, <4>1, <4>2
      <3>6. Walking(c)
        BY <3>1, <3>3, <3>5 DEF Walking
      <3>4. Wanted(c)
        BY <2>1 DEF Wanted
      <3> QED
        BY <3>4, <3>6
    <2> QED
      BY <2>2, <2>3 DEF Texted
  <1>2. IInv /\ Texted /\ [Next]_vars => Texted'
    <2> SUFFICES ASSUME IInv, Texted, [Next]_vars PROVE Texted'
      OBVIOUS
    <2>1. CASE UNCHANGED vars
      <3>1. Contents'
        BY <2>1 DEF vars, Texted, Contents
      <3>2. ASSUME NEW d \in Calls PROVE Walking(d)' /\ Wanted(d)'
        <4>1. Kept(d) /\ Walking(d) /\ Wanted(d)
          BY <2>1 DEF vars, Kept, Texted
        <4> QED
          BY <4>1, KeptText
      <3> QED
        BY <3>1, <3>2 DEF Texted
    <2>2. CASE ForeignWrite
      BY <2>2, ForeignText
    <2>3. ASSUME NEW c \in Calls, Read(c) \/ Patch(c) \/ ReadFails(c)
          PROVE  Texted'
      BY <2>3, ReadText, PatchText, GivesUpStep
    <2>4. ASSUME NEW c \in Calls, Open(c) \/ Write(c) \/ Sweep(c) \/ Break(c)
          PROVE  Texted'
      <3>1. CASE Open(c)
        BY <3>1, OpenText
      <3>2. CASE Write(c)
        BY <3>2, WriteText
      <3> QED
        BY <2>4, <3>1, <3>2, SweepText, BreakText
    <2>5. ASSUME NEW c \in Calls, PosixRename(c) \/ Rename(c) \/ ScriptMv(c)
          PROVE  Texted'
      BY <2>5, RenameText
    <2>6. ASSUME NEW c \in Calls,
                 \/ StageOpen(c) \/ StageWrite(c) \/ StageBreaks(c)
                 \/ ScriptCp(c) \/ ScriptChown(c) \/ Age(c)
          PROVE  Texted'
      BY <2>6, StageText, ScriptText
    <2>7. ASSUME NEW c \in Calls,
                 \/ Verify(c) \/ PosixRenameUnsupported(c) \/ RemoveTarget(c) \/ Cleanup(c)
                 \/ SudoStat(c) \/ SudoStatFails(c) \/ Unstage(c)
                 \/ ScriptFails(c) \/ ScriptKilled(c) \/ PlaceReturns(c) \/ PlaceGivesUp(c)
          PROVE  Texted'
      BY <2>7, PlainTextStep
    <2> QED
      BY <2>1, <2>2, <2>3, <2>4, <2>5, <2>6, <2>7 DEF Next
  <1> QED
    BY <1>1, <1>2, EditorInvariant, PTL DEF Spec

\* The editor's state has the types the code gives it.
THEOREM EditorTypeCorrect == Spec => []EditorTypeOK
  <1>1. IInv /\ Texted => EditorTypeOK
    <2> SUFFICES ASSUME IInv, Texted PROVE EditorTypeOK
      OBVIOUS
    <2>1. Shaped /\ Contents /\ \A c \in Calls : Walking(c) /\ Wanted(c)
      BY DEF IInv, Texted
    <2>2. target = Absent \/ target \in [text : Texts, owner : Owners]
      <3>1. CASE target # Absent
        <4>1. PICK text : \E owner \in Owners : target = [text |-> text, owner |-> owner]
          BY <2>1, <3>1 DEF Shaped, TargetFile
        <4>2. PICK owner \in Owners : target = [text |-> text, owner |-> owner]
          BY <4>1
        <4>3. text \in Texts
          BY <2>1, <3>1, <4>2 DEF Contents
        <4> QED
          BY <4>2, <4>3
      <3> QED
        BY <3>1
    <2>3. ASSUME NEW c \in Calls
          PROVE  /\ tmp[c] = Absent \/ tmp[c] \in [text : Texts, owner : Owners, old : BOOLEAN]
                 /\ stage[c] = Absent \/ stage[c] \in Texts
                 /\ page[c].start \in Nat \ {0} /\ page[c].content \in Texts
                 /\ new_full[c] \in Texts
                 /\ \A t \in want[c] : t \in Texts
      <3>1. Walking(c) /\ Wanted(c) /\ IsTmp(tmp[c])
        BY <2>1 DEF Shaped, TmpFiles
      <3>2. tmp[c] = Absent \/ tmp[c] \in [text : Texts, owner : Owners, old : BOOLEAN]
        <4>1. CASE tmp[c] # Absent
          <5>1. PICK text, old : \E owner \in Owners :
                    tmp[c] = [text |-> text, owner |-> owner, old |-> old]
            BY <3>1, <4>1 DEF IsTmp
          <5>2. PICK owner \in Owners : tmp[c] = [text |-> text, owner |-> owner, old |-> old]
            BY <5>1
          <5>3. tmp[c].text \in Texts /\ tmp[c].old \in BOOLEAN
            BY <3>1, <4>1 DEF Wanted
          <5>4. text \in Texts /\ old \in BOOLEAN
            BY <5>2, <5>3
          <5> QED
            BY <5>2, <5>4
        <4> QED
          BY <4>1
      <3>3. /\ stage[c] = Absent \/ stage[c] \in Texts
            /\ new_full[c] \in Texts
            /\ \A t \in want[c] : t \in Texts
        BY <3>1 DEF Wanted
      <3>4. page[c].start \in Nat \ {0} /\ page[c].content \in Texts
        BY <3>1 DEF Walking
      <3> QED
        BY <3>2, <3>3, <3>4
    <2> QED
      BY <2>1, <2>2, <2>3 DEF EditorTypeOK, Shaped, Contents
  <1> QED
    BY <1>1, TextsHeld, EditorInvariant, PTL

\* Pages with one hash among them, concatenated, are the lines asked for of
\* the file with that hash, however the file changed between the pages and
\* wherever the limits and the byte cap cut them (remote_read).
THEOREM WalksReassemble == Spec => []WalkReassembles
  <1>1. Texted => WalkReassembles
    <2> SUFFICES ASSUME Texted, NEW c \in Calls, pc[c] = "patch", Cardinality(page[c].hashes) = 1
                 PROVE  LET lines == SplitKeepends(page[c].file_hash[2])
                        IN  page[c].content =
                                IF page[c].end = ToEOF THEN Join(lines)
                                ELSE Join(SubSeq(lines, 1, Lesser(page[c].end, Len(lines))))
      BY DEF WalkReassembles
    <2>1. Walking(c)
      BY DEF Texted
    <2>2. PICK h : page[c].hashes = {h}
      BY <2>1, FS_Singleton DEF Walking
    <2>3. PICK t \in Texts : h = Sha256(t)
      BY <2>1, <2>2 DEF Walking
    <2>4. Walked(c, t)
      BY <2>1, <2>2, <2>3 DEF Walking
    <2>5. page[c].file_hash[2] = t
      <3>1. <<"sha256", t>>[2] = t
        OBVIOUS
      <3> QED
        BY <2>4, <3>1 DEF Walked, Sha256
    <2>6. PICK end : end = page[c].end /\ IsEnd(end)
      BY <2>1 DEF Walking
    <2> DEFINE lines == SplitKeepends(t)
    <2>7. page[c].content = Join(SubSeq(lines, 1, Requested(t, end)))
      BY <2>4, <2>6 DEF Walked, FirstLinesOf
    <2>8. lines \in Seq(Texts) /\ Len(lines) \in Nat
      BY LinesTyped
    <2>9. CASE end = ToEOF
      <3>1. SubSeq(lines, 1, Requested(t, end)) = lines
        BY <2>8, <2>9, SubSeqFull DEF Requested
      <3> QED
        BY <2>5, <2>6, <2>7, <2>9, <3>1
    <2>10. CASE end # ToEOF
      <3>1. end \in Int
        BY <2>6, <2>10 DEF IsEnd
      <3> HIDE DEF lines
      <3>2. PICK n \in Nat : n = Len(lines)
        BY <2>8
      <3>3. Requested(t, end) = Greater(0, Lesser(n, end))
        BY <2>10, <3>2 DEF Requested, lines
      <3>4. SubSeq(lines, 1, Requested(t, end)) = SubSeq(lines, 1, Lesser(end, n))
        <4>1. CASE Lesser(end, n) >= 0
          <5>1. Greater(0, Lesser(n, end)) = Lesser(end, n)
            BY <3>1, <3>2, <4>1 DEF Greater, Lesser
          <5> QED
            BY <3>3, <5>1
        <4>2. CASE ~(Lesser(end, n) >= 0)
          <5>1. Requested(t, end) = 0 /\ 0 < 1 /\ Lesser(end, n) < 1 /\ Lesser(end, n) \in Int
            BY <3>1, <3>2, <3>3, <4>2 DEF Greater, Lesser
          <5>2. \A m \in Int : m < 1 => SubSeq(lines, 1, m) = <<>>
            BY <2>8, SubSeqEmpty
          <5> QED
            BY <5>1, <5>2
        <4> QED
          BY <4>1, <4>2
      <3> QED
        BY <2>5, <2>6, <2>7, <2>10, <3>2, <3>4 DEF lines
    <2> QED
      BY <2>9, <2>10
  <1> QED
    BY <1>1, TextsHeld, PTL

\* Whatever breaks between the pages, the next one begins after this one
\* (remote_read).
THEOREM PagingGoesOn == Spec => PagesAdvance
  <1>1. IInv /\ Texted /\ [Next]_vars =>
           [\A c \in Calls : (pc[c] = "read" /\ pc'[c] = "read" /\ page'[c] # page[c])
                                => page'[c].start > page[c].start]_vars
    <2> SUFFICES ASSUME IInv, Texted, Next, NEW c \in Calls,
                        pc[c] = "read", pc'[c] = "read", page'[c] # page[c]
                 PROVE  page'[c].start > page[c].start
      BY DEF vars
    <2>0. pc \in [Calls -> Points] /\ page = [d \in Calls |-> page[d]]
      BY DEF IInv, Shaped, Texted, Contents
    <2>1. ~UNCHANGED page
      OBVIOUS
    <2>2. ~ForeignWrite
      BY <2>1 DEF ForeignWrite, planVars
    <2>3. ASSUME NEW d \in Calls
          PROVE  /\ ~Verify(d) /\ ~Open(d) /\ ~Write(d) /\ ~PosixRename(d)
                 /\ ~PosixRenameUnsupported(d) /\ ~RemoveTarget(d) /\ ~Rename(d) /\ ~Sweep(d)
                 /\ ~Break(d) /\ ~Cleanup(d) /\ ~SudoStat(d) /\ ~SudoStatFails(d)
      BY <2>1 DEF Verify, Open, Write, PosixRename, PosixRenameUnsupported, RemoveTarget, Rename,
         Sweep, Break, Cleanup, SudoStat, SudoStatFails, planVars
    <2>4. ASSUME NEW d \in Calls
          PROVE  /\ ~StageOpen(d) /\ ~StageWrite(d) /\ ~StageBreaks(d) /\ ~ScriptCp(d)
                 /\ ~ScriptChown(d) /\ ~ScriptMv(d) /\ ~ScriptFails(d) /\ ~ScriptKilled(d)
                 /\ ~PlaceReturns(d) /\ ~PlaceGivesUp(d) /\ ~Unstage(d) /\ ~Age(d)
      BY <2>1 DEF StageOpen, StageWrite, StageBreaks, ScriptCp, ScriptChown, ScriptMv, ScriptFails,
         ScriptKilled, PlaceReturns, PlaceGivesUp, Unstage, Age, planVars
    <2>5. PICK d \in Calls : Read(d) \/ Patch(d) \/ ReadFails(d)
      BY <2>2, <2>3, <2>4 DEF Next
    <2>6. CASE Read(d)
      BY <2>6, ReadText
    <2>7. CASE Patch(d) \/ ReadFails(d)
      <3>1. PICK p \in {"done", "stat", "open"} : pc' = [pc EXCEPT ![d] = p]
        BY <2>7 DEF Patch, ReadFails, Goto, Return
      <3>2. page' = [page EXCEPT ![d] = NoPage]
        BY <2>7 DEF Patch, ReadFails
      <3>3. c # d
        BY <2>0, <3>1
      <3> QED
        BY <2>0, <3>2, <3>3
    <2> QED
      BY <2>5, <2>6, <2>7
  <1> QED
    BY <1>1, TextsHeld, EditorInvariant, PTL DEF Spec, PagesAdvance

\* Whatever a call puts at the path is the text that its patches make of the
\* text its caller read, whole, however the requests and scripts of all calls
\* interleave, break or go on alone (_atomic_write, _sudo_write_atomic).
THEOREM WholePatchesCommitted == Spec => CommitsWholePatch
  <1>1. IInv /\ Texted /\ [Next]_vars =>
           [\A c \in Calls : (tmp'[c] # tmp[c] /\ target' # target) => target'.text \in want[c]]_vars
    <2> SUFFICES ASSUME IInv, Texted, Next, NEW c \in Calls, tmp'[c] # tmp[c], target' # target
                 PROVE  target'.text \in want[c]
      BY DEF vars
    <2>0. tmp = [d \in Calls |-> tmp[d]]
      BY DEF IInv, Shaped, TmpFiles
    <2>1. ~UNCHANGED tmp /\ ~UNCHANGED target
      OBVIOUS
    <2>2. ~ForeignWrite
      BY <2>1 DEF ForeignWrite
    <2>3. ASSUME NEW d \in Calls
          PROVE  /\ ~Read(d) /\ ~Patch(d) /\ ~ReadFails(d) /\ ~Verify(d) /\ ~Open(d) /\ ~Write(d)
                 /\ ~PosixRenameUnsupported(d) /\ ~RemoveTarget(d) /\ ~Sweep(d)
                 /\ ~Cleanup(d) /\ ~SudoStat(d) /\ ~SudoStatFails(d)
      BY <2>1 DEF Read, Patch, ReadFails, Verify, Open, OpenRequest, Write, WriteRequest,
         PosixRenameUnsupported, RemoveTarget, RemoveRequest, Sweep, Cleanup, SudoStat,
         SudoStatFails, fileVars
    <2>4. ASSUME NEW d \in Calls
          PROVE  /\ ~StageOpen(d) /\ ~StageWrite(d) /\ ~StageBreaks(d) /\ ~ScriptCp(d)
                 /\ ~ScriptChown(d) /\ ~ScriptFails(d) /\ ~ScriptKilled(d)
                 /\ ~PlaceReturns(d) /\ ~PlaceGivesUp(d) /\ ~Unstage(d) /\ ~Age(d)
      BY <2>1 DEF StageOpen, StageWrite, StageBreaks, ScriptCp, ScriptChown, ScriptFails,
         ScriptKilled, PlaceReturns, PlaceGivesUp, Unstage, Age, fileVars
    <2>5. PICK d \in Calls : PosixRename(d) \/ Rename(d) \/ ScriptMv(d) \/ Break(d)
      BY <2>2, <2>3, <2>4 DEF Next
    <2>6. /\ \/ PosixRename(d) \/ Rename(d) \/ ScriptMv(d)
             \/ Break(d) /\ pc[d] \in {"rename", "move"} /\ RenameRequest(d)
          /\ RenameRequest(d)
      <3>1. CASE Break(d)
        <4>1. ~OpenRequest(d) /\ ~RemoveRequest /\ \A text : ~WriteRequest(d, text)
          BY <2>1 DEF OpenRequest, RemoveRequest, WriteRequest
        <4> QED
          BY <2>1, <3>1, <4>1 DEF Break
      <3> QED
        BY <2>5, <3>1 DEF PosixRename, Rename, ScriptMv
    <2>7. target'.text \in want[d]
      BY <2>6, RenameText
    <2>8. tmp' = [tmp EXCEPT ![d] = Absent]
      BY <2>6 DEF RenameRequest
    <2>9. c = d
      BY <2>0, <2>8
    <2> QED
      BY <2>7, <2>9
  <1> QED
    BY <1>1, TextsHeld, EditorInvariant, PTL DEF Spec, CommitsWholePatch
=============================================================================

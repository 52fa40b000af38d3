------------------------- MODULE FileTransferProofs -------------------------
(***************************************************************************)
(* Proofs about FileTransfer: the typing, that a file is skipped only when *)
(* it need not be copied, and that transfers that answer ok leave both     *)
(* sides the same.                                                         *)
(***************************************************************************)
EXTENDS FileTransfer, SequenceTheorems, WellFoundedInduction, TLAPS

\* The inductive invariant.  The record of a call: what it is at fits what it
\* does and what it has put down ...
CallOK(r) ==
    /\ r \in CallRec
    /\ r.at = "ended" <=> r.status # "none"
    /\ r.at \in Phases \ {"open", "walk"} => r.todo # {}
    /\ r.op \in Batches \/ r.failed \cup r.skipped = {}
    /\ (r.failed \cup r.skipped) \cap r.todo = {}
    /\ r.at \in Phases \/ r.status = "ok" => r.op # "none"
    /\ r.at \in {"stat", "append", "verifyL", "verifyR"} => r.op = "upload"
    /\ r.at = "walk" => r.op = "mirror"
    /\ r.at \in {"file", "compare", "rhash", "lhash"} => r.op \in Batches
    /\ r.at \in {"open", "walk"} => /\ r.failed \cup r.skipped = {}
                                    /\ r.op \in Batches => r.scope = {} /\ r.todo = {}
                                    /\ r.op \notin Batches => r.todo # {} /\ r.scope = r.todo
    /\ r.at \in {"rhash", "lhash"} => r.checksum
    /\ r.op = "mirror" /\ r.at \notin {"open", "walk"} => r.todo \subseteq r.scope
    /\ r.op \notin Batches => \A f, g \in r.todo : f = g
Typed ==
    /\ now \in 0..MaxTime /\ made \in Nat /\ edits \in 0..MaxEdits
    /\ blur \subseteq Files
    /\ disk \in [Sides -> [Files -> FileRec \cup {NoFile}]]
    /\ \A s \in Sides, f \in Files : Exists(s, f) => At(s, f).mtime <= now
    /\ call \in [Calls -> CallRec]
    /\ \A c \in Calls : CallOK(call[c])

\* Matching mtimes tell that contents are the same, unless they are blurred.
BlurTells == \A f \in Files \ blur :
    Exists("local", f) /\ Exists("remote", f)
    /\ MtimeMatch(At("local", f).mtime, At("remote", f).mtime) => SameData(f)

\* Side s of f is there, of that size and mtime.
Is(s, f, size, mtime) ==
    Exists(s, f) /\ Len(At(s, f).data) = size /\ At(s, f).mtime = mtime

\* What a call has put down about a source is true until the source changes.
\* A file that sync has listed is there, and what mirror saw in its walk, and
\* what a call saw of its current file; an upload's own hash; what hashing
\* found on the host, or what is there now if the host is the source.
Knows(c) ==
    /\ call[c].op = "sync" => /\ call[c].scope \cap Links = {}
                              /\ \A f \in call[c].scope \ call[c].dirty : Exists("local", f)
    /\ call[c].op = "mirror" /\ Running(c) => \A f \in call[c].scope \ call[c].dirty :
          Is("remote", f, call[c].seen[f].size, call[c].seen[f].mtime)
    /\ call[c].at \in Phases \ {"open", "walk"} /\ File(c) \notin call[c].dirty =>
          /\ call[c].at \in {"compare", "rhash", "lhash"} =>
                Is(Src(call[c].op), File(c), call[c].size, call[c].mtime)
          /\ call[c].at = "write" =>
                /\ Exists(Src(call[c].op), File(c))
                /\ At(Src(call[c].op), File(c)).mtime = call[c].mtime
          /\ call[c].at = "verifyR" =>
                Exists("local", File(c)) /\ At("local", File(c)).data = call[c].hash
          /\ call[c].at = "lhash" /\ (call[c].op \in Downloads \/ ~call[c].shared) =>
                Exists("remote", File(c)) /\ At("remote", File(c)).data = call[c].hash
SourceKnown == \A c \in Calls : Knows(c)

\* A copy under way: the destination is no longer than the source, and wrong
\* only where it is still to be written.
Covers(c) ==
    LET f == File(c)
        s == Dst(call[c].op)
    IN /\ Exists(s, f) /\ Exists(Other(s), f)
       /\ Len(At(s, f).data) <= Len(At(Other(s), f).data)
       /\ \A i \in 1..Len(At(Other(s), f).data) :
            \/ i \in call[c].left
            \/ i <= Len(At(s, f).data) /\ At(s, f).data[i] = At(Other(s), f).data[i]
Sure(c) == call[c].at = "write" /\ File(c) \notin call[c].dirty /\ ~call[c].shared => Covers(c)
CoversAlone == \A c \in Calls : Sure(c)

\* Call d makes side s of f like the other one, or does not end well.
Repairs(d, s, f) ==
    /\ Dst(call[d].op) = s /\ Writing(d) /\ File(d) = f
    /\ call[d].at = "verifyR" => Exists(Other(s), f) /\ call[d].hash = At(Other(s), f).data
    /\ call[d].at = "write" => Covers(d)
Settled(s, f) == SameData(f) \/ \E d \in Calls : Repairs(d, s, f)

\* Call c is through with f.
Through(c, f) ==
    /\ f \in call[c].scope
    /\ \/ call[c].status = "ok"
       \/ Running(c) /\ call[c].at \notin {"open", "walk"} /\ f \notin call[c].todo \cup call[c].failed

\* Call c vouches for f: it was through with f, or has opened it, or hashed
\* it and found no difference yet.
Vouches(c, f) ==
    \/ Through(c, f)
    \/ call[c].at = "write" /\ File(c) = f
    \/ /\ call[c].at = "lhash" /\ call[c].op \in Uploads /\ File(c) = f
       /\ At("local", f).data = call[c].hash
Keeps(c) == \A f \in Files \ (call[c].dirty \cup call[c].spoiled \cup call[c].guessed) :
    Vouches(c, f) => Settled(Dst(call[c].op), f)
Agreed == \A c \in Calls : Keeps(c)

IInv ==
    /\ Typed /\ BlurTells /\ SourceKnown /\ CoversAlone /\ Agreed

-----------------------------------------------------------------------------
(* Helpers *)

\* The first of some files is one of them: there is a least place where one
\* of them stands.
LEMMA FirstIn ==
    ASSUME NEW S \in SUBSET Files, S # {}
    PROVE  First(S) \in S
  <1> DEFINE T == {i \in DOMAIN Tree : Tree[i] \in S}
  <1> DEFINE R == OpToRel(<, Nat)
  <1>1. T \subseteq Nat /\ T # {} /\ DOMAIN Tree = 1..Len(Tree)
    <2>1. Tree \in Seq(Files)
      BY TransferAssumption
    <2>2. DOMAIN Tree = 1..Len(Tree)
      BY <2>1
    <2>3. PICK f \in S : TRUE
      OBVIOUS
    <2>4. \E i \in DOMAIN Tree : Tree[i] = f
      BY <2>3 DEF Files, Range
    <2> QED
      BY <2>2, <2>3, <2>4
  <1>2. PICK n \in T : \A m \in T : <<m, n>> \notin R
    <2> HIDE DEF R, T
    <2>1. IsWellFoundedOn(R, Nat)
      BY NatLessThanWellFounded DEF R
    <2> QED
      BY <1>1, <2>1, WFMin
  <1>3. \A m \in T : ~(m < n)
    BY <1>1, <1>2 DEF OpToRel
  <1>4. n \in DOMAIN Tree /\ Tree[n] \in S /\ \A k \in 1..(n - 1) : Tree[k] \notin S
    <2>1. n \in DOMAIN Tree /\ Tree[n] \in S /\ n \in 1..Len(Tree)
      BY <1>1
    <2>2. ASSUME NEW k \in 1..(n - 1) PROVE Tree[k] \notin S
      <3>1. k \in DOMAIN Tree /\ k < n
        BY <1>1, <2>1
      <3> QED
        BY <1>3, <3>1
    <2> QED
      BY <2>1, <2>2
  <1>5. \E i \in DOMAIN Tree : Tree[i] \in S /\ \A k \in 1..(i - 1) : Tree[k] \notin S
    BY <1>4
  <1> QED
    BY <1>5 DEF First

\* The sides.
LEMMA SideFacts ==
           /\ \A s \in Sides : Other(s) \in Sides /\ Other(s) # s /\ Other(Other(s)) = s
           /\ \A s, t \in Sides : s = t \/ s = Other(t)
           /\ \A op : /\ Src(op) \in Sides /\ Dst(op) \in Sides
                      /\ Dst(op) = Other(Src(op)) /\ Src(op) = Other(Dst(op))
           /\ \A op \in Uploads : Src(op) = "local" /\ Dst(op) = "remote"
           /\ \A op \in Downloads : Src(op) = "remote" /\ Dst(op) = "local"
           /\ Uploads \cap Downloads = {} /\ "none" \notin Uploads \cup Downloads
  BY DEF Sides, Other, Src, Dst, Uploads, Downloads

\* The two sides of a file are the same, from either side.
LEMMA SameSides ==
    ASSUME NEW s \in Sides, NEW f \in Files
    PROVE  SameData(f) <=> /\ Exists(s, f) /\ Exists(Other(s), f)
                           /\ At(s, f).data = At(Other(s), f).data
  BY DEF SameData, Sides, Other

\* The file a call is at.
LEMMA FileIn ==
    ASSUME Typed, NEW c \in Calls
    PROVE  /\ CallOK(call[c])
           /\ call[c].todo # {} => File(c) \in call[c].todo /\ File(c) \in Files
           /\ call[c].at \in Phases \ {"open", "walk"} => File(c) \in call[c].todo /\ File(c) \in Files
  <1>1. CallOK(call[c]) /\ call[c].todo \in SUBSET Files
    BY DEF Typed, CallOK, CallRec
  <1>2. call[c].todo # {} => File(c) \in call[c].todo
    BY <1>1, FirstIn DEF File
  <1> QED
    BY <1>1, <1>2 DEF CallOK

\* What is on the disk.
LEMMA DiskFacts ==
    ASSUME Typed, NEW s \in Sides, NEW f \in Files, Exists(s, f)
    PROVE  /\ At(s, f) \in FileRec /\ At(s, f).data \in Seq(Nat) /\ Len(At(s, f).data) \in Nat
           /\ At(s, f).mtime \in Nat /\ At(s, f).mtime <= now /\ now \in Nat
  <1>1. At(s, f) \in FileRec
    BY DEF Typed, At, Exists
  <1>2. now \in Nat
    BY TransferAssumption DEF Typed
  <1> QED
    BY <1>1, <1>2 DEF FileRec, Typed

-----------------------------------------------------------------------------
(* The records of calls *)

\* What a record keeps when a call goes on to its next file.
SameBook(n, r) ==
    /\ n.op = r.op /\ n.scope = r.scope /\ n.skipped = r.skipped
    /\ n.dirty = r.dirty /\ n.spoiled = r.spoiled /\ n.guessed = r.guessed

\* The idle record.
LEMMA IdleFacts ==
    CallOK(Idle) /\ Idle \in CallRec
  BY DEF Idle, CallOK, CallRec, Phases, WritePhases, Batches

\* The record of a call that is through.
LEMMA EndFacts ==
    ASSUME NEW r \in CallRec, NEW st \in {"ok", "partial", "error", "cancelled"}, st = "ok" => r.op # "none",
           r.op \in Batches \/ r.skipped = {}
    PROVE  /\ CallOK(End(r, st)) /\ End(r, st) \in CallRec
           /\ End(r, st).at = "ended" /\ End(r, st).status = st
           /\ End(r, st).todo = {} /\ End(r, st).failed = {}
           /\ st = "ok" => SameBook(End(r, st), r)
           /\ st # "ok" => /\ End(r, st).op = "none" /\ End(r, st).skipped = {}
                           /\ End(r, st).scope = {}
  <1> DEFINE e == [Idle EXCEPT !.at = "ended", !.status = st]
  <1>1. e \in CallRec /\ e.at = "ended" /\ e.status = st /\ e.op = "none" /\ e.skipped = {} /\ e.failed = {}
        /\ e.todo = {} /\ e.scope = {}
    <2>1. /\ Idle.op = "none" /\ Idle.skipped = {} /\ Idle.failed = {} /\ Idle.todo = {}
          /\ Idle.scope = {}
      BY DEF Idle
    <2> QED
      BY <2>1, IdleFacts DEF CallRec
  <1>2. CASE st # "ok"
    <2>1. End(r, st) = e
      BY <1>2 DEF End
    <2>2. CallOK(e)
      <3> HIDE DEF e
      <3> QED
        BY <1>1, <1>2 DEF CallOK, Phases, WritePhases, Uploads, Downloads, Batches
    <2> QED
      BY <1>1, <1>2, <2>1, <2>2
  <1>3. CASE st = "ok"
    <2> DEFINE o == [e EXCEPT !.op = r.op, !.scope = r.scope, !.skipped = r.skipped,
                          !.dirty = r.dirty, !.spoiled = r.spoiled, !.guessed = r.guessed]
    <2>1. End(r, st) = o
      BY <1>3 DEF End
    <2>2. o \in CallRec /\ o.at = "ended" /\ o.status = st /\ o.todo = {} /\ o.failed = {} /\ SameBook(o, r)
      <3> HIDE DEF e
      <3> QED
        BY <1>1 DEF CallRec, SameBook
    <2>3. CallOK(o)
      <3> HIDE DEF o
      <3> QED
        BY <1>3, <2>2 DEF CallOK, Phases, WritePhases, SameBook
    <2> QED
      BY <1>3, <2>1, <2>2, <2>3
  <1> QED
    BY <1>2, <1>3

\* Going on to the next file: there is one, or the call ends.
LEMMA NextFacts ==
    ASSUME NEW r \in CallRec, r.todo # {}, r.status = "none", r.op # "none",
           (r.failed \cup r.skipped) \cap (r.todo \ {First(r.todo)}) = {},
           r.op \in Batches \/ r.failed \cup r.skipped = {},
           r.op \notin Batches => r.todo = {First(r.todo)},
           r.op = "mirror" => r.todo \subseteq r.scope
    PROVE  LET n == NextFile(r)
               rest == r.todo \ {First(r.todo)}
           IN /\ n \in CallRec /\ CallOK(n)
              /\ \/ /\ n.at = "file" /\ n.status = "none" /\ n.todo = rest /\ SameBook(n, r)
                    /\ n.seen = r.seen /\ n.failed = r.failed
                 \/ /\ n.at = "ended" /\ n.status = "ok" /\ r.failed = {} /\ rest = {}
                    /\ SameBook(n, r) /\ n.todo = {} /\ n.failed = {}
                 \/ /\ n.at = "ended" /\ n.status = "partial" /\ n.op = "none" /\ n.skipped = {}
                    /\ n.scope = {} /\ r.failed # {}
  <1> DEFINE n == NextFile(r)
  <1> DEFINE rest == r.todo \ {First(r.todo)}
  <1>1. CASE rest # {}
    <2> DEFINE e == [r EXCEPT !.at = "file", !.todo = rest, !.size = 0, !.mtime = 0,
                              !.left = {}, !.hash = <<>>, !.shared = FALSE]
    <2>1. n = e
      BY <1>1 DEF NextFile
    <2>2. r.todo \in SUBSET Files /\ rest \in SUBSET Files
      BY DEF CallRec
    <2>3. "file" \in Phases /\ <<>> \in Seq(Nat) /\ {} \in SUBSET (Nat \ {0})
      BY DEF Phases, WritePhases
    <2>4. e \in CallRec
      <3> HIDE DEF rest
      <3> QED
        BY <2>2, <2>3 DEF CallRec
    <2>5. /\ e.at = "file" /\ e.status = "none" /\ e.todo = rest /\ SameBook(e, r)
          /\ e.seen = r.seen /\ e.failed = r.failed
      <3> HIDE DEF rest
      <3> QED
        BY DEF CallRec, SameBook
    <2>6. r.op \in Batches
      BY <1>1
    <2>7. CallOK(e)
      <3> HIDE DEF e
      <3> QED
        BY <1>1, <2>4, <2>5, <2>6 DEF CallOK, SameBook
    <2> HIDE DEF e, n
    <2> QED
      BY <2>1, <2>4, <2>5, <2>7 DEF n
  <1>2. CASE rest = {}
    <2>1. n = End(r, IF r.failed = {} THEN "ok" ELSE "partial")
      BY <1>2 DEF NextFile
    <2> HIDE DEF n
    <2>2. CASE r.failed = {}
      BY <1>2, <2>1, <2>2, EndFacts DEF n
    <2>3. CASE r.failed # {}
      BY <1>2, <2>1, <2>3, EndFacts DEF n
    <2> QED
      BY <2>2, <2>3
  <1> QED
    BY <1>1, <1>2

\* What becomes of a call whose record was r when it leaves its file: the next
\* one, an answer ok, or another answer, which promises nothing.
Onward(n, r, skipped, failed) ==
    LET rest == r.todo \ {First(r.todo)}
    IN /\ n \in CallRec /\ CallOK(n)
       /\ n.op # "none" => /\ n.op = r.op /\ n.scope = r.scope /\ n.dirty = r.dirty
                           /\ n.spoiled = r.spoiled /\ n.guessed = r.guessed /\ n.skipped = skipped
       /\ n.op = "none" => n.skipped = {} /\ n.scope = {}
       /\ \/ /\ n.at = "file" /\ n.status = "none" /\ n.op = r.op /\ n.todo = rest
             /\ n.seen = r.seen /\ n.failed = failed
          \/ /\ n.at = "ended" /\ n.status = "ok" /\ n.op = r.op /\ n.todo = {}
             /\ rest = {} /\ failed = {}
          \/ n.at = "ended" /\ n.status # "ok" /\ n.op = "none"

\* The four ways of leaving a file.
LEMMA OnwardFacts ==
    ASSUME NEW r \in CallRec, CallOK(r), r.at \in Phases
    PROVE  /\ r.at \notin {"open", "walk"} =>
                /\ Onward(NextFile(r), r, r.skipped, r.failed)
                /\ r.op \in Batches =>
                      Onward(Skip(r), r, r.skipped \cup {First(r.todo)}, r.failed)
                /\ Onward(FileFailed(r), r, r.skipped, r.failed \cup {First(r.todo)})
           /\ \A st \in {"error", "cancelled"} : \A failed :
                Onward(End(r, st), r, r.skipped, failed)
  <1>1. /\ r.status = "none" /\ r.op # "none"
        /\ r.op \in Batches \/ r.failed \cup r.skipped = {}
        /\ (r.failed \cup r.skipped) \cap r.todo = {}
        /\ r.skipped \in SUBSET Files /\ r.failed \in SUBSET Files /\ r.todo \in SUBSET Files
    BY DEF CallOK, CallRec, Phases, WritePhases
  <1>2. ASSUME NEW st \in {"error", "cancelled"}, NEW failed
        PROVE  Onward(End(r, st), r, r.skipped, failed)
    BY <1>1, EndFacts DEF Onward
  <1>3. CASE r.at \notin {"open", "walk"}
    <2> DEFINE first == First(r.todo)
    <2>1. r.todo # {} /\ r.op = "mirror" => r.todo \subseteq r.scope
      BY <1>3 DEF CallOK
    <2>2. r.todo # {} /\ first \in r.todo /\ first \in Files
      BY <1>1, <1>3, FirstIn DEF CallOK
    <2>3. r.op \notin Batches => r.todo = {first}
      BY <2>2 DEF CallOK
    <2> HIDE DEF first
    <2>4. Onward(NextFile(r), r, r.skipped, r.failed)
      BY <1>1, <2>1, <2>2, <2>3, NextFacts DEF Onward, SameBook, first
    <2>5. ASSUME r.op \in Batches
          PROVE  /\ Onward(Skip(r), r, r.skipped \cup {first}, r.failed)
                 /\ Onward(FileFailed(r), r, r.skipped, r.failed \cup {first})
      <3> DEFINE a == [r EXCEPT !.skipped = @ \cup {first}]
      <3> DEFINE b == [r EXCEPT !.failed = @ \cup {first}]
      <3>1. /\ a \in CallRec /\ a.skipped = r.skipped \cup {first} /\ a.failed = r.failed
            /\ a.todo = r.todo /\ a.op = r.op /\ a.scope = r.scope /\ a.dirty = r.dirty
            /\ a.spoiled = r.spoiled /\ a.guessed = r.guessed /\ a.seen = r.seen /\ a.status = r.status
        BY <2>2 DEF CallRec
      <3>2. /\ b \in CallRec /\ b.failed = r.failed \cup {first} /\ b.skipped = r.skipped
            /\ b.todo = r.todo /\ b.op = r.op /\ b.scope = r.scope /\ b.dirty = r.dirty
            /\ b.spoiled = r.spoiled /\ b.guessed = r.guessed /\ b.seen = r.seen /\ b.status = r.status
        BY <2>2 DEF CallRec
      <3>3. Skip(r) = NextFile(a) /\ FileFailed(r) = NextFile(b)
        BY <2>5 DEF Skip, FileFailed, first
      <3> HIDE DEF a, b
      <3>4. Onward(NextFile(a), r, r.skipped \cup {first}, r.failed)
        BY <1>1, <2>1, <2>2, <2>3, <2>5, <3>1, NextFacts DEF Onward, SameBook, first
      <3>5. Onward(NextFile(b), r, r.skipped, r.failed \cup {first})
        BY <1>1, <2>1, <2>2, <2>3, <2>5, <3>2, NextFacts DEF Onward, SameBook, first
      <3> QED
        BY <3>3, <3>4, <3>5
    <2>6. ASSUME r.op \notin Batches
          PROVE  Onward(FileFailed(r), r, r.skipped, r.failed \cup {first})
      BY <1>2, <2>6 DEF FileFailed
    <2> QED
      BY <1>2, <1>3, <2>4, <2>5, <2>6 DEF first
  <1> QED
    BY <1>2, <1>3

-----------------------------------------------------------------------------
(* A step as the other calls see it *)

\* The record n of a call differs from r in its history alone.
Kept(n, r) ==
    /\ n \in CallRec /\ CallOK(n)
    /\ n.at = r.at /\ n.op = r.op /\ n.checksum = r.checksum /\ n.status = r.status
    /\ n.scope = r.scope /\ n.todo = r.todo /\ n.size = r.size /\ n.mtime = r.mtime
    /\ n.seen = r.seen /\ n.left = r.left /\ n.hash = r.hash
    /\ n.skipped = r.skipped /\ n.failed = r.failed
    /\ r.dirty \subseteq n.dirty /\ r.spoiled \subseteq n.spoiled /\ n.guessed = r.guessed
    /\ (r.shared => n.shared)

\* Call d takes no part in a step, and what changes on the disk is put down.
Noted(d) ==
    /\ Kept(call'[d], call[d])
    /\ \A s \in Sides, f \in Files : disk'[s][f] # disk[s][f] =>
          /\ call[d].op # "none" /\ Src(call[d].op) = s => f \in call'[d].dirty
          /\ call[d].at \in {"write", "lhash"} /\ File(d) = f =>
                call'[d].shared \/ f \in call'[d].dirty

\* What is on the disk as far as one side of a file is concerned.
LEMMA SideSame ==
    ASSUME NEW s \in Sides, NEW f \in Files, disk'[s][f] = disk[s][f]
    PROVE  At(s, f)' = At(s, f) /\ Exists(s, f)' = Exists(s, f)
  BY DEF At, Exists

\* Such a call still knows what it knew, and vouches for no more files.
LEMMA NotedStays ==
    ASSUME Typed, NEW d \in Calls, Knows(d), Sure(d), Noted(d)
    PROVE  /\ Knows(d)' /\ Sure(d)'
           /\ \A f \in Files \ call'[d].dirty : Vouches(d, f)' => Vouches(d, f)
  <1>s. PICK src : src = Src(call[d].op)
    OBVIOUS
  <1>f. PICK f : f = File(d)
    OBVIOUS
  <1>1. Kept(call'[d], call[d]) /\ CallOK(call[d]) /\ CallOK(call'[d])
    BY FileIn DEF Noted, Kept
  <1>2. File(d)' = f /\ Running(d)' = Running(d)
    BY <1>1, <1>f DEF File, Kept, Running
  <1>3. ASSUME NEW g \in Files \ call'[d].dirty, call[d].op # "none"
        PROVE  /\ g \notin call[d].dirty
               /\ At(src, g)' = At(src, g) /\ Exists(src, g)' = Exists(src, g)
    <2>1. src \in Sides
      BY <1>s, SideFacts
    <2>2. disk'[src][g] = disk[src][g]
      BY <1>3, <1>s, <2>1 DEF Noted
    <2>3. g \notin call[d].dirty
      BY <1>1 DEF Kept
    <2> QED
      BY <2>1, <2>2, <2>3, SideSame
  <1>4. call[d].scope \subseteq Files /\ call'[d].scope = call[d].scope
        /\ call'[d].op = call[d].op /\ call'[d].at = call[d].at /\ call'[d].seen = call[d].seen
    BY <1>1, FileIn DEF Kept, CallOK, CallRec
  <1>0. call[d].op = "sync" => call'[d].scope \cap Links = {}
    BY <1>4 DEF Knows
  <1>5. call[d].op = "sync" => \A g \in call'[d].scope \ call'[d].dirty : Exists("local", g)'
    <2> SUFFICES ASSUME call[d].op = "sync", NEW g \in call'[d].scope \ call'[d].dirty
                 PROVE  Exists("local", g)'
      OBVIOUS
    <2>1. src = "local"
      BY <1>s, SideFacts DEF Uploads
    <2> QED
      BY <1>3, <1>4, <2>1 DEF Knows
  <1>6. call[d].op = "mirror" /\ Running(d) => \A g \in call'[d].scope \ call'[d].dirty :
           Is("remote", g, call[d].seen[g].size, call[d].seen[g].mtime)'
    <2> SUFFICES ASSUME call[d].op = "mirror", Running(d),
                        NEW g \in call'[d].scope \ call'[d].dirty
                 PROVE  Is("remote", g, call[d].seen[g].size, call[d].seen[g].mtime)'
      OBVIOUS
    <2>1. src = "remote"
      BY <1>s, SideFacts DEF Downloads
    <2>2. At("remote", g)' = At("remote", g) /\ Exists("remote", g)' = Exists("remote", g)
      BY <1>3, <1>4, <2>1
    <2>3. Is("remote", g, call[d].seen[g].size, call[d].seen[g].mtime)
      BY <1>3, <1>4 DEF Knows
    <2> QED
      BY <1>4, <2>2, <2>3 DEF Is
  <1>7. CASE call[d].at \in Phases \ {"open", "walk"}
    <2>1. f \in Files /\ call[d].op # "none"
      BY <1>1, <1>7, <1>f, FileIn DEF CallOK
    <2>2. ASSUME f \notin call'[d].dirty
          PROVE  /\ f \notin call[d].dirty
                 /\ At(src, f)' = At(src, f) /\ Exists(src, f)' = Exists(src, f)
      BY <1>3, <2>1, <2>2
    <2>3. call[d].at \in {"verifyR"} => src = "local"
      BY <1>1, <1>s, SideFacts DEF CallOK, Uploads
    <2>4. call[d].op \in Downloads => src = "remote"
      BY <1>s, SideFacts
    <2>5. ASSUME f \notin call'[d].dirty, ~call'[d].shared, call[d].at \in {"write", "lhash"},
                 NEW s \in Sides
          PROVE  /\ ~call[d].shared
                 /\ At(s, f)' = At(s, f) /\ Exists(s, f)' = Exists(s, f)
      BY <1>1, <1>f, <2>1, <2>5, SideSame DEF Noted, Kept
    <2>6. /\ call'[d].at = call[d].at /\ call'[d].op = call[d].op /\ call'[d].size = call[d].size
          /\ call'[d].mtime = call[d].mtime /\ call'[d].hash = call[d].hash
          /\ call'[d].shared \in BOOLEAN
      BY <1>1 DEF Kept, CallRec
    <2>7. Knows(d)'
      <3> SUFFICES ASSUME f \notin call'[d].dirty
                   PROVE  /\ call[d].at \in {"compare", "rhash", "lhash"} =>
                                Is(src, f, call[d].size, call[d].mtime)'
                          /\ call[d].at = "write" =>
                                Exists(src, f)' /\ At(src, f)'.mtime = call[d].mtime
                          /\ call[d].at = "verifyR" =>
                                Exists("local", f)' /\ At("local", f)'.data = call[d].hash
                          /\ call[d].at = "lhash" /\ (call[d].op \in Downloads \/ ~call'[d].shared) =>
                                Exists("remote", f)' /\ At("remote", f)'.data = call[d].hash
        BY <1>0, <1>2, <1>5, <1>6, <1>s, <1>f, <2>6 DEF Knows, Is
      <3>1. /\ f \notin call[d].dirty
            /\ At(src, f)' = At(src, f) /\ Exists(src, f)' = Exists(src, f)
        BY <2>2
      <3>2. call[d].at \in {"compare", "rhash", "lhash"} =>
               Is(src, f, call[d].size, call[d].mtime)'
        BY <1>7, <1>s, <1>f, <2>6, <3>1 DEF Knows, Is
      <3>3. /\ call[d].at = "write" =>
                  Exists(src, f)' /\ At(src, f)'.mtime = call[d].mtime
            /\ call[d].at = "verifyR" =>
                  Exists("local", f)' /\ At("local", f)'.data = call[d].hash
        BY <1>7, <1>s, <1>f, <2>3, <2>6, <3>1 DEF Knows
      <3>4. ASSUME call[d].at = "lhash", call[d].op \in Downloads \/ ~call'[d].shared
            PROVE  Exists("remote", f)' /\ At("remote", f)'.data = call[d].hash
        <4>1. call[d].op \in Downloads \/ ~call[d].shared
          BY <1>1, <3>4 DEF Kept
        <4>2. Exists("remote", f) /\ At("remote", f).data = call[d].hash
          BY <1>7, <1>f, <3>1, <3>4, <4>1 DEF Knows
        <4>3. At("remote", f)' = At("remote", f) /\ Exists("remote", f)' = Exists("remote", f)
          <5>1. CASE call[d].op \in Downloads
            BY <2>4, <3>1, <5>1
          <5>2. CASE ~call'[d].shared
            <6>1. "remote" \in Sides
              BY DEF Sides
            <6> QED
              BY <2>5, <3>4, <5>2, <6>1
          <5> QED
            BY <3>4, <5>1, <5>2
        <4> QED
          BY <4>2, <4>3
      <3> QED
        BY <3>2, <3>3, <3>4
    <2>8. Sure(d)'
      <3> SUFFICES ASSUME call[d].at = "write", f \notin call'[d].dirty, ~call'[d].shared
                   PROVE  Covers(d)'
        BY <1>2, <1>f, <2>6 DEF Sure
      <3>1. \A s \in Sides : /\ At(s, f)' = At(s, f) /\ Exists(s, f)' = Exists(s, f)
        BY <2>5
      <3>2. Covers(d)
        BY <1>1, <1>f, <2>2 DEF Sure, Kept
      <3>3. PICK s \in Sides : s = Dst(call[d].op)
        BY SideFacts
      <3>4. Other(s) \in Sides /\ s = Dst(call'[d].op) /\ call'[d].left = call[d].left
        BY <1>1, <3>3, SideFacts DEF Kept
      <3> QED
        BY <1>2, <1>f, <3>1, <3>2, <3>3, <3>4 DEF Covers
    <2>9. ASSUME NEW g \in Files \ call'[d].dirty, Vouches(d, g)'
          PROVE  Vouches(d, g)
      <3>1. CASE Through(d, g)'
        BY <1>1, <1>2, <3>1 DEF Vouches, Through, Kept
      <3>2. CASE call'[d].at = "write" /\ File(d)' = g
        BY <1>1, <1>2, <1>f, <3>2 DEF Vouches, Kept
      <3>3. CASE call'[d].at = "lhash" /\ call'[d].op \in Uploads /\ File(d)' = g
                 /\ At("local", g)'.data = call'[d].hash
        <4>1. src = "local"
          BY <1>s, <2>6, <3>3, SideFacts
        <4>2. At("local", g)' = At("local", g)
          BY <1>2, <1>f, <2>2, <3>3, <4>1
        <4> QED
          BY <1>2, <1>f, <2>6, <3>3, <4>2 DEF Vouches
      <3> QED
        BY <2>9, <3>1, <3>2, <3>3 DEF Vouches
    <2> QED
      BY <2>7, <2>8, <2>9
  <1>8. CASE call[d].at \notin Phases \ {"open", "walk"}
    <2>1. Knows(d)'
      BY <1>0, <1>2, <1>4, <1>5, <1>6, <1>8 DEF Knows, Is
    <2>2. Sure(d)'
      BY <1>4, <1>8 DEF Sure, Phases, WritePhases
    <2>3. ASSUME NEW g \in Files \ call'[d].dirty, Vouches(d, g)'
          PROVE  Vouches(d, g)
      BY <1>1, <1>8, <2>3 DEF Vouches, Through, Kept, Phases, WritePhases, Running
    <2> QED
      BY <2>1, <2>2, <2>3
  <1> QED
    BY <1>7, <1>8

\* A record whose history alone has grown.
LEMMA KeptOf ==
    ASSUME NEW r \in CallRec, CallOK(r), NEW n \in CallRec,
           n.at = r.at, n.op = r.op, n.checksum = r.checksum, n.status = r.status,
           n.scope = r.scope, n.todo = r.todo, n.size = r.size, n.mtime = r.mtime,
           n.seen = r.seen, n.left = r.left, n.hash = r.hash,
           n.skipped = r.skipped, n.failed = r.failed,
           r.dirty \subseteq n.dirty, r.spoiled \subseteq n.spoiled, n.guessed = r.guessed,
           r.shared => n.shared
    PROVE  Kept(n, r)
  <1>1. CallOK(n)
    BY DEF CallOK
  <1> QED
    BY <1>1 DEF Kept

\* A step marks another call: another program changed a file,
LEMMA KeptDirty ==
    ASSUME NEW r \in CallRec, CallOK(r), NEW f \in Files
    PROVE  LET m == [r EXCEPT !.dirty = @ \cup {f}]
           IN Kept(m, r) /\ m.dirty = r.dirty \cup {f}
  <1> DEFINE m == [r EXCEPT !.dirty = @ \cup {f}]
  <1>1. m \in CallRec
    BY DEF CallRec
  <1>2. /\ m.at = r.at /\ m.op = r.op /\ m.checksum = r.checksum /\ m.status = r.status
        /\ m.scope = r.scope /\ m.todo = r.todo /\ m.size = r.size /\ m.mtime = r.mtime
        /\ m.seen = r.seen /\ m.left = r.left /\ m.hash = r.hash /\ m.skipped = r.skipped
        /\ m.failed = r.failed /\ m.dirty = r.dirty \cup {f} /\ m.spoiled = r.spoiled
        /\ m.guessed = r.guessed /\ m.shared = r.shared
    BY DEF CallRec
  <1> HIDE DEF m
  <1>3. Kept(m, r)
    BY <1>1, <1>2, KeptOf
  <1> QED
    BY <1>2, <1>3 DEF m

\* ... or a call gave up writing a file.
LEMMA KeptSpoiled ==
    ASSUME NEW r \in CallRec, CallOK(r), NEW f \in Files
    PROVE  LET m == [r EXCEPT !.spoiled = @ \cup {f}]
           IN Kept(m, r) /\ m.spoiled = r.spoiled \cup {f}
  <1> DEFINE m == [r EXCEPT !.spoiled = @ \cup {f}]
  <1>1. m \in CallRec
    BY DEF CallRec
  <1>2. /\ m.at = r.at /\ m.op = r.op /\ m.checksum = r.checksum /\ m.status = r.status
        /\ m.scope = r.scope /\ m.todo = r.todo /\ m.size = r.size /\ m.mtime = r.mtime
        /\ m.seen = r.seen /\ m.left = r.left /\ m.hash = r.hash /\ m.skipped = r.skipped
        /\ m.failed = r.failed /\ m.dirty = r.dirty /\ m.spoiled = r.spoiled \cup {f}
        /\ m.guessed = r.guessed /\ m.shared = r.shared
    BY DEF CallRec
  <1> HIDE DEF m
  <1>3. Kept(m, r)
    BY <1>1, <1>2, KeptOf
  <1> QED
    BY <1>2, <1>3 DEF m

\* A step of call c that changes its record alone.
LEMMA MovesShape ==
    ASSUME Typed, NEW c \in Calls, NEW n \in CallRec, Moves(c, n), UNCHANGED disk
    PROVE  /\ call' \in [Calls -> CallRec] /\ call'[c] = n
           /\ \A d \in Calls \ {c} : Noted(d) /\ call'[d] = call[d]
  <1>1. \A d \in Calls : call[d] \in CallRec /\ CallOK(call[d])
    BY DEF Typed
  <1>2. /\ call' \in [Calls -> CallRec] /\ call'[c] = n
        /\ \A d \in Calls \ {c} : call'[d] = call[d]
    BY DEF Moves, Typed
  <1>3. \A d \in Calls : Kept(call[d], call[d])
    BY <1>1 DEF Kept
  <1> QED
    BY <1>2, <1>3 DEF Noted

\* ... and one that leaves its file half written.
LEMMA GivesUpShape ==
    ASSUME Typed, NEW c \in Calls, NEW n \in CallRec, GivesUp(c, n), UNCHANGED disk
    PROVE  /\ call' \in [Calls -> CallRec] /\ call'[c] = n
           /\ \A d \in Calls \ {c} :
                 /\ Noted(d)
                 /\ Writing(c) /\ call[d].op # "none" => File(c) \in call'[d].spoiled
  <1> DEFINE m(d) == [call[d] EXCEPT !.spoiled = @ \cup {File(c)}]
  <1>1. \A d \in Calls : call[d] \in CallRec /\ CallOK(call[d])
    BY DEF Typed
  <1>2. /\ call'[c] = n
        /\ \A d \in Calls \ {c} : call'[d] = IF Writing(c) /\ call[d].op # "none" THEN m(d) ELSE call[d]
    BY DEF GivesUp
  <1>3. \A d \in Calls \ {c} :
           /\ Kept(call'[d], call[d])
           /\ Writing(c) /\ call[d].op # "none" => File(c) \in call'[d].spoiled
    <2> SUFFICES ASSUME NEW d \in Calls \ {c}
                 PROVE  /\ Kept(call'[d], call[d])
                        /\ Writing(c) /\ call[d].op # "none" => File(c) \in call'[d].spoiled
      OBVIOUS
    <2>1. CASE Writing(c) /\ call[d].op # "none"
      <3>1. File(c) \in Files
        BY <2>1, FileIn DEF Writing, WritePhases, Phases
      <3>2. Kept(m(d), call[d]) /\ m(d).spoiled = call[d].spoiled \cup {File(c)}
        <4>1. PICK f \in Files : f = File(c)
          BY <3>1
        <4>2. PICK r \in CallRec : r = call[d]
          BY <1>1
        <4>3. r.dirty \in SUBSET Files /\ r.shared \in BOOLEAN /\ CallOK(r)
          BY <1>1, <4>2 DEF CallRec
        <4>4. Kept([r EXCEPT !.spoiled = @ \cup {f}], r)
              /\ [r EXCEPT !.spoiled = @ \cup {f}].spoiled = r.spoiled \cup {f}
          BY <4>3, KeptSpoiled
        <4> QED
          BY <4>1, <4>2, <4>4
      <3> QED
        BY <1>2, <2>1, <3>2
    <2>2. CASE ~(Writing(c) /\ call[d].op # "none")
      BY <1>1, <1>2, <2>2 DEF Kept
    <2> QED
      BY <2>1, <2>2
  <1>4. call' \in [Calls -> CallRec]
    <2>1. call' = [d \in Calls |-> call'[d]]
      BY DEF GivesUp
    <2> QED
      BY <1>2, <1>3, <2>1 DEF Kept
  <1> QED
    BY <1>2, <1>3, <1>4 DEF Noted

\* ... and one that changes side s of file f.
LEMMA WritingShape ==
    ASSUME Typed, NEW c \in Calls, NEW n \in CallRec, NEW s \in Sides, NEW f \in Files,
           MovesWriting(c, n, s, f),
           \A t \in Sides, g \in Files : disk'[t][g] # disk[t][g] => t = s /\ g = f
    PROVE  /\ call' \in [Calls -> CallRec] /\ call'[c] = n
           /\ \A d \in Calls \ {c} : Noted(d)
  <1>1. \A d \in Calls : call[d] \in CallRec /\ CallOK(call[d])
    BY DEF Typed
  <1>2. ASSUME NEW d \in Calls \ {c}
        PROVE  /\ Kept(call'[d], call[d])
               /\ call[d].op # "none" /\ Src(call[d].op) = s => f \in call'[d].dirty
               /\ call[d].at \in {"write", "lhash"} /\ File(d) = f => call'[d].shared
    <2>1. PICK r \in CallRec : r = call[d] /\ CallOK(r) /\ r.dirty \subseteq Files
                        /\ r.shared \in BOOLEAN
      BY <1>1 DEF CallRec
    <2>2. PICK A : A = IF r.op # "none" /\ Src(r.op) = s THEN r.dirty \cup {f} ELSE r.dirty
      OBVIOUS
    <2>3. PICK b : b = IF r.at \in {"write", "lhash"} /\ File(d) = f THEN TRUE ELSE r.shared
      OBVIOUS
    <2>4. A \in SUBSET Files /\ r.dirty \subseteq A /\ b \in BOOLEAN /\ b \in {r.shared, TRUE}
      BY <2>1, <2>2, <2>3
    <2>5. PICK m : m = [r EXCEPT !.dirty = A, !.shared = b]
      OBVIOUS
    <2>6. call'[d] = m
      BY <2>1, <2>2, <2>3, <2>5 DEF MovesWriting
    <2>7. m \in CallRec
      BY <2>4, <2>5 DEF CallRec
    <2>8. /\ m.at = r.at /\ m.op = r.op /\ m.checksum = r.checksum /\ m.status = r.status
          /\ m.scope = r.scope /\ m.todo = r.todo /\ m.size = r.size /\ m.mtime = r.mtime
          /\ m.seen = r.seen /\ m.left = r.left /\ m.hash = r.hash /\ m.skipped = r.skipped
          /\ m.failed = r.failed /\ m.dirty = A /\ m.spoiled = r.spoiled /\ m.guessed = r.guessed /\ m.shared = b
      BY <2>5 DEF CallRec
    <2>9. Kept(m, r)
      BY <2>1, <2>4, <2>7, <2>8, KeptOf
    <2> QED
      BY <2>1, <2>2, <2>3, <2>6, <2>8, <2>9
  <1>3. call'[c] = n /\ call' = [d \in Calls |-> call'[d]]
    BY DEF MovesWriting
  <1>4. call' \in [Calls -> CallRec]
    BY <1>2, <1>3 DEF Kept
  <1> QED
    BY <1>2, <1>3, <1>4 DEF Noted

\* What another program does.
LEMMA EditedShape ==
    ASSUME Typed, NEW f \in Files, Edited(f),
           \A t \in Sides, g \in Files : disk'[t][g] # disk[t][g] => g = f
    PROVE  /\ call' \in [Calls -> CallRec]
           /\ \A d \in Calls : Noted(d) /\ (call[d].op # "none" => f \in call'[d].dirty)
  <1>1. ASSUME NEW d \in Calls
        PROVE  /\ Kept(call'[d], call[d])
               /\ call[d].op # "none" => f \in call'[d].dirty
               /\ call[d].at \in {"write", "lhash"} => f \in call'[d].dirty
    <2>1. PICK r \in CallRec : r = call[d] /\ CallOK(r)
      BY DEF Typed
    <2>2. Kept([r EXCEPT !.dirty = @ \cup {f}], r)
          /\ [r EXCEPT !.dirty = @ \cup {f}].dirty = r.dirty \cup {f}
      BY <2>1, KeptDirty
    <2>3. call'[d] = IF r.op = "none" THEN r ELSE [r EXCEPT !.dirty = @ \cup {f}]
      BY <2>1 DEF Edited
    <2>4. r.at \in {"write", "lhash"} => r.op # "none"
      BY <2>1 DEF CallOK, Phases, WritePhases
    <2>5. Kept(r, r)
      BY <2>1 DEF Kept
    <2> QED
      BY <2>1, <2>2, <2>3, <2>4, <2>5
  <1>2. call' = [d \in Calls |-> call'[d]]
    BY DEF Edited
  <1>3. call' \in [Calls -> CallRec]
    BY <1>1, <1>2 DEF Kept
  <1> QED
    BY <1>1, <1>3 DEF Noted

\* A call that vouches for a file is under way or has answered ok.
LEMMA VouchesIs ==
    ASSUME Typed, NEW c \in Calls, NEW f \in Files, Vouches(c, f)
    PROVE  call[c].op # "none"
  <1>1. CallOK(call[c])
    BY FileIn
  <1> QED
    BY <1>1 DEF Vouches, Through, CallOK, Running, Phases, WritePhases

\* What was settled stays so, as long as the other side is left alone.
Stays(f) == \A s \in Sides :
    Settled(s, f) /\ disk'[Other(s)][f] = disk[Other(s)][f] => Settled(s, f)'

\* A call goes on repairing a file when others take a step: a copy needs the
\* contents to stay as they are, or to get right.
LEMMA RepairsStay ==
    ASSUME Typed, NEW d \in Calls, Noted(d), NEW s \in Sides, NEW f \in Files, Repairs(d, s, f),
           disk'[Other(s)][f] = disk[Other(s)][f],
           call[d].at = "write" => Covers(d)'
    PROVE  Repairs(d, s, f)'
  <1>1. Kept(call'[d], call[d])
    BY DEF Noted
  <1>2. File(d)' = f /\ call'[d].at = call[d].at /\ call'[d].op = call[d].op
        /\ call'[d].hash = call[d].hash
    BY <1>1 DEF Kept, File, Repairs
  <1>3. At(Other(s), f)' = At(Other(s), f) /\ Exists(Other(s), f)' = Exists(Other(s), f)
    BY DEF At, Exists
  <1> QED
    BY <1>2, <1>3 DEF Repairs, Writing

\* The case where nothing happens to the file.
LEMMA SettledStays ==
    ASSUME Typed, NEW c \in Calls, \A d \in Calls \ {c} : Noted(d),
           NEW s \in Sides, NEW f \in Files,
           disk'[s][f] = disk[s][f], disk'[Other(s)][f] = disk[Other(s)][f],
           Repairs(c, s, f) => Settled(s, f)', Settled(s, f)
    PROVE  Settled(s, f)'
  <1>1. /\ At(s, f)' = At(s, f) /\ Exists(s, f)' = Exists(s, f)
        /\ At(Other(s), f)' = At(Other(s), f) /\ Exists(Other(s), f)' = Exists(Other(s), f)
    BY DEF At, Exists
  <1>2. CASE SameData(f)
    <2>1. SameData(f)'
      BY <1>1, <1>2, SideFacts DEF SameData, Sides, Other
    <2> QED
      BY <2>1 DEF Settled
  <1>3. ASSUME NEW d \in Calls \ {c}, Repairs(d, s, f)
        PROVE  Settled(s, f)'
    <2>1. ASSUME call[d].at = "write"
          PROVE  Covers(d)'
      <3>1. Covers(d) /\ Dst(call[d].op) = s /\ File(d) = f
        BY <1>3, <2>1 DEF Repairs
      <3>2. File(d)' = f /\ call'[d].op = call[d].op /\ call'[d].left = call[d].left
        BY <1>3, <3>1 DEF Noted, Kept, File
      <3> QED
        BY <1>1, <3>1, <3>2 DEF Covers
    <2>2. Repairs(d, s, f)'
      BY <1>3, <2>1, RepairsStay
    <2> QED
      BY <2>2 DEF Settled
  <1> QED
    BY <1>2, <1>3 DEF Settled

\* A call that only looks on keeps its promises, unless it notices.
LEMMA KeepsStay ==
    ASSUME Typed, NEW d \in Calls, Knows(d), Sure(d), Keeps(d), Noted(d),
           \A f \in Files : Stays(f) \/ (call[d].op # "none" => f \in call'[d].dirty \cup call'[d].spoiled \cup call'[d].guessed)
    PROVE  Keeps(d)'
  <1> SUFFICES ASSUME NEW f \in Files, f \notin call'[d].dirty \cup call'[d].spoiled \cup call'[d].guessed, Vouches(d, f)'
               PROVE  Settled(Dst(call[d].op), f)'
    BY DEF Keeps
  <1>1. Vouches(d, f)
    BY NotedStays
  <1>2. call[d].op # "none" /\ f \notin call[d].dirty \cup call[d].spoiled \cup call[d].guessed /\ call'[d].op = call[d].op
    BY <1>1, VouchesIs DEF Noted, Kept
  <1>3. PICK s \in Sides : s = Dst(call[d].op) /\ Other(s) \in Sides /\ Other(s) = Src(call[d].op)
    BY SideFacts
  <1>4. disk'[Other(s)][f] = disk[Other(s)][f]
    BY <1>2, <1>3 DEF Noted
  <1>5. Settled(s, f) /\ Stays(f)
    BY <1>1, <1>2, <1>3 DEF Keeps
  <1>6. Settled(s, f)'
    BY <1>4, <1>5 DEF Stays
  <1> QED
    BY <1>2, <1>3, <1>6 DEF Settled, Repairs, Covers, Writing

-----------------------------------------------------------------------------
(* A step as the call that takes it sees it *)

\* A call that ends without an answer ok promises nothing.
LEMMA ActorNone ==
    ASSUME NEW c \in Calls, CallOK(call'[c]), call'[c].op = "none"
    PROVE  Knows(c)' /\ Sure(c)' /\ Keeps(c)'
  <1>1. ~(call'[c].at \in Phases) /\ call'[c].status # "ok"
    BY DEF CallOK
  <1> QED
    BY <1>1 DEF Knows, Sure, Keeps, Vouches, Through, Running, Phases, WritePhases

\* A call that leaves its file: what it knew of the others it knows still, and
\* it vouches for no more files than this one.
LEMMA ActorOnward ==
    ASSUME Typed, NEW c \in Calls, Knows(c), Keeps(c),
           NEW r \in CallRec, r.op = call[c].op, r.scope = call[c].scope, r.todo = call[c].todo,
           r.seen = call[c].seen, r.failed = call[c].failed, r.spoiled = call[c].spoiled,
           call[c].dirty \subseteq r.dirty, call[c].guessed \subseteq r.guessed,
           call[c].at \in Phases \ {"open", "walk"},
           NEW skipped, NEW failed, r.failed \subseteq failed,
           Onward(call'[c], r, skipped, failed),
           \A f \in Files : disk'[Src(r.op)][f] = disk[Src(r.op)][f],
           NEW f0, f0 = File(c),
           \A f \in Files \ {f0} : Stays(f),
           f0 \in r.scope \ (failed \cup r.dirty \cup r.spoiled \cup r.guessed) => Settled(Dst(r.op), f0)'
    PROVE  Knows(c)' /\ Sure(c)' /\ Keeps(c)'
  <1>1. CallOK(call[c]) /\ CallOK(call'[c]) /\ Running(c) /\ call[c].op # "none"
    BY FileIn DEF Onward, CallOK, Running
  <1>2. ~Running(c)' \/ call'[c].at = "file"
    BY DEF Onward, Running, Phases, WritePhases
  <1>3. PICK src \in Sides : src = Src(r.op)
    BY SideFacts
  <1>4. \A f \in Files : At(src, f)' = At(src, f) /\ Exists(src, f)' = Exists(src, f)
    BY <1>3, SideSame
  <1>5. r.scope \subseteq Files
    BY DEF CallRec
  <1>6. Sure(c)'
    BY <1>2 DEF Sure, Running, Phases, WritePhases
  <1>7. Knows(c)'
    <2>1. call'[c].op = "sync" => \A f \in call'[c].scope \ call'[c].dirty : Exists("local", f)'
      <3> SUFFICES ASSUME call'[c].op = "sync", NEW f \in call'[c].scope \ call'[c].dirty
                   PROVE  Exists("local", f)'
        OBVIOUS
      <3>1. r.op = "sync" /\ f \in r.scope \ r.dirty
        BY DEF Onward
      <3>2. src = "local"
        BY <1>3, <3>1, SideFacts DEF Uploads
      <3> QED
        BY <1>4, <1>5, <3>1, <3>2 DEF Knows
    <2>2. call'[c].op = "mirror" /\ Running(c)' => \A f \in call'[c].scope \ call'[c].dirty :
             Is("remote", f, call[c].seen[f].size, call[c].seen[f].mtime)'
      <3> SUFFICES ASSUME call'[c].op = "mirror", Running(c)',
                          NEW f \in call'[c].scope \ call'[c].dirty
                   PROVE  Is("remote", f, call[c].seen[f].size, call[c].seen[f].mtime)'
        OBVIOUS
      <3>1. call'[c].at = "file" /\ call'[c].status = "none"
        BY <1>2 DEF Onward
      <3>2. r.op = "mirror" /\ f \in r.scope \ r.dirty /\ call'[c].seen = call[c].seen
        BY <3>1 DEF Onward
      <3>3. src = "remote"
        BY <1>3, <3>2, SideFacts DEF Downloads
      <3>4. Is("remote", f, call[c].seen[f].size, call[c].seen[f].mtime)
        BY <1>1, <3>2 DEF Knows
      <3> QED
        BY <1>4, <1>5, <3>2, <3>3, <3>4 DEF Is
    <2>3. call'[c].op = "sync" => call'[c].scope \cap Links = {}
      BY DEF Onward, Knows
    <2> QED
      BY <1>2, <2>1, <2>2, <2>3 DEF Knows, Running, Is
  <1>8. Keeps(c)'
    <2> SUFFICES ASSUME NEW f \in Files, f \notin call'[c].dirty \cup call'[c].spoiled \cup call'[c].guessed,
                        Vouches(c, f)'
                 PROVE  Settled(Dst(call[c].op), f)'
      BY DEF Keeps
    <2>1. Through(c, f)'
      BY <1>2 DEF Vouches, Running, Phases, WritePhases
    <2>2. call'[c].op # "none" /\ (call'[c].at = "file" \/ call'[c].status = "ok") /\ f \in call'[c].scope
      <3>1. call'[c].at = "file" => call'[c].op # "none"
        BY <1>1 DEF CallOK, Phases
      <3>2. call'[c].status = "ok" => call'[c].op # "none"
        BY <1>1 DEF CallOK
      <3> QED
        BY <1>2, <2>1, <3>1, <3>2 DEF Through
    <2>3. /\ call'[c].op = r.op /\ f \in r.scope /\ f \notin r.dirty \cup r.spoiled \cup r.guessed
          /\ f \notin call[c].dirty \cup call[c].spoiled \cup call[c].guessed
      BY <2>2 DEF Onward
    <2>4. f \notin r.todo \ {First(r.todo)} /\ f \notin failed
      <3>1. CASE call'[c].status = "ok"
        BY <1>1, <3>1 DEF Onward, CallOK
      <3>2. CASE call'[c].status # "ok"
        <4>1. call'[c].at = "file" /\ f \notin call'[c].todo \cup call'[c].failed
          BY <2>1, <2>2, <3>2 DEF Through
        <4> QED
          BY <4>1 DEF Onward
      <3> QED
        BY <3>1, <3>2
    <2>5. First(r.todo) = f0
      BY DEF File
    <2>6. CASE f = f0
      <3>1. Settled(Dst(r.op), f0)'
        BY <2>3, <2>4, <2>6
      <3> QED
        BY <2>3, <2>6, <3>1 DEF Settled, Repairs, Covers, Writing
    <2>7. CASE f # f0
      <3>1. Through(c, f)
        BY <1>1, <2>3, <2>4, <2>5, <2>7 DEF Through
      <3>2. PICK s \in Sides : s = Dst(r.op) /\ Other(s) = src
        BY <1>3, SideFacts
      <3>3. Settled(s, f)
        BY <2>3, <3>1, <3>2 DEF Keeps, Vouches
      <3>4. disk'[Other(s)][f] = disk[Other(s)][f]
        BY <1>3, <3>2
      <3>5. Settled(s, f)'
        BY <2>7, <3>2, <3>3, <3>4 DEF Stays
      <3> QED
        BY <2>3, <3>2, <3>5 DEF Settled, Repairs, Covers, Writing
    <2> QED
      BY <2>6, <2>7
  <1> QED
    BY <1>6, <1>7, <1>8

\* A call that stays at its file: what it now knows of it, and the claim it now
\* makes for it, is all that has to be shown.
LEMMA ActorSame ==
    ASSUME Typed, NEW c \in Calls, Knows(c), Keeps(c), NEW n \in CallRec, call'[c] = n,
           n.op = call[c].op, n.scope = call[c].scope, n.todo = call[c].todo,
           n.seen = call[c].seen, n.failed = call[c].failed, n.status = call[c].status,
           n.dirty = call[c].dirty, n.spoiled = call[c].spoiled, n.guessed = call[c].guessed,
           call[c].at \in Phases \ {"open", "walk"}, n.at \in Phases \ {"open", "walk"},
           NEW src, src = Src(call[c].op),
           \A f \in Files : disk'[src][f] = disk[src][f],
           NEW f0, f0 = File(c),
           \A f \in Files : Stays(f),
           f0 \notin n.dirty =>
              /\ n.at \in {"compare", "rhash", "lhash"} => Is(src, f0, n.size, n.mtime)'
              /\ n.at = "write" => Exists(src, f0)' /\ At(src, f0)'.mtime = n.mtime
              /\ n.at = "verifyR" => Exists("local", f0)' /\ At("local", f0)'.data = n.hash
              /\ n.at = "lhash" /\ (n.op \in Downloads \/ ~n.shared) =>
                    Exists("remote", f0)' /\ At("remote", f0)'.data = n.hash,
           (/\ f0 \notin n.dirty \cup n.spoiled \cup n.guessed
            /\ \/ n.at = "write"
               \/ n.at = "lhash" /\ n.op \in Uploads /\ At("local", f0)'.data = n.hash)
           => Settled(Other(src), f0)'
    PROVE  Knows(c)' /\ Keeps(c)'
  <1>1. CallOK(call[c]) /\ Running(c) /\ Running(c)' /\ call[c].op # "none" /\ File(c)' = f0
        /\ f0 \in call[c].todo
    BY FileIn DEF CallOK, Running, File
  <1>2. src \in Sides /\ Other(src) \in Sides /\ Other(Other(src)) = src /\ Other(src) = Dst(call[c].op)
    BY SideFacts
  <1>3. \A f \in Files : At(src, f)' = At(src, f) /\ Exists(src, f)' = Exists(src, f)
    BY <1>2, SideSame
  <1>4. n.scope \subseteq Files /\ n.status = "none"
    BY <1>1 DEF CallRec, CallOK, Phases, WritePhases
  <1>5. Knows(c)'
    <2>1. n.op = "sync" => \A f \in n.scope \ n.dirty : Exists("local", f)'
      <3> SUFFICES ASSUME n.op = "sync", NEW f \in n.scope \ n.dirty
                   PROVE  Exists("local", f)'
        OBVIOUS
      <3>1. src = "local"
        BY SideFacts DEF Uploads
      <3> QED
        BY <1>3, <1>4, <3>1 DEF Knows
    <2>2. n.op = "mirror" => \A f \in n.scope \ n.dirty :
             Is("remote", f, n.seen[f].size, n.seen[f].mtime)'
      <3> SUFFICES ASSUME n.op = "mirror", NEW f \in n.scope \ n.dirty
                   PROVE  Is("remote", f, n.seen[f].size, n.seen[f].mtime)'
        OBVIOUS
      <3>1. src = "remote"
        BY SideFacts DEF Downloads
      <3>2. Is("remote", f, call[c].seen[f].size, call[c].seen[f].mtime)
        BY <1>1 DEF Knows
      <3> QED
        BY <1>3, <1>4, <3>1, <3>2 DEF Is
    <2> QED
      BY <1>1, <2>1, <2>2 DEF Knows, Is
  <1>6. Keeps(c)'
    <2> SUFFICES ASSUME NEW f \in Files, f \notin n.dirty \cup n.spoiled \cup n.guessed, Vouches(c, f)'
                 PROVE  Settled(Dst(call[c].op), f)'
      BY DEF Keeps
    <2>1. Settled(Other(src), f)'
      <3>1. CASE Through(c, f)'
        <4>1. Through(c, f)
          BY <1>1, <1>4, <3>1 DEF Through
        <4>2. Settled(Other(src), f)
          BY <1>2, <4>1 DEF Keeps, Vouches
        <4> QED
          BY <1>2, <4>2 DEF Stays
      <3>2. CASE n.at = "write" /\ f0 = f
        BY <3>2
      <3>3. CASE n.at = "lhash" /\ n.op \in Uploads /\ f0 = f /\ At("local", f)'.data = n.hash
        BY <3>3
      <3> QED
        BY <1>1, <3>1, <3>2, <3>3 DEF Vouches
    <2> QED
      BY <1>2, <2>1 DEF Settled, Repairs, Covers, Writing
  <1> QED
    BY <1>5, <1>6

-----------------------------------------------------------------------------
(* The shapes of a step *)

\* What is to be shown of the call that takes a step; the others follow.
LEMMA StepOf ==
    ASSUME IInv, NEW c \in Calls, \A d \in Calls \ {c} : Noted(d), CallOK(call'[c]),
           \A f \in Files, d \in Calls \ {c} :
              Stays(f) \/ (call[d].op # "none" => f \in call'[d].dirty \cup call'[d].spoiled \cup call'[d].guessed),
           Knows(c)', Sure(c)', Keeps(c)'
    PROVE  (\A d \in Calls : CallOK(call'[d])) /\ SourceKnown' /\ CoversAlone' /\ Agreed'
  <1>1. ASSUME NEW d \in Calls \ {c}
        PROVE  CallOK(call'[d]) /\ Knows(d)' /\ Sure(d)' /\ Keeps(d)'
    <2>1. Typed /\ Knows(d) /\ Sure(d) /\ Keeps(d) /\ Noted(d)
      BY DEF IInv, SourceKnown, CoversAlone, Agreed
    <2>2. Knows(d)' /\ Sure(d)'
      BY <2>1, NotedStays
    <2>3. Keeps(d)'
      BY <2>1, KeepsStay
    <2> QED
      BY <2>1, <2>2, <2>3 DEF Noted, Kept
  <1> QED
    BY <1>1 DEF SourceKnown, CoversAlone, Agreed

\* A step that changes the record of one call and nothing on the disk.
LEMMA QuietStays ==
    ASSUME Typed, NEW c \in Calls, NEW n \in CallRec, Moves(c, n) \/ GivesUp(c, n), UNCHANGED disk,
           NEW f \in Files, \A s \in Sides : Repairs(c, s, f) => Settled(s, f)'
    PROVE  Stays(f)
  <1> SUFFICES ASSUME NEW s \in Sides, Settled(s, f)
               PROVE  Settled(s, f)'
    BY DEF Stays
  <1>1. \A d \in Calls \ {c} : Noted(d)
    BY MovesShape, GivesUpShape
  <1> QED
    BY <1>1, SettledStays

\* A step of a call that changes nothing on the disk.
LEMMA QuietStep ==
    ASSUME IInv, NEW c \in Calls, NEW n \in CallRec, CallOK(n), Moves(c, n),
           UNCHANGED <<now, disk, edits, blur>>, made' \in Nat,
           \A f \in Files : Stays(f), Knows(c)', Sure(c)', Keeps(c)'
    PROVE  IInv'
  <1>1. /\ Typed
        /\ call' \in [Calls -> CallRec] /\ call'[c] = n
        /\ \A d \in Calls \ {c} : Noted(d)
    BY MovesShape DEF IInv
  <1>2. (\A d \in Calls : CallOK(call'[d])) /\ SourceKnown' /\ CoversAlone' /\ Agreed'
    BY <1>1, StepOf
  <1>3. Typed'
    BY <1>1, <1>2 DEF Typed, Exists, At
  <1>4. BlurTells'
    BY DEF IInv, BlurTells, Exists, At, SameData
  <1> QED
    BY <1>2, <1>3, <1>4 DEF IInv

\* ... and one by which a call gives up: it promises nothing for the file it
\* was writing, and the other calls know.
LEMMA GivesUpStep ==
    ASSUME IInv, NEW c \in Calls, NEW n \in CallRec, CallOK(n), GivesUp(c, n),
           UNCHANGED <<now, disk, made, edits, blur>>, Knows(c)', Sure(c)', Keeps(c)'
    PROVE  IInv'
  <1>1. /\ Typed
        /\ call' \in [Calls -> CallRec] /\ call'[c] = n
        /\ \A d \in Calls \ {c} :
              /\ Noted(d)
              /\ Writing(c) /\ call[d].op # "none" => File(c) \in call'[d].spoiled
    BY GivesUpShape DEF IInv
  <1>2. ASSUME NEW f \in Files, NEW d \in Calls \ {c}
        PROVE  Stays(f) \/ (call[d].op # "none" => f \in call'[d].dirty \cup call'[d].spoiled \cup call'[d].guessed)
    <2>1. CASE Writing(c) /\ File(c) = f
      BY <1>1, <2>1
    <2>2. CASE ~(Writing(c) /\ File(c) = f)
      <3>1. \A s \in Sides : ~Repairs(c, s, f)
        BY <2>2 DEF Repairs
      <3> QED
        BY <1>1, <3>1, QuietStays
    <2> QED
      BY <2>1, <2>2
  <1>3. (\A d \in Calls : CallOK(call'[d])) /\ SourceKnown' /\ CoversAlone' /\ Agreed'
    BY <1>1, <1>2, StepOf
  <1>4. Typed'
    BY <1>1, <1>3 DEF Typed, Exists, At
  <1>5. BlurTells'
    BY DEF IInv, BlurTells, Exists, At, SameData
  <1> QED
    BY <1>3, <1>4, <1>5 DEF IInv

\* A step that writes the destination of the current file of a call.
LEMMA WritesStep ==
    ASSUME IInv, NEW c \in Calls, NEW n \in CallRec, CallOK(n), NEW s \in Sides, NEW f \in Files,
           MovesWriting(c, n, s, f), UNCHANGED <<now, made, edits>>,
           disk' \in [Sides -> [Files -> FileRec \cup {NoFile}]],
           \A t \in Sides, g \in Files : disk'[t][g] # disk[t][g] => t = s /\ g = f,
           Exists(s, f)' => At(s, f)'.mtime <= now,
           blur' \subseteq Files, blur' \in {blur, blur \cup {f}, blur \ {f}},
           (/\ f \notin blur' /\ Exists("local", f)' /\ Exists("remote", f)'
            /\ MtimeMatch(At("local", f)'.mtime, At("remote", f)'.mtime)) => SameData(f)',
           Stays(f), Knows(c)', Sure(c)', Keeps(c)',
           \A t \in Sides, g \in Files \ {f} : ~Repairs(c, t, g)
    PROVE  IInv'
  <1>1. /\ Typed
        /\ call' \in [Calls -> CallRec] /\ call'[c] = n
        /\ \A d \in Calls \ {c} : Noted(d)
    BY WritingShape DEF IInv
  <1>2. ASSUME NEW g \in Files
        PROVE  Stays(g)
    <2> SUFFICES ASSUME g # f, NEW t \in Sides, Settled(t, g)
                 PROVE  Settled(t, g)'
      BY DEF Stays
    <2>1. Other(t) \in Sides
      BY SideFacts
    <2> QED
      BY <1>1, <2>1, SettledStays
  <1>3. (\A d \in Calls : CallOK(call'[d])) /\ SourceKnown' /\ CoversAlone' /\ Agreed'
    BY <1>1, <1>2, StepOf
  <1>4. Typed'
    <2>1. ASSUME NEW t \in Sides, NEW g \in Files, Exists(t, g)'
          PROVE  At(t, g)'.mtime <= now'
      <3>1. CASE disk'[t][g] = disk[t][g]
        BY <1>1, <2>1, <3>1 DEF Typed, Exists, At
      <3>2. CASE disk'[t][g] # disk[t][g]
        BY <2>1, <3>2
      <3> QED
        BY <3>1, <3>2
    <2> QED
      BY <1>1, <1>3, <2>1 DEF Typed
  <1>5. BlurTells'
    <2> SUFFICES ASSUME NEW g \in Files \ blur', g # f,
                        Exists("local", g)', Exists("remote", g)',
                        MtimeMatch(At("local", g)'.mtime, At("remote", g)'.mtime)
                 PROVE  SameData(g)'
      BY DEF BlurTells, MtimeMatch
    <2>1. g \notin blur
      OBVIOUS
    <2>2. /\ At("local", g)' = At("local", g) /\ Exists("local", g)' = Exists("local", g)
          /\ At("remote", g)' = At("remote", g) /\ Exists("remote", g)' = Exists("remote", g)
      BY SideSame DEF Sides
    <2>3. SameData(g)
      BY <2>1, <2>2 DEF IInv, BlurTells
    <2> QED
      BY <2>2, <2>3 DEF SameData
  <1> QED
    BY <1>3, <1>4, <1>5 DEF IInv

\* A call looks at the two sides of its current file and stays at it.
LEMMA LookStep ==
    ASSUME IInv, NEW c \in Calls, NEW n \in CallRec, CallOK(n), Moves(c, n),
           UNCHANGED <<now, disk, made, edits, blur>>,
           n.op = call[c].op, n.scope = call[c].scope, n.todo = call[c].todo,
           n.seen = call[c].seen, n.failed = call[c].failed, n.status = call[c].status,
           n.dirty = call[c].dirty, n.spoiled = call[c].spoiled, n.guessed = call[c].guessed,
           call[c].at \in Phases \ {"open", "walk"}, n.at \in Phases \ {"open", "walk", "write"},
           call[c].at \notin WritePhases \/ n.at \in WritePhases,
           NEW f0, f0 = File(c),
           n.at = "verifyR" => Exists("local", f0) /\ At("local", f0).data = n.hash,
           f0 \notin n.dirty =>
              /\ n.at \in {"compare", "rhash", "lhash"} => Is(Src(n.op), f0, n.size, n.mtime)
              /\ n.at = "lhash" /\ (n.op \in Downloads \/ ~n.shared) =>
                    Exists("remote", f0) /\ At("remote", f0).data = n.hash,
           f0 \notin n.dirty /\ n.at = "lhash" /\ n.op \in Uploads
              /\ At("local", f0).data = n.hash => SameData(f0)
    PROVE  IInv'
  <1>1. Typed /\ Knows(c) /\ Keeps(c) /\ CallOK(call[c]) /\ f0 \in Files /\ f0 \in call[c].todo
    BY FileIn DEF IInv, SourceKnown, Agreed
  <1>2. call' \in [Calls -> CallRec] /\ call'[c] = n /\ File(c)' = f0
    BY <1>1, MovesShape DEF File
  <1>3. PICK src \in Sides : src = Src(n.op) /\ Other(src) = Dst(n.op)
    BY SideFacts
  <1>4. /\ SameData(f0)' <=> SameData(f0)
        /\ \A s, f : At(s, f)' = At(s, f) /\ Exists(s, f)' = Exists(s, f)
    BY DEF At, Exists, SameData
  <1>5. ASSUME NEW s \in Sides, NEW f \in Files, Repairs(c, s, f)
        PROVE  Settled(s, f)'
    <2>1. f = f0 /\ n.at \in WritePhases
      BY <1>5 DEF Repairs, Writing
    <2>2. n.at = "verifyR" => Other(s) = "local"
      <3>1. ASSUME n.at = "verifyR"
            PROVE  Other(s) = "local"
        <4>1. n.op = "upload"
          BY <3>1 DEF CallOK
        <4> QED
          BY <1>5, <4>1, SideFacts DEF Repairs, Uploads
      <3> QED
        BY <3>1
    <2>3. Repairs(c, s, f)'
      BY <1>2, <1>4, <1>5, <2>1, <2>2 DEF Repairs, Writing
    <2> QED
      BY <2>3 DEF Settled
  <1>6. \A f \in Files : Stays(f)
    BY <1>1, <1>5, QuietStays
  <1>7. /\ f0 \notin n.dirty =>
              /\ n.at \in {"compare", "rhash", "lhash"} => Is(src, f0, n.size, n.mtime)'
              /\ n.at = "write" => Exists(src, f0)' /\ At(src, f0)'.mtime = n.mtime
              /\ n.at = "verifyR" => Exists("local", f0)' /\ At("local", f0)'.data = n.hash
              /\ n.at = "lhash" /\ (n.op \in Downloads \/ ~n.shared) =>
                    Exists("remote", f0)' /\ At("remote", f0)'.data = n.hash
        /\ (/\ f0 \notin n.dirty \cup n.spoiled \cup n.guessed
            /\ \/ n.at = "write"
               \/ n.at = "lhash" /\ n.op \in Uploads /\ At("local", f0)'.data = n.hash)
           => Settled(Other(src), f0)'
    BY <1>3, <1>4 DEF Is, Settled
  <1>8. Knows(c)' /\ Keeps(c)'
    <2>1. \A f \in Files : disk'[src][f] = disk[src][f]
      OBVIOUS
    <2> QED
      BY <1>1, <1>2, <1>3, <1>6, <1>7, <2>1, ActorSame
  <1>9. Sure(c)'
    BY <1>2 DEF Sure
  <1> QED
    BY <1>1, <1>6, <1>8, <1>9, QuietStep DEF Typed

\* A call leaves its current file without having written to it.
LEMMA LeaveStep ==
    ASSUME IInv, NEW c \in Calls, NEW n \in CallRec, Moves(c, n),
           UNCHANGED <<now, disk, made, edits, blur>>,
           NEW r \in CallRec, r.op = call[c].op, r.scope = call[c].scope, r.todo = call[c].todo,
           r.seen = call[c].seen, r.failed = call[c].failed, r.spoiled = call[c].spoiled,
           call[c].dirty \subseteq r.dirty, call[c].guessed \subseteq r.guessed,
           call[c].at \in Phases \ {"open", "walk"},
           NEW skipped, NEW failed, r.failed \subseteq failed,
           Onward(n, r, skipped, failed),
           NEW f0, f0 = File(c),
           call[c].at \in WritePhases => \A s \in Sides : Repairs(c, s, f0) => SameData(f0),
           f0 \in r.scope \ (failed \cup r.dirty \cup r.spoiled \cup r.guessed) => Settled(Dst(r.op), f0)
    PROVE  IInv'
  <1>1. Typed /\ Knows(c) /\ Keeps(c)
    BY DEF IInv, SourceKnown, Agreed
  <1>2. call'[c] = n /\ CallOK(n)
    BY <1>1, MovesShape DEF Onward
  <1>4. \A f \in Files : Stays(f)
    <2>1. ASSUME NEW s \in Sides, NEW f \in Files, Repairs(c, s, f)
          PROVE  Settled(s, f)'
      <3>1. f = f0 /\ SameData(f0)
        BY <2>1 DEF Repairs, Writing
      <3> QED
        BY <3>1 DEF SameData, At, Exists, Settled
    <2> QED
      BY <1>1, <2>1, QuietStays
  <1>5. Knows(c)' /\ Sure(c)' /\ Keeps(c)'
    <2>1. \A f \in Files : disk'[Src(r.op)][f] = disk[Src(r.op)][f]
      OBVIOUS
    <2>2. Settled(Dst(r.op), f0) => Settled(Dst(r.op), f0)'
      <3>1. f0 \in Files
        BY <1>1, FileIn
      <3> QED
        BY <1>4, <3>1, SideFacts DEF Stays
    <2> QED
      BY <1>1, <1>2, <1>4, <2>1, <2>2, ActorOnward
  <1> QED
    BY <1>1, <1>2, <1>4, <1>5, QuietStep DEF Typed

\* A call that is not writing ends without an answer ok.
LEMMA NoneStep ==
    ASSUME IInv, NEW c \in Calls, NEW n \in CallRec, CallOK(n), n.op = "none", Moves(c, n),
           UNCHANGED <<now, disk, edits, blur>>, made' \in Nat, call[c].at \notin WritePhases
    PROVE  IInv'
  <1>1. Typed
    BY DEF IInv
  <1>2. call'[c] = n
    BY <1>1, MovesShape
  <1>3. \A f \in Files : Stays(f)
    BY <1>1, QuietStays DEF Repairs, Writing
  <1> QED
    BY <1>2, <1>3, ActorNone, QuietStep

\* A call begins, or has its list of files: it is through with none of them.
LEMMA EnterStep ==
    ASSUME IInv, NEW c \in Calls, NEW n \in CallRec, CallOK(n), Moves(c, n),
           UNCHANGED <<now, disk, edits, blur>>, made' \in Nat, call[c].at \notin WritePhases,
           n.at \in {"open", "walk", "stat", "copy", "file", "ended"},
           n.at \in {"stat", "copy", "file"} => n.scope \subseteq n.todo,
           n.at = "ended" => n.scope = {},
           n.op = "sync" => \A f \in n.scope : f \notin Links /\ Exists("local", f),
           n.op = "mirror" => \A f \in n.scope : Is("remote", f, n.seen[f].size, n.seen[f].mtime)
    PROVE  IInv'
  <1>1. Typed
    BY DEF IInv
  <1>2. call'[c] = n
    BY <1>1, MovesShape
  <1>3. \A f \in Files : Stays(f)
    BY <1>1, QuietStays DEF Repairs, Writing
  <1>4. \A s, f : At(s, f)' = At(s, f) /\ Exists(s, f)' = Exists(s, f)
    BY DEF At, Exists
  <1>5. Knows(c)'
    BY <1>2, <1>4 DEF Knows, Is
  <1>6. Sure(c)'
    BY <1>2 DEF Sure
  <1>7. Keeps(c)'
    <2>1. ASSUME NEW f \in Files, Vouches(c, f)'
          PROVE  FALSE
      <3>1. Through(c, f)'
        BY <1>2, <2>1 DEF Vouches
      <3>2. f \in n.scope /\ (n.status = "ok" \/ (n.at \in {"stat", "copy", "file"} /\ f \notin n.todo))
        BY <1>2, <3>1 DEF Through, Running, Phases, WritePhases
      <3>3. n.status # "ok"
        BY <3>2 DEF CallOK
      <3> QED
        BY <3>2, <3>3
    <2> QED
      BY <2>1 DEF Keeps
  <1> QED
    BY <1>3, <1>5, <1>6, <1>7, QuietStep

-----------------------------------------------------------------------------
(* The steps that write nothing *)

\* Invoke: a call is made; an upload of a file that is not there ends at once.
LEMMA InvokeStep ==
    ASSUME IInv, NEW c \in Calls, NEW op \in Uploads \cup Downloads, NEW ck \in BOOLEAN,
           NEW rs \in BOOLEAN, NEW f \in Files, Invoke(c, op, ck, rs, f)
    PROVE  IInv'
  <1> DEFINE files == IF op \in Batches THEN {} ELSE {f}
  <1> DEFINE r == [Idle EXCEPT !.at = "open", !.op = op, !.checksum = ck,
                     !.resume = rs, !.todo = files, !.scope = files]
  <1> DEFINE sized == [r EXCEPT !.size = Len(At("local", f).data)]
  <1>1. /\ made' \in Nat /\ UNCHANGED <<now, disk, edits, blur>> /\ ~Running(c)
        /\ Moves(c, IF op # "upload" THEN r
                    ELSE IF ~Exists("local", f) THEN End(r, "error") ELSE sized)
    BY DEF Invoke, IInv, Typed
  <1>2. call[c].at \notin WritePhases
    BY <1>1 DEF Running, Phases
  <1>3. files \subseteq Files /\ (op \notin Batches => files # {} /\ \A g, h \in files : g = h)
        /\ (op \in Batches => files = {}) /\ op # "none"
    BY DEF Uploads, Downloads
  <1> HIDE DEF files
  <1>4. /\ r \in CallRec /\ r.at = "open" /\ r.op = op /\ r.scope = files /\ r.todo = files
        /\ r.failed = {} /\ r.skipped = {} /\ r.status = "none"
    <2>1. Idle \in CallRec /\ Idle.failed = {} /\ Idle.skipped = {} /\ Idle.status = "none"
      BY IdleFacts DEF Idle
    <2>2. "open" \in Phases
      BY DEF Phases
    <2> QED
      BY <1>3, <2>1, <2>2 DEF CallRec
  <1> HIDE DEF r
  <1>5. CallOK(r)
    BY <1>3, <1>4 DEF CallOK, Phases, WritePhases, Batches
  <1>6. CASE op # "upload"
    <2>1. op \in {"sync", "mirror"} => r.scope = {}
      BY <1>3, <1>4 DEF Batches
    <2> QED
      BY <1>1, <1>2, <1>4, <1>5, <1>6, <2>1, EnterStep
  <1>7. CASE op = "upload" /\ ~Exists("local", f)
    <2>1. CallOK(End(r, "error")) /\ End(r, "error") \in CallRec /\ End(r, "error").op = "none"
      BY <1>4, EndFacts
    <2> QED
      BY <1>1, <1>2, <1>7, <2>1, NoneStep
  <1>8. CASE op = "upload" /\ Exists("local", f)
    <2>1. Len(At("local", f).data) \in Nat
      BY <1>8, DiskFacts DEF IInv, Sides
    <2>2. /\ sized \in CallRec /\ sized.at = "open" /\ sized.op = op /\ sized.scope = files
          /\ sized.todo = files /\ sized.failed = {} /\ sized.skipped = {} /\ sized.status = "none"
      BY <1>4, <2>1 DEF CallRec
    <2> HIDE DEF sized
    <2>3. CallOK(sized)
      BY <1>3, <2>2 DEF CallOK, Phases, WritePhases, Batches
    <2> QED
      BY <1>1, <1>2, <1>8, <2>2, <2>3, EnterStep
  <1> QED
    BY <1>6, <1>7, <1>8

\* Connect: the lists of sync and of the list calls are made.
LEMMA ConnectStep ==
    ASSUME IInv, NEW c \in Calls, Connect(c)
    PROVE  IInv'
  <1> DEFINE r == call[c]
  <1> DEFINE batch == [r EXCEPT !.todo = Listed(r.op), !.scope = Listed(r.op) \ Links,
                                !.at = "file"]
  <1> DEFINE to(at) == [r EXCEPT !.at = at]
  <1>1. /\ made' \in Nat /\ UNCHANGED <<now, disk, edits, blur>> /\ r.at = "open"
        /\ CallOK(r) /\ r \in CallRec
    BY FileIn DEF Connect, IInv, Typed, CallOK
  <1>2. /\ r.at \notin WritePhases /\ r.status = "none" /\ r.op # "none"
        /\ r.failed \cup r.skipped = {} /\ (r.op \in Batches => r.scope = {} /\ r.todo = {})
        /\ (r.op \notin Batches => r.todo # {} /\ r.scope = r.todo)
        /\ r.todo \subseteq Files /\ \A f, g \in r.todo : r.op \in Batches \/ f = g
    BY <1>1 DEF CallOK, CallRec, Phases, WritePhases
  <1>3. ASSUME NEW at \in {"stat", "copy", "walk"}
        PROVE  /\ to(at) \in CallRec /\ to(at).at = at /\ to(at).op = r.op
               /\ to(at).scope = r.scope /\ to(at).todo = r.todo /\ to(at).status = "none"
               /\ to(at).failed = r.failed /\ to(at).skipped = r.skipped
               /\ to(at).seen = r.seen
    <2>1. at \in Phases
      BY DEF Phases, WritePhases
    <2> QED
      BY <1>1, <1>2, <2>1 DEF CallRec
  <1> HIDE DEF to
  <1>4. ASSUME NEW at \in {"stat", "copy", "walk"}, Moves(c, to(at)),
               at = "stat" => r.op = "upload", at = "walk" => r.op = "mirror",
               at = "copy" => r.op \in {"upload", "download"}
        PROVE  IInv'
    <2>1. CallOK(to(at))
      BY <1>1, <1>2, <1>3, <1>4 DEF CallOK, Phases, WritePhases, Batches
    <2> QED
      BY <1>1, <1>2, <1>3, <1>4, <2>1, EnterStep DEF Batches
  <1>5. CASE r.op = "upload"
    BY <1>1, <1>4, <1>5 DEF Connect, to
  <1>6. CASE r.op = "download"
    BY <1>1, <1>4, <1>6 DEF Connect, to
  <1>7. CASE r.op = "mirror"
    BY <1>1, <1>4, <1>7 DEF Connect, to
  <1>8. CASE r.op \notin {"upload", "download", "mirror"}
    <2>1. r.op \in {"sync", "upload-list", "download-list"}
      BY <1>1, <1>2, <1>8 DEF CallRec, Uploads, Downloads
    <2>2. Moves(c, IF batch.todo = {} THEN End(batch, "ok") ELSE batch)
      BY <1>8 DEF Connect
    <2>3. Listed(r.op) \subseteq Files
          /\ (r.op = "sync" => \A f \in Listed(r.op) \ Links : f \notin Links /\ Exists("local", f))
      BY <2>1 DEF Listed
    <2>4. PICK l \in SUBSET Files : l = Listed(r.op)
      BY <2>3
    <2>5. /\ batch \in CallRec /\ batch.at = "file" /\ batch.op = r.op
          /\ batch.scope = l \ Links /\ batch.todo = l /\ batch.status = "none"
          /\ batch.failed = r.failed /\ batch.skipped = r.skipped
      <3>1. "file" \in Phases
        BY DEF Phases
      <3> QED
        BY <1>1, <1>2, <2>4, <3>1 DEF CallRec
    <2> HIDE DEF batch
    <2>6. CASE l = {}
      <3>1. /\ CallOK(End(batch, "ok")) /\ End(batch, "ok") \in CallRec
            /\ End(batch, "ok").at = "ended" /\ SameBook(End(batch, "ok"), batch)
        BY <1>2, <2>5, EndFacts
      <3>2. End(batch, "ok").scope = {} /\ End(batch, "ok").op \in {"sync", "upload-list", "download-list"}
        BY <2>1, <2>5, <2>6, <3>1 DEF SameBook
      <3> QED
        BY <1>1, <1>2, <2>2, <2>5, <2>6, <3>1, <3>2, EnterStep
    <2>7. CASE l # {}
      <3>1. CallOK(batch)
        BY <1>2, <2>1, <2>5, <2>7 DEF CallOK, Phases, WritePhases, Batches
      <3> QED
        BY <1>1, <1>2, <2>1, <2>2, <2>3, <2>4, <2>5, <2>7, <3>1, EnterStep
    <2> QED
      BY <2>6, <2>7
  <1> QED
    BY <1>5, <1>6, <1>7, <1>8

\* WalkRemote: mirror lists the host and notes sizes and mtimes.
LEMMA WalkRemoteStep ==
    ASSUME IInv, NEW c \in Calls, NEW unread \in SUBSET (Files \ Links), WalkRemote(c, unread)
    PROVE  IInv'
  <1> DEFINE r == call[c]
  <1>0. ReadFrom(unread) \subseteq Files /\ \A f \in ReadFrom(unread) : Exists("remote", f)
    BY DEF ReadFrom
  <1>1. PICK l \in SUBSET Files : l = ReadFrom(unread) /\ \A f \in l : Exists("remote", f)
    BY <1>0
  <1>2. PICK seen : seen = SeenOf(l)
    OBVIOUS
  <1>3. /\ seen \in [Files -> [size : Nat, mtime : Nat]]
        /\ \A f \in l : Is("remote", f, seen[f].size, seen[f].mtime)
    <2>1. ASSUME NEW f \in Files, f \in l
          PROVE  Len(At("remote", f).data) \in Nat /\ At("remote", f).mtime \in Nat
      BY <1>1, <2>1, DiskFacts DEF IInv, Sides
    <2>2. \A f \in l : seen[f] = [size |-> Len(At("remote", f).data), mtime |-> At("remote", f).mtime]
      BY <1>2 DEF SeenOf
    <2>3. \A f \in l : Is("remote", f, seen[f].size, seen[f].mtime)
      <3> SUFFICES ASSUME NEW f \in l
                   PROVE  Is("remote", f, seen[f].size, seen[f].mtime)
        OBVIOUS
      <3>0. seen[f] = [size |-> Len(At("remote", f).data), mtime |-> At("remote", f).mtime]
        BY <2>2
      <3>1. seen[f].size = Len(At("remote", f).data) /\ seen[f].mtime = At("remote", f).mtime
        BY <3>0
      <3> QED
        BY <1>1, <3>1 DEF Is
    <2> QED
      BY <1>2, <2>1, <2>3 DEF SeenOf
  <1> DEFINE walked == [r EXCEPT !.todo = l, !.scope = l, !.seen = seen, !.at = "file"]
  <1>4. /\ made' \in Nat /\ UNCHANGED <<now, disk, edits, blur>> /\ r.at = "walk"
        /\ CallOK(r) /\ r \in CallRec
        /\ Moves(c, IF l = {} THEN End(walked, "ok") ELSE walked)
    BY <1>1, <1>2, FileIn DEF WalkRemote, IInv, Typed, CallOK
  <1>5. /\ r.at \notin WritePhases /\ r.status = "none" /\ r.op = "mirror"
        /\ r.failed = {} /\ r.skipped = {}
    BY <1>4 DEF CallOK, Phases, WritePhases
  <1>6. /\ walked \in CallRec /\ walked.at = "file" /\ walked.op = "mirror"
        /\ walked.scope = l /\ walked.todo = l /\ walked.status = "none"
        /\ walked.failed = {} /\ walked.skipped = {} /\ walked.seen = seen
    <2>1. "file" \in Phases
      BY DEF Phases
    <2> QED
      BY <1>3, <1>4, <1>5, <2>1 DEF CallRec
  <1> HIDE DEF walked
  <1>7. CASE l = {}
    <2>1. /\ CallOK(End(walked, "ok")) /\ End(walked, "ok") \in CallRec
          /\ End(walked, "ok").at = "ended" /\ SameBook(End(walked, "ok"), walked)
      BY <1>6, EndFacts
    <2> QED
      BY <1>4, <1>5, <1>6, <1>7, <2>1, EnterStep DEF SameBook
  <1>8. CASE l # {}
    <2>1. CallOK(walked)
      BY <1>6, <1>8 DEF CallOK, Phases, WritePhases, Batches
    <2> QED
      BY <1>3, <1>4, <1>5, <1>6, <1>8, <2>1, EnterStep
  <1> QED
    BY <1>7, <1>8

\* OpenFails: no connection, or no directory to mirror.
LEMMA OpenFailsStep ==
    ASSUME IInv, NEW c \in Calls, OpenFails(c)
    PROVE  IInv'
  <1>1. CallOK(call[c]) /\ call[c] \in CallRec /\ made' \in Nat
        /\ call[c].at \in {"open", "walk"}
    BY FileIn DEF OpenFails, IInv, Typed, CallOK
  <1>2. call[c].at \notin WritePhases /\ call[c].skipped = {}
    BY <1>1 DEF WritePhases, CallOK
  <1>3. PICK n \in CallRec : n = End(call[c], "error") /\ CallOK(n) /\ n.op = "none"
    BY <1>1, <1>2, EndFacts
  <1> QED
    BY <1>1, <1>2, <1>3, NoneStep DEF OpenFails

\* What is known of a call under way.
LEMMA RunFacts ==
    ASSUME IInv, NEW c \in Calls, call[c].at \in Phases \ {"open", "walk"}
    PROVE  /\ call[c] \in CallRec /\ CallOK(call[c]) /\ Knows(c) /\ Typed
           /\ call[c].op \in Uploads \cup Downloads /\ call[c].status = "none"
           /\ File(c) \in Files /\ File(c) \in call[c].todo
           /\ First(call[c].todo) = File(c) /\ Src(call[c].op) \in Sides
           /\ Dst(call[c].op) \in Sides /\ Dst(call[c].op) = Other(Src(call[c].op))
           /\ Onward(NextFile(call[c]), call[c], call[c].skipped, call[c].failed)
           /\ call[c].op \in Batches =>
                 Onward(Skip(call[c]), call[c], call[c].skipped \cup {File(c)}, call[c].failed)
           /\ Onward(FileFailed(call[c]), call[c], call[c].skipped, call[c].failed \cup {File(c)})
  <1>1. /\ call[c] \in CallRec /\ CallOK(call[c]) /\ Knows(c) /\ Typed
        /\ File(c) \in call[c].todo /\ File(c) \in Files
    BY FileIn DEF IInv, SourceKnown, CallOK
  <1>2. call[c].op \in Uploads \cup Downloads /\ call[c].status = "none"
    BY <1>1 DEF CallOK, CallRec, Phases, WritePhases
  <1>3. /\ Onward(NextFile(call[c]), call[c], call[c].skipped, call[c].failed)
        /\ call[c].op \in Batches =>
              Onward(Skip(call[c]), call[c], call[c].skipped \cup {First(call[c].todo)}, call[c].failed)
        /\ Onward(FileFailed(call[c]), call[c], call[c].skipped,
                  call[c].failed \cup {First(call[c].todo)})
    BY <1>1, OnwardFacts
  <1> QED
    BY <1>1, <1>2, <1>3, SideFacts DEF File

\* BeginFile: the source of the next file is looked at.
LEMMA BeginFileStep ==
    ASSUME IInv, NEW c \in Calls, BeginFile(c)
    PROVE  IInv'
  <1> PICK r \in CallRec : r = call[c] /\ r.at = "file"
    BY DEF BeginFile, IInv, Typed
  <1>1. r.at \in Phases \ {"open", "walk"} /\ r.at \notin WritePhases
    BY DEF Phases, WritePhases
  <1>2. PICK f \in Files : f = File(c)
    BY <1>1, RunFacts
  <1>3. /\ CallOK(r) /\ Knows(c) /\ Typed /\ r.op \in Batches
        /\ Onward(NextFile(r), r, r.skipped, r.failed)
        /\ Onward(FileFailed(r), r, r.skipped, r.failed \cup {f})
        /\ r.status = "none" /\ r.op \in Uploads \cup Downloads /\ f \in r.todo
        /\ UNCHANGED <<now, disk, made, edits, blur>>
    BY <1>1, <1>2, RunFacts DEF CallOK, BeginFile
  <1> DEFINE known(size, mtime) == [r EXCEPT !.at = "compare", !.size = size, !.mtime = mtime]
  <1> DEFINE src == At(Src(r.op), f)
  <1>4. ASSUME NEW size \in Nat, NEW mtime \in Nat, Moves(c, known(size, mtime)),
               f \notin r.dirty => Is(Src(r.op), f, size, mtime)
        PROVE  IInv'
    <2>1. PICK n : n = known(size, mtime)
      OBVIOUS
    <2>2. /\ n \in CallRec /\ n.at = "compare" /\ n.size = size /\ n.mtime = mtime
          /\ n.op = r.op /\ n.scope = r.scope /\ n.todo = r.todo
          /\ n.seen = r.seen /\ n.failed = r.failed /\ n.status = r.status
          /\ n.dirty = r.dirty /\ n.spoiled = r.spoiled /\ n.guessed = r.guessed /\ n.skipped = r.skipped
      <3>1. "compare" \in Phases
        BY DEF Phases
      <3> QED
        BY <2>1, <3>1 DEF CallRec
    <2>3. CallOK(n)
      BY <1>3, <2>2 DEF CallOK, Phases, WritePhases
    <2>4. n.at \in Phases \ {"open", "walk", "write"}
      BY <2>2 DEF Phases, WritePhases
    <2>5. /\ call[c].at \notin WritePhases \/ n.at \in WritePhases
          /\ n.at = "verifyR" => Exists("local", f) /\ At("local", f).data = n.hash
          /\ f \notin n.dirty =>
              /\ n.at \in {"compare", "rhash", "lhash"} => Is(Src(n.op), f, n.size, n.mtime)
              /\ n.at = "lhash" /\ (n.op \in Downloads \/ ~n.shared) =>
                    Exists("remote", f) /\ At("remote", f).data = n.hash
          /\ f \notin n.dirty /\ n.at = "lhash" /\ n.op \in Uploads
              /\ At("local", f).data = n.hash => SameData(f)
      BY <1>1, <1>4, <2>2
    <2> HIDE DEF known
    <2> QED
      BY <1>1, <1>2, <1>3, <1>4, <2>1, <2>2, <2>3, <2>4, <2>5, LookStep
  <1>5. ASSUME Moves(c, NextFile(r)), r.op = "sync", f \in Links \/ ~Exists("local", f)
        PROVE  IInv'
    <2>1. NextFile(r) \in CallRec
      BY <1>3 DEF Onward
    <2>2. ~(f \in r.scope \ (r.failed \cup r.dirty \cup r.spoiled \cup r.guessed))
      <3>1. r.scope \cap Links = {}
        BY <1>3, <1>5 DEF Knows
      <3> QED
        BY <1>3, <1>5, <3>1 DEF Knows
    <2> QED
      BY <1>1, <1>2, <1>3, <1>5, <2>1, <2>2, LeaveStep
  <1>6. ASSUME Moves(c, FileFailed(r))
        PROVE  IInv'
    <2>1. FileFailed(r) \in CallRec
      BY <1>3 DEF Onward
    <2>2. r.failed \subseteq r.failed \cup {f} /\ ~(f \in r.scope \ ((r.failed \cup {f}) \cup r.dirty \cup r.spoiled \cup r.guessed))
      OBVIOUS
    <2> QED
      BY <1>1, <1>2, <1>3, <1>6, <2>1, <2>2, LeaveStep
  <1>7. r.op \in {"sync", "mirror", "upload-list", "download-list"}
    BY <1>3 DEF Batches
  <1>8. /\ Src("sync") = "local" /\ Src("upload-list") = "local"
        /\ Src("mirror") = "remote" /\ Src("download-list") = "remote"
    BY SideFacts DEF Uploads, Downloads
  <1>9. CASE r.op = "mirror"
    <2>1. CASE f \in Links
      BY <1>2, <1>6, <1>9, <2>1 DEF BeginFile
    <2>2. CASE f \notin Links
      <3>1. Moves(c, known(r.seen[f].size, r.seen[f].mtime))
        BY <1>2, <1>9, <2>2 DEF BeginFile
      <3>2. r.seen[f].size \in Nat /\ r.seen[f].mtime \in Nat
        BY DEF CallRec
      <3>3. f \in r.scope
        BY <1>3, <1>9 DEF CallOK
      <3>4. f \notin r.dirty => Is(Src(r.op), f, r.seen[f].size, r.seen[f].mtime)
        BY <1>1, <1>3, <1>8, <1>9, <3>3 DEF Knows, Running
      <3> HIDE DEF known
      <3> QED
        BY <1>4, <3>1, <3>2, <3>4
    <2> QED
      BY <2>1, <2>2
  <1>10. CASE r.op # "mirror"
    <2>1. CASE ~Exists(Src(r.op), f) \/ (r.op = "sync" /\ f \in Links)
      BY <1>2, <1>5, <1>6, <1>7, <1>8, <1>10, <2>1 DEF BeginFile
    <2>2. CASE Exists(Src(r.op), f) /\ ~(r.op = "sync" /\ f \in Links)
      <3>1. Moves(c, known(Len(src.data), src.mtime))
        BY <1>2, <1>7, <1>8, <1>10, <2>2 DEF BeginFile
      <3>2. Len(src.data) \in Nat /\ src.mtime \in Nat /\ Is(Src(r.op), f, Len(src.data), src.mtime)
        BY <1>3, <2>2, DiskFacts, SideFacts DEF Is
      <3> HIDE DEF known
      <3> QED
        BY <1>4, <3>1, <3>2
    <2> QED
      BY <2>1, <2>2
  <1> QED
    BY <1>9, <1>10

\* A call at a file goes on to its next phase there.
LEMMA ToStep ==
    ASSUME IInv, NEW c \in Calls, call[c].at \in Phases \ {"open", "walk"},
           NEW p \in {"copy", "verifyL", "rhash"}, Moves(c, [call[c] EXCEPT !.at = p]),
           p = "verifyL" => call[c].op = "upload",
           p = "rhash" => call[c].checksum /\ call[c].at = "compare",
           UNCHANGED <<now, disk, made, edits, blur>>
    PROVE  IInv'
  <1>1. PICK r \in CallRec : r = call[c]
    BY RunFacts
  <1>2. PICK f \in Files : f = File(c)
    BY RunFacts
  <1>3. CallOK(r) /\ Knows(c) /\ r.status = "none" /\ f \in r.todo
    BY <1>1, <1>2, RunFacts
  <1>4. PICK n : n = [r EXCEPT !.at = p]
    OBVIOUS
  <1>5. /\ n \in CallRec /\ n.at = p /\ n.size = r.size /\ n.mtime = r.mtime
        /\ n.op = r.op /\ n.scope = r.scope /\ n.todo = r.todo /\ n.checksum = r.checksum
        /\ n.seen = r.seen /\ n.failed = r.failed /\ n.status = r.status
        /\ n.dirty = r.dirty /\ n.spoiled = r.spoiled /\ n.guessed = r.guessed /\ n.skipped = r.skipped
    <2>1. p \in Phases
      BY DEF Phases, WritePhases
    <2> QED
      BY <1>4, <2>1 DEF CallRec
  <1>6. CallOK(n)
    BY <1>1, <1>3, <1>5 DEF CallOK, Phases, WritePhases
  <1>7. /\ n.at \in Phases \ {"open", "walk", "write"}
        /\ call[c].at \notin WritePhases \/ n.at \in WritePhases
    BY <1>1, <1>5 DEF Phases, WritePhases
  <1>8. f \notin n.dirty => (n.at \in {"compare", "rhash", "lhash"} => Is(Src(n.op), f, n.size, n.mtime))
    BY <1>1, <1>2, <1>3, <1>5 DEF Knows, Phases, WritePhases
  <1>9. /\ Moves(c, n) /\ n.at # "verifyR" /\ n.at # "lhash"
    BY <1>1, <1>4, <1>5
  <1> QED
    BY <1>1, <1>2, <1>5, <1>6, <1>7, <1>8, <1>9, LookStep

\* Compare: _files_match skips the file, hashes it or has it copied.
LEMMA CompareStep ==
    ASSUME IInv, NEW c \in Calls, NEW fails \in BOOLEAN, Compare(c, fails)
    PROVE  IInv'
  <1>1. PICK r \in CallRec : r = call[c] /\ r.at = "compare"
    BY DEF Compare, IInv, Typed
  <1>2. call[c].at \in Phases \ {"open", "walk"} /\ call[c].at \notin WritePhases
    BY <1>1 DEF Phases, WritePhases
  <1>3. PICK f \in Files : f = File(c)
    BY <1>2, RunFacts
  <1>4. /\ CallOK(r) /\ Knows(c) /\ Typed /\ r.op \in Batches
        /\ r.status = "none" /\ r.op \in Uploads \cup Downloads /\ f \in r.todo
        /\ UNCHANGED <<now, disk, made, edits, blur>>
        /\ Src(r.op) \in Sides /\ Dst(r.op) = Other(Src(r.op)) /\ Dst(r.op) \in Sides
        /\ Other(Dst(r.op)) = Src(r.op)
    BY <1>1, <1>2, <1>3, RunFacts, SideFacts DEF CallOK, Compare
  <1> DEFINE dst == At(Dst(r.op), f)
  <1> DEFINE same == Exists(Dst(r.op), f) /\ ~fails /\ Len(dst.data) = r.size
  <1>5. PICK guessed \in SUBSET Files :
            guessed = IF f \in blur THEN r.guessed \cup {f} ELSE r.guessed
    <2>1. r.guessed \subseteq Files
      BY DEF CallRec
    <2> QED
      BY <2>1
  <1>6. PICK t : t = [r EXCEPT !.guessed = guessed]
    OBVIOUS
  <1>7. \/ Moves(c, [call[c] EXCEPT !.at = "rhash"]) /\ r.checksum
        \/ Moves(c, Skip(t)) /\ same /\ MtimeMatch(dst.mtime, r.mtime)
        \/ Moves(c, [call[c] EXCEPT !.at = "copy"])
    BY <1>1, <1>3, <1>5, <1>6 DEF Compare
  <1>8. CASE Moves(c, Skip(t)) /\ same /\ MtimeMatch(dst.mtime, r.mtime)
    <2>1. /\ t \in CallRec /\ t.at = r.at /\ t.op = r.op /\ t.scope = r.scope /\ t.todo = r.todo
          /\ t.seen = r.seen /\ t.failed = r.failed /\ t.status = r.status
          /\ t.dirty = r.dirty /\ t.spoiled = r.spoiled /\ t.guessed = guessed /\ t.skipped = r.skipped
          /\ t.checksum = r.checksum
      BY <1>6 DEF CallRec
    <2>2. CallOK(t)
      BY <1>4, <2>1 DEF CallOK
    <2>3. First(t.todo) = f
      BY <1>1, <1>3, <2>1 DEF File
    <2>4. Onward(Skip(t), t, t.skipped \cup {f}, t.failed)
      BY <1>1, <1>2, <1>4, <2>1, <2>2, <2>3, OnwardFacts
    <2>5. f \notin t.dirty \cup t.guessed => SameData(f)
      <3>1. SUFFICES ASSUME f \notin r.dirty, f \notin blur
                     PROVE  SameData(f)
        BY <1>5, <2>1
      <3>2. Is(Src(r.op), f, r.size, r.mtime)
        BY <1>1, <1>2, <1>3, <1>4, <3>1 DEF Knows
      <3>3. PICK s \in Sides : s = Dst(r.op) /\ Other(s) = Src(r.op) /\ Other(s) \in Sides
        BY <1>4
      <3>4. /\ Exists(s, f) /\ Exists(Other(s), f)
            /\ MtimeMatch(At(s, f).mtime, At(Other(s), f).mtime)
        BY <1>8, <3>2, <3>3 DEF Is
      <3>5. /\ Exists("local", f) /\ Exists("remote", f)
            /\ MtimeMatch(At("local", f).mtime, At("remote", f).mtime)
        BY <3>4 DEF Sides, Other, MtimeMatch
      <3> QED
        BY <3>1, <3>5 DEF IInv, BlurTells
    <2>6. Skip(t) \in CallRec
      BY <2>4 DEF Onward
    <2>7. call[c].dirty \subseteq t.dirty /\ call[c].guessed \subseteq t.guessed
      BY <1>1, <1>5, <2>1
    <2>8. f \notin t.dirty \cup t.guessed => Settled(Dst(t.op), f)
      BY <2>5 DEF Settled
    <2> QED
      BY <1>1, <1>2, <1>3, <1>4, <1>8, <2>1, <2>4, <2>6, <2>7, <2>8, LeaveStep
  <1> QED
    BY <1>1, <1>2, <1>4, <1>7, <1>8, ToStep

\* RemoteHash: the host hashes the file, or cannot.
LEMMA RemoteHashStep ==
    ASSUME IInv, NEW c \in Calls, NEW there \in BOOLEAN, RemoteHash(c, there)
    PROVE  IInv'
  <1>1. PICK r \in CallRec : r = call[c] /\ r.at = "rhash"
    BY DEF RemoteHash, IInv, Typed
  <1>2. call[c].at \in Phases \ {"open", "walk"} /\ call[c].at \notin WritePhases
    BY <1>1 DEF Phases, WritePhases
  <1>3. PICK f \in Files : f = File(c)
    BY <1>2, RunFacts
  <1>4. /\ CallOK(r) /\ Knows(c) /\ Typed /\ r.op \in Batches /\ r.checksum
        /\ r.status = "none" /\ f \in r.todo
        /\ UNCHANGED <<now, disk, made, edits, blur>>
    BY <1>1, <1>2, <1>3, RunFacts DEF CallOK, RemoteHash
  <1>5. CASE Moves(c, [call[c] EXCEPT !.at = "copy"])
    BY <1>2, <1>4, <1>5, ToStep
  <1>6. CASE /\ Exists("remote", f)
             /\ Moves(c, [r EXCEPT !.at = "lhash", !.hash = At("remote", f).data, !.shared = FALSE])
    <2>1. At("remote", f).data \in Seq(Nat)
      BY <1>4, <1>6, DiskFacts DEF Sides
    <2>2. PICK n : n = [r EXCEPT !.at = "lhash", !.hash = At("remote", f).data, !.shared = FALSE]
      OBVIOUS
    <2>3. /\ n \in CallRec /\ n.at = "lhash" /\ n.size = r.size /\ n.mtime = r.mtime
          /\ n.op = r.op /\ n.scope = r.scope /\ n.todo = r.todo /\ n.checksum = r.checksum
          /\ n.seen = r.seen /\ n.failed = r.failed /\ n.status = r.status
          /\ n.dirty = r.dirty /\ n.spoiled = r.spoiled /\ n.guessed = r.guessed /\ n.skipped = r.skipped
          /\ n.hash = At("remote", f).data
      <3>1. "lhash" \in Phases
        BY DEF Phases
      <3> QED
        BY <2>1, <2>2, <3>1 DEF CallRec
    <2>4. CallOK(n)
      BY <1>1, <1>4, <2>3 DEF CallOK, Phases, WritePhases
    <2>5. /\ n.at \in Phases \ {"open", "walk", "write"} /\ Moves(c, n)
          /\ n.at # "verifyR"
      BY <1>6, <2>2, <2>3 DEF Phases, WritePhases
    <2>6. f \notin n.dirty => Is(Src(n.op), f, n.size, n.mtime)
      BY <1>1, <1>2, <1>3, <1>4, <2>3 DEF Knows
    <2>7. f \notin n.dirty /\ n.op \in Uploads /\ At("local", f).data = n.hash => SameData(f)
      <3>1. n.op \in Uploads => Src(n.op) = "local"
        BY SideFacts
      <3> QED
        BY <1>6, <2>3, <2>6, <3>1 DEF Is, SameData
    <2> QED
      BY <1>1, <1>2, <1>3, <1>4, <1>6, <2>3, <2>4, <2>5, <2>6, <2>7, LookStep
  <1> QED
    BY <1>1, <1>3, <1>5, <1>6 DEF RemoteHash

\* LocalHash: the local hash decides.
LEMMA LocalHashStep ==
    ASSUME IInv, NEW c \in Calls, LocalHash(c)
    PROVE  IInv'
  <1>1. PICK r \in CallRec : r = call[c] /\ r.at = "lhash"
    BY DEF LocalHash, IInv, Typed
  <1>2. call[c].at \in Phases \ {"open", "walk"} /\ call[c].at \notin WritePhases
    BY <1>1 DEF Phases, WritePhases
  <1>3. PICK f \in Files : f = File(c)
    BY <1>2, RunFacts
  <1>4. /\ CallOK(r) /\ Knows(c) /\ Keeps(c) /\ Typed /\ r.op \in Batches
        /\ r.status = "none" /\ f \in r.todo /\ r.op \in Uploads \cup Downloads
        /\ UNCHANGED <<now, disk, made, edits, blur>>
        /\ Onward(FileFailed(r), r, r.skipped, r.failed \cup {f})
        /\ Onward(Skip(r), r, r.skipped \cup {f}, r.failed)
    BY <1>1, <1>2, <1>3, RunFacts DEF CallOK, LocalHash, IInv, Agreed
  <1>5. CASE Moves(c, [call[c] EXCEPT !.at = "copy"])
    BY <1>2, <1>4, <1>5, ToStep
  <1>6. CASE Moves(c, FileFailed(r))
    <2>1. FileFailed(r) \in CallRec
      BY <1>4 DEF Onward
    <2>2. r.failed \subseteq r.failed \cup {f} /\ ~(f \in r.scope \ ((r.failed \cup {f}) \cup r.dirty \cup r.spoiled \cup r.guessed))
      OBVIOUS
    <2> QED
      BY <1>1, <1>2, <1>3, <1>4, <1>6, <2>1, <2>2, LeaveStep
  <1>7. CASE Moves(c, Skip(r)) /\ Exists("local", f) /\ At("local", f).data = r.hash
    <2>1. Skip(r) \in CallRec
      BY <1>4 DEF Onward
    <2>2. ASSUME f \notin r.dirty \cup r.spoiled \cup r.guessed
          PROVE  Settled(Dst(r.op), f)
      <3>1. CASE r.op \in Uploads
        BY <1>1, <1>3, <1>4, <1>7, <2>2, <3>1 DEF Keeps, Vouches
      <3>2. CASE r.op \in Downloads
        BY <1>1, <1>2, <1>3, <1>4, <1>7, <2>2, <3>2 DEF Knows, Settled, SameData
      <3> QED
        BY <1>4, <3>1, <3>2
    <2> QED
      BY <1>1, <1>2, <1>3, <1>4, <1>7, <2>1, <2>2, LeaveStep
  <1> QED
    BY <1>1, <1>3, <1>5, <1>6, <1>7 DEF LocalHash

\* StatRemote: an upload finds a part of the file on the host, or not.
LEMMA StatRemoteStep ==
    ASSUME IInv, NEW c \in Calls, NEW fails \in BOOLEAN, StatRemote(c, fails)
    PROVE  IInv'
  <1>1. PICK r \in CallRec : r = call[c] /\ r.at = "stat"
    BY DEF StatRemote, IInv, Typed
  <1>2. call[c].at \in Phases \ {"open", "walk"} /\ call[c].at \notin WritePhases
    BY <1>1 DEF Phases, WritePhases
  <1>3. PICK f \in Files : f = File(c)
    BY <1>2, RunFacts
  <1>4. /\ CallOK(r) /\ Typed /\ r.op = "upload" /\ r.status = "none" /\ f \in r.todo
        /\ UNCHANGED <<now, disk, made, edits, blur>>
    <2>1. CallOK(r)
      BY <1>1, <1>2, RunFacts
    <2>2. r.op = "upload"
      BY <1>1, <2>1 DEF CallOK
    <2> QED
      BY <1>1, <1>2, <1>3, <2>1, <2>2, RunFacts DEF StatRemote
  <1>5. CASE Moves(c, [call[c] EXCEPT !.at = "copy"])
    BY <1>2, <1>4, <1>5, ToStep
  <1>6. CASE /\ Exists("remote", f)
             /\ Moves(c, [r EXCEPT !.at = "append", !.offset = Len(At("remote", f).data)])
    <2>1. Len(At("remote", f).data) \in Nat
      BY <1>4, <1>6, DiskFacts DEF Sides
    <2>2. PICK n : n = [r EXCEPT !.at = "append", !.offset = Len(At("remote", f).data)]
      OBVIOUS
    <2>3. /\ n \in CallRec /\ n.at = "append"
          /\ n.op = r.op /\ n.scope = r.scope /\ n.todo = r.todo /\ n.checksum = r.checksum
          /\ n.seen = r.seen /\ n.failed = r.failed /\ n.status = r.status
          /\ n.dirty = r.dirty /\ n.spoiled = r.spoiled /\ n.guessed = r.guessed /\ n.skipped = r.skipped
      <3>1. "append" \in Phases
        BY DEF Phases, WritePhases
      <3> QED
        BY <2>1, <2>2, <3>1 DEF CallRec
    <2>4. CallOK(n)
      BY <1>1, <1>4, <2>3 DEF CallOK, Phases, WritePhases
    <2>5. /\ n.at \in Phases \ {"open", "walk", "write"} /\ Moves(c, n)
          /\ n.at \notin {"verifyR", "compare", "rhash", "lhash"}
      BY <1>6, <2>2, <2>3 DEF Phases, WritePhases
    <2> QED
      BY <1>1, <1>2, <1>3, <1>4, <2>3, <2>4, <2>5, LookStep
  <1> QED
    BY <1>1, <1>3, <1>5, <1>6 DEF StatRemote

\* AppendEnds: the tail is written.
LEMMA AppendEndsStep ==
    ASSUME IInv, NEW c \in Calls, AppendEnds(c)
    PROVE  IInv'
  <1>1. call[c].at \in Phases \ {"open", "walk"} /\ call[c].at = "append"
    BY DEF AppendEnds, Phases, WritePhases
  <1>2. call[c].op = "upload"
    BY <1>1, RunFacts DEF CallOK
  <1> QED
    BY <1>1, <1>2, ToStep DEF AppendEnds

\* VerifyLocal: the upload hashes its own file.
LEMMA VerifyLocalStep ==
    ASSUME IInv, NEW c \in Calls, VerifyLocal(c)
    PROVE  IInv'
  <1>1. PICK r \in CallRec : r = call[c] /\ r.at = "verifyL"
    BY DEF VerifyLocal, IInv, Typed
  <1>2. call[c].at \in Phases \ {"open", "walk"} /\ call[c].at \in WritePhases
    BY <1>1 DEF Phases, WritePhases
  <1>3. PICK f \in Files : f = File(c)
    BY <1>2, RunFacts
  <1>4. /\ CallOK(r) /\ Typed /\ r.op = "upload" /\ r.status = "none" /\ f \in r.todo
        /\ UNCHANGED <<now, disk, made, edits, blur>>
    <2>1. CallOK(r)
      BY <1>1, <1>2, RunFacts
    <2>2. r.op = "upload"
      BY <1>1, <2>1 DEF CallOK
    <2> QED
      BY <1>1, <1>2, <1>3, <2>1, <2>2, RunFacts DEF VerifyLocal
  <1>5. CASE ~Exists("local", f)
    <2>1. GivesUp(c, FileFailed(r))
      BY <1>1, <1>3, <1>5 DEF VerifyLocal
    <2>2. FileFailed(r) = End(r, "error") /\ r.skipped = {}
      BY <1>4 DEF FileFailed, CallOK, Batches
    <2>3. PICK n \in CallRec : n = FileFailed(r) /\ CallOK(n) /\ n.op = "none"
      BY <2>2, EndFacts
    <2>4. call'[c] = n
      BY <1>4, <2>1, <2>3, GivesUpShape
    <2> QED
      BY <1>4, <2>1, <2>3, <2>4, ActorNone, GivesUpStep
  <1>6. CASE Exists("local", f)
    <2>1. At("local", f).data \in Seq(Nat)
      BY <1>4, <1>6, DiskFacts DEF Sides
    <2>2. PICK n : n = [r EXCEPT !.at = "verifyR", !.hash = At("local", f).data]
      OBVIOUS
    <2>3. /\ n \in CallRec /\ n.at = "verifyR" /\ n.hash = At("local", f).data
          /\ n.op = r.op /\ n.scope = r.scope /\ n.todo = r.todo /\ n.checksum = r.checksum
          /\ n.seen = r.seen /\ n.failed = r.failed /\ n.status = r.status
          /\ n.dirty = r.dirty /\ n.spoiled = r.spoiled /\ n.guessed = r.guessed /\ n.skipped = r.skipped
      <3>1. "verifyR" \in Phases
        BY DEF Phases, WritePhases
      <3> QED
        BY <2>1, <2>2, <3>1 DEF CallRec
    <2>4. CallOK(n)
      BY <1>1, <1>4, <2>3 DEF CallOK, Phases, WritePhases
    <2>5. /\ n.at \in Phases \ {"open", "walk", "write"} /\ n.at \in WritePhases
          /\ n.at \notin {"compare", "rhash", "lhash"}
      BY <2>3 DEF Phases, WritePhases
    <2>6. Moves(c, n)
      BY <1>1, <1>3, <1>6, <2>2 DEF VerifyLocal
    <2> QED
      BY <1>1, <1>2, <1>3, <1>4, <1>6, <2>3, <2>4, <2>5, <2>6, LookStep
  <1> QED
    BY <1>5, <1>6

\* VerifyRemote: equal hashes settle the file, else it is copied.
LEMMA VerifyRemoteStep ==
    ASSUME IInv, NEW c \in Calls, NEW there \in BOOLEAN, VerifyRemote(c, there)
    PROVE  IInv'
  <1>1. PICK r \in CallRec : r = call[c] /\ r.at = "verifyR"
    BY DEF VerifyRemote, IInv, Typed
  <1>2. call[c].at \in Phases \ {"open", "walk"} /\ call[c].at \in WritePhases
    BY <1>1 DEF Phases, WritePhases
  <1>3. PICK f \in Files : f = File(c)
    BY <1>2, RunFacts
  <1>4. /\ CallOK(r) /\ Knows(c) /\ Typed /\ r.op = "upload"
        /\ UNCHANGED <<now, disk, made, edits, blur>>
        /\ Onward(NextFile(r), r, r.skipped, r.failed)
    <2>1. CallOK(r)
      BY <1>1, <1>2, RunFacts
    <2>2. r.op = "upload"
      BY <1>1, <2>1 DEF CallOK
    <2> QED
      BY <1>1, <1>2, <1>3, <2>1, <2>2, RunFacts DEF VerifyRemote
  <1>5. CASE Moves(c, [call[c] EXCEPT !.at = "copy"])
    BY <1>2, <1>4, <1>5, ToStep
  <1>6. CASE Moves(c, NextFile(r)) /\ Exists("remote", f) /\ At("remote", f).data = r.hash
    <2>1. NextFile(r) \in CallRec
      BY <1>4 DEF Onward
    <2>2. Src(r.op) = "local" /\ Dst(r.op) = "remote"
      BY <1>4, SideFacts DEF Uploads
    <2>3. ASSUME NEW s \in Sides, Repairs(c, s, f)
          PROVE  SameData(f)
      BY <1>1, <1>6, <2>2, <2>3, SideFacts DEF Repairs, SameData
    <2>4. ASSUME f \notin r.dirty
          PROVE  Settled(Dst(r.op), f)
      BY <1>1, <1>2, <1>3, <1>4, <1>6, <2>4 DEF Knows, Settled, SameData
    <2> QED
      BY <1>1, <1>2, <1>3, <1>4, <1>6, <2>1, <2>3, <2>4, LeaveStep
  <1> QED
    BY <1>1, <1>3, <1>5, <1>6 DEF VerifyRemote

\* Raises: the file may be left half written.
LEMMA RaisesStep ==
    ASSUME IInv, NEW c \in Calls, Raises(c)
    PROVE  IInv'
  <1>1. call[c].at \in Phases \ {"open", "walk"}
    BY DEF Raises, Phases, WritePhases
  <1>2. PICK r \in CallRec : r = call[c]
    BY <1>1, RunFacts
  <1>3. PICK f \in Files : f = File(c)
    BY <1>1, RunFacts
  <1>4. /\ Typed /\ Knows(c) /\ Keeps(c)
        /\ Onward(FileFailed(r), r, r.skipped, r.failed \cup {f})
        /\ UNCHANGED <<now, disk, made, edits, blur>> /\ GivesUp(c, FileFailed(r))
    BY <1>1, <1>2, <1>3, RunFacts DEF Raises, IInv, Agreed
  <1>5. PICK n \in CallRec : n = FileFailed(r) /\ CallOK(n)
    BY <1>4 DEF Onward
  <1>6. call'[c] = n
    BY <1>4, <1>5, GivesUpShape
  <1>7. ASSUME NEW g \in Files \ {f}
        PROVE  Stays(g)
    <2>1. \A s \in Sides : ~Repairs(c, s, g)
      BY <1>3 DEF Repairs
    <2> QED
      BY <1>4, <1>5, <2>1, QuietStays
  <1>8. Knows(c)' /\ Sure(c)' /\ Keeps(c)'
    <2>1. \A g \in Files : disk'[Src(r.op)][g] = disk[Src(r.op)][g]
      BY <1>4
    <2>2. r.failed \subseteq r.failed \cup {f} /\ ~(f \in r.scope \ ((r.failed \cup {f}) \cup r.dirty \cup r.spoiled \cup r.guessed))
      OBVIOUS
    <2>3. Onward(call'[c], r, r.skipped, r.failed \cup {f})
      BY <1>4, <1>5, <1>6
    <2> QED
      BY <1>1, <1>2, <1>3, <1>4, <1>7, <2>1, <2>2, <2>3, ActorOnward
  <1> QED
    BY <1>4, <1>5, <1>8, GivesUpStep

\* Cancel: the same, and the call is through.
LEMMA CancelStep ==
    ASSUME IInv, NEW c \in Calls, Cancel(c)
    PROVE  IInv'
  <1>1. PICK r \in CallRec : r = call[c] /\ CallOK(r) /\ r.at \in Phases
    BY FileIn DEF Cancel, Running, IInv, Typed
  <1>2. r.op \in Batches \/ r.skipped = {}
    BY <1>1 DEF CallOK
  <1>3. PICK n \in CallRec : n = End(r, "cancelled") /\ CallOK(n) /\ n.op = "none"
    BY <1>2, EndFacts
  <1>4. GivesUp(c, n) /\ UNCHANGED <<now, disk, made, edits, blur>> /\ Typed
    BY <1>1, <1>3 DEF Cancel, IInv
  <1>5. call'[c] = n
    BY <1>4, GivesUpShape
  <1> QED
    BY <1>3, <1>4, <1>5, ActorNone, GivesUpStep

-----------------------------------------------------------------------------
(* The steps that write *)

\* Writing a file: the other side, the other files and the types.
LEMMA WritesFacts ==
    ASSUME Typed, NEW s \in Sides, NEW f \in Files, NEW data \in Seq(Nat), Writes(s, f, data)
    PROVE  /\ disk' \in [Sides -> [Files -> FileRec \cup {NoFile}]]
           /\ \A t \in Sides, g \in Files : disk'[t][g] # disk[t][g] => t = s /\ g = f
           /\ Exists(s, f)' /\ At(s, f)'.mtime = now /\ At(s, f)'.data = data
           /\ blur' \subseteq Files /\ blur' \in {blur, blur \cup {f}, blur \ {f}}
           /\ f \notin blur' => ~(/\ Exists("local", f)' /\ Exists("remote", f)'
                                  /\ MtimeMatch(At("local", f)'.mtime, At("remote", f)'.mtime))
  <1> DEFINE rec == [data |-> data, mtime |-> now]
  <1>1. now \in Nat
    BY TransferAssumption DEF Typed
  <1>2. rec \in FileRec /\ rec.data = data /\ rec.mtime = now /\ rec # NoFile
    <2>1. rec \in FileRec
      BY <1>1 DEF FileRec
    <2> QED
      BY <2>1, TransferAssumption
  <1>3. disk' = [disk EXCEPT ![s][f] = rec]
    BY DEF Writes
  <1> HIDE DEF rec
  <1>4. /\ disk' \in [Sides -> [Files -> FileRec \cup {NoFile}]]
        /\ disk'[s][f] = rec
        /\ \A t \in Sides, g \in Files : disk'[t][g] # disk[t][g] => t = s /\ g = f
    BY <1>2, <1>3 DEF Typed
  <1>5. Exists(s, f)' /\ At(s, f)'.mtime = now /\ At(s, f)'.data = data
    BY <1>2, <1>4 DEF Exists, At
  <1>6. blur \subseteq Files /\ blur' = Blurred(s, f)
    BY DEF Typed, Writes
  <1>7. PICK o \in Sides : o = Other(s) /\ o # s
    BY SideFacts
  <1>8. At(o, f)' = At(o, f) /\ Exists(o, f)' = Exists(o, f)
    BY <1>4, <1>7, SideSame
  <1>9. f \notin blur' => ~(Exists(o, f)' /\ MtimeMatch(At(s, f)'.mtime, At(o, f)'.mtime))
    BY <1>5, <1>6, <1>7, <1>8 DEF Blurred
  <1>10. f \notin blur' => ~(/\ Exists("local", f)' /\ Exists("remote", f)'
                             /\ MtimeMatch(At("local", f)'.mtime, At("remote", f)'.mtime))
    BY <1>7, <1>9 DEF Sides, Other, MtimeMatch
  <1> QED
    BY <1>4, <1>5, <1>6, <1>10 DEF Blurred

\* What a write leaves alone.
LEMMA WriteOthers ==
    ASSUME Typed, NEW c \in Calls, NEW n \in CallRec, NEW s \in Sides, NEW f \in Files,
           s = Dst(call[c].op), f = File(c), MovesWriting(c, n, s, f),
           \A t \in Sides, g \in Files : disk'[t][g] # disk[t][g] => t = s /\ g = f,
           Settled(s, f) => Settled(s, f)'
    PROVE  /\ \A g \in Files : Stays(g)
           /\ \A t \in Sides, g \in Files \ {f} : ~Repairs(c, t, g)
  <1>1. \A d \in Calls \ {c} : Noted(d)
    BY WritingShape
  <1>2. \A t \in Sides, g \in Files : t # s \/ g # f => ~Repairs(c, t, g)
    BY DEF Repairs
  <1>3. ASSUME NEW g \in Files, NEW t \in Sides, Settled(t, g), disk'[Other(t)][g] = disk[Other(t)][g]
        PROVE  Settled(t, g)'
    <2>1. CASE t = s /\ g = f
      BY <1>3, <2>1
    <2>2. CASE ~(t = s /\ g = f)
      <3>1. disk'[t][g] = disk[t][g] /\ ~Repairs(c, t, g)
        BY <1>2, <2>2
      <3> QED
        BY <1>1, <1>3, <3>1, SettledStays
    <2> QED
      BY <2>1, <2>2
  <1> QED
    BY <1>2, <1>3 DEF Stays

\* AppendChunk: the host's file grows; the call is not through with it.
LEMMA AppendChunkStep ==
    ASSUME IInv, NEW c \in Calls, AppendChunk(c)
    PROVE  IInv'
  <1>1. PICK r \in CallRec : r = call[c] /\ r.at = "append"
    BY DEF AppendChunk, IInv, Typed
  <1>2. call[c].at \in Phases \ {"open", "walk"}
    BY <1>1 DEF Phases, WritePhases
  <1>3. PICK f \in Files : f = File(c)
    BY <1>2, RunFacts
  <1>4. CallOK(r) /\ Typed /\ f \in r.todo /\ Knows(c) /\ Keeps(c)
    BY <1>1, <1>2, <1>3, RunFacts DEF IInv, Agreed
  <1>5. r.op = "upload" /\ Dst(r.op) = "remote" /\ Src(r.op) = "local" /\ "remote" \in Sides
        /\ Other("local") = "remote" /\ Other("remote") = "local" /\ "local" \in Sides
    <2>1. r.op = "upload"
      BY <1>1, <1>4 DEF CallOK
    <2> QED
      BY <2>1, SideFacts DEF Uploads, Other, Sides
  <1> DEFINE have == IF Exists("remote", f) THEN At("remote", f).data ELSE <<>>
  <1> DEFINE data == Append(have, At("local", f).data[r.offset + 1])
  <1>6. /\ Exists("local", f) /\ r.offset < Len(At("local", f).data)
        /\ Writes("remote", f, data)
        /\ MovesWriting(c, [r EXCEPT !.offset = @ + 1], "remote", f)
        /\ UNCHANGED <<now, made, edits>>
    BY <1>1, <1>3 DEF AppendChunk
  <1>7. data \in Seq(Nat)
    <2>1. At("local", f).data \in Seq(Nat) /\ Len(At("local", f).data) \in Nat /\ r.offset \in Nat
      BY <1>4, <1>5, <1>6, DiskFacts DEF CallRec
    <2>2. At("local", f).data[r.offset + 1] \in Nat
      BY <1>6, <2>1
    <2>3. have \in Seq(Nat)
      BY <1>4, <1>5, DiskFacts
    <2> QED
      BY <2>2, <2>3
  <1> HIDE DEF data
  <1>8. /\ disk' \in [Sides -> [Files -> FileRec \cup {NoFile}]]
        /\ \A t \in Sides, g \in Files : disk'[t][g] # disk[t][g] => t = "remote" /\ g = f
        /\ Exists("remote", f)' /\ At("remote", f)'.mtime = now
        /\ blur' \subseteq Files /\ blur' \in {blur, blur \cup {f}, blur \ {f}}
        /\ f \notin blur' => ~(/\ Exists("local", f)' /\ Exists("remote", f)'
                               /\ MtimeMatch(At("local", f)'.mtime, At("remote", f)'.mtime))
    BY <1>4, <1>5, <1>6, <1>7, WritesFacts
  <1>9. PICK n : n = [r EXCEPT !.offset = @ + 1]
    OBVIOUS
  <1>10. /\ n \in CallRec /\ n.at = "append"
         /\ n.op = r.op /\ n.scope = r.scope /\ n.todo = r.todo /\ n.checksum = r.checksum
         /\ n.seen = r.seen /\ n.failed = r.failed /\ n.status = r.status
         /\ n.dirty = r.dirty /\ n.spoiled = r.spoiled /\ n.guessed = r.guessed /\ n.skipped = r.skipped
    <2>1. r.offset + 1 \in Nat
      BY DEF CallRec
    <2> QED
      BY <1>1, <1>9, <2>1 DEF CallRec
  <1>11. CallOK(n)
    BY <1>1, <1>4, <1>10 DEF CallOK
  <1>12. MovesWriting(c, n, "remote", f)
    BY <1>6, <1>9
  <1>13. call'[c] = n
    BY <1>4, <1>5, <1>8, <1>10, <1>12, WritingShape
  <1>14. Settled("remote", f)'
    <2>1. File(c)' = f
      BY <1>1, <1>3, <1>10, <1>13 DEF File
    <2>2. Repairs(c, "remote", f)'
      BY <1>5, <1>10, <1>13, <2>1 DEF Repairs, Writing, WritePhases
    <2> QED
      BY <2>2 DEF Settled
  <1>15. /\ \A g \in Files : Stays(g)
         /\ \A t \in Sides, g \in Files \ {f} : ~Repairs(c, t, g)
    BY <1>1, <1>3, <1>4, <1>5, <1>8, <1>10, <1>12, <1>14, WriteOthers
  <1>16. Knows(c)' /\ Keeps(c)'
    <2>1. \A g \in Files : disk'["local"][g] = disk["local"][g]
      BY <1>5, <1>8
    <2>2. n.at \in Phases \ {"open", "walk"} /\ n.at \notin {"compare", "rhash", "lhash", "write", "verifyR"}
      BY <1>10 DEF Phases, WritePhases
    <2> QED
      BY <1>1, <1>2, <1>3, <1>4, <1>5, <1>10, <1>13, <1>15, <2>1, <2>2, ActorSame
  <1>17. Sure(c)'
    BY <1>10, <1>13 DEF Sure
  <1>18. now <= now
    BY TransferAssumption DEF IInv, Typed
  <1> QED
    BY <1>5, <1>6, <1>8, <1>10, <1>11, <1>12, <1>15, <1>16, <1>17, <1>18, WritesStep

\* CopyOpen: the file is truncated and everything is still to be written.
LEMMA CopyOpenStep ==
    ASSUME IInv, NEW c \in Calls, CopyOpen(c)
    PROVE  IInv'
  <1>1. PICK r \in CallRec : r = call[c] /\ r.at = "copy"
    BY DEF CopyOpen, IInv, Typed
  <1>2. call[c].at \in Phases \ {"open", "walk"}
    BY <1>1 DEF Phases, WritePhases
  <1>3. PICK f \in Files : f = File(c)
    BY <1>2, RunFacts
  <1>4. CallOK(r) /\ Typed /\ f \in r.todo /\ Knows(c) /\ Keeps(c)
    BY <1>1, <1>2, <1>3, RunFacts DEF IInv, Agreed
  <1>5. PICK s \in Sides, o \in Sides : s = Dst(r.op) /\ o = Src(r.op) /\ s = Other(o) /\ o = Other(s) /\ s # o
    BY SideFacts
  <1>6. /\ Exists(o, f) /\ Writes(s, f, <<>>)
        /\ MovesWriting(c, [r EXCEPT !.at = "write", !.left = 1..Len(At(o, f).data),
                                     !.mtime = At(o, f).mtime, !.shared = FALSE], s, f)
        /\ UNCHANGED <<now, made, edits>>
    BY <1>1, <1>3, <1>5 DEF CopyOpen
  <1>7. Len(At(o, f).data) \in Nat /\ At(o, f).mtime \in Nat
    BY <1>4, <1>6, DiskFacts
  <1>8. /\ disk' \in [Sides -> [Files -> FileRec \cup {NoFile}]]
        /\ \A t \in Sides, g \in Files : disk'[t][g] # disk[t][g] => t = s /\ g = f
        /\ Exists(s, f)' /\ At(s, f)'.mtime = now /\ At(s, f)'.data = <<>>
        /\ blur' \subseteq Files /\ blur' \in {blur, blur \cup {f}, blur \ {f}}
        /\ f \notin blur' => ~(/\ Exists("local", f)' /\ Exists("remote", f)'
                               /\ MtimeMatch(At("local", f)'.mtime, At("remote", f)'.mtime))
    <2>1. <<>> \in Seq(Nat)
      OBVIOUS
    <2> QED
      BY <1>4, <1>6, <2>1, WritesFacts
  <1>9. PICK n : n = [r EXCEPT !.at = "write", !.left = 1..Len(At(o, f).data),
                               !.mtime = At(o, f).mtime, !.shared = FALSE]
    OBVIOUS
  <1>10. /\ n \in CallRec /\ n.at = "write" /\ n.left = 1..Len(At(o, f).data)
         /\ n.mtime = At(o, f).mtime
         /\ n.op = r.op /\ n.scope = r.scope /\ n.todo = r.todo /\ n.checksum = r.checksum
         /\ n.seen = r.seen /\ n.failed = r.failed /\ n.status = r.status
         /\ n.dirty = r.dirty /\ n.spoiled = r.spoiled /\ n.guessed = r.guessed /\ n.skipped = r.skipped
    <2>1. "write" \in Phases /\ 1..Len(At(o, f).data) \in SUBSET (Nat \ {0})
      BY <1>7 DEF Phases, WritePhases
    <2> QED
      BY <1>7, <1>9, <2>1 DEF CallRec
  <1>11. CallOK(n)
    BY <1>1, <1>4, <1>10 DEF CallOK, Phases, WritePhases
  <1>12. MovesWriting(c, n, s, f)
    BY <1>6, <1>9
  <1>13. call'[c] = n
    BY <1>4, <1>5, <1>8, <1>10, <1>12, WritingShape
  <1>14. At(o, f)' = At(o, f) /\ Exists(o, f)' = Exists(o, f)
    BY <1>5, <1>8, SideSame
  <1>15. File(c)' = f
    BY <1>1, <1>3, <1>10, <1>13 DEF File
  <1>16. Covers(c)'
    <2>1. Len(At(s, f)'.data) = 0 /\ Len(At(o, f)'.data) = Len(At(o, f).data)
      BY <1>8, <1>14
    <2>2. Dst(call'[c].op) = s /\ call'[c].left = 1..Len(At(o, f).data)
      BY <1>5, <1>10, <1>13
    <2>3. /\ Exists(s, f)' /\ Exists(o, f)' /\ Len(At(s, f)'.data) <= Len(At(o, f)'.data)
          /\ \A i \in 1..Len(At(o, f)'.data) : i \in call'[c].left
      BY <1>6, <1>7, <1>8, <1>14, <2>1, <2>2
    <2> QED
      BY <1>5, <1>15, <2>2, <2>3 DEF Covers
  <1>17. Settled(s, f)'
    <2>1. Repairs(c, s, f)'
      BY <1>5, <1>10, <1>13, <1>15, <1>16 DEF Repairs, Writing, WritePhases
    <2> QED
      BY <2>1 DEF Settled
  <1>18. /\ \A g \in Files : Stays(g)
         /\ \A t \in Sides, g \in Files \ {f} : ~Repairs(c, t, g)
    <2>1. Settled(s, f) => Settled(s, f)'
      BY <1>17
    <2>2. s = Dst(call[c].op)
      BY <1>1, <1>5
    <2>3. \A t \in Sides, g \in Files : disk'[t][g] # disk[t][g] => t = s /\ g = f
      BY <1>8
    <2> QED
      BY <1>3, <1>4, <1>10, <1>12, <2>1, <2>2, <2>3, WriteOthers
  <1>19. Knows(c)' /\ Keeps(c)'
    <2>1. \A g \in Files : disk'[o][g] = disk[o][g]
      BY <1>5, <1>8
    <2>2. n.at \in Phases \ {"open", "walk"}
      BY <1>10 DEF Phases, WritePhases
    <2>3. /\ n.at \in {"compare", "rhash", "lhash"} => Is(o, f, n.size, n.mtime)'
          /\ n.at = "write" => Exists(o, f)' /\ At(o, f)'.mtime = n.mtime
          /\ n.at = "verifyR" => Exists("local", f)' /\ At("local", f)'.data = n.hash
          /\ n.at = "lhash" /\ (n.op \in Downloads \/ ~n.shared) =>
                Exists("remote", f)' /\ At("remote", f)'.data = n.hash
      BY <1>6, <1>10, <1>14
    <2>4. Settled(Other(o), f)'
      BY <1>5, <1>17
    <2>5. o = Src(call[c].op)
      BY <1>1, <1>5
    <2> QED
      BY <1>1, <1>2, <1>3, <1>4, <1>10, <1>13, <1>18, <2>1, <2>2, <2>3, <2>4, <2>5, ActorSame
  <1>20. Sure(c)'
    BY <1>16 DEF Sure
  <1>21. now <= now
    BY TransferAssumption DEF IInv, Typed
  <1> QED
    BY <1>6, <1>8, <1>10, <1>11, <1>12, <1>18, <1>19, <1>20, <1>21, WritesStep

\* Writing the chunk at position i of the source: the file is no longer than
\* the source and wrong only where it was, and no more at i.
LEMMA ChunkFacts ==
    ASSUME NEW dst \in Seq(Nat), NEW src \in Seq(Nat), NEW i \in 1..Len(src),
           NEW new, new = WriteAt(dst, i, src[i])
    PROVE  /\ new \in Seq(Nat)
           /\ dst = src => new = src
           /\ Len(dst) <= Len(src) => Len(new) <= Len(src)
  <1> DEFINE l == IF i > Len(dst) THEN i ELSE Len(dst)
  <1> DEFINE e(k) == IF k = i THEN src[i] ELSE IF k <= Len(dst) THEN dst[k] ELSE Hole
  <1>1. Len(dst) \in Nat /\ Len(src) \in Nat /\ i \in Nat /\ 1 <= i /\ i <= Len(src) /\ Hole \in Nat
    BY TransferAssumption
  <1>2. l \in Nat /\ Len(dst) <= l /\ i <= l /\ (Len(dst) <= Len(src) => l <= Len(src))
        /\ (i <= Len(dst) => l = Len(dst))
    BY <1>1
  <1>3. \A k \in 1..l : e(k) \in Nat
    <2>1. ASSUME NEW k \in 1..l
          PROVE  e(k) \in Nat
      <3>1. k = i => e(k) \in Nat
        BY <1>1
      <3>2. k # i /\ k <= Len(dst) => e(k) \in Nat
        BY <1>1, <1>2
      <3> QED
        BY <1>1, <3>1, <3>2
    <2> QED
      BY <2>1
  <1> HIDE DEF l, e
  <1>6. new = [k \in 1..l |-> e(k)]
    BY DEF WriteAt, l, e
  <1>4. new \in Seq(Nat) /\ Len(new) = l
    BY <1>2, <1>3, <1>6
  <1>5. \A k \in 1..l : new[k] = e(k)
    BY <1>6
  <1>7. ASSUME dst = src
        PROVE  new = src
    <2>1. l = Len(src)
      BY <1>1, <1>2, <1>7
    <2>2. \A k \in 1..l : new[k] = src[k]
      BY <1>1, <1>2, <1>5, <1>7, <2>1 DEF e
    <2> QED
      BY <1>4, <2>1, <2>2, SeqEqual
  <1> QED
    BY <1>2, <1>4, <1>7

\* A position that was right, or has just been written, is right afterwards.
LEMMA ChunkAt ==
    ASSUME NEW dst \in Seq(Nat), NEW src \in Seq(Nat), NEW i \in 1..Len(src),
           NEW new, new = WriteAt(dst, i, src[i]), Len(dst) <= Len(src),
           NEW p \in 1..Len(src), p = i \/ (p <= Len(dst) /\ dst[p] = src[p])
    PROVE  p <= Len(new) /\ new[p] = src[p]
  <1> DEFINE l == IF i > Len(dst) THEN i ELSE Len(dst)
  <1> DEFINE e(k) == IF k = i THEN src[i] ELSE IF k <= Len(dst) THEN dst[k] ELSE Hole
  <1>1. Len(dst) \in Nat /\ Len(src) \in Nat /\ i \in Nat /\ 1 <= i /\ i <= Len(src) /\ Hole \in Nat
    BY TransferAssumption
  <1>2. l \in Nat /\ Len(dst) <= l /\ i <= l /\ (Len(dst) <= Len(src) => l <= Len(src))
        /\ (i <= Len(dst) => l = Len(dst))
    BY <1>1
  <1>3. \A k \in 1..l : e(k) \in Nat
    <2>1. ASSUME NEW k \in 1..l
          PROVE  e(k) \in Nat
      <3>1. k = i => e(k) \in Nat
        BY <1>1
      <3>2. k # i /\ k <= Len(dst) => e(k) \in Nat
        BY <1>1, <1>2
      <3> QED
        BY <1>1, <3>1, <3>2
    <2> QED
      BY <2>1
  <1> HIDE DEF l, e
  <1>6. new = [k \in 1..l |-> e(k)]
    BY DEF WriteAt, l, e
  <1>4. new \in Seq(Nat) /\ Len(new) = l
    BY <1>2, <1>3, <1>6
  <1>5. \A k \in 1..l : new[k] = e(k)
    BY <1>6
  <1>7. p \in 1..l
    BY <1>1, <1>2
  <1>8. e(p) = src[p]
    BY DEF e
  <1> QED
    BY <1>2, <1>4, <1>5, <1>7, <1>8

\* A chunk of the source written to the destination settles what was settled
\* and keeps every copy under way as good as it was.
LEMMA ChunkSettles ==
    ASSUME Typed, NEW c \in Calls, NEW s \in Sides, NEW o \in Sides, NEW f \in Files,
           s = Dst(call[c].op), o = Other(s), s = Other(o), call[c].at = "write", File(c) = f,
           \A d \in Calls \ {c} : Noted(d), File(c)' = f, call'[c].op = call[c].op,
           call'[c].at = "write",
           NEW i, i \in call[c].left, call'[c].left = call[c].left \ {i},
           Exists(s, f), Exists(o, f), i \in 1..Len(At(o, f).data),
           At(o, f)' = At(o, f), Exists(o, f)', Exists(s, f)',
           At(s, f)'.data = WriteAt(At(s, f).data, i, At(o, f).data[i])
    PROVE  /\ Covers(c) => Covers(c)'
           /\ Settled(s, f) => Settled(s, f)'
  <1>1. PICK src \in Seq(Nat) : src = At(o, f).data
    BY DiskFacts
  <1>2. PICK dst \in Seq(Nat) : dst = At(s, f).data
    BY DiskFacts
  <1>3. PICK new : new = WriteAt(dst, i, src[i])
    OBVIOUS
  <1>c. /\ dst = src => new = src
        /\ Len(dst) <= Len(src) =>
              /\ Len(new) <= Len(src)
              /\ \A k \in 1..Len(src) :
                    k = i \/ (k <= Len(dst) /\ dst[k] = src[k]) => k <= Len(new) /\ new[k] = src[k]
    <2>1. i \in 1..Len(src)
      BY <1>1
    <2>2. dst = src => new = src
      BY <1>3, <2>1, ChunkFacts
    <2>3. ASSUME Len(dst) <= Len(src)
          PROVE  Len(new) <= Len(src)
      BY <1>3, <2>1, <2>3, ChunkFacts
    <2>4. ASSUME Len(dst) <= Len(src), NEW k \in 1..Len(src),
                 k = i \/ (k <= Len(dst) /\ dst[k] = src[k])
          PROVE  k <= Len(new) /\ new[k] = src[k]
      BY <1>3, <2>1, <2>4, ChunkAt
    <2> QED
      BY <2>2, <2>3, <2>4
  <1>4. At(s, f)'.data = new /\ At(o, f)'.data = src
    BY <1>1, <1>2, <1>3
  <1>5. ASSUME NEW d \in Calls, File(d) = f, Dst(call[d].op) = s, Covers(d),
               File(d)' = f, call'[d].op = call[d].op, call[d].left \subseteq call'[d].left \cup {i}
        PROVE  Covers(d)'
    <2>1. Len(dst) <= Len(src)
          /\ \A k \in 1..Len(src) : k \in call[d].left \/ (k <= Len(dst) /\ dst[k] = src[k])
      BY <1>1, <1>2, <1>5 DEF Covers
    <2>2. Len(new) <= Len(src)
          /\ \A k \in 1..Len(src) : k \in call'[d].left \/ (k <= Len(new) /\ new[k] = src[k])
      BY <1>c, <1>5, <2>1
    <2> QED
      BY <1>4, <1>5, <2>2 DEF Covers
  <1>6. Covers(c) => Covers(c)'
    BY <1>5
  <1>7. ASSUME SameData(f)
        PROVE  Settled(s, f)'
    <2>1. dst = src
      BY <1>1, <1>2, <1>7, SameSides
    <2>2. At(s, f)'.data = At(o, f)'.data
      BY <1>c, <1>4, <2>1
    <2>3. SameData(f)'
      BY <2>2 DEF SameData, Sides, Other
    <2> QED
      BY <2>3 DEF Settled
  <1>8. ASSUME NEW d \in Calls \ {c}, Repairs(d, s, f)
        PROVE  Settled(s, f)'
    <2>1. Kept(call'[d], call[d]) /\ Noted(d) /\ File(d) = f /\ Dst(call[d].op) = s
      BY <1>8 DEF Noted, Repairs
    <2>2. File(d)' = f /\ call'[d].op = call[d].op /\ call'[d].left = call[d].left
          /\ call'[d].at = call[d].at /\ call'[d].hash = call[d].hash
      BY <2>1 DEF Kept, File
    <2>3. call[d].at = "write" => Covers(d)'
      BY <1>5, <1>8, <2>1, <2>2 DEF Repairs
    <2>4. Repairs(d, s, f)'
      BY <1>8, <2>1, <2>2, <2>3 DEF Repairs, Writing
    <2> QED
      BY <2>4 DEF Settled
  <1>9. ASSUME Repairs(c, s, f)
        PROVE  Settled(s, f)'
    <2>1. Repairs(c, s, f)'
      BY <1>6, <1>9 DEF Repairs, Writing
    <2> QED
      BY <2>1 DEF Settled
  <1> QED
    BY <1>6, <1>7, <1>8, <1>9 DEF Settled

\* CopyChunk: one chunk is read and written.
LEMMA CopyChunkStep ==
    ASSUME IInv, NEW c \in Calls, NEW i \in call[c].left, CopyChunk(c, i)
    PROVE  IInv'
  <1>1. PICK r \in CallRec : r = call[c] /\ r.at = "write"
    BY DEF CopyChunk, IInv, Typed
  <1>2. call[c].at \in Phases \ {"open", "walk"}
    BY <1>1 DEF Phases, WritePhases
  <1>3. PICK f \in Files : f = File(c)
    BY <1>2, RunFacts
  <1>4. CallOK(r) /\ Typed /\ f \in r.todo /\ Knows(c) /\ Keeps(c) /\ Sure(c)
    BY <1>1, <1>2, <1>3, RunFacts DEF IInv, Agreed, CoversAlone
  <1>5. PICK s \in Sides, o \in Sides : s = Dst(r.op) /\ o = Src(r.op) /\ s = Other(o) /\ o = Other(s) /\ s # o
    BY SideFacts
  <1>6. /\ Exists(o, f) /\ i <= Len(At(o, f).data) /\ i \in r.left
        /\ IF Exists(s, f)
           THEN Writes(s, f, WriteAt(At(s, f).data, i, At(o, f).data[i]))
           ELSE UNCHANGED <<disk, blur>>
        /\ MovesWriting(c, [r EXCEPT !.left = @ \ {i}], s, f)
        /\ UNCHANGED <<now, made, edits>>
    BY <1>1, <1>3, <1>5 DEF CopyChunk
  <1>7. i \in 1..Len(At(o, f).data) /\ Len(At(o, f).data) \in Nat /\ At(o, f).data \in Seq(Nat)
    <2>1. Len(At(o, f).data) \in Nat /\ At(o, f).data \in Seq(Nat)
      BY <1>4, <1>6, DiskFacts
    <2>2. i \in Nat \ {0}
      BY <1>6 DEF CallRec
    <2> QED
      BY <1>6, <2>1, <2>2
  <1>8. PICK n : n = [r EXCEPT !.left = @ \ {i}]
    OBVIOUS
  <1>9. /\ n \in CallRec /\ n.at = "write" /\ n.left = r.left \ {i} /\ n.mtime = r.mtime
        /\ n.op = r.op /\ n.scope = r.scope /\ n.todo = r.todo /\ n.checksum = r.checksum
        /\ n.seen = r.seen /\ n.failed = r.failed /\ n.status = r.status
        /\ n.dirty = r.dirty /\ n.spoiled = r.spoiled /\ n.guessed = r.guessed /\ n.skipped = r.skipped
        /\ n.shared = r.shared
    BY <1>1, <1>8 DEF CallRec
  <1>10. CallOK(n)
    BY <1>1, <1>4, <1>9 DEF CallOK
  <1>11. MovesWriting(c, n, s, f)
    BY <1>6, <1>8
  <1>12. /\ disk' \in [Sides -> [Files -> FileRec \cup {NoFile}]]
         /\ \A t \in Sides, g \in Files : disk'[t][g] # disk[t][g] => t = s /\ g = f
         /\ Exists(s, f)' => At(s, f)'.mtime <= now
         /\ blur' \subseteq Files /\ blur' \in {blur, blur \cup {f}, blur \ {f}}
         /\ f \notin blur' => ~(/\ Exists("local", f)' /\ Exists("remote", f)'
                                /\ MtimeMatch(At("local", f)'.mtime, At("remote", f)'.mtime))
         /\ Exists(s, f) => /\ Exists(s, f)'
                            /\ At(s, f)'.data = WriteAt(At(s, f).data, i, At(o, f).data[i])
         /\ ~Exists(s, f) => disk' = disk
    <2>1. CASE Exists(s, f)
      <3>1. PICK data \in Seq(Nat) : data = WriteAt(At(s, f).data, i, At(o, f).data[i])
        <4>1. At(s, f).data \in Seq(Nat)
          BY <1>4, <2>1, DiskFacts
        <4> QED
          BY <1>7, <4>1, ChunkFacts
      <3>2. Writes(s, f, data)
        BY <1>6, <2>1, <3>1
      <3>3. now <= now
        BY <1>4, TransferAssumption DEF Typed
      <3> QED
        BY <1>4, <2>1, <3>1, <3>2, <3>3, WritesFacts
    <2>2. CASE ~Exists(s, f)
      <3>1. disk' = disk /\ blur' = blur
        BY <1>6, <2>2
      <3>2. ~Exists(s, f)'
        BY <2>2, <3>1 DEF Exists
      <3>3. ~(Exists("local", f)' /\ Exists("remote", f)')
        BY <3>2 DEF Sides
      <3> QED
        BY <1>4, <2>2, <3>1, <3>2, <3>3 DEF Typed
    <2> QED
      BY <2>1, <2>2
  <1>13. call'[c] = n /\ \A d \in Calls \ {c} : Noted(d)
    BY <1>4, <1>5, <1>9, <1>11, <1>12, WritingShape
  <1>14. At(o, f)' = At(o, f) /\ Exists(o, f)' = Exists(o, f)
    BY <1>5, <1>12, SideSame
  <1>15. File(c)' = f
    BY <1>1, <1>3, <1>9, <1>13 DEF File
  <1>16. /\ Covers(c) => Covers(c)'
         /\ Settled(s, f) => Settled(s, f)'
    <2>1. CASE Exists(s, f)
      BY <1>1, <1>3, <1>4, <1>5, <1>6, <1>7, <1>9, <1>12, <1>13, <1>14, <1>15, <2>1, ChunkSettles
    <2>2. CASE ~Exists(s, f)
      <3>1. ~Covers(c)
        BY <1>1, <1>3, <1>5, <2>2 DEF Covers
      <3>2. ~Repairs(c, s, f)
        BY <1>1, <3>1 DEF Repairs
      <3> QED
        BY <1>4, <1>12, <1>13, <2>2, <3>1, <3>2, SettledStays
    <2> QED
      BY <2>1, <2>2
  <1>17. /\ \A g \in Files : Stays(g)
         /\ \A t \in Sides, g \in Files \ {f} : ~Repairs(c, t, g)
    <2>1. \A t \in Sides, g \in Files : disk'[t][g] # disk[t][g] => t = s /\ g = f
      BY <1>12
    <2>2. Settled(s, f) => Settled(s, f)'
      BY <1>16
    <2>3. s = Dst(call[c].op)
      BY <1>1, <1>5
    <2> QED
      BY <1>3, <1>4, <1>9, <1>11, <2>1, <2>2, <2>3, WriteOthers
  <1>18. Knows(c)' /\ Keeps(c)'
    <2>1. \A g \in Files : disk'[o][g] = disk[o][g]
      BY <1>5, <1>12
    <2>2. f \notin n.dirty =>
            /\ n.at \in {"compare", "rhash", "lhash"} => Is(o, f, n.size, n.mtime)'
            /\ n.at = "write" => Exists(o, f)' /\ At(o, f)'.mtime = n.mtime
            /\ n.at = "verifyR" => Exists("local", f)' /\ At("local", f)'.data = n.hash
            /\ n.at = "lhash" /\ (n.op \in Downloads \/ ~n.shared) =>
                  Exists("remote", f)' /\ At("remote", f)'.data = n.hash
      BY <1>1, <1>2, <1>3, <1>4, <1>5, <1>9, <1>14 DEF Knows
    <2>3. f \notin n.dirty \cup n.spoiled \cup n.guessed => Settled(Other(o), f)'
      <3>1. f \notin n.dirty \cup n.spoiled \cup n.guessed => Settled(s, f)
        BY <1>1, <1>3, <1>4, <1>5, <1>9 DEF Keeps, Vouches
      <3> QED
        BY <1>5, <1>16, <3>1
    <2>4. o = Src(call[c].op) /\ n.at \in Phases \ {"open", "walk"}
      BY <1>1, <1>2, <1>5, <1>9
    <2> QED
      BY <1>1, <1>2, <1>3, <1>4, <1>9, <1>13, <1>17, <2>1, <2>2, <2>3, <2>4, ActorSame
  <1>19. Sure(c)'
    <2>1. f \notin r.dirty /\ ~r.shared => Covers(c)
      BY <1>1, <1>3, <1>4 DEF Sure
    <2> QED
      BY <1>9, <1>13, <1>15, <1>16, <2>1 DEF Sure
  <1> QED
    BY <1>6, <1>9, <1>10, <1>11, <1>12, <1>17, <1>18, <1>19, WritesStep

\* A copy with nothing left to write is the same as its source.
LEMMA CoversAll ==
    ASSUME Typed, NEW c \in Calls, NEW s \in Sides, NEW f \in Files, s = Dst(call[c].op),
           File(c) = f, Covers(c), call[c].left = {}
    PROVE  SameData(f)
  <1>1. Exists(s, f) /\ Exists(Other(s), f) /\ Other(s) \in Sides
    BY SideFacts DEF Covers
  <1>2. PICK src \in Seq(Nat) : src = At(Other(s), f).data
    BY <1>1, DiskFacts
  <1>3. PICK dst \in Seq(Nat) : dst = At(s, f).data
    BY <1>1, DiskFacts
  <1>4. Len(dst) <= Len(src) /\ \A k \in 1..Len(src) : k <= Len(dst) /\ dst[k] = src[k]
    BY <1>2, <1>3 DEF Covers
  <1>5. Len(dst) = Len(src)
    <2>1. Len(dst) \in Nat /\ Len(src) \in Nat
      OBVIOUS
    <2>2. CASE Len(src) = 0
      BY <1>4, <2>1, <2>2
    <2>3. CASE Len(src) # 0
      <3>1. Len(src) \in 1..Len(src)
        BY <2>1, <2>3
      <3> QED
        <4>1. Len(src) <= Len(dst)
          BY <1>4, <3>1
        <4> QED
          BY <1>4, <2>1, <4>1
    <2> QED
      BY <2>2, <2>3
  <1>6. dst = src
    BY <1>4, <1>5, SeqEqual
  <1> QED
    BY <1>1, <1>2, <1>3, <1>6, SameSides

\* CopyEnds: only the mtime changes, and the call goes on.
LEMMA CopyEndsStep ==
    ASSUME IInv, NEW c \in Calls, NEW m \in 0..now, CopyEnds(c, m)
    PROVE  IInv'
  <1>1. PICK r \in CallRec : r = call[c] /\ r.at = "write" /\ r.left = {}
    BY DEF CopyEnds, IInv, Typed
  <1>2. call[c].at \in Phases \ {"open", "walk"}
    BY <1>1 DEF Phases, WritePhases
  <1>3. PICK f \in Files : f = File(c)
    BY <1>2, RunFacts
  <1>4. CallOK(r) /\ Typed /\ f \in r.todo /\ Knows(c) /\ Keeps(c) /\ Sure(c)
    BY <1>1, <1>2, <1>3, RunFacts DEF IInv, Agreed, CoversAlone
  <1>5. PICK s \in Sides, o \in Sides : s = Dst(r.op) /\ o = Src(r.op) /\ s = Other(o) /\ o = Other(s) /\ s # o
    BY SideFacts
  <1>6. PICK n : n = NextFile(r)
    OBVIOUS
  <1>7. /\ Exists(o, f) /\ Exists(s, f)
        /\ disk' = [disk EXCEPT ![s][f].mtime = m]
        /\ blur' = IF f \in r.dirty \/ r.shared THEN blur \cup {f} ELSE blur \ {f}
        /\ MovesWriting(c, n, s, f)
        /\ UNCHANGED <<now, made, edits>>
    BY <1>1, <1>3, <1>5, <1>6 DEF CopyEnds
  <1>8. Onward(n, r, r.skipped, r.failed) /\ n \in CallRec /\ CallOK(n)
    <2>1. Onward(n, r, r.skipped, r.failed)
      BY <1>1, <1>2, <1>6, RunFacts
    <2> QED
      BY <2>1 DEF Onward
  <1>9. m \in Nat /\ m <= now
    BY <1>4, TransferAssumption DEF Typed
  <1>10. /\ disk' \in [Sides -> [Files -> FileRec \cup {NoFile}]]
         /\ \A t \in Sides, g \in Files : disk'[t][g] # disk[t][g] => t = s /\ g = f
         /\ Exists(s, f)' /\ At(s, f)'.mtime = m /\ At(s, f)'.data = At(s, f).data
    <2>1. PICK x \in FileRec : x = disk[s][f]
      BY <1>4, <1>7 DEF Typed, Exists
    <2>2. PICK y : y = [x EXCEPT !.mtime = m]
      OBVIOUS
    <2>3. y \in FileRec /\ y.mtime = m /\ y.data = x.data /\ y # NoFile
      BY <1>9, <2>1, <2>2, TransferAssumption DEF FileRec
    <2>4. disk' = [disk EXCEPT ![s] = [disk[s] EXCEPT ![f] = y]]
      BY <1>4, <1>7, <2>1, <2>2 DEF Typed
    <2>5. disk'[s][f] = y
      BY <1>4, <2>4 DEF Typed
    <2>6. disk' \in [Sides -> [Files -> FileRec \cup {NoFile}]]
      BY <1>4, <2>3, <2>4 DEF Typed
    <2>7. \A t \in Sides, g \in Files : disk'[t][g] # disk[t][g] => t = s /\ g = f
      BY <1>4, <2>4 DEF Typed
    <2> QED
      BY <2>1, <2>3, <2>5, <2>6, <2>7 DEF Exists, At
  <1>11. call'[c] = n /\ \A d \in Calls \ {c} : Noted(d)
    BY <1>4, <1>5, <1>7, <1>8, <1>10, WritingShape
  <1>12. At(o, f)' = At(o, f) /\ Exists(o, f)'
    BY <1>5, <1>7, <1>10, SideSame
  <1>13. SameData(f) => SameData(f)'
    BY <1>5, <1>10, <1>12 DEF SameData, Sides
  <1>14. Covers(c) => SameData(f)
    BY <1>1, <1>3, <1>4, <1>5, CoversAll
  <1>15. ASSUME Settled(s, f)
         PROVE  Settled(s, f)'
    <2>1. CASE SameData(f)
      BY <1>13, <2>1 DEF Settled
    <2>2. CASE Repairs(c, s, f)
      <3>1. SameData(f)'
        BY <1>1, <1>13, <1>14, <2>2 DEF Repairs
      <3> QED
        BY <3>1 DEF Settled
    <2>3. ASSUME NEW d \in Calls \ {c}, Repairs(d, s, f)
          PROVE  Settled(s, f)'
      <3>1. Kept(call'[d], call[d]) /\ Noted(d) /\ File(d) = f /\ Dst(call[d].op) = s
        BY <1>11, <2>3 DEF Noted, Repairs
      <3>2. File(d)' = f /\ call'[d].op = call[d].op /\ call'[d].left = call[d].left
        BY <3>1 DEF Kept, File
      <3>3. Covers(d) => Covers(d)'
        <4> SUFFICES ASSUME Covers(d) PROVE Covers(d)'
          OBVIOUS
        <4>1. /\ Len(At(s, f).data) <= Len(At(o, f).data)
              /\ \A i \in 1..Len(At(o, f).data) :
                    \/ i \in call[d].left
                    \/ i <= Len(At(s, f).data) /\ At(s, f).data[i] = At(o, f).data[i]
          BY <1>5, <3>1 DEF Covers
        <4>2. /\ Len(At(s, f)'.data) <= Len(At(o, f)'.data)
              /\ \A i \in 1..Len(At(o, f)'.data) :
                    \/ i \in call'[d].left
                    \/ i <= Len(At(s, f)'.data) /\ At(s, f)'.data[i] = At(o, f)'.data[i]
          BY <1>10, <1>12, <3>2, <4>1
        <4> QED
          BY <1>5, <1>10, <1>12, <3>1, <3>2, <4>2 DEF Covers
      <3>4. call[d].at = "write" => Covers(d)'
        BY <2>3, <3>3 DEF Repairs
      <3>5. disk'[Other(s)][f] = disk[Other(s)][f]
        BY <1>5, <1>10
      <3>6. Repairs(d, s, f)'
        BY <1>4, <2>3, <3>1, <3>4, <3>5, RepairsStay
      <3> QED
        BY <3>6 DEF Settled
    <2> QED
      BY <1>15, <2>1, <2>2, <2>3 DEF Settled
  <1>16. /\ \A g \in Files : Stays(g)
         /\ \A t \in Sides, g \in Files \ {f} : ~Repairs(c, t, g)
    <2>1. Settled(s, f) => Settled(s, f)'
      BY <1>15
    <2>2. s = Dst(call[c].op)
      BY <1>1, <1>5
    <2> QED
      BY <1>3, <1>4, <1>7, <1>8, <1>10, <2>1, <2>2, WriteOthers
  <1>17. Knows(c)' /\ Sure(c)' /\ Keeps(c)'
    <2>1. \A g \in Files : disk'[Src(r.op)][g] = disk[Src(r.op)][g]
      BY <1>5, <1>10
    <2>2. f \in r.scope \ (r.failed \cup r.dirty \cup r.spoiled \cup r.guessed) => Settled(Dst(r.op), f)'
      <3>1. f \notin r.dirty \cup r.spoiled \cup r.guessed => Settled(s, f)
        BY <1>1, <1>3, <1>4, <1>5 DEF Keeps, Vouches
      <3> QED
        BY <1>5, <1>15, <3>1
    <2>3. Onward(call'[c], r, r.skipped, r.failed)
      BY <1>8, <1>11
    <2> QED
      BY <1>1, <1>2, <1>3, <1>4, <1>16, <2>1, <2>2, <2>3, ActorOnward
  <1>18. /\ blur' \subseteq Files /\ blur' \in {blur, blur \cup {f}, blur \ {f}}
         /\ f \notin blur' => SameData(f)'
    <2>1. f \notin r.dirty /\ ~r.shared => Covers(c)
      BY <1>1, <1>3, <1>4 DEF Sure
    <2> QED
      BY <1>4, <1>7, <1>13, <1>14, <2>1 DEF Typed
  <1> QED
    BY <1>7, <1>8, <1>9, <1>10, <1>16, <1>17, <1>18, WritesStep

\* When another program changes f on either side, every call under way puts
\* it down and answers for it no more; what the calls know of other files
\* stands.
LEMMA OutsideCalls ==
    ASSUME IInv, NEW f \in Files, Edited(f),
           \A t \in Sides, g \in Files : disk'[t][g] # disk[t][g] => g = f
    PROVE  /\ call' \in [Calls -> CallRec] /\ \A c \in Calls : CallOK(call'[c])
           /\ SourceKnown' /\ CoversAlone' /\ Agreed'
  <1>1. /\ Typed /\ call' \in [Calls -> CallRec]
        /\ \A d \in Calls : Noted(d) /\ (call[d].op # "none" => f \in call'[d].dirty)
    BY EditedShape DEF IInv
  <1>2. ASSUME NEW g \in Files \ {f}
        PROVE  Stays(g)
    <2> SUFFICES ASSUME NEW s \in Sides, Settled(s, g)
                 PROVE  Settled(s, g)'
      BY DEF Stays
    <2>1. Other(s) \in Sides
      BY SideFacts
    <2>2. disk'[s][g] = disk[s][g] /\ disk'[Other(s)][g] = disk[Other(s)][g]
      BY <1>2, <2>1
    <2>3. /\ At(s, g)' = At(s, g) /\ At(Other(s), g)' = At(Other(s), g)
          /\ Exists(s, g)' = Exists(s, g) /\ Exists(Other(s), g)' = Exists(Other(s), g)
      BY <2>1, <2>2, SideSame
    <2>4. SameData(g) => SameData(g)'
      BY <1>2 DEF SameData, Exists, At, Sides
    <2>5. ASSUME NEW d \in Calls, Repairs(d, s, g)
          PROVE  Settled(s, g)'
      <3>1. Noted(d) /\ File(d) = g /\ Dst(call[d].op) = s
        BY <1>1, <2>5 DEF Repairs
      <3>2. File(d)' = g /\ call'[d].op = call[d].op /\ call'[d].left = call[d].left
        BY <3>1 DEF Noted, Kept, File
      <3>3. Covers(d) => Covers(d)'
        BY <2>3, <3>1, <3>2 DEF Covers
      <3>4. Repairs(d, s, g)'
        <4>1. call[d].at = "write" => Covers(d)'
          BY <2>5, <3>3 DEF Repairs
        <4> QED
          BY <1>1, <2>2, <2>5, <4>1, RepairsStay
      <3> QED
        BY <3>4 DEF Settled
    <2> QED
      BY <2>4, <2>5 DEF Settled
  <1>3. ASSUME NEW d \in Calls
        PROVE  CallOK(call'[d]) /\ Knows(d)' /\ Sure(d)' /\ Keeps(d)'
    <2>1. Noted(d) /\ Knows(d) /\ Sure(d) /\ Keeps(d)
      BY <1>1 DEF IInv, SourceKnown, CoversAlone, Agreed
    <2>2. Knows(d)' /\ Sure(d)'
      BY <1>1, <2>1, NotedStays
    <2>3. Keeps(d)'
      <3>1. \A g \in Files : Stays(g) \/ (call[d].op # "none" => g \in call'[d].dirty \cup call'[d].spoiled \cup call'[d].guessed)
        BY <1>1, <1>2
      <3> QED
        BY <1>1, <2>1, <3>1, KeepsStay
    <2> QED
      BY <2>1, <2>2, <2>3 DEF Noted, Kept
  <1> QED
    BY <1>1, <1>3 DEF SourceKnown, CoversAlone, Agreed

\* Edit: another program writes a file.
LEMMA EditStep ==
    ASSUME IInv, NEW s \in Sides, NEW f \in Files, NEW v \in Versions, Edit(s, f, v)
    PROVE  IInv'
  <1>1. /\ Typed /\ BlurTells /\ Writes(s, f, v) /\ Edited(f)
        /\ edits < MaxEdits /\ edits' = edits + 1 /\ UNCHANGED <<now, made>>
    BY DEF Edit, IInv
  <1>2. v \in Seq(Nat) /\ MaxEdits \in Nat /\ MaxTime \in Nat
    BY TransferAssumption
  <1>3. /\ disk' \in [Sides -> [Files -> FileRec \cup {NoFile}]]
        /\ \A t \in Sides, g \in Files : disk'[t][g] # disk[t][g] => t = s /\ g = f
        /\ Exists(s, f)' /\ At(s, f)'.mtime = now
        /\ blur' \subseteq Files /\ blur' \in {blur, blur \cup {f}, blur \ {f}}
        /\ f \notin blur' => ~(/\ Exists("local", f)' /\ Exists("remote", f)'
                               /\ MtimeMatch(At("local", f)'.mtime, At("remote", f)'.mtime))
    BY <1>1, <1>2, WritesFacts
  <1>4. /\ call' \in [Calls -> CallRec] /\ \A c \in Calls : CallOK(call'[c])
        /\ SourceKnown' /\ CoversAlone' /\ Agreed'
    BY <1>1, <1>3, OutsideCalls
  <1>5. Typed'
    <2>1. ASSUME NEW t \in Sides, NEW g \in Files, Exists(t, g)'
          PROVE  At(t, g)'.mtime <= now'
      <3>1. CASE disk'[t][g] = disk[t][g]
        BY <1>1, <2>1, <3>1 DEF Typed, Exists, At
      <3>2. CASE disk'[t][g] # disk[t][g]
        BY <1>1, <1>2, <1>3, <3>2 DEF Typed
      <3> QED
        BY <3>1, <3>2
    <2>2. edits' \in 0..MaxEdits
      BY <1>1, <1>2 DEF Typed
    <2> QED
      BY <1>1, <1>3, <1>4, <2>1, <2>2 DEF Typed
  <1>6. BlurTells'
    <2> SUFFICES ASSUME NEW g \in Files \ blur', g # f,
                        Exists("local", g)', Exists("remote", g)',
                        MtimeMatch(At("local", g)'.mtime, At("remote", g)'.mtime)
                 PROVE  SameData(g)'
      BY <1>3 DEF BlurTells, MtimeMatch
    <2>1. g \notin blur
      BY <1>3
    <2>2. /\ At("local", g)' = At("local", g) /\ Exists("local", g)' = Exists("local", g)
          /\ At("remote", g)' = At("remote", g) /\ Exists("remote", g)' = Exists("remote", g)
      BY <1>3, SideSame DEF Sides
    <2>3. SameData(g)
      BY <1>1, <2>1, <2>2 DEF BlurTells
    <2> QED
      BY <2>2, <2>3 DEF SameData
  <1> QED
    BY <1>4, <1>5, <1>6 DEF IInv

\* Delete: another program removes a file.
LEMMA DeleteStep ==
    ASSUME IInv, NEW s \in Sides, NEW f \in Files, Delete(s, f)
    PROVE  IInv'
  <1>1. /\ Typed /\ BlurTells /\ disk' = [disk EXCEPT ![s][f] = NoFile] /\ Edited(f)
        /\ edits < MaxEdits /\ edits' = edits + 1 /\ UNCHANGED <<now, made, blur>>
    BY DEF Delete, IInv
  <1>2. MaxEdits \in Nat
    BY TransferAssumption
  <1>3. /\ disk' \in [Sides -> [Files -> FileRec \cup {NoFile}]]
        /\ \A t \in Sides, g \in Files : disk'[t][g] # disk[t][g] => t = s /\ g = f
        /\ ~Exists(s, f)'
    BY <1>1 DEF Typed, Exists
  <1>4. /\ call' \in [Calls -> CallRec] /\ \A c \in Calls : CallOK(call'[c])
        /\ SourceKnown' /\ CoversAlone' /\ Agreed'
    BY <1>1, <1>3, OutsideCalls
  <1>5. Typed'
    <2>1. ASSUME NEW t \in Sides, NEW g \in Files, Exists(t, g)'
          PROVE  At(t, g)'.mtime <= now'
      <3>1. disk'[t][g] = disk[t][g]
        BY <1>3, <2>1
      <3> QED
        BY <1>1, <2>1, <3>1 DEF Typed, Exists, At
    <2>2. edits' \in 0..MaxEdits
      BY <1>1, <1>2 DEF Typed
    <2> QED
      BY <1>1, <1>3, <1>4, <2>1, <2>2 DEF Typed
  <1>6. BlurTells'
    <2> SUFFICES ASSUME NEW g \in Files \ blur',
                        Exists("local", g)', Exists("remote", g)',
                        MtimeMatch(At("local", g)'.mtime, At("remote", g)'.mtime)
                 PROVE  SameData(g)'
      BY DEF BlurTells, MtimeMatch
    <2>1. g # f /\ g \notin blur
      BY <1>1, <1>3 DEF Sides
    <2>2. /\ At("local", g)' = At("local", g) /\ Exists("local", g)' = Exists("local", g)
          /\ At("remote", g)' = At("remote", g) /\ Exists("remote", g)' = Exists("remote", g)
      BY <1>3, <2>1, SideSame DEF Sides
    <2>3. SameData(g)
      BY <1>1, <2>1, <2>2 DEF BlurTells
    <2> QED
      BY <2>2, <2>3 DEF SameData
  <1> QED
    BY <1>4, <1>5, <1>6 DEF IInv

\* What does not mention the clock holds on when only the clock changes.
LEMMA Untouched ==
    ASSUME UNCHANGED <<disk, call, blur>>
    PROVE  /\ BlurTells => BlurTells'
           /\ SourceKnown => SourceKnown'
           /\ CoversAlone => CoversAlone'
           /\ Agreed => Agreed'
  <1>4. \A s, f : Settled(s, f)' = Settled(s, f)
    BY DEF Settled, Repairs, SameData, Covers, At, Exists, File, Writing
  <1>5. BlurTells => BlurTells'
    BY DEF BlurTells, SameData, At, Exists
  <1>6. SourceKnown => SourceKnown'
    BY DEF SourceKnown, Knows, Is, At, Exists, File, Running
  <1>7. CoversAlone => CoversAlone'
    BY DEF CoversAlone, Sure, Covers, At, Exists, File
  <1>8. Agreed => Agreed'
    <2>1. \A c, f : Vouches(c, f)' <=> Vouches(c, f)
      BY DEF Vouches, Through, At, File, Running
    <2> SUFFICES ASSUME Agreed, NEW c \in Calls, NEW f \in Files,
                        f \notin call[c].dirty \cup call[c].spoiled \cup call[c].guessed, Vouches(c, f)'
                 PROVE  Settled(Dst(call[c].op), f)'
      BY DEF Agreed, Keeps
    <2>2. Settled(Dst(call[c].op), f)
      BY <2>1 DEF Agreed, Keeps
    <2>3. PICK s : s = Dst(call[c].op)
      OBVIOUS
    <2>4. Settled(s, f)'
      BY <1>4, <2>2, <2>3
    <2> QED
      BY <2>3, <2>4 DEF Settled, Repairs, Covers, Writing
  <1> QED
    BY <1>5, <1>6, <1>7, <1>8

\* Tick: the clock goes on.
LEMMA TickStep ==
    ASSUME IInv, Tick
    PROVE  IInv'
  <1>1. now < MaxTime /\ now' = now + 1 /\ UNCHANGED <<disk, call, made, edits, blur>> /\ MaxTime \in Nat
    BY TransferAssumption DEF Tick
  <1>2. BlurTells' /\ SourceKnown' /\ CoversAlone' /\ Agreed'
    BY <1>1, Untouched DEF IInv
  <1>3. Typed'
    <2>1. now \in Nat /\ now' \in 0..MaxTime
      BY <1>1 DEF IInv, Typed
    <2>2. ASSUME NEW s \in Sides, NEW f \in Files, Exists(s, f)'
          PROVE  At(s, f)'.mtime <= now'
      <3>1. Exists(s, f) /\ At(s, f)' = At(s, f)
        BY <1>1, <2>2 DEF Exists, At
      <3>2. At(s, f).mtime \in Nat /\ At(s, f).mtime <= now
        BY <3>1, DiskFacts DEF IInv
      <3> QED
        BY <1>1, <2>1, <3>1, <3>2
    <2> QED
      BY <1>1, <2>1, <2>2 DEF IInv, Typed
  <1> QED
    BY <1>2, <1>3 DEF IInv

-----------------------------------------------------------------------------
(* The invariant *)

\* At the start nothing is on both sides, and no call is made.
LEMMA InitIInv ==
    Init => IInv
  <1> SUFFICES ASSUME Init PROVE IInv
    OBVIOUS
  <1>1. /\ now = 0 /\ made = 0 /\ edits = 0 /\ blur = {} /\ call = [c \in Calls |-> Idle]
    BY DEF Init
  <1>2. PICK side \in Sides, v \in Versions :
          disk = [s \in Sides |-> [f \in Files |->
                    IF s = side /\ (s = "remote" \/ f \notin Links)
                    THEN [data |-> v, mtime |-> 0] ELSE NoFile]]
    BY DEF Init
  <1>3. PICK y \in FileRec : y = [data |-> v, mtime |-> 0]
    BY TransferAssumption DEF FileRec
  <1>4. \A s \in Sides, f \in Files :
           /\ disk[s][f] = y \/ disk[s][f] = NoFile
           /\ s # side => disk[s][f] = NoFile
    BY <1>2, <1>3
  <1>5. disk \in [Sides -> [Files -> FileRec \cup {NoFile}]]
    BY <1>2, <1>3, <1>4
  <1>6. \A c \in Calls : call[c] = Idle /\ CallOK(call[c])
    BY <1>1, IdleFacts
  <1>7. Typed
    <2>1. \A s \in Sides, f \in Files : Exists(s, f) => At(s, f).mtime <= now
      BY <1>1, <1>3, <1>4 DEF Exists, At
    <2>2. now \in 0..MaxTime /\ made \in Nat /\ edits \in 0..MaxEdits /\ blur \subseteq Files
      BY <1>1, TransferAssumption
    <2>3. call \in [Calls -> CallRec]
      BY <1>1, IdleFacts
    <2> QED
      BY <1>5, <1>6, <2>1, <2>2, <2>3 DEF Typed
  <1>8. BlurTells
    <2>1. \A f \in Files : ~(Exists("local", f) /\ Exists("remote", f))
      BY <1>4 DEF Exists, Sides
    <2> QED
      BY <2>1 DEF BlurTells
  <1>9. ASSUME NEW c \in Calls
        PROVE  Knows(c) /\ Sure(c) /\ Keeps(c)
    <2>1. call[c].op = "none" /\ call[c].at = "idle" /\ call[c].status = "none" /\ call[c].scope = {}
      BY <1>6 DEF Idle
    <2>2. Knows(c) /\ Sure(c)
      BY <2>1 DEF Knows, Sure, Phases, WritePhases
    <2>3. Keeps(c)
      BY <2>1 DEF Keeps, Vouches, Through
    <2> QED
      BY <2>2, <2>3
  <1> QED
    BY <1>7, <1>8, <1>9 DEF IInv, SourceKnown, CoversAlone, Agreed

\* Every step keeps it.
LEMMA NextIInv ==
    IInv /\ [Next]_vars => IInv'
  <1> SUFFICES ASSUME IInv, [Next]_vars PROVE IInv'
    OBVIOUS
  <1>1. ASSUME NEW c \in Calls, NEW op \in Uploads \cup Downloads, NEW ck \in BOOLEAN,
               NEW rs \in BOOLEAN, NEW f \in Files, Invoke(c, op, ck, rs, f)
        PROVE  IInv'
    BY <1>1, InvokeStep
  <1>2. ASSUME NEW c \in Calls, Connect(c) \/ OpenFails(c)
        PROVE  IInv'
    BY <1>2, ConnectStep, OpenFailsStep
  <1>3. ASSUME NEW c \in Calls, NEW unread \in SUBSET (Files \ Links), WalkRemote(c, unread)
        PROVE  IInv'
    BY <1>3, WalkRemoteStep
  <1>4. ASSUME NEW c \in Calls, BeginFile(c) \/ LocalHash(c)
        PROVE  IInv'
    BY <1>4, BeginFileStep, LocalHashStep
  <1>5. ASSUME NEW c \in Calls, NEW b \in BOOLEAN,
               Compare(c, b) \/ RemoteHash(c, b) \/ StatRemote(c, b) \/ VerifyRemote(c, b)
        PROVE  IInv'
    BY <1>5, CompareStep, RemoteHashStep, StatRemoteStep, VerifyRemoteStep
  <1>6. ASSUME NEW c \in Calls, AppendChunk(c) \/ AppendEnds(c) \/ VerifyLocal(c) \/ CopyOpen(c)
        PROVE  IInv'
    BY <1>6, AppendChunkStep, AppendEndsStep, VerifyLocalStep, CopyOpenStep
  <1>7. ASSUME NEW c \in Calls, NEW i \in call[c].left, CopyChunk(c, i)
        PROVE  IInv'
    BY <1>7, CopyChunkStep
  <1>8. ASSUME NEW c \in Calls, NEW m \in 0..now, CopyEnds(c, m)
        PROVE  IInv'
    BY <1>8, CopyEndsStep
  <1>9. ASSUME NEW c \in Calls, Raises(c) \/ Cancel(c)
        PROVE  IInv'
    BY <1>9, RaisesStep, CancelStep
  <1>10. ASSUME NEW s \in Sides, NEW f \in Files,
                (\E v \in Versions : Edit(s, f, v)) \/ Delete(s, f)
         PROVE  IInv'
    BY <1>10, EditStep, DeleteStep
  <1>11. CASE UNCHANGED vars
    <2>1. UNCHANGED <<disk, call, blur>>
      BY <1>11 DEF vars
    <2>2. BlurTells' /\ SourceKnown' /\ CoversAlone' /\ Agreed'
      BY <2>1, Untouched DEF IInv
    <2>3. Typed'
      BY <1>11 DEF vars, IInv, Typed, Exists, At
    <2> QED
      BY <2>2, <2>3 DEF IInv
  <1> QED
    BY <1>1, <1>2, <1>3, <1>4, <1>5, <1>6, <1>7, <1>8, <1>9, <1>10, <1>11, TickStep DEF Next

\* What remote_transfer keeps true, whatever calls overlap, fail or are
\* cancelled: the records of the calls fit what they are at, the mtimes of
\* unblurred files tell them apart, what a call has seen of a source is so, a
\* copy under way is wrong only where it is still to be written, and every
\* file a call has answered for is the same on both sides or is being made so.
THEOREM TransferInvariant ==
    Spec => []IInv
  <1>1. Init => IInv
    BY InitIInv
  <1>2. IInv /\ [Next]_vars => IInv'
    BY NextIInv
  <1> QED
    BY <1>1, <1>2, PTL DEF Spec

\* The types of the disk and of the calls, and that the todo, failed[] and
\* skipped[] lists of a batch never overlap (ssh_sync_directory and its
\* companions).
THEOREM TransferTypeCorrect ==
    Spec => []TransferTypeOK
  <1>1. IInv => TransferTypeOK
    BY DEF IInv, Typed, CallOK, TransferTypeOK, Running
  <1> QED
    BY <1>1, TransferInvariant, PTL

\* What an "ok" of remote_transfer means: every file in its scope is the same
\* on both sides as soon as no call is writing it, unless another program
\* changed it meanwhile, a call gave up writing it, or the call skipped it on
\* mtimes that match by accident.
THEOREM TransfersAgreed ==
    Spec => []TransfersAgree
  <1>1. ASSUME IInv
        PROVE  TransfersAgree
    <2> SUFFICES ASSUME NEW c \in Calls, call[c].status = "ok",
                        NEW f \in call[c].scope \ (call[c].dirty \cup call[c].spoiled \cup call[c].guessed),
                        \A d \in Calls : Writing(d) => File(d) # f
                 PROVE  SameData(f)
      BY DEF TransfersAgree
    <2>1. f \in Files /\ Keeps(c)
      BY <1>1 DEF IInv, Typed, CallRec, Agreed
    <2>2. Settled(Dst(call[c].op), f)
      BY <2>1 DEF Keeps, Vouches, Through
    <2> QED
      BY <2>2 DEF Settled, Repairs
  <1> QED
    BY <1>1, TransferInvariant, PTL

-----------------------------------------------------------------------------
(* What is skipped *)

\* Call d skips no file in a step, or it is a new call.
NoSkips(d) == call'[d].op = call[d].op => call'[d].skipped \subseteq call[d].skipped

\* The calls that take no part in a step skip nothing.
LEMMA SkipsOf ==
    ASSUME Typed, NEW c \in Calls, NEW n,
           \/ Moves(c, n) \/ GivesUp(c, n)
           \/ \E s \in Sides, f \in Files : MovesWriting(c, n, s, f)
    PROVE  call'[c] = n /\ \A d \in Calls \ {c} : NoSkips(d)
  <1>1. call'[c] = n
    BY DEF Moves, GivesUp, MovesWriting, Typed
  <1>2. ASSUME NEW d \in Calls \ {c}
        PROVE  NoSkips(d)
    <2>1. PICK r \in CallRec : r = call[d]
      BY DEF Typed
    <2>2. CASE Moves(c, n)
      BY <2>2 DEF Moves, Typed, NoSkips
    <2>3. CASE GivesUp(c, n)
      <3>1. call'[d] = r \/ call'[d] = [r EXCEPT !.spoiled = @ \cup {File(c)}]
        BY <2>1, <2>3 DEF GivesUp
      <3> QED
        BY <2>1, <3>1 DEF CallRec, NoSkips
    <2>4. ASSUME NEW s \in Sides, NEW f \in Files, MovesWriting(c, n, s, f)
          PROVE  NoSkips(d)
      <3>1. PICK x, y : call'[d] = [r EXCEPT !.dirty = x, !.shared = y]
        BY <2>1, <2>4 DEF MovesWriting
      <3> QED
        BY <2>1, <3>1 DEF CallRec, NoSkips
    <2> QED
      BY <2>2, <2>3, <2>4
  <1> QED
    BY <1>1, <1>2

\* What is put down as skipped when a call ends or goes on to the next file.
LEMMA SkipsKept ==
    ASSUME NEW r \in CallRec, CallOK(r), r.at \in Phases
    PROVE  /\ \A st \in {"error", "cancelled"} : End(r, st).skipped \subseteq r.skipped
           /\ r.at \notin {"open", "walk"} =>
                 NextFile(r).skipped \subseteq r.skipped /\ FileFailed(r).skipped \subseteq r.skipped
  <1>1. \A n, failed : Onward(n, r, r.skipped, failed) => n.skipped \subseteq r.skipped
    BY DEF Onward
  <1> QED
    BY <1>1, OnwardFacts

\* The steps of a call that are not about skipping.
LEMMA SkipsNone ==
    ASSUME IInv, NEW c \in Calls,
           \/ Connect(c) \/ OpenFails(c) \/ BeginFile(c)
           \/ \E unread \in SUBSET (Files \ Links) : WalkRemote(c, unread)
           \/ \E b \in BOOLEAN : RemoteHash(c, b) \/ StatRemote(c, b) \/ VerifyRemote(c, b)
           \/ AppendChunk(c) \/ AppendEnds(c) \/ VerifyLocal(c) \/ CopyOpen(c)
           \/ \E i \in call[c].left : CopyChunk(c, i)
           \/ \E m \in 0..now : CopyEnds(c, m)
           \/ Raises(c) \/ Cancel(c)
    PROVE  \A d \in Calls : NoSkips(d)
  <1>1. PICK r \in CallRec : r = call[c] /\ CallOK(r)
    BY DEF IInv, Typed
  <1>2. Typed
    BY DEF IInv
  <1>3. ASSUME NEW n, n.skipped \subseteq r.skipped,
               \/ Moves(c, n) \/ GivesUp(c, n)
               \/ \E s \in Sides, f \in Files : MovesWriting(c, n, s, f)
        PROVE  \A d \in Calls : NoSkips(d)
    <2>1. call'[c] = n /\ \A d \in Calls \ {c} : NoSkips(d)
      BY <1>2, <1>3, SkipsOf
    <2> QED
      BY <1>1, <1>3, <2>1 DEF NoSkips
  <1>4. ASSUME r.at \in Phases \ {"open", "walk"}
        PROVE  /\ End(r, "cancelled").skipped \subseteq r.skipped
               /\ NextFile(r).skipped \subseteq r.skipped
               /\ FileFailed(r).skipped \subseteq r.skipped
    BY <1>1, <1>4, SkipsKept
  <1>5. ASSUME r.at \in Phases
        PROVE  End(r, "error").skipped \subseteq r.skipped /\ End(r, "cancelled").skipped \subseteq r.skipped
    BY <1>1, <1>5, SkipsKept
  <1>6. CASE Connect(c)
    <2>1. PICK batch : batch = [r EXCEPT !.todo = Listed(r.op), !.scope = Listed(r.op) \ Links,
                                         !.at = "file"]
      OBVIOUS
    <2>2. batch.skipped = r.skipped /\ End(batch, "ok").skipped = r.skipped
      BY <2>1 DEF CallRec, End, Idle
    <2>3. \E n : Moves(c, n) /\ n.skipped \subseteq r.skipped
      <3>1. \A p : [r EXCEPT !.at = p].skipped = r.skipped
        BY DEF CallRec
      <3> QED
        BY <1>1, <1>6, <2>1, <2>2, <3>1 DEF Connect
    <2> QED
      BY <1>3, <2>3
  <1>7. CASE OpenFails(c)
    BY <1>1, <1>3, <1>5, <1>7 DEF OpenFails, Phases
  <1>8. CASE BeginFile(c)
    <2>1. r.at = "file" /\ r.at \in Phases \ {"open", "walk"}
      BY <1>1, <1>8 DEF BeginFile, Phases
    <2>2. \A size, mtime : [r EXCEPT !.at = "compare", !.size = size, !.mtime = mtime].skipped = r.skipped
      BY DEF CallRec
    <2>3. \/ Moves(c, NextFile(r)) \/ Moves(c, FileFailed(r))
          \/ \E size, mtime : Moves(c, [r EXCEPT !.at = "compare", !.size = size, !.mtime = mtime])
      BY <1>1, <1>8 DEF BeginFile
    <2>4. \E n : Moves(c, n) /\ n.skipped \subseteq r.skipped
      BY <1>4, <2>1, <2>2, <2>3
    <2> QED
      BY <1>3, <2>4
  <1>9. ASSUME NEW unread \in SUBSET (Files \ Links), WalkRemote(c, unread)
        PROVE  \A d \in Calls : NoSkips(d)
    <2>1. PICK walked : walked = [r EXCEPT !.todo = ReadFrom(unread), !.scope = ReadFrom(unread),
                                           !.seen = SeenOf(ReadFrom(unread)), !.at = "file"]
      OBVIOUS
    <2>2. walked.skipped = r.skipped /\ End(walked, "ok").skipped = r.skipped
      BY <2>1 DEF CallRec, End, Idle
    <2>3. \E n : Moves(c, n) /\ n.skipped \subseteq r.skipped
      BY <1>1, <1>9, <2>1, <2>2 DEF WalkRemote
    <2> QED
      BY <1>3, <2>3
  <1>10. ASSUME NEW b \in BOOLEAN, RemoteHash(c, b) \/ StatRemote(c, b) \/ VerifyRemote(c, b)
         PROVE  \A d \in Calls : NoSkips(d)
    <2>1. r.at \in Phases \ {"open", "walk"}
      BY <1>1, <1>10 DEF RemoteHash, StatRemote, VerifyRemote, Phases, WritePhases
    <2>2. \A p, h, o : /\ [r EXCEPT !.at = p].skipped = r.skipped
                       /\ [r EXCEPT !.at = p, !.hash = h, !.shared = FALSE].skipped = r.skipped
                       /\ [r EXCEPT !.at = p, !.offset = o].skipped = r.skipped
      BY DEF CallRec
    <2>3. \/ Moves(c, NextFile(r)) \/ \E p : Moves(c, [r EXCEPT !.at = p])
          \/ \E p, h : Moves(c, [r EXCEPT !.at = p, !.hash = h, !.shared = FALSE])
          \/ \E p, o : Moves(c, [r EXCEPT !.at = p, !.offset = o])
      <3>1. CASE RemoteHash(c, b)
        BY <1>1, <3>1 DEF RemoteHash
      <3>2. CASE StatRemote(c, b)
        BY <1>1, <3>2 DEF StatRemote
      <3>3. CASE VerifyRemote(c, b)
        BY <1>1, <3>3 DEF VerifyRemote
      <3> QED
        BY <1>10, <3>1, <3>2, <3>3
    <2>4. \E n : Moves(c, n) /\ n.skipped \subseteq r.skipped
      BY <1>4, <2>1, <2>2, <2>3
    <2> QED
      BY <1>3, <2>4
  <1>11. CASE AppendChunk(c)
    <2>1. [r EXCEPT !.offset = @ + 1].skipped = r.skipped
      BY DEF CallRec
    <2>2. File(c) \in Files
      BY <1>11, RunFacts DEF AppendChunk, Phases, WritePhases
    <2> QED
      BY <1>1, <1>3, <1>11, <2>1, <2>2 DEF AppendChunk, Sides
  <1>12. CASE AppendEnds(c) \/ VerifyLocal(c)
    <2>1. r.at \in Phases \ {"open", "walk"}
      BY <1>1, <1>12 DEF AppendEnds, VerifyLocal, Phases, WritePhases
    <2>2. \A p, h : /\ [r EXCEPT !.at = p].skipped = r.skipped
                    /\ [r EXCEPT !.at = p, !.hash = h].skipped = r.skipped
      BY DEF CallRec
    <2>3. \/ GivesUp(c, FileFailed(r)) \/ \E p : Moves(c, [r EXCEPT !.at = p])
          \/ \E p, h : Moves(c, [r EXCEPT !.at = p, !.hash = h])
      <3>1. CASE AppendEnds(c)
        BY <1>1, <3>1 DEF AppendEnds
      <3>2. CASE VerifyLocal(c)
        BY <1>1, <3>2 DEF VerifyLocal
      <3> QED
        BY <1>12, <3>1, <3>2
    <2>4. \E n : (Moves(c, n) \/ GivesUp(c, n)) /\ n.skipped \subseteq r.skipped
      BY <1>4, <2>1, <2>2, <2>3
    <2> QED
      BY <1>3, <2>4
  <1>13. CASE CopyOpen(c)
    <2>1. \A left, m : [r EXCEPT !.at = "write", !.left = left, !.mtime = m, !.shared = FALSE].skipped
                       = r.skipped
      BY DEF CallRec
    <2>2. File(c) \in Files /\ Dst(r.op) \in Sides
      BY <1>13, RunFacts, SideFacts DEF CopyOpen, Phases, WritePhases
    <2> QED
      BY <1>1, <1>3, <1>13, <2>1, <2>2 DEF CopyOpen
  <1>14. ASSUME NEW i \in call[c].left, CopyChunk(c, i)
         PROVE  \A d \in Calls : NoSkips(d)
    <2>1. [r EXCEPT !.left = @ \ {i}].skipped = r.skipped
      BY DEF CallRec
    <2>2. File(c) \in Files /\ Dst(r.op) \in Sides
      BY <1>14, RunFacts, SideFacts DEF CopyChunk, Phases, WritePhases
    <2> QED
      BY <1>1, <1>3, <1>14, <2>1, <2>2 DEF CopyChunk
  <1>15. ASSUME NEW m \in 0..now, CopyEnds(c, m)
         PROVE  \A d \in Calls : NoSkips(d)
    <2>1. r.at \in Phases \ {"open", "walk"}
      BY <1>1, <1>15 DEF CopyEnds, Phases, WritePhases
    <2>2. File(c) \in Files /\ Dst(r.op) \in Sides
      BY <1>1, <2>1, RunFacts, SideFacts
    <2> QED
      BY <1>1, <1>3, <1>4, <1>15, <2>1, <2>2 DEF CopyEnds
  <1>16. CASE Raises(c)
    BY <1>1, <1>3, <1>4, <1>16 DEF Raises, Phases, WritePhases
  <1>17. CASE Cancel(c)
    BY <1>1, <1>3, <1>5, <1>17 DEF Cancel, Running
  <1> QED
    BY <1>6, <1>7, <1>8, <1>9, <1>10, <1>11, <1>12, <1>13, <1>14, <1>15, <1>16, <1>17

\* A call that is made skips nothing yet, and other programs make none skip.
LEMMA SkipsOutside ==
    ASSUME Typed,
           \/ \E c \in Calls, op \in Uploads \cup Downloads, ck, rs \in BOOLEAN, f \in Files :
                 Invoke(c, op, ck, rs, f)
           \/ \E s \in Sides, f \in Files : (\E v \in Versions : Edit(s, f, v)) \/ Delete(s, f)
           \/ Tick \/ UNCHANGED vars
    PROVE  \A d \in Calls : NoSkips(d)
  <1>1. ASSUME NEW c \in Calls, NEW op \in Uploads \cup Downloads, NEW ck \in BOOLEAN,
               NEW rs \in BOOLEAN, NEW f \in Files, Invoke(c, op, ck, rs, f)
        PROVE  \A d \in Calls : NoSkips(d)
    <2> DEFINE files == IF op \in Batches THEN {} ELSE {f}
    <2> DEFINE r == [Idle EXCEPT !.at = "open", !.op = op, !.checksum = ck,
                       !.resume = rs, !.todo = files, !.scope = files]
    <2> DEFINE sized == [r EXCEPT !.size = Len(At("local", f).data)]
    <2>a. Moves(c, r) \/ Moves(c, End(r, "error")) \/ Moves(c, sized)
      BY <1>1 DEF Invoke
    <2>b. r.skipped = {} /\ sized.skipped = {}
      BY DEF Idle
    <2>c. End(r, "error").skipped = {}
      BY DEF Idle, End
    <2>1. \E n : Moves(c, n) /\ n.skipped = {}
      BY <2>a, <2>b, <2>c
    <2> HIDE DEF r, sized, files
    <2>2. PICK n : Moves(c, n) /\ n.skipped = {}
      BY <2>1
    <2>3. call'[c] = n /\ \A d \in Calls \ {c} : NoSkips(d)
      BY <2>2, SkipsOf
    <2> QED
      BY <2>2, <2>3 DEF NoSkips
  <1>2. ASSUME NEW f \in Files, Edited(f), NEW d \in Calls
        PROVE  NoSkips(d)
    <2>1. PICK r \in CallRec : r = call[d]
      BY DEF Typed
    <2>2. call'[d] = r \/ call'[d] = [r EXCEPT !.dirty = @ \cup {f}]
      BY <1>2, <2>1 DEF Edited
    <2> QED
      BY <2>1, <2>2 DEF CallRec, NoSkips
  <1>3. UNCHANGED call => \A d \in Calls : NoSkips(d)
    BY DEF NoSkips
  <1> QED
    BY <1>1, <1>2, <1>3 DEF Edit, Delete, Tick, vars

\* Call c may skip f: it is the same on both sides, or the call does not answer
\* for it, or another call wrote it between the two hashes.
Fair(c, f) ==
    \/ SameData(f)
    \/ f \in call'[c].dirty \cup call'[c].guessed
    \/ call[c].checksum /\ call[c].shared
\* ... and that no step skips other files.
FairStep ==
    \A c \in Calls : \A f \in call'[c].skipped :
        (call[c].op = call'[c].op /\ f \notin call[c].skipped) => Fair(c, f)

\* The one file of the call itself is all that has to be looked at.
LEMMA FairOf ==
    ASSUME Typed, NEW c \in Calls, NEW n, Moves(c, n), NEW f,
           n.op = call[c].op => n.skipped \subseteq call[c].skipped \cup {f},
           n.op = call[c].op /\ f \in n.skipped => Fair(c, f)
    PROVE  FairStep
  <1>1. call'[c] = n /\ \A d \in Calls \ {c} : NoSkips(d)
    BY SkipsOf
  <1> SUFFICES ASSUME NEW d \in Calls, NEW g \in call'[d].skipped,
                      call[d].op = call'[d].op, g \notin call[d].skipped
               PROVE  Fair(d, g)
    BY DEF FairStep
  <1>2. d = c /\ g = f
    BY <1>1 DEF NoSkips
  <1> QED
    BY <1>1, <1>2

\* _files_match on size and mtime.
LEMMA CompareFair ==
    ASSUME IInv, NEW c \in Calls, NEW fails \in BOOLEAN, Compare(c, fails)
    PROVE  FairStep
  <1>1. PICK r \in CallRec : r = call[c] /\ r.at = "compare"
    BY DEF Compare, IInv, Typed
  <1>2. call[c].at \in Phases \ {"open", "walk"}
    BY <1>1 DEF Phases, WritePhases
  <1>3. PICK f \in Files : f = File(c)
    BY <1>2, RunFacts
  <1>4. /\ CallOK(r) /\ Knows(c) /\ Typed /\ r.op \in Batches /\ f \in r.todo
        /\ Src(r.op) \in Sides /\ Dst(r.op) = Other(Src(r.op)) /\ Dst(r.op) \in Sides
        /\ Other(Dst(r.op)) = Src(r.op)
    BY <1>1, <1>2, <1>3, RunFacts, SideFacts DEF CallOK
  <1> DEFINE dst == At(Dst(r.op), f)
  <1> DEFINE same == Exists(Dst(r.op), f) /\ ~fails /\ Len(dst.data) = r.size
  <1>5. PICK guessed \in SUBSET Files :
            guessed = IF f \in blur THEN r.guessed \cup {f} ELSE r.guessed
    <2>1. r.guessed \subseteq Files
      BY DEF CallRec
    <2> QED
      BY <2>1
  <1>6. PICK t : t = [r EXCEPT !.guessed = guessed]
    OBVIOUS
  <1>7. \/ Moves(c, [r EXCEPT !.at = "rhash"]) \/ Moves(c, [r EXCEPT !.at = "copy"])
        \/ Moves(c, Skip(t)) /\ same /\ MtimeMatch(dst.mtime, r.mtime)
    BY <1>1, <1>3, <1>5, <1>6 DEF Compare
  <1>8. CASE Moves(c, Skip(t)) /\ same /\ MtimeMatch(dst.mtime, r.mtime)
    <2>1. /\ t \in CallRec /\ t.at = r.at /\ t.op = r.op /\ t.scope = r.scope /\ t.todo = r.todo
          /\ t.seen = r.seen /\ t.failed = r.failed /\ t.status = r.status
          /\ t.dirty = r.dirty /\ t.spoiled = r.spoiled /\ t.guessed = guessed /\ t.skipped = r.skipped
          /\ t.checksum = r.checksum
      BY <1>6 DEF CallRec
    <2>2. CallOK(t)
      BY <1>4, <2>1 DEF CallOK
    <2>3. First(t.todo) = f
      BY <1>1, <1>3, <2>1 DEF File
    <2>4. Onward(Skip(t), t, t.skipped \cup {f}, t.failed)
      BY <1>1, <1>2, <1>4, <2>1, <2>2, <2>3, OnwardFacts
    <2>5. PICK n : n = Skip(t)
      OBVIOUS
    <2>6. /\ n.skipped \subseteq r.skipped \cup {f}
          /\ f \in n.skipped => n.dirty = r.dirty /\ n.guessed = guessed
      BY <1>4, <2>1, <2>4, <2>5 DEF Onward, CallOK
    <2>7. f \notin r.dirty \cup guessed => SameData(f)
      <3>1. SUFFICES ASSUME f \notin r.dirty, f \notin blur
                     PROVE  SameData(f)
        BY <1>5
      <3>2. Is(Src(r.op), f, r.size, r.mtime)
        BY <1>1, <1>2, <1>3, <1>4, <3>1 DEF Knows
      <3>3. PICK s \in Sides : s = Dst(r.op) /\ Other(s) = Src(r.op) /\ Other(s) \in Sides
        BY <1>4
      <3>4. /\ Exists(s, f) /\ Exists(Other(s), f)
            /\ MtimeMatch(At(s, f).mtime, At(Other(s), f).mtime)
        BY <1>8, <3>2, <3>3 DEF Is
      <3>5. /\ Exists("local", f) /\ Exists("remote", f)
            /\ MtimeMatch(At("local", f).mtime, At("remote", f).mtime)
        BY <3>4 DEF Sides, Other, MtimeMatch
      <3> QED
        BY <3>1, <3>5 DEF IInv, BlurTells
    <2>8. Moves(c, n) /\ call'[c] = n
      <3>1. Moves(c, n)
        BY <1>8, <2>5
      <3> QED
        BY <1>4, <3>1, SkipsOf
    <2>9. f \in n.skipped => Fair(c, f)
      BY <2>6, <2>7, <2>8 DEF Fair
    <2> QED
      BY <1>1, <1>4, <2>6, <2>8, <2>9, FairOf
  <1>9. ASSUME NEW p, Moves(c, [r EXCEPT !.at = p])
        PROVE  FairStep
    <2>1. PICK n : n = [r EXCEPT !.at = p]
      OBVIOUS
    <2>2. n.skipped = r.skipped /\ Moves(c, n)
      BY <1>9, <2>1 DEF CallRec
    <2>3. f \notin r.skipped
      BY <1>4 DEF CallOK
    <2> QED
      BY <1>1, <1>4, <2>2, <2>3, FairOf
  <1> QED
    BY <1>7, <1>8, <1>9

\* _files_match on hashes.
LEMMA LocalHashFair ==
    ASSUME IInv, NEW c \in Calls, LocalHash(c)
    PROVE  FairStep
  <1>1. PICK r \in CallRec : r = call[c] /\ r.at = "lhash"
    BY DEF LocalHash, IInv, Typed
  <1>2. call[c].at \in Phases \ {"open", "walk"}
    BY <1>1 DEF Phases, WritePhases
  <1>3. PICK f \in Files : f = File(c)
    BY <1>2, RunFacts
  <1>4. /\ CallOK(r) /\ Knows(c) /\ Typed /\ r.op \in Batches /\ f \in r.todo
        /\ Onward(FileFailed(r), r, r.skipped, r.failed \cup {f})
        /\ Onward(Skip(r), r, r.skipped \cup {f}, r.failed)
    BY <1>1, <1>2, <1>3, RunFacts DEF CallOK
  <1>5. f \notin r.skipped /\ r.checksum
    BY <1>1, <1>4 DEF CallOK
  <1>6. CASE Moves(c, [r EXCEPT !.at = "copy"])
    <2>1. PICK n : n = [r EXCEPT !.at = "copy"]
      OBVIOUS
    <2>2. n.skipped = r.skipped /\ Moves(c, n)
      BY <1>6, <2>1 DEF CallRec
    <2> QED
      BY <1>1, <1>4, <1>5, <2>2, FairOf
  <1>7. CASE Moves(c, FileFailed(r))
    <2>1. FileFailed(r).skipped \subseteq r.skipped
      BY <1>4 DEF Onward
    <2> QED
      BY <1>1, <1>4, <1>5, <1>7, <2>1, FairOf
  <1>8. CASE Moves(c, Skip(r)) /\ Exists("local", f) /\ At("local", f).data = r.hash
    <2>1. PICK n : n = Skip(r)
      OBVIOUS
    <2>2. n.skipped \subseteq r.skipped \cup {f} /\ (f \in n.skipped => n.dirty = r.dirty)
      BY <1>4, <1>5, <2>1 DEF Onward
    <2>3. Moves(c, n) /\ call'[c] = n
      <3>1. Moves(c, n)
        BY <1>8, <2>1
      <3> QED
        BY <1>4, <3>1, SkipsOf
    <2>4. f \notin r.dirty /\ ~r.shared => SameData(f)
      BY <1>1, <1>2, <1>3, <1>4, <1>8 DEF Knows, SameData
    <2>5. f \in n.skipped => Fair(c, f)
      BY <1>1, <1>5, <2>2, <2>3, <2>4, <1>4 DEF Fair, CallRec
    <2> QED
      BY <1>1, <1>4, <2>2, <2>3, <2>5, FairOf
  <1> QED
    BY <1>1, <1>3, <1>6, <1>7, <1>8 DEF LocalHash

\* A file is skipped only if it need not be copied (_files_match): with
\* unblurred matching mtimes, or equal hashes between which no other call wrote
\* the file, both sides hold the same.
THEOREM SkipsAreSound ==
    Spec => SkipSound
  <1>1. ASSUME IInv, [Next]_vars
        PROVE  FairStep
    <2>1. (\A d \in Calls : NoSkips(d)) => FairStep
      BY DEF FairStep, NoSkips
    <2>2. ASSUME NEW c \in Calls, NEW b \in BOOLEAN, Compare(c, b) \/ LocalHash(c)
          PROVE  FairStep
      BY <1>1, <2>2, CompareFair, LocalHashFair
    <2>3. Typed
      BY <1>1 DEF IInv
    <2>4. ASSUME NEW c \in Calls,
                 \/ Connect(c) \/ OpenFails(c) \/ BeginFile(c)
                 \/ \E unread \in SUBSET (Files \ Links) : WalkRemote(c, unread)
                 \/ \E b \in BOOLEAN : RemoteHash(c, b) \/ StatRemote(c, b) \/ VerifyRemote(c, b)
                 \/ AppendChunk(c) \/ AppendEnds(c) \/ VerifyLocal(c) \/ CopyOpen(c)
                 \/ \E i \in call[c].left : CopyChunk(c, i)
                 \/ \E m \in 0..now : CopyEnds(c, m)
                 \/ Raises(c) \/ Cancel(c)
          PROVE  FairStep
      BY <1>1, <2>1, <2>4, SkipsNone
    <2>5. (\/ \E c \in Calls, op \in Uploads \cup Downloads, ck, rs \in BOOLEAN, f \in Files :
                 Invoke(c, op, ck, rs, f)
           \/ \E s \in Sides, f \in Files : (\E v \in Versions : Edit(s, f, v)) \/ Delete(s, f)
           \/ Tick \/ UNCHANGED vars) => FairStep
      BY <2>1, <2>3, SkipsOutside
    <2> QED
      BY <1>1, <2>2, <2>4, <2>5 DEF Next
  <1>2. FairStep => [\A c \in Calls : \A f \in call'[c].skipped :
                        (call[c].op = call'[c].op /\ f \notin call[c].skipped) =>
                           \/ SameData(f)
                           \/ f \in call'[c].dirty \cup call'[c].guessed
                           \/ call[c].checksum /\ call[c].shared]_vars
    BY DEF FairStep, Fair
  <1> QED
    BY <1>1, <1>2, TransferInvariant, PTL DEF Spec, SkipSound

=============================================================================

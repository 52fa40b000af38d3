---------------------------- MODULE FileTransfer ----------------------------
(***************************************************************************)
(* remote_transfer over SFTP (file_ops.py): upload with resume, download,  *)
(* and the incremental batches sync, upload-list, mirror, download-list.   *)
(* Several calls run at once against the same tree, and other programs     *)
(* write on both sides.  Every await of the code is a step boundary.       *)
(*                                                                         *)
(* A file is a sequence of chunks and an mtime.  A copy truncates the      *)
(* destination, writes its chunks in any order (asyncssh keeps many        *)
(* requests in flight; a chunk written past the end leaves a hole) and     *)
(* only then sets the source's mtime; a chunk is read and written in one   *)
(* step.  A hash is the contents.  A failing await raises; the client may  *)
(* cancel a call at any of them.  The connection lease and the audit       *)
(* record around a transfer belong to ConnectionPool and RemoteExec.       *)
(***************************************************************************)
EXTENDS Integers, Sequences, FiniteSets, Functions

CONSTANTS
    Tree,           \* the paths of the tree, in the order of sorted(rglob)
    Links,          \* the paths that are symbolic links on the local side
    Calls,          \* remote_transfer calls in progress at the same time
    Versions,       \* the contents other programs write
    Hole,           \* the chunk of a hole
    NoFile,         \* nothing at the path
    MaxTime,        \* bound: the clock
    MaxEdits,       \* bound: writes by other programs
    MaxCalls,       \* bound: calls made
    MaxUploads      \* bound: calls made, when the next one is an upload

VARIABLES
    now,            \* the clock, in seconds
    disk,           \* the file at each path of each side
    call,           \* where each call is
    made,           \* calls made
    edits,          \* writes by other programs
    blur            \* history: paths whose mtimes may match by accident

vars == <<now, disk, call, made, edits, blur>>

Files == Range(Tree)
FileRec == [data : Seq(Nat), mtime : Nat]

\* Bytes are numbers, and so is what a hole reads as.
ASSUME TransferAssumption ==
    /\ Tree \in Seq(Files)
    /\ Hole \in Nat /\ Versions \subseteq Seq(Nat) /\ NoFile \notin FileRec
    /\ {MaxTime, MaxEdits, MaxCalls, MaxUploads} \subseteq Nat

Sides == {"local", "remote"}
Other(side) == IF side = "local" THEN "remote" ELSE "local"
Uploads == {"upload", "sync", "upload-list"}
Downloads == {"download", "mirror", "download-list"}
Batches == {"sync", "upload-list", "mirror", "download-list"}

Src(op) == IF op \in Uploads THEN "local" ELSE "remote"
Dst(op) == Other(Src(op))

\* MTIME_TOLERANCE_SEC
Tolerance == 1
MtimeMatch(a, b) == a - b <= Tolerance /\ b - a <= Tolerance

\* scope: the files the call answers for; todo: those still to do.  size and
\* mtime: what it knows of the source of the current file; seen: the same for
\* every file mirror has listed.  offset, left: chunks appended, chunks left
\* to copy.  hash: the hash it computed first.
\* History.  dirty: files whose source changed, or which another program
\* changed, since the call began.  spoiled: files another call gave up writing
\* since then.  guessed: files skipped on blurred mtimes.  shared: another call
\* has written the current file since this one opened it, or hashed it on the
\* host.
Idle == [at |-> "idle", op |-> "none", checksum |-> FALSE, resume |-> FALSE,
         scope |-> {}, todo |-> {}, size |-> 0, mtime |-> 0,
         seen |-> [f \in Files |-> [size |-> 0, mtime |-> 0]],
         offset |-> 0, left |-> {}, hash |-> <<>>, skipped |-> {}, failed |-> {},
         status |-> "none", dirty |-> {}, spoiled |-> {}, guessed |-> {},
         shared |-> FALSE]

WritePhases == {"append", "verifyL", "verifyR", "copy", "write"}
Phases == WritePhases \cup {"open", "stat", "walk", "file", "compare", "rhash", "lhash"}
CallRec == [at : Phases \cup {"idle", "ended"}, op : Uploads \cup Downloads \cup {"none"},
            checksum : BOOLEAN, resume : BOOLEAN, scope : SUBSET Files, todo : SUBSET Files,
            size : Nat, mtime : Nat, seen : [Files -> [size : Nat, mtime : Nat]],
            offset : Nat, left : SUBSET (Nat \ {0}), hash : Seq(Nat),
            skipped : SUBSET Files, failed : SUBSET Files,
            status : {"none", "ok", "partial", "error", "cancelled"},
            dirty : SUBSET Files, spoiled : SUBSET Files, guessed : SUBSET Files,
            shared : BOOLEAN]

Running(c) == call[c].at \in Phases

\* The first of some files in the order of the tree.
First(files) == Tree[CHOOSE i \in DOMAIN Tree :
                       Tree[i] \in files /\ \A k \in 1..(i - 1) : Tree[k] \notin files]
File(c) == First(call[c].todo)

\* The call is writing its current file, or has to make sure of it or write it.
Writing(c) == call[c].at \in WritePhases
At(side, f) == disk[side][f]
Exists(side, f) == disk[side][f] # NoFile

TransferTypeOK ==
    /\ now \in 0..MaxTime /\ made \in Nat /\ edits \in 0..MaxEdits
    /\ blur \subseteq Files
    /\ disk \in [Sides -> [Files -> FileRec \cup {NoFile}]]
    /\ \A s \in Sides, f \in Files : Exists(s, f) => At(s, f).mtime <= now
    /\ call \in [Calls -> CallRec]
    /\ \A c \in Calls :
          /\ call[c].at = "ended" <=> call[c].status # "none"
          /\ (Running(c) /\ call[c].at \notin {"open", "walk"}) => call[c].todo # {}
          /\ call[c].op \in Batches \/ call[c].failed \cup call[c].skipped = {}
          /\ (call[c].failed \cup call[c].skipped) \cap call[c].todo = {}

-----------------------------------------------------------------------------
(* What a step does to the disk and to the other calls *)

\* Call c moves to record r.
Moves(c, r) == call' = [call EXCEPT ![c] = r]

\* The other calls notice that side s of f changed ...
MovesWriting(c, r, s, f) ==
    call' = [d \in Calls |->
               IF d = c THEN r
               ELSE [call[d] EXCEPT
                       !.dirty = IF call[d].op # "none" /\ Src(call[d].op) = s
                                 THEN @ \cup {f} ELSE @,
                       !.shared = IF call[d].at \in {"write", "lhash"} /\ File(d) = f
                                  THEN TRUE ELSE @]]

\* ... or that c leaves its file half written.
GivesUp(c, r) ==
    call' = [d \in Calls |->
               IF d = c THEN r
               ELSE IF Writing(c) /\ call[d].op # "none"
               THEN [call[d] EXCEPT !.spoiled = @ \cup {File(c)}] ELSE call[d]]

\* A write stamps the file with the time of the write: its mtime then says
\* nothing if the other side was written within the tolerance.
Blurred(s, f) ==
    IF Exists(Other(s), f) /\ MtimeMatch(now, At(Other(s), f).mtime)
    THEN blur \cup {f} ELSE blur
Writes(s, f, data) ==
    /\ disk' = [disk EXCEPT ![s][f] = [data |-> data, mtime |-> now]]
    /\ blur' = Blurred(s, f)

\* The contents after chunk v was written at position i.
WriteAt(data, i, v) ==
    [k \in 1..(IF i > Len(data) THEN i ELSE Len(data)) |->
        IF k = i THEN v ELSE IF k <= Len(data) THEN data[k] ELSE Hole]

\* The record of a call that is through: of one that did not answer "ok" only
\* the status is kept.
End(r, status) ==
    LET ended == [Idle EXCEPT !.at = "ended", !.status = status]
    IN IF status # "ok" THEN ended
       ELSE [ended EXCEPT !.op = r.op, !.scope = r.scope, !.skipped = r.skipped,
                          !.dirty = r.dirty, !.spoiled = r.spoiled, !.guessed = r.guessed]
NextFile(r) ==
    LET rest == r.todo \ {First(r.todo)}
    IN IF rest # {}
       THEN [r EXCEPT !.at = "file", !.todo = rest, !.size = 0, !.mtime = 0,
                      !.left = {}, !.hash = <<>>, !.shared = FALSE]
       ELSE End(r, IF r.failed = {} THEN "ok" ELSE "partial")
Skip(r) == NextFile([r EXCEPT !.skipped = @ \cup {First(r.todo)}])
\* Mutant: a failed file is not put down in failed[].
FailureForgotten(r) ==
    IF r.op \in Batches THEN NextFile(r) ELSE End(r, "error")
FileFailed(r) ==
    IF r.op \in Batches THEN NextFile([r EXCEPT !.failed = @ \cup {First(r.todo)}])
    ELSE End(r, "error")

-----------------------------------------------------------------------------
(* Starting a call *)

\* upload looks at the local file before it connects.
Invoke(c, op, checksum, resume, f) ==
    /\ ~Running(c) /\ made' = made + 1
    /\ made < IF op = "upload" THEN MaxUploads ELSE MaxCalls
    /\ op # "upload" => ~resume
    /\ IF op \in Batches THEN f = Tree[1] ELSE ~checksum /\ f \notin Links
    /\ LET r == [Idle EXCEPT !.at = "open", !.op = op, !.checksum = checksum,
                   !.resume = resume, !.todo = IF op \in Batches THEN {} ELSE {f},
                   !.scope = IF op \in Batches THEN {} ELSE {f}]
       IN Moves(c, IF op # "upload" THEN r
                   ELSE IF ~Exists("local", f) THEN End(r, "error")
                   ELSE [r EXCEPT !.size = Len(At("local", f).data)])
    /\ UNCHANGED <<now, disk, edits, blur>>

\* The connection and the SFTP channel are there.  sync lists the tree now.
Listed(op) ==
    CASE op = "sync" -> {f \in Files : f \in Links \/ Exists("local", f)}
      [] op = "mirror" -> {}
      [] OTHER -> Files \ Links
Connect(c) ==
    LET r == call[c]
        batch == [r EXCEPT !.todo = Listed(r.op), !.scope = Listed(r.op) \ Links,
                           !.at = "file"]
    IN /\ r.at = "open"
       /\ CASE r.op = "upload" -> Moves(c, [r EXCEPT !.at = IF r.resume THEN "stat" ELSE "copy"])
            [] r.op = "download" -> Moves(c, [r EXCEPT !.at = "copy"])
            [] r.op = "mirror" -> Moves(c, [r EXCEPT !.at = "walk"])
            [] OTHER -> Moves(c, IF batch.todo = {} THEN End(batch, "ok") ELSE batch)
       /\ UNCHANGED <<now, disk, made, edits, blur>>

\* mirror: the root is stat'ed and walked; a directory that cannot be read is
\* left out without a word (every path of the model has a directory of its own).
\* Mutant: an empty listing is not the end of the call.
ReadFrom(unread) == {f \in Files : Exists("remote", f)} \ unread
SeenOf(listing) ==
    [f \in Files |-> IF f \in listing
                     THEN [size |-> Len(At("remote", f).data), mtime |-> At("remote", f).mtime]
                     ELSE [size |-> 0, mtime |-> 0]]
WalkNotEnded(c, unread) ==
    LET listing == ReadFrom(unread)
    IN /\ call[c].at = "walk"
       /\ Moves(c, [call[c] EXCEPT !.todo = listing, !.scope = listing,
                                   !.seen = SeenOf(listing), !.at = "file"])
       /\ UNCHANGED <<now, disk, made, edits, blur>>
WalkRemote(c, unread) ==
    LET listing == ReadFrom(unread)
        walked == [call[c] EXCEPT !.todo = listing, !.scope = listing,
                                  !.seen = SeenOf(listing), !.at = "file"]
    IN /\ call[c].at = "walk"
       /\ Moves(c, IF listing = {} THEN End(walked, "ok") ELSE walked)
       /\ UNCHANGED <<now, disk, made, edits, blur>>

\* No connection, or the root of mirror is no directory.
OpenFails(c) ==
    /\ call[c].at \in {"open", "walk"}
    /\ Moves(c, End(call[c], "error"))
    /\ UNCHANGED <<now, disk, made, edits, blur>>

-----------------------------------------------------------------------------
(* Batches: what to do with the next file *)

\* The source is looked at: locally without an await, on the host by stat;
\* mirror uses what its walk saw.
BeginFile(c) ==
    LET r == call[c]
        f == File(c)
        known(size, mtime) == [r EXCEPT !.at = "compare", !.size = size, !.mtime = mtime]
        src == At(Src(r.op), f)
    IN /\ r.at = "file"
       /\ Moves(c,
            CASE r.op = "sync" /\ (f \in Links \/ ~Exists("local", f)) -> NextFile(r)
              [] r.op = "upload-list" /\ ~Exists("local", f) -> FileFailed(r)
              [] r.op = "download-list" /\ ~Exists("remote", f) -> FileFailed(r)
              [] r.op = "mirror" /\ f \in Links -> FileFailed(r)
              [] r.op = "mirror" /\ f \notin Links -> known(r.seen[f].size, r.seen[f].mtime)
              [] OTHER -> known(Len(src.data), src.mtime))
       /\ UNCHANGED <<now, disk, made, edits, blur>>

\* _files_match, and its copies in download-list and mirror.  A stat that
\* fails (uploads) counts as no match.
\* Mutant: files of the same size are taken for the same.
CompareSizes(c, statFails) ==
    LET r == call[c]
        same == /\ Exists(Dst(r.op), File(c)) /\ ~statFails
                /\ Len(At(Dst(r.op), File(c)).data) = r.size
    IN /\ r.at = "compare"
       /\ Moves(c, IF same THEN Skip(r) ELSE [r EXCEPT !.at = "copy"])
       /\ UNCHANGED <<now, disk, made, edits, blur>>
Compare(c, statFails) ==
    LET r == call[c]
        f == File(c)
        dst == At(Dst(r.op), f)
        same == /\ Exists(Dst(r.op), f) /\ ~statFails /\ Len(dst.data) = r.size
        trusted == [r EXCEPT !.guessed = IF f \in blur THEN @ \cup {f} ELSE @]
    IN /\ r.at = "compare"
       /\ statFails => r.op \in Uploads
       /\ Moves(c, IF same /\ r.checksum THEN [r EXCEPT !.at = "rhash"]
                   ELSE IF same /\ MtimeMatch(dst.mtime, r.mtime) THEN Skip(trusted)
                   ELSE [r EXCEPT !.at = "copy"])
       /\ UNCHANGED <<now, disk, made, edits, blur>>

\* sha256sum on the host; it may be missing, or fail.
RemoteHash(c, available) ==
    LET r == call[c]
    IN /\ r.at = "rhash"
       /\ Moves(c, IF available /\ Exists("remote", File(c))
                   THEN [r EXCEPT !.at = "lhash", !.hash = At("remote", File(c)).data,
                                  !.shared = FALSE]
                   ELSE [r EXCEPT !.at = "copy"])
       /\ UNCHANGED <<now, disk, made, edits, blur>>

LocalHash(c) ==
    LET r == call[c]
    IN /\ r.at = "lhash"
       /\ Moves(c, IF ~Exists("local", File(c)) THEN FileFailed(r)
                   ELSE IF At("local", File(c)).data = r.hash THEN Skip(r)
                   ELSE [r EXCEPT !.at = "copy"])
       /\ UNCHANGED <<now, disk, made, edits, blur>>

-----------------------------------------------------------------------------
(* Upload: resuming a partial file *)

StatRemote(c, statFails) ==
    LET r == call[c]
        partial == /\ ~statFails /\ Exists("remote", File(c))
                   /\ 0 < Len(At("remote", File(c)).data)
                   /\ Len(At("remote", File(c)).data) < r.size
    IN /\ r.at = "stat"
       /\ Moves(c, IF partial
                   THEN [r EXCEPT !.at = "append", !.offset = Len(At("remote", File(c)).data)]
                   ELSE [r EXCEPT !.at = "copy"])
       /\ UNCHANGED <<now, disk, made, edits, blur>>

\* _sftp_append_tail: the write lands at the end of the file as it is then.
AppendChunk(c) ==
    LET r == call[c]
        f == File(c)
        have == IF Exists("remote", f) THEN At("remote", f).data ELSE <<>>
    IN /\ r.at = "append" /\ Exists("local", f)
       /\ r.offset < Len(At("local", f).data)
       /\ Writes("remote", f, Append(have, At("local", f).data[r.offset + 1]))
       /\ MovesWriting(c, [r EXCEPT !.offset = @ + 1], "remote", f)
       /\ UNCHANGED <<now, made, edits>>

AppendEnds(c) ==
    /\ call[c].at = "append"
    /\ Exists("local", File(c)) => call[c].offset >= Len(At("local", File(c)).data)
    /\ Moves(c, [call[c] EXCEPT !.at = "verifyL"])
    /\ UNCHANGED <<now, disk, made, edits, blur>>

VerifyLocal(c) ==
    LET r == call[c]
    IN /\ r.at = "verifyL"
       /\ IF Exists("local", File(c))
          THEN Moves(c, [r EXCEPT !.at = "verifyR", !.hash = At("local", File(c)).data])
          ELSE GivesUp(c, FileFailed(r))
       /\ UNCHANGED <<now, disk, made, edits, blur>>

\* The tail is kept only if the whole file is known to be right.
VerifyRemote(c, available) ==
    LET r == call[c]
        right == /\ available /\ Exists("remote", File(c))
                 /\ At("remote", File(c)).data = r.hash
    IN /\ r.at = "verifyR"
       /\ Moves(c, IF right THEN NextFile(r) ELSE [r EXCEPT !.at = "copy"])
       /\ UNCHANGED <<now, disk, made, edits, blur>>

-----------------------------------------------------------------------------
(* sftp.put and sftp.get with preserve=True *)

CopyOpen(c) ==
    LET r == call[c]
        f == File(c)
        src == At(Src(r.op), f)
    IN /\ r.at = "copy" /\ Exists(Src(r.op), f)
       /\ Writes(Dst(r.op), f, <<>>)
       /\ MovesWriting(c, [r EXCEPT !.at = "write", !.left = 1..Len(src.data),
                                    !.mtime = src.mtime, !.shared = FALSE], Dst(r.op), f)
       /\ UNCHANGED <<now, made, edits>>

CopyChunk(c, i) ==
    LET r == call[c]
        f == File(c)
        src == At(Src(r.op), f)
    IN /\ r.at = "write" /\ i \in r.left
       /\ Exists(Src(r.op), f) /\ i <= Len(src.data)
       /\ IF Exists(Dst(r.op), f)
          THEN Writes(Dst(r.op), f, WriteAt(At(Dst(r.op), f).data, i, src.data[i]))
          ELSE UNCHANGED <<disk, blur>>     \* the open file was deleted
       /\ MovesWriting(c, [r EXCEPT !.left = @ \ {i}], Dst(r.op), f)
       /\ UNCHANGED <<now, made, edits>>

\* The mtime set is the source's before or after the data was read.  It tells
\* the contents apart from then on, unless the source changed under the copy
\* or another call wrote the same file.
CopyEnds(c, mtime) ==
    LET r == call[c]
        f == File(c)
        unsure == f \in r.dirty \/ r.shared
    IN /\ r.at = "write" /\ r.left = {}
       /\ Exists(Src(r.op), f) /\ Exists(Dst(r.op), f)
       /\ mtime \in {r.mtime, At(Src(r.op), f).mtime}
       /\ disk' = [disk EXCEPT ![Dst(r.op)][f].mtime = mtime]
       /\ blur' = IF unsure THEN blur \cup {f} ELSE blur \ {f}
       /\ MovesWriting(c, NextFile(r), Dst(r.op), f)
       /\ UNCHANGED <<now, made, edits>>

\* An SFTP request fails, the source is gone or shorter than it was.
Raises(c) ==
    /\ call[c].at \in {"append", "copy", "write"}
    /\ GivesUp(c, FileFailed(call[c]))
    /\ UNCHANGED <<now, disk, made, edits, blur>>

\* The MCP client cancels the request.
Cancel(c) ==
    /\ Running(c)
    /\ GivesUp(c, End(call[c], "cancelled"))
    /\ UNCHANGED <<now, disk, made, edits, blur>>

-----------------------------------------------------------------------------
(* Other programs, and time *)

Edited(f) ==
    call' = [c \in Calls |-> IF call[c].op = "none" THEN call[c]
                             ELSE [call[c] EXCEPT !.dirty = @ \cup {f}]]
Edit(s, f, v) ==
    /\ edits < MaxEdits /\ edits' = edits + 1
    /\ f \notin Links
    /\ Writes(s, f, v) /\ Edited(f)
    /\ UNCHANGED <<now, made>>

Delete(s, f) ==
    /\ edits < MaxEdits /\ edits' = edits + 1
    /\ f \notin Links /\ Exists(s, f)
    /\ disk' = [disk EXCEPT ![s][f] = NoFile]
    /\ Edited(f)
    /\ UNCHANGED <<now, made, blur>>

Tick ==
    /\ now < MaxTime /\ now' = now + 1
    /\ UNCHANGED <<disk, call, made, edits, blur>>

Init ==
    /\ now = 0 /\ made = 0 /\ edits = 0 /\ blur = {}
    /\ call = [c \in Calls |-> Idle]
    /\ \E side \in Sides, v \in Versions :
         disk = [s \in Sides |-> [f \in Files |->
                   IF s = side /\ (s = "remote" \/ f \notin Links)
                   THEN [data |-> v, mtime |-> 0] ELSE NoFile]]

Next ==
    \/ \E c \in Calls :
         \/ \E op \in Uploads \cup Downloads, ck, rs \in BOOLEAN, f \in Files :
               Invoke(c, op, ck, rs, f)
         \/ Connect(c) \/ OpenFails(c)
         \/ \E unread \in SUBSET (Files \ Links) : WalkRemote(c, unread)
         \/ BeginFile(c) \/ \E fails \in BOOLEAN : Compare(c, fails)
         \/ \E there \in BOOLEAN : RemoteHash(c, there)
         \/ LocalHash(c)
         \/ \E fails \in BOOLEAN : StatRemote(c, fails)
         \/ AppendChunk(c) \/ AppendEnds(c)
         \/ VerifyLocal(c) \/ \E there \in BOOLEAN : VerifyRemote(c, there)
         \/ CopyOpen(c)
         \/ \E i \in call[c].left : CopyChunk(c, i)
         \/ \E m \in 0..now : CopyEnds(c, m)
         \/ Raises(c) \/ Cancel(c)
    \/ \E s \in Sides, f \in Files : (\E v \in Versions : Edit(s, f, v)) \/ Delete(s, f)
    \/ Tick

Spec == Init /\ [][Next]_vars

-----------------------------------------------------------------------------
(* Properties *)

SameData(f) ==
    /\ Exists("local", f) /\ Exists("remote", f)
    /\ At("local", f).data = At("remote", f).data

\* What a call that answers "ok" promises: every file it answers for is the
\* same on both sides as soon as no call is writing it, in whatever order
\* retries, resumed uploads and fresh copies of one path wrote it.  Three kinds
\* of files are excepted: those another program changed meanwhile (dirty);
\* those that a call under way then, or a later one, gave up writing (spoiled);
\* and those it skipped on mtimes that match by accident (guessed) - what an
\* interrupted copy left at its full length less than Tolerance from the
\* source's mtime, or an edit that keeps the size right after a transfer.
\* (ssh_upload_file, ssh_sync_directory, ssh_mirror_directory, the lists.)
TransfersAgree ==
    \A c \in Calls : call[c].status = "ok" =>
        \A f \in call[c].scope \ (call[c].dirty \cup call[c].spoiled \cup call[c].guessed) :
            (\A d \in Calls : Writing(d) => File(d) # f) => SameData(f)

\* A file is skipped only if it need not be copied (_files_match): on mtimes,
\* unless a write within the tolerance of the other side's mtime, or a copy of
\* a file that something else was changing, has blurred them, or the source
\* changed since the call began; on hashes, unless another call wrote the file
\* between the two.
SkipSound ==
    [][\A c \in Calls : \A f \in call'[c].skipped :
          (call[c].op = call'[c].op /\ f \notin call[c].skipped) =>
             \/ SameData(f)
             \/ f \in call'[c].dirty \cup call'[c].guessed
             \/ call[c].checksum /\ call[c].shared
      ]_vars
=============================================================================

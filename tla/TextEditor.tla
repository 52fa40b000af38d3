----------------------------- MODULE TextEditor -----------------------------
(***************************************************************************)
(* remote_read and remote_patch of remote_text_editor.py on one remote     *)
(* file: calls that page through it, then patch it over SFTP or sudo, next *)
(* to each other and to programs on the host that write it.                *)
(*                                                                         *)
(* A text is a sequence of tokens, NL among them, each one byte long.  A   *)
(* step of a call is one request to the host; what the code does between   *)
(* two awaits is part of the step before.  A request that breaks may or    *)
(* may not have taken effect.  The pool connections under the requests are *)
(* ConnectionPool's.                                                       *)
(***************************************************************************)
EXTENDS Integers, Sequences, FiniteSets, SequencesExt

CONSTANTS
    Calls,              \* an agent reading and patching once
    Asks,               \* the patches and options a call may be given
    Tokens, NL,         \* what texts are made of; the newline
    FirstText,          \* the file at the start
    ForeignTexts,       \* what other programs write to it
    MaxForeign,         \* bound: their writes in a behaviour
    READ_MAX_LINES,
    READ_MAX_BYTES,
    ReadEnds,           \* the ends a reader asks for, ToEOF among them
    ToEOF               \* a patch's end given as null

ASSUME EditorAssumption ==
    /\ READ_MAX_LINES \in Nat \ {0}
    /\ READ_MAX_BYTES \in Nat
    /\ MaxForeign \in Nat
    /\ NL \in Tokens
    /\ FirstText \in Seq(Tokens) /\ ForeignTexts \subseteq Seq(Tokens)
    /\ \A end \in ReadEnds : end = ToEOF \/ end \in Int
    /\ \A c \in Calls : \A a \in Asks[c] :
          /\ a.use_sudo \in BOOLEAN
          /\ Len(a.patches) \in Nat /\ DOMAIN a.patches = 1 .. Len(a.patches)
          /\ \A i \in DOMAIN a.patches :
                /\ a.patches[i].start \in Int
                /\ a.patches[i].end = ToEOF \/ a.patches[i].end \in Int
                /\ a.patches[i].contents \in Seq(Tokens)

\* No such file.
Absent == [owner |-> "nobody"]

VARIABLES
    target,             \* the file: its text and its owner, or Absent
    posix,              \* the SFTP server has posix-rename
    tmp,                \* each call's file beside the target
    stage,              \* each sudo call's staged copy in $HOME
    pc,                 \* where each call is
    sudo,               \* its use_sudo
    page,               \* its paging: where it is, pages so far, hashes seen
    new_full,           \* the patched text
    want,               \* history: the texts the caller may expect
    created,            \* _atomic_write's flag
    up,                 \* its SFTP session still answers
    script,             \* the sudo script on the host
    stat,               \* the owner recorded for the script
    result,             \* what remote_patch returned or that it raised
    foreign             \* writes of other programs

vars == <<target, posix, tmp, stage, pc, sudo, page, new_full, want, created, up,
          script, stat, result, foreign>>

-----------------------------------------------------------------------------
(* Lines and hashes.                                                       *)

Greater(a, b) == IF a > b THEN a ELSE b
Lesser(a, b) == IF a < b THEN a ELSE b

\* The hash of a text: equal exactly for equal texts.
Sha256(text) == <<"sha256", text>>

\* Lines keep their newline; the last one may have none.
SplitKeepends(text) ==
    LET ends  == {i \in DOMAIN text : text[i] = NL \/ i = Len(text)}
        nth(k) == IF k = 0 THEN 0
                  ELSE CHOOSE e \in ends : Cardinality({i \in ends : i <= e}) = k
    IN  [k \in 1 .. Cardinality(ends) |-> SubSeq(text, nth(k - 1) + 1, nth(k))]

Join(lines) == FoldLeft(LAMBDA x, y : x \o y, <<>>, lines)

EndsWithNL(text) == text # <<>> /\ Last(text) = NL

-----------------------------------------------------------------------------
\* Mutant: the next page starts on the last line of this one.
PageOverlapping(text, start, end, limit) ==
    LET lines == SplitKeepends(text)
        requested == IF end = ToEOF THEN Len(lines) ELSE Lesser(Len(lines), end)
        cut == Lesser(requested, start - 1 + Greater(1, limit))
    IN  [content |-> Join(SubSeq(lines, start, cut)),
         next_start |-> IF cut < requested THEN Greater(cut, start + 1) ELSE 0]

\* Mutant: the byte cap applies to the first line of a page too.
PageMayBeEmpty(text, start, end, limit) ==
    LET lines == SplitKeepends(text)
        requested == IF end = ToEOF THEN Len(lines) ELSE Lesser(Len(lines), end)
        cap == Lesser(requested, start - 1 + Greater(1, limit))
        cut == Max({start - 1} \cup {n \in start .. cap :
                       Len(Join(SubSeq(lines, start, n))) <= READ_MAX_BYTES})
    IN  [content |-> Join(SubSeq(lines, start, cut)),
         next_start |-> IF cut < requested THEN cut + 1 ELSE 0]

(* One page of lines start .. end, with the line to continue from, 0 if    *)
(* the page is the last one.  A page has at least one line.                *)
Page(text, start, end, limit) ==
    LET lines     == SplitKeepends(text)
        s         == Greater(0, start - 1)
        requested == IF end = ToEOF THEN Len(lines) ELSE Greater(0, Lesser(Len(lines), end))
        fits(n)   == n = s + 1 \/ Len(Join(SubSeq(lines, s + 1, n))) <= READ_MAX_BYTES
        cap       == Lesser(requested, s + Greater(1, limit))
        cut       == Max({n \in s + 1 .. cap : fits(n)})
    IN  IF s >= requested
        THEN [content |-> <<>>, next_start |-> 0]
        ELSE [content |-> Join(SubSeq(lines, s + 1, cut)),
              next_start |-> IF cut < requested THEN cut + 1 ELSE 0]

-----------------------------------------------------------------------------
(* Patches: start, end, contents, range_hash.                              *)

NoHash == <<"none">>

\* Bottom to top; patches with the same start in the order given.
SortedPatches(patches) ==
    LET before(i, j) == \/ patches[i].start > patches[j].start
                        \/ patches[i].start = patches[j].start /\ i < j
        order == CHOOSE o \in [DOMAIN patches -> DOMAIN patches] :
                     \A i, j \in DOMAIN patches : i < j => before(o[i], o[j])
    IN  [k \in DOMAIN patches |-> patches[order[k]]]

\* The 0-based slice of a patch, its end clamped to the file.
SIdx(p) == p.start - 1
EIdx(p, total) == IF p.end = ToEOF THEN total ELSE Greater(0, Lesser(total, p.end))
ExistingSlice(p, lines) == Join(SubSeq(lines, SIdx(p) + 1, EIdx(p, Len(lines))))

\* Mutant: a patch may reach one line into the next.
OverlappingByOne(parsed, total) ==
    \E i \in 1 .. Len(parsed) - 1 :
        LET lower == parsed[i + 1]
        IN  (IF lower.end = ToEOF THEN total ELSE lower.end) > SIdx(parsed[i]) + 1

Overlapping(parsed, total) ==
    \E i \in 1 .. Len(parsed) - 1 :
        LET lower == parsed[i + 1]
        IN  (IF lower.end = ToEOF THEN total ELSE Greater(0, lower.end)) > SIdx(parsed[i])

\* remote_patch returns an error and writes nothing.
Refused(text, patches) ==
    LET lines == SplitKeepends(text)
    IN  \/ patches = <<>>
        \/ Overlapping(SortedPatches(patches), Len(lines))
        \/ \E i \in DOMAIN patches :
              LET p == patches[i]
              IN  \/ SIdx(p) \notin 0 .. Len(lines)
                  \/ /\ SIdx(p) >= 0 /\ p.range_hash # NoHash
                     /\ p.range_hash # Sha256(ExistingSlice(p, lines))

\* contents, with the newline that auto_newline adds.
NewContents(p, lines, auto_newline) ==
    IF /\ auto_newline
       /\ p.contents # <<>> /\ ~EndsWithNL(p.contents)
       /\ EndsWithNL(ExistingSlice(p, lines))
    THEN Append(p.contents, NL)
    ELSE p.contents

\* Slice assignment, which inserts at s when e < s.
SetSlice(seq, s, e, new) == SubSeq(seq, 1, s) \o new \o SubSeq(seq, Greater(s, e) + 1, Len(seq))

Patched(text, patches, auto_newline) ==
    LET lines == SplitKeepends(text)
        apply(new_lines, p) ==
            SetSlice(new_lines, SIdx(p), EIdx(p, Len(lines)),
                     SplitKeepends(NewContents(p, lines, auto_newline)))
    IN  Join(FoldLeft(apply, lines, SortedPatches(patches)))

(* The reference: one pass from the top that copies what lies between the  *)
(* patches.  Patches that start at the same line may come in either order. *)
Expected(text, patches, auto_newline) ==
    LET lines  == SplitKeepends(text)
        n      == Len(patches)
        orders == {o \in [1 .. n -> 1 .. n] :
                      \A i, j \in 1 .. n :
                          i < j => o[i] # o[j] /\ patches[o[i]].start <= patches[o[j]].start}
        copy(acc, k) ==
            LET p == patches[k]
            IN  [text |-> acc.text \o Join(SubSeq(lines, acc.upto + 1, SIdx(p)))
                                   \o NewContents(p, lines, auto_newline),
                 upto |-> Greater(acc.upto, Greater(SIdx(p), EIdx(p, Len(lines))))]
        render(o) ==
            LET acc == FoldLeft(copy, [text |-> <<>>, upto |-> 0], o)
            IN  acc.text \o Join(SubSeq(lines, acc.upto + 1, Len(lines)))
    IN  {render(o) : o \in orders}

-----------------------------------------------------------------------------
Texts == Seq(Tokens)
Owners == {"root", "login", "cp", "other"}
Results == {"none", "ok", "refused", "unverified", "raised"}

\* The requests of _atomic_write, which share one SFTP session.
Session == {"open", "write", "rename", "remove", "move", "sweep"}
Points == Session \cup {"read", "patch", "cleanup", "stat", "stage_open",
                        "stage_write", "place", "unstage", "verify", "done"}
ScriptRuns == {"cp", "chown", "mv"}

NoPage == [start |-> 1, end |-> ToEOF, content |-> <<>>, hashes |-> {}, file_hash |-> NoHash]

\* Type invariant.
EditorTypeOK ==
    /\ target = Absent \/ target \in [text : Texts, owner : Owners]
    /\ posix \in BOOLEAN
    /\ \A c \in Calls :
          /\ tmp[c] = Absent \/ tmp[c] \in [text : Texts, owner : Owners, old : BOOLEAN]
          /\ stage[c] = Absent \/ stage[c] \in Texts
          /\ page[c].start \in Nat \ {0} /\ page[c].content \in Texts
          /\ new_full[c] \in Texts
          /\ \A t \in want[c] : t \in Texts
    /\ pc \in [Calls -> Points]
    /\ sudo \in [Calls -> BOOLEAN]
    /\ created \in [Calls -> BOOLEAN]
    /\ up \in [Calls -> BOOLEAN]
    /\ script \in [Calls -> ScriptRuns \cup {"none", "ok", "failed", "killed"}]
    /\ stat \in [Calls -> Owners \cup {"none"}]
    /\ result \in [Calls -> Results]
    /\ foreign \in 0 .. MaxForeign

Init ==
    /\ target = [text |-> FirstText, owner |-> "root"]
    /\ posix \in BOOLEAN
    /\ tmp = [c \in Calls |-> Absent]
    /\ stage = [c \in Calls |-> Absent]
    /\ pc = [c \in Calls |-> "read"]
    /\ sudo = [c \in Calls |-> FALSE]
    /\ page = [c \in Calls |-> NoPage]
    /\ new_full = [c \in Calls |-> <<>>]
    /\ want = [c \in Calls |-> {}]
    /\ created = [c \in Calls |-> FALSE]
    /\ up = [c \in Calls |-> TRUE]
    /\ script = [c \in Calls |-> "none"]
    /\ stat = [c \in Calls |-> "none"]
    /\ result = [c \in Calls |-> "none"]
    /\ foreign = 0

-----------------------------------------------------------------------------
fileVars == <<target, tmp, stage>>
sudoVars == <<script, stat>>
planVars == <<sudo, page, new_full, want>>
flags == <<created, up>>

Goto(c, point) == pc' = [pc EXCEPT ![c] = point] /\ UNCHANGED result
Return(c, r) ==
    /\ pc' = [pc EXCEPT ![c] = "done"]
    /\ result' = [result EXCEPT ![c] = r]

(* Reading.                                                                *)

\* remote_read(start, end, limit): one page; the caller goes on from
\* next_start until there is none, then patches with the last file_hash.
Read(c) ==
    /\ pc[c] = "read" /\ target # Absent
    /\ \E limit \in 0 .. READ_MAX_LINES,
          end \in IF page[c].hashes = {} THEN ReadEnds ELSE {page[c].end} :
          LET p == Page(target.text, page[c].start, end, limit)
              h == Sha256(target.text)
          IN  /\ page' = [page EXCEPT ![c] =
                    [start |-> IF p.next_start = 0 THEN page[c].start ELSE p.next_start,
                     end |-> end,
                     content |-> page[c].content \o p.content,
                     hashes |-> page[c].hashes \cup {h},
                     file_hash |-> h]]
              /\ Goto(c, IF p.next_start = 0 THEN "patch" ELSE "read")
    /\ UNCHANGED <<fileVars, posix, sudo, new_full, want, flags, sudoVars, foreign>>

\* remote_patch up to the write: the file is read again, its hash compared
\* with the caller's, the patches validated and applied.
Patch(c) ==
    /\ pc[c] = "patch" /\ target # Absent
    /\ \E a \in Asks[c] :
          LET full == target.text
              stale == Sha256(full) # page[c].file_hash
          IN  \/ /\ stale \/ Refused(full, a.patches)
                 /\ Return(c, "refused")
                 /\ page' = [page EXCEPT ![c] = NoPage]
                 /\ UNCHANGED <<sudo, new_full, want>>
              \/ /\ ~stale /\ ~Refused(full, a.patches)
                 /\ new_full' = [new_full EXCEPT ![c] = Patched(full, a.patches, a.auto_newline)]
                 /\ want' = [want EXCEPT ![c] =
                                Expected(page[c].file_hash[2], a.patches, a.auto_newline)]
                 /\ sudo' = [sudo EXCEPT ![c] = a.use_sudo]
                 /\ page' = [page EXCEPT ![c] = NoPage]
                 /\ Goto(c, IF a.use_sudo THEN "stat" ELSE "open")
    /\ UNCHANGED <<fileVars, posix, flags, sudoVars, foreign>>

\* A read raises: the file is gone, no connection, no sudo password.
ReadFails(c) ==
    /\ pc[c] \in {"read", "patch", "verify"}
    /\ page' = [page EXCEPT ![c] = NoPage]
    /\ Return(c, "raised")
    /\ UNCHANGED <<fileVars, posix, sudo, new_full, want, flags, sudoVars, foreign>>

\* The write is read back and compared.
Verify(c) ==
    /\ pc[c] = "verify" /\ target # Absent
    /\ Return(c, IF Sha256(target.text) = Sha256(new_full[c]) THEN "ok" ELSE "unverified")
    /\ UNCHANGED <<fileVars, posix, planVars, flags, sudoVars, foreign>>

-----------------------------------------------------------------------------
(* _atomic_write: what each request does on the host, and the steps.       *)

OpenRequest(c) ==
    /\ tmp' = [tmp EXCEPT ![c] = [text |-> <<>>, owner |-> "login", old |-> FALSE]]
    /\ UNCHANGED target
\* A swept file is written through the open handle and stays gone.
WriteRequest(c, text) ==
    /\ tmp' = IF tmp[c] = Absent THEN tmp ELSE [tmp EXCEPT ![c].text = text]
    /\ UNCHANGED target
RenameRequest(c) ==
    /\ tmp[c] # Absent
    /\ target' = [text |-> tmp[c].text, owner |-> tmp[c].owner]
    /\ tmp' = [tmp EXCEPT ![c] = Absent]
RemoveRequest ==
    /\ target' = Absent
    /\ UNCHANGED tmp

Open(c) ==
    /\ pc[c] = "open"
    /\ OpenRequest(c)
    /\ created' = [created EXCEPT ![c] = TRUE]
    /\ Goto(c, "write")
    /\ UNCHANGED <<posix, stage, planVars, up, sudoVars, foreign>>

Write(c) ==
    /\ pc[c] = "write"
    /\ WriteRequest(c, new_full[c])
    /\ Goto(c, "rename")
    /\ UNCHANGED <<posix, stage, planVars, flags, sudoVars, foreign>>

PosixRename(c) ==
    /\ pc[c] = "rename" /\ posix
    /\ RenameRequest(c)
    /\ created' = [created EXCEPT ![c] = FALSE]
    /\ Goto(c, "sweep")
    /\ UNCHANGED <<posix, stage, planVars, up, sudoVars, foreign>>

\* Mutant: any error of posix_rename leads to remove and rename.
FallsBackOnAnyError(c) ==
    /\ pc[c] = "rename" /\ (~posix \/ tmp[c] = Absent)
    /\ Goto(c, "remove")
    /\ UNCHANGED <<fileVars, posix, planVars, flags, sudoVars, foreign>>

\* SFTPOpUnsupported: fall back to remove and rename.
PosixRenameUnsupported(c) ==
    /\ pc[c] = "rename" /\ ~posix
    /\ Goto(c, "remove")
    /\ UNCHANGED <<fileVars, posix, planVars, flags, sudoVars, foreign>>

RemoveTarget(c) ==
    /\ pc[c] = "remove"
    /\ RemoveRequest
    /\ Goto(c, "move")
    /\ UNCHANGED <<posix, stage, planVars, flags, sudoVars, foreign>>

\* Plain rename refuses an existing target.
Rename(c) ==
    /\ pc[c] = "move" /\ target = Absent
    /\ RenameRequest(c)
    /\ created' = [created EXCEPT ![c] = FALSE]
    /\ Goto(c, "sweep")
    /\ UNCHANGED <<posix, stage, planVars, up, sudoVars, foreign>>

\* Best effort: any of the old tmp files may fail to go.
Sweep(c) ==
    /\ pc[c] = "sweep"
    /\ \E gone \in SUBSET {d \in Calls : tmp[d] # Absent /\ ~sudo[d] /\ tmp[d].old} :
          tmp' = [d \in Calls |-> IF d \in gone THEN Absent ELSE tmp[d]]
    /\ Goto(c, "verify")
    /\ UNCHANGED <<target, stage, posix, planVars, flags, sudoVars, foreign>>

\* A request raises: refused by the server, cancelled, or the session (or
\* the server process) is gone.  It may have taken effect; a write, in part.
Break(c) ==
    /\ pc[c] \in Session
    /\ \/ pc[c] = "open" /\ OpenRequest(c)
       \/ pc[c] = "write" /\ WriteRequest(c, SubSeq(new_full[c], 1, Len(new_full[c]) - 1))
       \/ pc[c] = "rename" /\ posix /\ RenameRequest(c)
       \/ pc[c] = "remove" /\ RemoveRequest
       \/ pc[c] = "move" /\ target = Absent /\ RenameRequest(c)
       \/ UNCHANGED <<target, tmp>>
    /\ \E alive \in BOOLEAN : up' = [up EXCEPT ![c] = alive]
    /\ Goto(c, "cleanup")
    /\ UNCHANGED <<posix, stage, planVars, created, sudoVars, foreign>>

\* Mutant: the tmp file is left to the sweep.
CleanupLeftToSweep(c) ==
    /\ pc[c] = "cleanup"
    /\ Return(c, "raised")
    /\ UNCHANGED <<fileVars, posix, planVars, flags, sudoVars, foreign>>

\* The except clause: remove the tmp file if it was created, and raise.
Cleanup(c) ==
    /\ pc[c] = "cleanup"
    /\ tmp' = IF created[c] /\ up[c] THEN [tmp EXCEPT ![c] = Absent] ELSE tmp
    /\ Return(c, "raised")
    /\ UNCHANGED <<target, stage, posix, planVars, flags, sudoVars, foreign>>

-----------------------------------------------------------------------------
(* _sudo_write_atomic: stat, stage in $HOME, one script that places the    *)
(* copy, remove the staged copy.                                           *)

SudoStat(c) ==
    /\ pc[c] = "stat" /\ target # Absent
    /\ stat' = [stat EXCEPT ![c] = target.owner]
    /\ Goto(c, "stage_open")
    /\ UNCHANGED <<fileVars, posix, planVars, flags, script, foreign>>

\* No password, no such target, a timeout, or an owner it does not trust.
SudoStatFails(c) ==
    /\ pc[c] = "stat"
    /\ Return(c, "raised")
    /\ UNCHANGED <<fileVars, posix, planVars, flags, sudoVars, foreign>>

StageOpen(c) ==
    /\ pc[c] = "stage_open"
    /\ stage' = [stage EXCEPT ![c] = <<>>]
    /\ Goto(c, "stage_write")
    /\ UNCHANGED <<target, tmp, posix, planVars, flags, sudoVars, foreign>>

\* The copy is complete; the script starts.
StageWrite(c) ==
    /\ pc[c] = "stage_write"
    /\ stage' = [stage EXCEPT ![c] = new_full[c]]
    /\ script' = [script EXCEPT ![c] = "cp"]
    /\ Goto(c, "place")
    /\ UNCHANGED <<target, tmp, posix, planVars, flags, stat, foreign>>

\* Staging raises; what is in $HOME stays there.
StageBreaks(c) ==
    /\ pc[c] \in {"stage_open", "stage_write"}
    /\ \/ pc[c] = "stage_open" /\ stage' = [stage EXCEPT ![c] = <<>>]
       \/ pc[c] = "stage_write" /\ stage' = [stage EXCEPT ![c] = new_full[c]]
       \/ UNCHANGED stage
    /\ Return(c, "raised")
    /\ UNCHANGED <<target, tmp, posix, planVars, flags, sudoVars, foreign>>

\* The script: cp && chown && chmod && mv || { rm; exit 1; }
ScriptCp(c) ==
    /\ script[c] = "cp" /\ stage[c] # Absent
    /\ tmp' = [tmp EXCEPT ![c] = [text |-> stage[c], owner |-> "cp", old |-> FALSE]]
    /\ script' = [script EXCEPT ![c] = "chown"]
    /\ UNCHANGED <<target, stage, posix, pc, planVars, flags, stat, result, foreign>>

ScriptChown(c) ==
    /\ script[c] = "chown"
    /\ tmp' = [tmp EXCEPT ![c].owner = stat[c]]
    /\ script' = [script EXCEPT ![c] = "mv"]
    /\ UNCHANGED <<target, stage, posix, pc, planVars, flags, stat, result, foreign>>

ScriptMv(c) ==
    /\ script[c] = "mv"
    /\ RenameRequest(c)
    /\ script' = [script EXCEPT ![c] = "ok"]
    /\ UNCHANGED <<stage, posix, pc, planVars, flags, stat, result, foreign>>

\* A command of the script fails, cp when the staged copy is gone.
ScriptFails(c) ==
    /\ script[c] \in ScriptRuns
    /\ tmp' = [tmp EXCEPT ![c] = Absent]
    /\ script' = [script EXCEPT ![c] = "failed"]
    /\ UNCHANGED <<target, stage, posix, pc, planVars, flags, stat, result, foreign>>

\* The script is killed where it is.
ScriptKilled(c) ==
    /\ script[c] \in ScriptRuns
    /\ script' = [script EXCEPT ![c] = "killed"]
    /\ UNCHANGED <<fileVars, posix, pc, planVars, flags, stat, result, foreign>>

\* Mutant: the script's outcome becomes the call's.
PlacePassesOutcomeOn(c) ==
    /\ pc[c] = "place" /\ script[c] \notin ScriptRuns
    /\ pc' = [pc EXCEPT ![c] = "unstage"]
    /\ result' = [result EXCEPT ![c] = script[c]]
    /\ UNCHANGED <<fileVars, posix, planVars, flags, sudoVars, foreign>>

\* The script's exit status arrives.
PlaceReturns(c) ==
    /\ pc[c] = "place" /\ script[c] \notin ScriptRuns
    /\ pc' = [pc EXCEPT ![c] = "unstage"]
    /\ result' = [result EXCEPT ![c] = IF script[c] = "ok" THEN "none" ELSE "raised"]
    /\ UNCHANGED <<fileVars, posix, planVars, flags, sudoVars, foreign>>

\* A timeout, a cancellation or a lost connection; the script may go on.
PlaceGivesUp(c) ==
    /\ pc[c] = "place"
    /\ pc' = [pc EXCEPT ![c] = "unstage"]
    /\ result' = [result EXCEPT ![c] = "raised"]
    /\ UNCHANGED <<fileVars, posix, planVars, flags, sudoVars, foreign>>

\* The finally clause removes the staged copy if it can.
Unstage(c) ==
    /\ pc[c] = "unstage"
    /\ stage' = [stage EXCEPT ![c] = Absent] \/ UNCHANGED stage
    /\ Goto(c, IF result[c] = "raised" THEN "done" ELSE "verify")
    /\ UNCHANGED <<target, tmp, posix, planVars, flags, sudoVars, foreign>>

-----------------------------------------------------------------------------
\* Another program saves the file.
ForeignWrite ==
    /\ foreign < MaxForeign
    /\ foreign' = foreign + 1
    /\ \E t \in ForeignTexts :
          target' = [text |-> t, owner |-> IF target = Absent THEN "other" ELSE target.owner]
    /\ UNCHANGED <<tmp, stage, posix, pc, planVars, flags, sudoVars, result>>

\* A tmp file becomes older than ORPHAN_TMP_MAX_AGE_S.
Age(c) ==
    /\ tmp[c] # Absent /\ ~tmp[c].old
    /\ tmp' = [tmp EXCEPT ![c].old = TRUE]
    /\ UNCHANGED <<target, stage, posix, pc, planVars, flags, sudoVars, result, foreign>>

Next ==
    \/ \E c \in Calls :
          \/ Read(c) \/ Patch(c) \/ ReadFails(c) \/ Verify(c)
          \/ Open(c) \/ Write(c) \/ PosixRename(c) \/ PosixRenameUnsupported(c)
          \/ RemoveTarget(c) \/ Rename(c) \/ Sweep(c) \/ Break(c) \/ Cleanup(c)
          \/ SudoStat(c) \/ SudoStatFails(c)
          \/ StageOpen(c) \/ StageWrite(c) \/ StageBreaks(c)
          \/ ScriptCp(c) \/ ScriptChown(c) \/ ScriptMv(c)
          \/ ScriptFails(c) \/ ScriptKilled(c)
          \/ PlaceReturns(c) \/ PlaceGivesUp(c) \/ Unstage(c)
          \/ Age(c)
    \/ ForeignWrite

Spec == Init /\ [][Next]_vars

-----------------------------------------------------------------------------
(* Properties.                                                             *)

\* A call puts at the path exactly the text its caller asked for, given the
\* text the caller read: all patches of the list applied to it and nothing
\* else, never a part of a write, whatever else wrote the file meanwhile and
\* however late the call's sudo script comes to its mv (_atomic_write,
\* _sudo_write_atomic, remote_patch).
CommitsWholePatch ==
    [][\A c \in Calls :
          (tmp'[c] # tmp[c] /\ target' # target) => target'.text \in want[c]]_vars

\* Pages that all carry the same file_hash, concatenated, are the lines
\* asked for of the file with that hash (remote_read's paging contract).
WalkReassembles ==
    \A c \in Calls :
        (pc[c] = "patch" /\ Cardinality(page[c].hashes) = 1) =>
            LET lines == SplitKeepends(page[c].file_hash[2])
            IN  page[c].content =
                    IF page[c].end = ToEOF THEN Join(lines)
                    ELSE Join(SubSeq(lines, 1, Lesser(page[c].end, Len(lines))))

\* next_start lies beyond the page it follows, even when one line exceeds
\* READ_MAX_BYTES and when the file changes between pages: paging ends.
PagesAdvance ==
    [][\A c \in Calls :
          (pc[c] = "read" /\ pc'[c] = "read" /\ page'[c] # page[c])
              => page'[c].start > page[c].start]_vars

\* With posix-rename, the path names a file at every moment, through
\* failures, cancellations and concurrent patches; and while only sudo patches
\* write it, it keeps its owner and mode, also when a script is killed, fails,
\* or outlives its call (_atomic_write, _sudo_write_atomic).
FileSurvives ==
    /\ posix => target # Absent
    /\ (target # Absent /\ \A c \in Calls : want[c] # {} => sudo[c])
          => target.owner = "root"

\* A call whose session stayed up and that saw its tmp file created, or that
\* returned ok, has left no tmp file (_atomic_write's failure contract).
TmpReclaimed ==
    \A c \in Calls :
        (pc[c] = "done" /\ ~sudo[c] /\ up[c] /\ (created[c] \/ result[c] = "ok"))
            => tmp[c] = Absent

\* Once every call has returned, the path still names a file: "Writes are
\* atomic (tmp file + rename)" (cli.py, remote_patch).
NothingLost == (\A c \in Calls : pc[c] = "done") => target # Absent
=============================================================================

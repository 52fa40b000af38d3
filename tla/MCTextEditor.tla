---------------------------- MODULE MCTextEditor ----------------------------
(* Text editor instances for TLC.                                          *)
EXTENDS TextEditor

CONSTANTS c1, c2, a, b, d, x, y, z

TwoCalls == {c1, c2}
AllTokens == {a, b, d, x, y, z, NL}

\* Three lines, the last without a newline, and a foreign text whose first
\* line exceeds READ_MAX_BYTES.
ThreeLines == <<a, NL, b, NL, d>>
SomeEnds == {ToEOF, 2}
OneForeign == {<<z, z, z, NL, z>>}

P(start, end, contents, hash) ==
    [start |-> start, end |-> end, contents |-> contents, range_hash |-> hash]

Singles ==
    {<<P(s, e, t, h)>> : s \in {0, 1, 2, 4, 5}, e \in {ToEOF, -1, 1}, t \in {<<>>, <<x>>},
                         h \in {NoHash, Sha256(<<a, NL>>)}}
Pairs ==
    {<<P(s1, e1, <<x, NL>>, NoHash), P(s2, e2, <<y>>, NoHash)>> :
        s1 \in 1 .. 3, s2 \in 1 .. 3, e1 \in {ToEOF, 0, 1, 2}, e2 \in {ToEOF, 0, 1, 2}}

One == <<P(1, 1, <<x, NL>>, NoHash)>>
Two == <<P(1, 0, <<x, NL>>, NoHash), P(2, ToEOF, <<y>>, NoHash)>>

ManyAsks ==
    [c \in TwoCalls |->
        IF c = c1
        THEN [patches : Singles \cup Pairs, auto_newline : BOOLEAN, use_sudo : {FALSE}]
             \cup [patches : {Two}, auto_newline : {TRUE}, use_sudo : {TRUE}]
        ELSE [patches : {One}, auto_newline : {FALSE}, use_sudo : BOOLEAN]]

\* The bound of the run: many patches of one call, or two calls side by side.
ManyOrConcurrent ==
    \/ pc[c2] = "read" /\ page[c2] = NoPage
    \/ new_full[c1] \in {<<>>, <<x, NL, a, NL, y>>, <<x, NL, a, NL, y, NL>>}

OneCall == {c1}
OneAsk == [c \in OneCall |-> [patches : {One}, auto_newline : {FALSE}, use_sudo : {FALSE}]]
=============================================================================

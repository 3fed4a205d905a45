------------------------------- MODULE Heredoc -------------------------------
(***************************************************************************)
(* The heredoc token of the lexer: lexer::parse_heredoc and the            *)
(* extract_string it calls (src/lexer/lexer.hpp).  After the @(TAG...)     *)
(* sentinel the lexer scans the following lines for the end tag, records   *)
(* on the way whether a line began with the margin marker '|' or the       *)
(* break remover '-', takes the text up to the end-tag line, strips the    *)
(* margin and decodes the escapes, and stashes where the enclosing token   *)
(* stream resumes.                                                         *)
(*                                                                         *)
(* A text is a sequence of characters drawn from a small alphabet:        *)
(* "sp" and "tab" (whitespace), "nl", "bar" ('|'), "dash" ('-'), "bs"     *)
(* ('\'), the escape letters "t", "n", "s", the tag character "T" and any *)
(* other character "x".  The input is the text after the sentinel's line. *)
(* Carriage returns and the \u escape, which throws, are left out.        *)
(*                                                                         *)
(* RefHeredoc is the same token as spec section 4.1 describes it, written  *)
(* from the spec's line grammar.                                           *)
(***************************************************************************)
EXTENDS Naturals, Sequences, SequencesExt

CONSTANTS
    Tag,        \* the end tag, a sequence of characters
    EscapeLists,\* the escape lists after '/' (sets of letters), or NoEscapes
    Inputs,     \* the texts that can follow the sentinel's line
    NoEscapes

TabWidth == 4                                   \* LEXER_TAB_WIDTH

Space == {"sp", "tab"}                          \* is_space

Chars == Space \cup {"nl", "bar", "dash", "bs", "t", "n", "s", "T", "x"}

(* HEREDOC_ESCAPES, "trnsuL$", restricted to the alphabet.                *)
AllEscapes == {"t", "n", "s", "L", "$"}

ASSUME Tag \in Seq(Chars \ (Space \cup {"nl", "bar", "dash"})) /\ Tag # <<>>
ASSUME \A l \in EscapeLists : l = NoEscapes \/ l \subseteq AllEscapes
ASSUME Inputs \subseteq Seq(Chars)

(* A token value: its text and where the enclosing lexer resumes.  The   *)
(* status is "notfound" after throw_not_found (an unterminated heredoc)    *)
(* and "pending" before the heredoc is lexed.                              *)
Token(status, text, next) == [status |-> status, text |-> text, next |-> next]
NotFound == Token("notfound", <<>>, 0)
Pending == Token("pending", <<>>, 0)

(* The end-tag scan's result when it throws.                               *)
NoTag == [line |-> 0, margin |-> 0, hasMargin |-> FALSE, removeBreak |-> FALSE]

VARIABLES
    src,        \* the input after the sentinel's line
    escapes,    \* the sentinel's escape list
    tok         \* the token's value, a Token

vars == <<src, escapes, tok>>

-----------------------------------------------------------------------------
(***************************************************************************)
(* The end-tag scan.  Positions run from 1 to Len(s) + 1, which is eoi.    *)
(* The whitespace loops before the tag stop at the token's own end, which  *)
(* lies before the heredoc body, so they never stop at eoi by their bound: *)
(* they stop there only because *eoi, the terminator of the string the     *)
(* input is kept in, is not whitespace.  At models that read.              *)
(***************************************************************************)
At(s, i) == IF i <= Len(s) THEN s[i] ELSE "nul"

RECURSIVE SkipSpace(_, _)
SkipSpace(s, i) == IF At(s, i) \in Space THEN SkipSpace(s, i + 1) ELSE i

(* The margin: one column for a space, LEXER_TAB_WIDTH for a tab.         *)
Width(c) == IF c = "sp" THEN 1 ELSE TabWidth

Indent(s, i, j) == FoldLeft(LAMBDA m, c : m + Width(c), 0, SubSeq(s, i, j - 1))

(* move_next_line: past the next newline, or to eoi when there is none.   *)
RECURSIVE LineEnd(_, _)
LineEnd(s, i) == IF i > Len(s) \/ s[i] = "nl" THEN i ELSE LineEnd(s, i + 1)

MutNextLine(s, i) ==        \* move_next_line stepping past eoi
    LineEnd(s, i) + 1

NextLine(s, i) == LET e == LineEnd(s, i) IN IF e > Len(s) THEN e ELSE e + 1

(* The search_it loop: how far the tag matches from i, and the position   *)
(* after the matched part.                                                 *)
RECURSIVE MatchTag(_, _, _)
MatchTag(s, i, k) ==
    IF i <= Len(s) /\ k <= Len(Tag) /\ Tag[k] = s[i]
    THEN MatchTag(s, i + 1, k + 1) ELSE <<i, k>>

MutTagEnds(s, e) ==         \* the rest of the line not checked
    TRUE

(* After a matched tag only whitespace may remain on the line.            *)
TagEnds(s, e) == At(s, e) \in {"nul", "nl"}

(***************************************************************************)
(* The while loop over lines from doc_end = d.  hm and rb are has_margin  *)
(* and remove_break, which the loop only ever sets; margin is recomputed  *)
(* for every line.  The result is the line the tag is on, with the flags   *)
(* and that line's margin, or NoTag.                                      *)
(***************************************************************************)
RECURSIVE EndTag(_, _, _, _)
EndTag(s, d, hm, rb) ==
    IF d > Len(s) THEN NoTag
    ELSE
      LET a == SkipSpace(s, d)
          bar == At(s, a) = "bar"
          b == IF bar THEN SkipSpace(s, a + 1) ELSE a
          dash == At(s, b) = "dash"
          c == IF dash THEN SkipSpace(s, b + 1) ELSE b
          m == MatchTag(s, c, 1)
      IN CASE a > Len(s) \/ b > Len(s) \/ c > Len(s) -> NoTag
           [] m[2] > Len(Tag) /\ TagEnds(s, SkipSpace(s, m[1])) ->
                [line |-> d, margin |-> Indent(s, d, a),
                 hasMargin |-> hm \/ bar, removeBreak |-> rb \/ dash]
           [] OTHER -> EndTag(s, NextLine(s, m[1]), hm \/ bar, rb \/ dash)

-----------------------------------------------------------------------------
(***************************************************************************)
(* extract_string over the body with the escapes and the margin.          *)
(***************************************************************************)

(* The escape list as parse_heredoc prepares it: none without '/', all of  *)
(* HEREDOC_ESCAPES for an empty list, '$' left to interpolation, L as the  *)
(* newline, and the backslash always.                                      *)
EscapeSet(list) ==
    IF list = NoEscapes THEN {}
    ELSE LET l == IF list = {} THEN AllEscapes ELSE list
         IN (l \ {"L", "$"}) \cup (IF "L" \in l THEN {"nl"} ELSE {}) \cup {"bs"}

MutEscaped(c) ==            \* the escape letter copied, not decoded
    c

(* What an escape sequence \c writes.                                      *)
Escaped(c) == CASE c = "t" -> "tab" [] c = "n" -> "nl" [] c = "s" -> "sp" [] OTHER -> c

(* How much of the margin a leading whitespace character takes up.        *)
MarginStep(c, cm) ==
    IF c = "sp" THEN 1 ELSE IF cm > TabWidth THEN TabWidth ELSE cm

MutLineMargin(c, margin) == \* the margin not restored after a newline
    0

(* current_margin after writing c: the whole margin again after a newline. *)
LineMargin(c, margin) == IF c = "nl" THEN margin ELSE 0

RECURSIVE Extract(_, _, _, _, _)
Extract(t, esc, margin, i, cm) ==
    IF i > Len(t) THEN <<>>
    ELSE IF cm > 0 /\ t[i] \in Space
    THEN Extract(t, esc, margin, i + 1, cm - MarginStep(t[i], cm))
    ELSE IF t[i] = "bs" /\ esc # {} /\ i < Len(t) /\ t[i + 1] \in esc
    THEN IF t[i + 1] = "nl"
         THEN Extract(t, esc, margin, i + 2, margin)
         ELSE <<Escaped(t[i + 1])>> \o Extract(t, esc, margin, i + 2, 0)
    ELSE <<t[i]>> \o Extract(t, esc, margin, i + 1, LineMargin(t[i], margin))

(* parse_heredoc after the loop: the continuation, the text, the break.   *)
ParseHeredoc(s) ==
    LET r == EndTag(s, 1, FALSE, FALSE) IN
    IF r = NoTag THEN NotFound
    ELSE LET m == IF r.hasMargin THEN r.margin ELSE 0
             text == Extract(SubSeq(s, 1, r.line - 1), EscapeSet(escapes), m, 1, m)
         IN Token("found",
                  IF r.removeBreak /\ text # <<>> /\ Last(text) = "nl"
                  THEN Front(text) ELSE text,
                  NextLine(s, r.line))

-----------------------------------------------------------------------------
Init ==
    /\ src \in Inputs
    /\ escapes \in EscapeLists
    /\ tok = Pending

(* The lexer meets the sentinel and runs parse_heredoc.                   *)
Lex ==
    /\ tok = Pending
    /\ tok' = ParseHeredoc(src)
    /\ UNCHANGED <<src, escapes>>

Next == Lex

Spec == Init /\ [][Next]_vars

-----------------------------------------------------------------------------
(***************************************************************************)
(* The heredoc as spec section 4.1 states it.  An end line is optional    *)
(* whitespace, optionally '|' and whitespace, optionally '-' and          *)
(* whitespace, the tag and trailing whitespace.  The text is the lines     *)
(* before the first end line; with '|' on the end line each of them loses  *)
(* its leading whitespace up to the marker's column (a tab counts          *)
(* TAB_WIDTH); the listed escapes are decoded (L swallows the line break,  *)
(* a backslash escapes itself, other escapes are kept as they are); with  *)
(* '-' the final newline goes.  The stream resumes after the end line.    *)
(***************************************************************************)
IsWs(l) == \A i \in 1..Len(l) : l[i] \in Space

IsMarkers(l) ==
    \/ l = <<>>
    \/ l[1] = "dash" /\ IsWs(Tail(l))
    \/ l[1] = "bar" /\ \E u \in 1..Len(l) :
          /\ IsWs(SubSeq(l, 2, u))
          /\ \/ u = Len(l)
             \/ l[u + 1] = "dash" /\ IsWs(SubSeq(l, u + 2, Len(l)))

IsEndLine(l) ==
    \E i, j \in 0..Len(l) :
        /\ i <= j
        /\ IsWs(SubSeq(l, 1, i))
        /\ IsMarkers(SubSeq(l, i + 1, j))
        /\ IsPrefix(Tag, SubSeq(l, j + 1, Len(l)))
        /\ IsWs(SubSeq(l, j + 1 + Len(Tag), Len(l)))

LineStarts(s) == {1} \cup {i + 1 : i \in {j \in 1..Len(s) : s[j] = "nl"}}

LineAt(s, i) ==
    LET rest == SubSeq(s, i, Len(s))
        k == SelectInSeq(rest, LAMBDA c : c = "nl")
    IN IF k = 0 THEN rest ELSE SubSeq(rest, 1, k - 1)

RECURSIVE StripLine(_, _)
StripLine(l, m) ==
    IF m > 0 /\ l # <<>> /\ Head(l) \in Space
    THEN StripLine(Tail(l), m - Width(Head(l))) ELSE l

RECURSIVE StripLines(_, _)
StripLines(t, m) ==
    IF t = <<>> THEN <<>>
    ELSE LET k == SelectInSeq(t, LAMBDA c : c = "nl") IN
         IF k = 0 THEN StripLine(t, m)
         ELSE StripLine(SubSeq(t, 1, k), m) \o StripLines(SubSeq(t, k + 1, Len(t)), m)

RefDecode == [t |-> "tab", n |-> "nl", s |-> "sp"]

RECURSIVE Unescape(_, _)
Unescape(t, letters) ==
    IF t = <<>> THEN <<>>
    ELSE IF Len(t) >= 2 /\ t[1] = "bs" /\ t[2] = "nl" /\ "L" \in letters
    THEN Unescape(Tail(Tail(t)), letters)
    ELSE IF Len(t) >= 2 /\ t[1] = "bs" /\ t[2] = "bs"
    THEN <<"bs">> \o Unescape(Tail(Tail(t)), letters)
    ELSE IF Len(t) >= 2 /\ t[1] = "bs" /\ t[2] \in letters \cap DOMAIN RefDecode
    THEN <<RefDecode[t[2]]>> \o Unescape(Tail(Tail(t)), letters)
    ELSE <<t[1]>> \o Unescape(Tail(t), letters)

EndLines(s) == {i \in LineStarts(s) : i <= Len(s) /\ IsEndLine(LineAt(s, i))}

RefHeredoc(s) ==
    LET \* the token for the first end line, at j, whose text is l
        ending(j, l) ==
            LET bar == \E i \in 1..Len(l) : l[i] = "bar"
                dash == \E i \in 1..Len(l) : l[i] = "dash"
                col == Indent(l, 1, SelectInSeq(l, LAMBDA c : c \notin Space))
                finish(text) ==
                    Token("found",
                          IF dash /\ text # <<>> /\ Last(text) = "nl" THEN Front(text) ELSE text,
                          Min({j + Len(l) + 1, Len(s) + 1}))
                unescaped(body) ==
                    IF escapes = NoEscapes THEN body
                    ELSE Unescape(body, IF escapes = {} THEN AllEscapes ELSE escapes)
            IN finish(unescaped(StripLines(SubSeq(s, 1, j - 1), IF bar THEN col ELSE 0)))
        first(ends) ==
            IF ends = {} THEN NotFound
            ELSE LET j == CHOOSE i \in ends : \A i2 \in ends : i <= i2 IN ending(j, LineAt(s, j))
    IN first(EndLines(s))

(* A body line, before the end line, that begins with '|' or '-'.        *)
MarkerLine(s) ==
    LET before(ends) ==
            \E i \in LineStarts(s) :
               /\ i <= Len(s)
               /\ \A e \in ends : i < e
               /\ At(s, SkipSpace(s, i)) \in {"bar", "dash"}
    IN before(EndLines(s))

-----------------------------------------------------------------------------
(***************************************************************************)
(* Properties.                                                             *)
(***************************************************************************)

TypeOK ==
    /\ src \in Seq(Chars)
    /\ escapes \in EscapeLists
    /\ tok \in {Pending, NotFound} \cup
              [status : {"found"}, text : Seq(Chars), next : 1..Len(src) + 1]

(* parse_heredoc reports an unterminated heredoc exactly when no line has *)
(* the end tag in the spec's grammar, and otherwise stashes the           *)
(* continuation right after the first such line, so the enclosing lexer   *)
(* neither loses lines nor lexes body lines as code.                      *)
ContinuationAgrees ==
    tok # Pending =>
        LET agrees(ref) == tok.status = ref.status /\ tok.next = ref.next
        IN agrees(RefHeredoc(src))

(* The token's text is the spec's: margin stripped per line by the       *)
(* column of the end line's '|', escapes decoded, final break removed    *)
(* for '-'.                                                               *)
TextMatchesSpec ==
    tok.status = "found" =>
        LET matches(ref) == ref.status = "found" => tok.text = ref.text
        IN matches(RefHeredoc(src))

(* The same, for heredocs none of whose body lines starts with '|' or '-' *)
(* (extract_string's margin and escape handling, independent of how the  *)
(* end-tag scan sets its flags).                                          *)
TextAgrees == tok.status = "found" => (~MarkerLine(src) => TextMatchesSpec)
====

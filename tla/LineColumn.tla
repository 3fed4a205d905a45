----------------------------- MODULE LineColumn -----------------------------
(***************************************************************************)
(* lexer.cc get_line_and_column: the line text and the 1-based column of a *)
(* byte offset, for the caret snippet of a compilation error (spec 7).     *)
(* Two overloads: one scans a std::string, the other an ifstream read      *)
(* backwards in chunks of READ_SIZE bytes.  READ_SIZE is the constant      *)
(* ReadSize here, so the chunk boundaries fall inside short inputs.        *)
(*                                                                         *)
(* Offsets are 0-based as in the code; character at offset i is s[i + 1]. *)
(* A position is where an error is reported: the start of a token (never  *)
(* a blank or a newline) or the end of the input.                         *)
(***************************************************************************)
EXTENDS Naturals, Sequences, SequencesExt, FiniteSetsExt

CONSTANTS ReadSize, TabWidth

Chars == {"a", "tab", "nl"}
Npos == -1

ASSUME ReadSize \in Nat \ {0} /\ TabWidth \in Nat

Positions(s) == {p \in 0..Len(s) : p = Len(s) \/ s[p + 1] = "a"}

Located(line, column) == [line |-> line, column |-> column]

-----------------------------------------------------------------------------
\* Offsets of the newlines of s within lo..hi.
NewlinesIn(s, lo, hi) == {i \in lo..hi : i < Len(s) /\ s[i + 1] = "nl"}

\* std::string::rfind('\n', pos): the last newline at or before pos.
RFind(s, p) == LET at == NewlinesIn(s, 0, p)
               IN IF at = {} THEN Npos ELSE Max(at)

\* std::string::find('\n', pos): the first newline at or after pos.
Find(s, p) == LET at == NewlinesIn(s, p, Len(s) - 1)
              IN IF at = {} THEN Npos ELSE Min(at)

\* std::string::substr(pos, count), the count clipped to the string.
Substr(s, pos, count) ==
    SubSeq(s, pos + 1, IF count = Npos THEN Len(s) ELSE Min({Len(s), pos + count}))

\* Convert tabs to spaces: the tabs among the first `column` characters
\* of the line (std::count over [begin, begin + column)) widen the column.
Widen(line, column) ==
    IF TabWidth > 1
    THEN column + Cardinality({i \in 1..Min({column, Len(line)}) : line[i] = "tab"})
                  * (TabWidth - 1)
    ELSE column

\* `column = (position - start) + 1`, before tabs are widened.
Column(p, start) == (p - start) + 1

MutLineStart(s, p) == IF RFind(s, p) = Npos THEN 0 ELSE RFind(s, p)

\* `start`: one past the last newline at or before p, or 0.
LineStart(s, p) == IF RFind(s, p) = Npos THEN 0 ELSE RFind(s, p) + 1

\* get_line_and_column(string const&, position, tab_width).  The second
\* argument of substr is the offset of the next newline, not a length.
StringLineColumn(s, p) ==
    LET start == LineStart(s, p)
        line == Substr(s, start, Find(s, start))
    IN Located(line, Widen(line, Column(p, start)))

-----------------------------------------------------------------------------
\* One pass of the backwards loop: read min(position, READ_SIZE) bytes at
\* `start` and look for the last newline in them; on a hit `start` moves
\* past it, otherwise the next chunk starts READ_SIZE (or `start`) earlier,
\* and the loop ends at offset 0.
RECURSIVE ChunkStart(_, _, _)
ChunkStart(s, p, start) ==
    LET n == Min({p, ReadSize})
        hits == NewlinesIn(s, start, start + n - 1)
    IN IF hits # {} THEN Max(hits) + 1
       ELSE IF start = 0 THEN 0
       ELSE ChunkStart(s, p, start - Min({start, ReadSize}))

\* The first chunk starts READ_SIZE + 1 bytes before the position.
FirstChunk(p) == IF p > ReadSize + 1 THEN p - ReadSize - 1 ELSE 0

\* get_line_and_column(ifstream&, position, tab_width): the line runs from
\* `start` to the first newline at or after the position, or the end.
FileLineColumn(s, p) ==
    LET start == ChunkStart(s, p, FirstChunk(p))
        end == IF Find(s, p) = Npos THEN Len(s) ELSE Find(s, p)
        line == SubSeq(s, start + 1, end)
    IN Located(line, Widen(line, Column(p, start)))

-----------------------------------------------------------------------------
(* The line and column spec 7 means: the line holding the position,       *)
(* without its newline, and the display column of the position's         *)
(* character, a tab before it counting TabWidth columns.                   *)
RefLineColumn(s, p) ==
    LET start == IF NewlinesIn(s, 0, p - 1) = {} THEN 0
                 ELSE Max(NewlinesIn(s, 0, p - 1)) + 1
        end == IF Find(s, p) = Npos THEN Len(s) ELSE Find(s, p)
        tabs == Cardinality({i \in start..(p - 1) : s[i + 1] = "tab"})
    IN Located(SubSeq(s, start + 1, end),
               1 + (p - start) + tabs * (IF TabWidth > 1 THEN TabWidth - 1 ELSE 0))

-----------------------------------------------------------------------------
(* Both overloads are pure functions of the text and the position; the    *)
(* properties take the text s and quantify over every error position in  *)
(* it.  A model of the lexer states them of the source it lexes.          *)

(* The string overload reports the reference column for every error       *)
(* position: rfind includes the position, ++start skips the newline, and  *)
(* the tab count stays within the line, although the line it returns      *)
(* (substr given an offset as a length) is not the reference line.        *)
StringColumnAgrees(s) ==
    \A p \in Positions(s) :
        /\ StringLineColumn(s, p).column = RefLineColumn(s, p).column
        /\ StringLineColumn(s, p).line \in Seq(Chars)

(* The file overload reports the reference line and column for every     *)
(* error position in every file, wherever the position falls relative to  *)
(* the READ_SIZE chunks.                                                   *)
FileLineColumnAgrees(s) ==
    \A p \in Positions(s) : FileLineColumn(s, p) = RefLineColumn(s, p)
====

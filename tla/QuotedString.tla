---------------------------- MODULE QuotedString ----------------------------
(***************************************************************************)
(* The quoted string tokens of the lexer (src/lexer/lexer.hpp): the        *)
(* single_quoted_string and double_quoted_string token definitions and    *)
(* their actions parse_single_quoted_string and parse_double_quoted_string,*)
(* which run extract_string (Heredoc's Extract, with no margin) over the   *)
(* whole token, quotes included, and then trim the quote character from   *)
(* both ends of the result with boost::trim_if.                           *)
(*                                                                         *)
(* Characters are those of Heredoc and the quotes "sq" (') and "dq" (").   *)
(* The \r and \u escapes are left out as in Heredoc; so is the '/'         *)
(* lookahead of force_slash, which changes the lexer state only.          *)
(***************************************************************************)
EXTENDS Heredoc

\* The escape lists the two actions pass to extract_string: "\\'" and
\* "\\\"'nrtsu", restricted to the alphabet.
SingleEscapes == {"bs", "sq"}
DoubleEscapes == {"bs", "dq", "sq", "n", "t", "s"}

\* The tokens the definitions match: a quote, then characters other than
\* the backslash and that quote or a backslash and any character but a
\* newline, then the quote.
TokenOf(q, units) == << q >> \o FlattenSeq(units) \o << q >>
Units(q, Alphabet) ==
    {<< c >> : c \in Alphabet \ {"bs", q}} \cup {<< "bs", c >> : c \in Alphabet \ {"nl"}}

\* boost::trim_if(text, is_any_of(q)): every q at either end removed.
\* Trimming the front only.
MutTrim(t, q) ==
    LET keep == {i \in DOMAIN t : t[i] # q}
    IN IF keep = {} THEN << >> ELSE SubSeq(t, Min(keep), Len(t))

Trim(t, q) ==
    LET keep == {i \in DOMAIN t : t[i] # q}
    IN IF keep = {} THEN << >> ELSE SubSeq(t, Min(keep), Max(keep))

ParseSingleQuoted(t) == Trim(Extract(t, SingleEscapes, 0, 1, 0), "sq")
ParseDoubleQuoted(t) == Trim(Extract(t, DoubleEscapes, 0, 1, 0), "dq")

-----------------------------------------------------------------------------
(* The content of a token decoded unit by unit: a backslash and a         *)
(* character of the escape list give the character it stands for, any    *)
(* other unit is kept as written (spec 4.1: unknown escapes pass through).*)
Decoded(units, esc) ==
    FlattenSeq([i \in DOMAIN units |->
        IF units[i][1] = "bs" /\ units[i][2] \in esc
        THEN << IF units[i][2] \in DOMAIN RefDecode THEN RefDecode[units[i][2]] ELSE units[i][2] >>
        ELSE units[i]])

\* A decoded content that begins or ends with the quote character.
EndsWithQuote(text, q) == text # << >> /\ (Head(text) = q \/ Last(text) = q)

(* A quoted token's text is its content with the escapes of the token's   *)
(* list decoded and every other unit kept as written (spec 4.1, and        *)
(* "tree.substring(token.position, token.end) == token.text modulo decoded *)
(* escapes"): extract_string run over the whole token, quotes included,    *)
(* and trim_if's removal of the quotes give that text.  Tokens whose       *)
(* decoded content begins or ends with the quote character are left out:  *)
(* there trim_if also removes the escaped quote (lexer.hpp:611, :622).     *)
QuotedTextDecoded(Bodies(_)) ==
    /\ \A units \in Bodies("sq") :
          LET text(ref) == ~EndsWithQuote(ref, "sq") => ParseSingleQuoted(TokenOf("sq", units)) = ref
          IN text(Decoded(units, SingleEscapes))
    /\ \A units \in Bodies("dq") :
          LET text(ref) == ~EndsWithQuote(ref, "dq") => ParseDoubleQuoted(TokenOf("dq", units)) = ref
          IN text(Decoded(units, DoubleEscapes))
====

---------------------------- MODULE SlashLexer -----------------------------
(***************************************************************************)
(* The regex/division disambiguation of the lexer (lexer/lexer.hpp).  The  *)
(* lexer takes the longest match of its token definitions (the first      *)
(* definition on a tie); whitespace and comments are matched and ignored.  *)
(* A token defined with the no_regex action calls force_slash, which looks *)
(* ahead in the SLASH_CHECK ("SC") state: when SLASH_CHECK_PATTERN,        *)
(* whitespace and block comments followed by '/', matches at the token's  *)
(* end, the lexer moves to the FORCE_SLASH ("FS") state, whose only token  *)
(* is the same pattern; use_last makes it a '/' token at the pattern's     *)
(* last character, and the lexer returns to the initial state.            *)
(*                                                                         *)
(* A text is a sequence of one-character strings over a small alphabet    *)
(* that holds a digit, a lowercase letter, whitespace, '/', '*' and ')';   *)
(* positions are 1-based.  The matchers below are the token definitions   *)
(* whose patterns can match such a text: number and invalid_number, name  *)
(* (bare_word matches the same characters and is defined after it), ')',  *)
(* '*', '/', regex, the block comment and whitespace.                      *)
(***************************************************************************)
EXTENDS Integers, Sequences, SequencesExt

Digit == "1"
Letter == "a"
Space == " "

\* The token definitions that can match, in definition order.
Kinds == << ")", "/", "*", "invalid_number", "number", "name", "regex", "comment", "whitespace" >>

\* The definitions with the no_regex action, and those passed over.
NoRegex == {")", "invalid_number", "number", "name", "regex"}
Ignored == {"comment", "whitespace"}

\* The length of the longest run from i of characters in cs.
RunOf(s, i, cs) ==
    LET stop == {j \in i..(Len(s) + 1) : j > Len(s) \/ s[j] \notin cs}
    IN Min(stop) - i

\* The end (exclusive) of the block comment /\*[^*]*\*+([^/*][^*]*\*+)*\/
\* at i: just after the first "*/" that follows "/*"; 0 when none is there.
CommentEnd(s, i) ==
    LET closes == {j \in (i + 2)..(Len(s) - 1) : s[j] = "*" /\ s[j + 1] = "/"}
    IN IF i + 1 <= Len(s) /\ s[i] = "/" /\ s[i + 1] = "*" /\ closes # {}
       THEN Min(closes) + 2 ELSE 0

\* The length of the longest match of each definition at i (0: no match).
\*   regex: (\/\/)|(\/[^*][^/\n]*\/), the text having no newline.
MatchLength(s, i, k) ==
    LET c == s[i]
        slashes == {j \in (i + 2)..Len(s) : s[j] = "/"}
        invalid(d) == IF d > 0 THEN (LET l == RunOf(s, i + d, {Letter}) IN IF l > 0 THEN d + l ELSE 0) ELSE 0
        comment(e) == IF e > 0 THEN e - i ELSE 0
    IN CASE k \in {")", "/", "*"} -> IF c = k THEN 1 ELSE 0
         [] k = "number" -> RunOf(s, i, {Digit})
         [] k = "invalid_number" -> invalid(RunOf(s, i, {Digit}))
         [] k = "name" -> IF c = Letter THEN 1 + RunOf(s, i + 1, {Letter, Digit}) ELSE 0
         [] k = "regex" ->
              IF c = "/" /\ i < Len(s) /\ s[i + 1] # "*" /\ slashes # {}
              THEN Min(slashes) - i + 1
              ELSE IF c = "/" /\ i < Len(s) /\ s[i + 1] = "/" THEN 2 ELSE 0
         [] k = "comment" -> comment(CommentEnd(s, i))
         [] k = "whitespace" -> RunOf(s, i, {Space})

\* The longest match at i among the definitions allowed, the first on a tie.
Longest(s, i, allowed) ==
    LET pick(len, m) == [k |-> Kinds[Min({n \in DOMAIN Kinds : len[n] = m})], len |-> m]
        best(len) == pick(len, Max(Range(len)))
    IN best([n \in DOMAIN Kinds |-> IF Kinds[n] \in allowed THEN MatchLength(s, i, Kinds[n]) ELSE 0])

\* The slash check without the pattern's block comments: \s*\/.
MutSlashCheck(s, q) ==
    LET from(p) == IF p <= Len(s) /\ s[p] = "/" THEN p + 1 ELSE 0
    IN from(q + RunOf(s, q, {Space}))

\* SLASH_CHECK_PATTERN \s*(\/\*[^*]*\*+([^/*][^*]*\*+)*\/\s*)*\/ at q:
\* the end (exclusive) of its longest match, 0 when it does not match.
RECURSIVE SlashCheck(_, _)
SlashCheck(s, q) ==
    LET viaComment(c) == IF c > 0 THEN SlashCheck(s, c) ELSE 0
        from(p) == Max({IF p <= Len(s) /\ s[p] = "/" THEN p + 1 ELSE 0, viaComment(CommentEnd(s, p))})
    IN from(q + RunOf(s, q, {Space}))

\* force_slash after a no_regex token ending before e: the lookahead in the
\* SC state decides whether the lexer enters the FS state.
ForceSlash(s, e) == IF SlashCheck(s, e) > 0 THEN "FS" ELSE "INITIAL"

\* The FS state's token: the SC pattern matched at i, reported by use_last
\* as a '/' at its last character.
UseLast(s, i) == [k |-> "/", at |-> SlashCheck(s, i) - 1]

\* The tokens the lexer gives for s from i in state st, ignored ones left out.
RECURSIVE CodeLex(_, _, _)
CodeLex(s, i, st) ==
    IF i > Len(s) THEN << >>
    ELSE IF st = "FS"
    THEN LET forced(t) == << t >> \o CodeLex(s, t.at + 1, "INITIAL") IN forced(UseLast(s, i))
    ELSE LET emit(t) ==
               IF t.k \in Ignored THEN CodeLex(s, i + t.len, "INITIAL")
               ELSE << [k |-> t.k, at |-> i] >> \o
                    CodeLex(s, i + t.len, IF t.k \in NoRegex THEN ForceSlash(s, i + t.len) ELSE "INITIAL")
         IN emit(Longest(s, i, Range(Kinds)))
-----------------------------------------------------------------------------
(* The lexing spec 4.1 describes: the longest match, whitespace and        *)
(* comments lexed and discarded, and after a literal, a closing bracket or *)
(* a keyword that may not be followed by a regex, a '/' is division: no    *)
(* regex starts there.  Ignored tokens leave that context as it was.       *)
RECURSIVE RefLex(_, _, _)
RefLex(s, i, afterLiteral) ==
    IF i > Len(s) THEN << >>
    ELSE LET allowed == IF afterLiteral THEN Range(Kinds) \ {"regex"} ELSE Range(Kinds)
             emit(t) == << [k |-> t.k, at |-> i] >> \o
                        RefLex(s, i + t.len, IF t.k \in Ignored THEN afterLiteral ELSE t.k \in NoRegex)
         IN emit(Longest(s, i, allowed))

\* The tokens the parser receives.
Significant(ts) == SelectSeq(ts, LAMBDA t : t.k \notin Ignored)

\* In the reference tokens, a block comment that follows a no-regex token
\* (whitespace and comments between) and that no '/' follows.
CommentAfterLiteral(ref) ==
    \E n \in DOMAIN ref :
        /\ ref[n].k = "comment"
        /\ \E m \in 1..(n - 1) : ref[m].k \in NoRegex /\ \A j \in (m + 1)..(n - 1) : ref[j].k \in Ignored
        /\ ~\E j \in (n + 1)..Len(ref) : ref[j].k = "/" /\ \A l \in (n + 1)..(j - 1) : ref[l].k \in Ignored

(* After a number, a name, a regex or ')', a '/' the text has next, past  *)
(* whitespace and block comments, is the division operator, and elsewhere *)
(* the longest match decides: the lexer's SLASH_CHECK lookahead and       *)
(* FORCE_SLASH token give the parser the tokens, at the positions, of the *)
(* lexing spec 4.1 describes, for every text with no block comment after  *)
(* such a token that no '/' follows (CommentAfterLiteral; there the       *)
(* lexer's lookahead matches the comment's opening '/').                  *)
SlashDisambiguated(Texts) ==
    \A s \in Texts :
        LET agrees(ref) == ~CommentAfterLiteral(ref) => Significant(CodeLex(s, 1, "INITIAL")) = Significant(ref)
        IN agrees(RefLex(s, 1, FALSE))
====

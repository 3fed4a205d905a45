------------------------------- MODULE Format -------------------------------
(***************************************************************************)
(* format::format(string) (runtime/utility/format.cc): parse_specification *)
(* matches the string against format_regex (below), then parse_flags     *)
(* scans the flags, parse_width and parse_precision read their numbers   *)
(* with stoll, and the last character is the type.                        *)
(*                                                                         *)
(* A string is a sequence of one-character strings.  Letters is the set of *)
(* characters [a-zA-Z] matches among those the strings use.  LongLongMax  *)
(* stands for numeric_limits<long long>::max(), the bound above which     *)
(* stoll throws out_of_range.  _container_start is a char initialised to  *)
(* -1: CharSigned says whether char is signed in the build; when it is    *)
(* not, the -1 is stored as 255.                                           *)
(***************************************************************************)
EXTENDS Integers, Sequences, SequencesExt, TLC

CONSTANTS Letters, LongLongMax, CharSigned

SimpleFlags == {" ", "+", "-", "#", "0"}
\* The container flags and their character codes.
OpenerCode == ("[" :> 91) @@ ("{" :> 123) @@ ("<" :> 60) @@ ("(" :> 40) @@ ("|" :> 124)
Openers == DOMAIN OpenerCode
FlagChars == SimpleFlags \cup Openers

DigitChars == {ToString(i) : i \in 0..9}
Decimal(ds) == FoldLeft(LAMBDA n, d : 10 * n + (CHOOSE i \in 0..9 : ToString(i) = d), 0, ds)

\* A parse's outcome: the format's fields, or the format_exception thrown,
\* by its cause (for a repeated flag, the flag's class).
Err(cause) == [error |-> cause]
Fields(space, alt, sign, left, zero, container, width, precision, type) ==
    [space |-> space, alt |-> alt, sign |-> sign, left |-> left, zero |-> zero,
     container |-> container, width |-> width, precision |-> precision, type |-> type]

\* _container_start's initial -1 as the char the build stores.
Unset == IF CharSigned THEN -1 ELSE 255

-----------------------------------------------------------------------------
\* format_regex: ^%([ +\-#0\[{<(|]*)([1-9][0-9]*)?(?:\.([0-9]+))?([a-zA-Z])$
(* Its groups are the flags, the width, the precision and  *)
(* the type.  A flag is never a nonzero digit, a dot or a letter, so a     *)
(* matching string splits into the groups in exactly one way.              *)
AllIn(s, S) == \A i \in DOMAIN s : s[i] \in S

Groups(s) ==
    LET n == Len(s)
        cut(a, b) ==
            [flags |-> SubSeq(s, 2, 1 + a), width |-> SubSeq(s, 2 + a, 1 + a + b),
             tail |-> SubSeq(s, 2 + a + b, n - 1)]
        ok(g) ==
            /\ AllIn(g.flags, FlagChars)
            /\ g.width = << >> \/ (g.width[1] \in DigitChars \ {"0"} /\ AllIn(g.width, DigitChars))
            /\ g.tail = << >> \/ (Len(g.tail) > 1 /\ g.tail[1] = "." /\ AllIn(Tail(g.tail), DigitChars))
        sizes == {ab \in (0..(n - 2)) \X (0..(n - 2)) : ab[1] + ab[2] <= n - 2}
        matches == {g \in {cut(ab[1], ab[2]) : ab \in sizes} : ok(g)}
        g == CHOOSE m \in matches : TRUE
    IN IF n >= 2 /\ s[1] = "%" /\ s[n] \in Letters /\ matches # {}
       THEN [flags |-> g.flags, width |-> g.width, dot |-> g.tail # << >>,
             precision |-> IF g.tail = << >> THEN << >> ELSE Tail(g.tail)]
       ELSE Err("syntax")

-----------------------------------------------------------------------------
(* parse_flags: each flag may be set once; ' ' also sets the container    *)
(* start to 0 when it is still -1; a container flag is refused when the   *)
(* container start is above 0.  The first refusal throws.                 *)
NoFlags == Fields(FALSE, FALSE, FALSE, FALSE, FALSE, Unset, 0, -1, "")

\* The container flag's check with the 0 of a space flag counted as set.
MutOpenerFree(f) == f.container < 0

OpenerFree(f) == ~(f.container > 0)

Flag(f, c) ==
    CASE "error" \in DOMAIN f -> f
      [] c = " " -> IF f.space THEN Err(" ")
                    ELSE [f EXCEPT !.space = TRUE, !.container = IF @ = -1 THEN 0 ELSE @]
      [] c = "+" -> IF f.sign THEN Err("+") ELSE [f EXCEPT !.sign = TRUE]
      [] c = "-" -> IF f.left THEN Err("-") ELSE [f EXCEPT !.left = TRUE]
      [] c = "#" -> IF f.alt THEN Err("#") ELSE [f EXCEPT !.alt = TRUE]
      [] c = "0" -> IF f.zero THEN Err("0") ELSE [f EXCEPT !.zero = TRUE]
      [] c \in Openers -> IF OpenerFree(f) THEN [f EXCEPT !.container = OpenerCode[c]]
                          ELSE Err("container")

\* parse_width and parse_precision: stoll of the digits the regex matched;
\* out_of_range throws.  (The digits are all stoll reads, so the "not
\* valid" error cannot arise.)
InRange(ds) == Decimal(ds) <= LongLongMax

ParseSpecification(s) ==
    LET g == Groups(s)
        f == FoldLeft(Flag, NoFlags, g.flags)
    IN CASE "error" \in DOMAIN g -> g
         [] "error" \in DOMAIN f -> f
         [] g.width # << >> /\ ~InRange(g.width) -> Err("width")
         [] g.dot /\ ~InRange(g.precision) -> Err("precision")
         [] OTHER -> [f EXCEPT !.width = IF g.width = << >> THEN 0 ELSE Decimal(g.width),
                               !.precision = IF g.dot THEN Decimal(g.precision) ELSE -1,
                               !.type = Last(s)]

-----------------------------------------------------------------------------
(* What a format string means, from spec 5 and format.cc's tests: the      *)
(* grammar's groups; each of ' ', '+', '-', '#' and '0' at most once and   *)
(* at most one container flag, the first flag that repeats its class      *)
(* being the error; a width or precision above the long long range an     *)
(* error; otherwise the flags that occur, the container start the         *)
(* container flag's character, else 0 with a space flag, else below 0;   *)
(* the width (0 when absent), the precision (below 0 when absent) and    *)
(* the type letter.                                                        *)
RepeatsAt(fs, p) ==
    \E q \in 1..(p - 1) : IF fs[p] \in Openers THEN fs[q] \in Openers ELSE fs[q] = fs[p]

RefParse(s) ==
    LET g == Groups(s)
        fs == g.flags
        bad == {p \in DOMAIN fs : RepeatsAt(fs, p)}
        has(c) == \E i \in DOMAIN fs : fs[i] = c
        opened == {fs[i] : i \in DOMAIN fs} \cap Openers
    IN CASE "error" \in DOMAIN g -> g
         [] bad # {} -> Err(IF fs[Min(bad)] \in Openers THEN "container" ELSE fs[Min(bad)])
         [] Decimal(g.width) > LongLongMax -> Err("width")
         [] Decimal(g.precision) > LongLongMax -> Err("precision")
         [] OTHER ->
              Fields(has(" "), has("#"), has("+"), has("-"), has("0"),
                     IF opened # {} THEN OpenerCode[CHOOSE o \in opened : TRUE]
                     ELSE IF has(" ") THEN 0 ELSE -1,
                     Decimal(g.width), IF g.dot THEN Decimal(g.precision) ELSE -1, Last(s))

(* format::format(string) parses every string as the spec and the tests    *)
(* describe it: the flag loop's once-only checks, the space flag's reset  *)
(* of the container start and the container flags' check against it, in *)
(* every order of the flags, and stoll's range at the width's and the     *)
(* precision's boundary.                                                   *)
FormatParsesAsSpec(Strings) == \A s \in Strings : ParseSpecification(s) = RefParse(s)
====

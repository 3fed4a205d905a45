--------------------------- MODULE NodeHostnames ---------------------------
(***************************************************************************)
(* The hostnames of a node statement (ast::hostname, AST code that is not  *)
(* in this repository): a literal name, a regex or the default clause.    *)
(* A literal's text is its dot-separated labels and whether it is written *)
(* with a capital letter; a regex is its pattern.  The records share one  *)
(* shape so that TLC can compare any two of them.                         *)
(***************************************************************************)

Text(ls, up) == [labels |-> ls, upper |-> up]
NoText == Text(<< >>, FALSE)
NoPattern == "none"
Literal(t) == [kind |-> "name", text |-> t, pattern |-> NoPattern]
Regex(p) == [kind |-> "regex", text |-> NoText, pattern |-> p]
Default == [kind |-> "default", text |-> NoText, pattern |-> NoPattern]

\* boost::to_lower_copy on a literal hostname.
ToLower(t) == [t EXCEPT !.upper = FALSE]
====

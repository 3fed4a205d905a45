------------------------------ MODULE MCHeredoc ------------------------------
(* Inputs for the heredoc token: every text of up to MaxLen characters    *)
(* over a small alphabet, with no escape list and with the list /tL.  The *)
(* tag is the single character T.                                         *)
(* The same model checks get_line_and_column (LineColumn) on the sources  *)
(* it lexes: an error reported at any token start of the source is       *)
(* located in it.  The result depends only on where the tabs and         *)
(* newlines are, so the check takes the sources written with the letter *)
(* T, tab and newline, which are every text of up to MaxLen characters   *)
(* over LineColumn's alphabet.  READ_SIZE is 3 so that chunk boundaries   *)
(* fall inside the sources.                                               *)
EXTENDS QuotedString

MaxLen == 6

MCTag == << "T" >>

(* Whitespace, both markers, newline, the tag, a backslash and the        *)
(* letter t, which is an escape letter after a backslash and an ordinary  *)
(* character otherwise.                                                    *)
MCInputs == BoundedSeq({"sp", "tab", "bar", "dash", "nl", "T", "bs", "t"}, MaxLen)

MCEscapeLists == {NoEscapes, {"t", "L"}}

LC == INSTANCE LineColumn WITH ReadSize <- 3, TabWidth <- TabWidth

LCSource == src \in Seq({"T", "tab", "nl"})

AsText(s) == [i \in 1..Len(s) |-> IF s[i] = "T" THEN "a" ELSE s[i]]

(* get_line_and_column(string const&): the column of every error position *)
(* of the source is the reference column, tabs widened (LineColumn).      *)
StringColumnAgrees == LCSource => LC!StringColumnAgrees(AsText(src))

(* get_line_and_column(ifstream&): the chunked backwards scan finds the    *)
(* reference line and column for every error position of the source.     *)
FileLineColumnAgrees == LCSource => LC!FileLineColumnAgrees(AsText(src))

(* The values whose types value::infer_type infers: every scalar kind (two *)
(* integers, a float, two strings of different lengths, two regexes),     *)
(* every array of up to two scalars, arrays of up to two small arrays,    *)
(* hashes and numbers, and hashes of one or two pairs with String or      *)
(* Integer keys whose values are scalars or small arrays and hashes.      *)
Inf == INSTANCE Inference

MCScalars ==
    { Inf!UndefV, Inf!DefaultV, Inf!Num("Integer", 0), Inf!Num("Integer", 2),
      Inf!Num("Float", 1), Inf!Plain("Boolean"), Inf!Str(<< >>),
      Inf!Str(<< "a" >>), Inf!Re("p"), Inf!Re("q") }

ArrayOf(S) == {Inf!Arr(s) : s \in BoundedSeq(S, 2)}

MCKeys == {Inf!Str(<< "a" >>), Inf!Str(<< >>), Inf!Num("Integer", 0)}

HashOf(S) ==
    {Inf!Hsh(<< <<k, v>> >>) : k \in MCKeys, v \in S}
    \cup {Inf!Hsh(<< <<k[1], v1>>, <<k[2], v2>> >>) :
            k \in {p \in MCKeys \X MCKeys : p[1] # p[2]}, v1 \in S, v2 \in S}

MCInner ==
    { Inf!Arr(<< >>), Inf!Arr(<< Inf!Num("Integer", 0) >>),
      Inf!Arr(<< Inf!UndefV, Inf!Str(<< "a" >>) >>),
      Inf!Hsh(<< << Inf!Str(<< "a" >>), Inf!Num("Integer", 2) >> >>),
      Inf!Num("Integer", 2), Inf!Num("Float", 1) }

MCValues == MCScalars \cup ArrayOf(MCScalars) \cup ArrayOf(MCInner)
            \cup HashOf(MCScalars) \cup HashOf(MCInner)

(* value::infer_type: every modelled value is an instance of its plain    *)
(* and its detailed inferred type (Inference).  The values do not depend  *)
(* on the heredoc, so the check is made in the states of the empty input. *)
TypeInferenceSound == src = << >> /\ escapes = NoEscapes /\ tok = Pending => Inf!InferenceSound(MCValues)

(* The values written for the Ruby host: the scalars with both booleans,  *)
(* a variable naming an integer and one naming an array, arrays of up to  *)
(* two of those, and hashes of one or two pairs with those values, nested *)
(* arrays and hashes among them.                                          *)
PV == INSTANCE ProtocolValue

MCWireScalars ==
    (MCScalars \ {Inf!Plain("Boolean")})
    \cup {PV!BoolV(TRUE), PV!BoolV(FALSE), PV!VarV(Inf!Num("Integer", 2)),
           PV!VarV(Inf!Arr(<< PV!VarV(Inf!UndefV) >>))}

MCWireValues == MCWireScalars \cup ArrayOf(MCWireScalars) \cup HashOf(MCWireScalars)
                \cup ArrayOf(MCInner) \cup HashOf(MCInner)

(* value::to_protocol_value and value::value(Protocols::Value): every      *)
(* modelled value that is not a type reads back as the value it stands    *)
(* for (ProtocolValue), checked in the states of the empty input.         *)
ValuesRoundTrip == src = << >> /\ escapes = NoEscapes /\ tok = Pending => PV!RoundTrips(MCWireValues)

(* Format strings: every string of up to four characters after a '%' (and *)
(* of up to three without one) over the two letters d and x, the flags   *)
(* ' ', '+', '-', '#', '0', '[' and '{', the digits 1, 2 and 3 and the    *)
(* dot.  long long's maximum stands as 12, so that %12d fits and %13d and *)
(* %.13d are out of range.  char is signed, as the tests assume (a        *)
(* container start below 0 when no flag sets it).                        *)
FM == INSTANCE Format WITH Letters <- {"d", "x"}, LongLongMax <- 12, CharSigned <- TRUE

MCFormatChars == {"%", " ", "+", "-", "#", "0", "[", "{", "1", "2", "3", ".", "d", "x"}
MCFormatStrings ==
    {<< "%" >> \o t : t \in BoundedSeq(MCFormatChars, 4)} \cup BoundedSeq(MCFormatChars, 3)

(* format::format(string): every bounded format string parses as spec 5   *)
(* and the tests describe (Format), checked in the states of the empty    *)
(* input.                                                                  *)
FormatStringsParsed == src = << >> /\ escapes = NoEscapes /\ tok = Pending => FM!FormatParsesAsSpec(MCFormatStrings)

(* Format hashes: one or two pairs whose keys are the attributes format,  *)
(* separator and string_formats, a stray string and an integer, and whose *)
(* values are a valid and an invalid format string, a separator, an       *)
(* integer, and string_formats hashes: empty, valid, with a string key,   *)
(* with a hash value and with an invalid format.                          *)
FH == INSTANCE FormatHash WITH Letters <- {"d", "x"}, LongLongMax <- 12, CharSigned <- TRUE

MCFormatKeys ==
    {FH!Attr("format"), FH!Attr("separator"), FH!Attr("string_formats"),
     Inf!Str(<< "w" >>), Inf!Num("Integer", 1)}

MCFormatValues ==
    {Inf!Str(<< "%", "d" >>), Inf!Str(<< "%", "[", "[", "d" >>), Inf!Str(<< "," >>),
     Inf!Num("Integer", 5), Inf!Hsh(<< >>),
     Inf!Hsh(<< << FH!TypeV(Inf!T("Integer")), Inf!Str(<< "%", "x" >>) >> >>),
     Inf!Hsh(<< << Inf!Str(<< "w" >>), Inf!Str(<< "%", "d" >>) >> >>),
     Inf!Hsh(<< << FH!TypeV(Inf!T("Any")), Inf!Hsh(<< >>) >> >>),
     Inf!Hsh(<< << FH!TypeV(Inf!T("Any")), Inf!Str(<< "%", "%" >>) >> >>)}

MCFormatHashes ==
    {Inf!Hsh(<< <<k, v>> >>) : k \in MCFormatKeys, v \in MCFormatValues}
    \cup {Inf!Hsh(<< <<k[1], v1>>, <<k[2], v2>> >>) :
            k \in {p \in MCFormatKeys \X MCFormatKeys : p[1] # p[2]},
            v1 \in MCFormatValues, v2 \in MCFormatValues}

(* format::format(values::hash): every bounded format hash is accepted    *)
(* with the attributes it gives, or refused for a defect it has           *)
(* (FormatHash), checked in the states of the empty input.                *)
FormatHashesDiagnosed == src = << >> /\ escapes = NoEscapes /\ tok = Pending => FH!FormatHashDiagnosed(MCFormatHashes)

(* Format maps: every sequence of up to four distinct types among Any,    *)
(* Array and Array[3], String[0, 5] and String[6], Integer, Integer[0, 5] *)
(* and Float, and Hash, each type with a format of its own, against      *)
(* values of each of those kinds: arrays of sizes 0 and 4,               *)
(* strings of lengths 3 and 6, integers in and out of [0, 5], a float, a  *)
(* hash, a regex and undef.  The bound 1000 stands for an unbounded size  *)
(* or range (Inference's Unbounded).                                      *)
MCSortTypes ==
    { Inf!T("Any"), Inf!ArrayT(Inf!NoType, 0, Inf!Unbounded), Inf!ArrayT(Inf!NoType, 3, Inf!Unbounded),
      Inf!Ranged("String", 0, 5), Inf!Ranged("String", 6, Inf!Unbounded),
      Inf!Ranged("Integer", -Inf!Unbounded, Inf!Unbounded), Inf!Ranged("Integer", 0, 5),
      Inf!Ranged("Float", -Inf!Unbounded, Inf!Unbounded),
      Inf!HashT(Inf!NoType, Inf!NoType, 0, Inf!Unbounded) }

MCFormatMaps ==
    {[i \in DOMAIN s |-> << s[i], s[i] >>] : s \in {s \in BoundedSeq(MCSortTypes, 4) : IsInjective(s)}}

MCSortValues ==
    { Inf!Arr(<< >>), Inf!Arr([i \in 1..4 |-> Inf!Num("Integer", i)]),
      Inf!Str(<< "f", "o", "o" >>), Inf!Str(<< "f", "o", "o", "b", "a", "r" >>),
      Inf!Num("Integer", 3), Inf!Num("Integer", 7), Inf!Num("Float", 1),
      Inf!Hsh(<< >>), Inf!Re("p"), Inf!UndefV }

(* format_map::find_format after the constructor's sort: a most specific *)
(* matching format whenever the comparator orders the map's types weakly *)
(* (FormatHash), checked in the states of the empty input.                *)
FormatMapsFindMostSpecific ==
    src = << >> /\ escapes = NoEscapes /\ tok = Pending => FH!FindsMostSpecific(MCFormatMaps, MCSortValues)

(* Quoted string tokens: every token of up to three units over the quotes, *)
(* the backslash, the escape letters t and n, a newline and x, for both    *)
(* quote characters.                                                      *)
MCQuotedBodies(q) == BoundedSeq(Units(q, {"sq", "dq", "bs", "t", "n", "nl", "x"}), 3)

(* parse_single_quoted_string and parse_double_quoted_string: the text is  *)
(* the content with its escapes decoded, for every token whose content    *)
(* does not begin or end with its quote (QuotedString), checked in the    *)
(* states of the empty input.                                             *)
QuotedStringsDecoded == src = << >> /\ escapes = NoEscapes /\ tok = Pending => QuotedTextDecoded(MCQuotedBodies)

(* Relationship operands: a resource string for a realized resource and   *)
(* one for a resource the catalog lacks, a string that is no reference,   *)
(* a fully qualified and an unqualified Resource type, a named and an     *)
(* unnamed Class, a Runtime type wrapping a collector and one without,    *)
(* an integer, and every array of up to two of those.  The catalog holds *)
(* File[a], File[b] and Class[c] realized and File[v] virtual; the        *)
(* collector collected File[b].                                           *)
RL == INSTANCE Relationship

MCRefOperands ==
    LET scalars ==
          { Inf!Str(<< "File", "[", "a", "]" >>), Inf!Str(<< "File", "[", "z", "]" >>),
            Inf!Str(<< "junk" >>),
            FH!TypeV(RL!ResourceT("File", "b")), FH!TypeV(RL!ResourceT("File", "")),
            FH!TypeV(RL!ResourceT("File", "v")),
            FH!TypeV(RL!ClassT("c")), FH!TypeV(RL!ClassT("")),
            FH!TypeV(RL!RuntimeT(<< "k" >>)), FH!TypeV(RL!RuntimeT(<< >>)),
            Inf!Num("Integer", 1) }
    IN scalars \cup {Inf!Arr(s) : s \in BoundedSeq(scalars, 2)}

MCCatalogs ==
    { (RL!Ref("File", "a") :> "realized") @@ (RL!Ref("File", "b") :> "realized")
      @@ (RL!Ref("Class", "c") :> "realized") @@ (RL!Ref("File", "v") :> "virtual") }

MCCollected == "k" :> << RL!Ref("File", "b") >>

(* resource_relationship::evaluate with value::each_resource: every        *)
(* bounded relationship joins what its operands name or fails for a defect *)
(* they have, the target's first (Relationship), checked in the states of *)
(* the empty input.                                                        *)
RelationshipsDiagnosed ==
    src = << >> /\ escapes = NoEscapes /\ tok = Pending => RL!RelationshipDiagnosed(MCRefOperands, MCCatalogs, MCCollected)

-----------------------------------------------------------------------------
\* Variable names over segments a, B and ax, global or not, up to three
\* segments; scopes added as class a (twice) and class a::b; classes a,
\* b and a::b defined, only a declared.
VL == INSTANCE VariableLookup
MCVarNames ==
    [global : BOOLEAN, segs : BoundedSeq({<< "a" >>, << "B" >>, << "a", "x" >>}, 3) \ {<< >>}]
MCScopeAdds ==
    BoundedSeq({<< << "a" >>, "s1" >>, << << "a" >>, "s2" >>,
                << << "a", ":", ":", "b" >>, "s3" >>}, 2)
MCClasses == {<< "a" >>, << "b" >>, << "a", ":", ":", "b" >>}
MCDeclared == {<< "a" >>}

(* Every variable name in the grammar resolves to the scope and name its  *)
(* qualification gives, with the warning for an unknown class             *)
(* (VariableLookup), checked in the states of the empty input.            *)
VariablesLookedUp ==
    src = << >> /\ escapes = NoEscapes /\ tok = Pending => VL!LookupFaithful(MCVarNames, MCScopeAdds, MCClasses, MCDeclared)

-----------------------------------------------------------------------------
\* Texts of up to six characters over a digit, a letter, whitespace, '/'
\* and '*': ')' forces a slash as a number or a name does.
SL == INSTANCE SlashLexer
MCTexts == BoundedSeq({"1", "a", " ", "/", "*"}, 6)

(* The lexer's SLASH_CHECK/FORCE_SLASH states make a '/' after a number,   *)
(* a name or a regex the division operator and leave a regex elsewhere, as *)
(* spec 4.1 describes (SlashLexer), checked in the states of the empty     *)
(* input.                                                                   *)
SlashesDisambiguated ==
    src = << >> /\ escapes = NoEscapes /\ tok = Pending => SL!SlashDisambiguated(MCTexts)
====

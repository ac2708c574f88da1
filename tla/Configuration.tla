----------------------------- MODULE Configuration -----------------------------
(***************************************************************************)
(* The configuration file: how it is turned into a style, how a style is   *)
(* written back (--dump-config), and what becomes of the file when a user  *)
(* edits it and lets the tool rewrite it in turns.                         *)
(*                                                                         *)
(* An option is a pair: its key and, for a key that is a group of options, *)
(* the field.  A file is a function from the options it sets to texts; a   *)
(* text is a scalar as yaml-cpp reads it, tagged with what it converts to. *)
(***************************************************************************)
EXTENDS Integers, Sequences, TLC

CONSTANTS
  Edits,      \* pairs of an option and a text: what the user may write
  MaxEdits    \* bound on the number of edits

VARIABLES
  file,       \* the nearest configuration file
  redirected, \* the shell has opened it for the output of --dump-config
  edits       \* the number of edits so far

vars == <<file, redirected, edits>>

NoFile == [kind |-> "absent"]
\* Empty, or anything else that is not a mapping.
NotAMap == [kind |-> "scalar"]
Mapping(settings) == [kind |-> "map", settings |-> settings]

-----------------------------------------------------------------------------
(* Options. *)

BoolKeys ==
  {"AllowShortConstraintBlocksOnASingleLine", "AllowShortCoverpointsOnASingleLine",
   "BinPackArguments", "BinPackParameters", "BinPackPortConnections",
   "BreakAfterAssertionLabel", "BreakAfterBegin", "BreakBeforeEnd", "BreakBeforeFunction",
   "BreakBeforeSpecifyBlock", "BreakBeforeTask", "CompactControlStatements",
   "CompactTimeUnits", "IndentCaseItem", "OneStatementPerLine", "RemoveEmptyLines",
   "SpaceAfterAlways", "SpaceAfterCaseColon", "SpaceAfterComma", "SpaceAfterSemicolon",
   "SpaceAroundOperators", "SpaceBeforeCaseColon", "SpacesInBraces", "SpacesInBrackets",
   "SpacesInParens"}

UnsignedKeys ==
  {"ColumnLimit", "IndentWidth", "ContinuationIndentWidth", "ParameterPortListIndentWidth",
   "MaxEmptyLinesToKeep", "SpacesBeforeTrailingComments"}

\* The enumeration of an option.
EnumOf ==
  [AlignAfterOpenParen     |-> "ParenAlignment",
   BreakAfterAlways        |-> "BlockBreak",
   BreakAfterInitial       |-> "BlockBreak",
   BreakBeforeAlways       |-> "BlockBreak",
   BreakBeforeInitial      |-> "BlockBreak",
   EventSeparator          |-> "EventSeparator",
   LineEnding              |-> "LineEnding",
   PackedDimensionBounds   |-> "DimensionBounds",
   RangeSpacing            |-> "RangeSpacing",
   UnpackedDimensionBounds |-> "DimensionBounds"]

EnumValues ==
  [ParenAlignment  |-> {"Align", "AlwaysBreak", "BlockIndent", "DontAlign"},
   BlockBreak      |-> {"Always", "Never", "OnlyMultiline"},
   DimensionBounds |-> {"LSBFirst", "MSBFirst", "Preserve"},
   EventSeparator  |-> {"Comma", "Or", "Preserve"},
   LineEnding      |-> {"CRLF", "DeriveCRLF", "DeriveLF", "LF"},
   RangeSpacing    |-> {"Always", "MatchSource", "Never", "Preserve"}]

\* What a text that is none of the values stands for.
Fallback ==
  [ParenAlignment |-> "Align", BlockBreak |-> "Never", DimensionBounds |-> "Preserve",
   EventSeparator |-> "Preserve", LineEnding |-> "DeriveLF", RangeSpacing |-> "MatchSource"]

AlignKeys ==
  {"AlignConsecutiveAssignments", "AlignConsecutiveDeclarations",
   "AlignConsecutivePackedDimensions", "AlignConsecutivePortConnections",
   "AlignConsecutiveTimingControls", "AlignTrailingComments"}

PaddingFields == {"MaxPadding", "MinPadding"}

AlignFields ==
  {"Enabled", "AcrossComments", "AcrossEmptyLines", "AcrossParameterPortList",
   "AlignColon", "InferFromSource", "PadLeft", "PadRight"} \cup PaddingFields

GroupKeys ==
  AlignKeys \cup {"InsertBeginEnd", "InsertParens", "SpaceAfterBrackets", "SpaceAfterParens",
                  "SpaceBeforeBrackets", "SpaceBeforeParens"}

\* The fields of an option that is a group of others.
FieldsOf == [key \in GroupKeys |->
  CASE key \in AlignKeys -> AlignFields
    [] key = "InsertBeginEnd" ->
         {"Enabled", "AlwaysStatements", "ControlStatements", "InitialStatements"}
    [] key = "InsertParens" ->
         {"Delays", "ExpressionEvents", "ImplicitEvents", "NamedEvents"}
    [] key \in {"SpaceAfterBrackets", "SpaceBeforeBrackets"} ->
         {"PackedDimensions", "UnpackedDimensions"}
    [] key = "SpaceAfterParens" -> {"ControlStatements", "EventControls"}
    [] key = "SpaceBeforeParens" -> {"ControlStatements", "ParameterList", "PortList"}]

Single(key) == <<key, "">>

Options ==
  {Single(key) : key \in BoolKeys \cup UnsignedKeys \cup DOMAIN EnumOf
                           \cup {"OneLineFormatOffRegex"}}
  \cup UNION {{key} \X FieldsOf[key] : key \in DOMAIN FieldsOf}

TypeOf == [option \in Options |->
  CASE option[2] \in PaddingFields \/ option[1] \in UnsignedKeys -> "unsigned"
    [] option[1] \in DOMAIN EnumOf -> "enum"
    [] option = Single("OneLineFormatOffRegex") -> "string"
    [] OTHER -> "bool"]

-----------------------------------------------------------------------------
(* The predefined style. *)

DefaultUnsigned ==
  [ColumnLimit |-> 100, IndentWidth |-> 2, ContinuationIndentWidth |-> 4,
   ParameterPortListIndentWidth |-> 4, MaxEmptyLinesToKeep |-> 1,
   SpacesBeforeTrailingComments |-> 2]

FalseByDefault ==
  {"BinPackPortConnections", "BreakBeforeFunction", "BreakBeforeSpecifyBlock",
   "BreakBeforeTask", "IndentCaseItem", "RemoveEmptyLines", "SpaceBeforeCaseColon",
   "SpacesInBraces", "SpacesInBrackets", "SpacesInParens"}

InferringKeys == AlignKeys \ {"AlignConsecutiveTimingControls", "AlignTrailingComments"}

TrueFields ==
  (InferringKeys \X {"Enabled", "InferFromSource"})
  \cup ({"SpaceAfterBrackets", "SpaceBeforeBrackets"} \X {"PackedDimensions"})
  \cup ({"SpaceAfterParens"} \X FieldsOf["SpaceAfterParens"])
  \cup ({"SpaceBeforeParens"} \X FieldsOf["SpaceBeforeParens"])
  \cup {<<"AlignConsecutivePackedDimensions", "PadLeft">>}

DefaultOf(option) ==
  LET key == option[1]
  IN  CASE option[2] = "MaxPadding" -> IF key \in InferringKeys THEN 2 ELSE 0
        [] option[2] = "MinPadding" ->
             IF key \in {"AlignConsecutiveAssignments", "AlignConsecutivePortConnections"}
             THEN 2 ELSE 0
        [] key \in UnsignedKeys -> DefaultUnsigned[key]
        [] key \in DOMAIN EnumOf ->
             IF key \in {"BreakAfterAlways", "BreakAfterInitial"} THEN "OnlyMultiline"
             ELSE Fallback[EnumOf[key]]
        [] key = "OneLineFormatOffRegex" -> ""
        [] key \in BoolKeys -> key \notin FalseByDefault
        [] OTHER -> option \in TrueFields

DefaultStyle == [option \in Options |-> DefaultOf(option)]

\* Style names are compared without regard to case.
FindPredefinedStyle(name) == name \in {"Default", "default", "DEFAULT"}

-----------------------------------------------------------------------------
(* Texts. *)

Spelling(text) ==
  CASE "unsigned" \in DOMAIN text -> ToString(text.unsigned)
    [] "bool" \in DOMAIN text -> IF text.bool THEN "true" ELSE "false"
    [] "word" \in DOMAIN text -> text.word

UserWords == {Spelling(edit[2]) : edit \in Edits}

\* The words that there are: those the tool writes and those the user does.
Words == (UNION {EnumValues[enum] : enum \in DOMAIN EnumValues}) \cup UserWords \cup {""}

Texts == [bool : BOOLEAN] \cup [unsigned : Nat] \cup [word : Words]

ASSUME EditsAssumption == Edits \subseteq (STRING \X STRING) \X Texts

IsValueOf(option, value) ==
  CASE TypeOf[option] = "unsigned" -> value \in Nat
    [] TypeOf[option] = "enum" -> value \in EnumValues[EnumOf[option[1]]]
    [] TypeOf[option] = "string" -> value \in Words
    [] TypeOf[option] = "bool" -> value \in BOOLEAN

TextOf(value, type) == [t \in {type} |-> value]

\* A number is not accepted for a bool, nor a word for a number.
Converts(option, text) ==
  TypeOf[option] \in {"unsigned", "bool"} => TypeOf[option] \in DOMAIN text

\* parseBool, parseUnsigned, parseString, parseEnum
AsValue(option, text) ==
  CASE TypeOf[option] \in {"unsigned", "bool"} -> text[TypeOf[option]]
    [] TypeOf[option] = "string" -> Spelling(text)
    [] TypeOf[option] = "enum" ->
         LET enum == EnumOf[option[1]]
         IN  IF Spelling(text) \in EnumValues[enum] THEN Spelling(text) ELSE Fallback[enum]

-----------------------------------------------------------------------------
(* Reading and writing. *)

BasedOnStyle == Single("BasedOnStyle")

\* A group given as a scalar cannot be asked for its fields; an option that is
\* not known is passed over.
Throws(settings) ==
  \E option \in DOMAIN settings :
    \/ option \in Options /\ ~Converts(option, settings[option])
    \/ option[1] \in DOMAIN FieldsOf /\ option[2] = ""
    \/ option = BasedOnStyle /\ ~FindPredefinedStyle(Spelling(settings[option]))

\* Mutation: the named style is applied where it stands, behind the options.
ParseConfigBaseLast(settings, base) ==
  IF BasedOnStyle \in DOMAIN settings THEN DefaultStyle
  ELSE [option \in Options |->
          IF option \in DOMAIN settings THEN AsValue(option, settings[option])
          ELSE base[option]]

\* Mutation: a group that is present starts from nothing.
ParseConfigGroupsReset(settings, base) ==
  [option \in Options |->
     IF option \in DOMAIN settings THEN AsValue(option, settings[option])
     ELSE IF TypeOf[option] = "bool" /\ option[2] # ""
             /\ \E other \in DOMAIN settings : other[1] = option[1]
     THEN FALSE ELSE base[option]]

\* A width that is not set follows the one before it, not the style the file is
\* based on.
ParseConfig(settings, base) ==
  LET from == IF BasedOnStyle \in DOMAIN settings THEN DefaultStyle ELSE base
      Given(option, otherwise) ==
        IF option \in DOMAIN settings THEN AsValue(option, settings[option]) ELSE otherwise
      indent       == Given(Single("IndentWidth"), from[Single("IndentWidth")])
      continuation == Given(Single("ContinuationIndentWidth"), indent)
      portList     == Given(Single("ParameterPortListIndentWidth"), continuation)
  IN  [option \in Options |->
         CASE option = Single("ContinuationIndentWidth") -> continuation
           [] option = Single("ParameterPortListIndentWidth") -> portList
           [] OTHER -> Given(option, from[option])]

Throwing == [loaded |-> FALSE]
Loaded(style) == [loaded |-> TRUE, style |-> style]

LoadConfig(from) ==
  CASE from.kind = "absent" -> Loaded(DefaultStyle)
    [] from.kind = "scalar" -> Throwing
    [] from.kind = "map" -> IF Throws(from.settings) THEN Throwing
                            ELSE Loaded(ParseConfig(from.settings, DefaultStyle))

\* The fields of an alignment that are written.
EmittedFields(key) ==
  {"Enabled", "AcrossComments", "AcrossEmptyLines"}
  \cup (IF key = "AlignConsecutiveTimingControls" THEN {} ELSE {"AcrossParameterPortList"})
  \cup (IF key \in InferringKeys THEN {"InferFromSource"} ELSE {})
  \cup (IF key \in {"AlignConsecutiveAssignments", "AlignConsecutivePortConnections"}
        THEN PaddingFields ELSE {})
  \cup (IF key = "AlignConsecutivePackedDimensions"
        THEN {"AlignColon", "PadLeft", "PadRight"} ELSE {})

Emitted ==
  {option \in Options : option[1] \in AlignKeys => option[2] \in EmittedFields(option[1])}

Emit(option, value) ==
  TextOf(value, IF TypeOf[option] \in {"unsigned", "bool"} THEN TypeOf[option] ELSE "word")

\* Mutation: options that have their default value are left out.
DumpConfigShort(style) ==
  [option \in {o \in Emitted : style[o] # DefaultStyle[o]} |-> Emit(option, style[option])]

DumpConfig(style) == [option \in Emitted |-> Emit(option, style[option])]

-----------------------------------------------------------------------------
(* The user, the shell and the tool. *)

Init ==
  /\ file \in {NoFile, NotAMap, Mapping(<<>>)}
  /\ redirected = FALSE
  /\ edits = 0

Settings == IF file.kind = "map" THEN file.settings ELSE <<>>

\* Options that cannot stand in a file together: a key is a scalar or a group.
Clash(option, other) ==
  option[1] = other[1] /\ (option = other \/ "" \in {option[2], other[2]})

\* The user sets an option, or takes it out.
Edit(option, text) ==
  LET others == {other \in DOMAIN Settings : ~Clash(option, other)}
  IN  /\ ~redirected
      /\ edits < MaxEdits
      /\ edits' = edits + 1
      /\ file' = Mapping([other \in others \cup {option} |->
                            IF other = option THEN text ELSE Settings[other]])
      /\ UNCHANGED redirected

Remove(option) ==
  /\ ~redirected
  /\ edits < MaxEdits
  /\ option \in DOMAIN Settings
  /\ edits' = edits + 1
  /\ file' = Mapping([other \in DOMAIN Settings \ {option} |-> Settings[other]])
  /\ UNCHANGED redirected

\* slang-format [--no-config] --dump-config: what is printed takes the place of
\* the file.  An exception ends the process, with nothing printed.
DumpedBy(noConfig) ==
  LET result == IF noConfig THEN Loaded(DefaultStyle) ELSE LoadConfig(file)
  IN  IF result.loaded THEN Mapping(DumpConfig(result.style)) ELSE file

\* Printed to another file, which the user then moves here.
DumpAside(noConfig) ==
  /\ ~redirected
  /\ file' = DumpedBy(noConfig)
  /\ UNCHANGED <<redirected, edits>>

\* Printed to the file itself: the shell empties or creates it, then starts the
\* tool.
Redirect ==
  /\ ~redirected
  /\ redirected' = TRUE
  /\ file' = NotAMap
  /\ UNCHANGED edits

DumpIntoFile(noConfig) ==
  /\ redirected
  /\ redirected' = FALSE
  /\ file' = DumpedBy(noConfig)
  /\ UNCHANGED edits

Next ==
  \/ \E edit \in Edits : Edit(edit[1], edit[2])
  \/ \E edit \in Edits : Remove(edit[1])
  \/ \E noConfig \in BOOLEAN : DumpAside(noConfig)
  \/ Redirect
  \/ \E noConfig \in BOOLEAN : DumpIntoFile(noConfig)

Spec == Init /\ [][Next]_vars

-----------------------------------------------------------------------------
(* Properties. *)

\* What a file sets is what the style has, wherever the option stands in the
\* file, and whatever BasedOnStyle, the widths that follow one another or the
\* other fields of a group say; and whatever words and numbers the file has, a
\* style that loads has a value of its type for every option (parseConfig,
\* parseBool, parseUnsigned, parseEnum).
SetOptionsWin ==
  LET result == LoadConfig(file)
  IN  result.loaded =>
        /\ \A option \in Options \cap DOMAIN Settings :
             result.style[option] = AsValue(option, Settings[option])
        /\ \A option \in Options : IsValueOf(option, result.style[option])

\* The widths that follow another width when they are not set.
Followers(option) ==
  CASE option = Single("IndentWidth") ->
         {Single("ContinuationIndentWidth"), Single("ParameterPortListIndentWidth")}
    [] option = Single("ContinuationIndentWidth") ->
         {Single("ParameterPortListIndentWidth")}
    [] OTHER -> {}

\* Setting or removing one option of a file that loads changes that option and
\* the widths that follow it and no other, and a follower only as long as the
\* file does not set it: BasedOnStyle, a field or a word that is not known
\* leave the rest alone (parseConfig).
EditsAreLocal ==
  [][LET before  == LoadConfig(file)
         after   == LoadConfig(file')
         kept    == DOMAIN Settings \cap DOMAIN Settings'
         changed == ((DOMAIN Settings \cup DOMAIN Settings') \ kept)
                    \cup {option \in kept : Settings[option] # Settings'[option]}
     IN  edits' # edits /\ file.kind = "map" /\ before.loaded /\ after.loaded =>
           \A other \in Options \ changed :
             before.style[other] # after.style[other] =>
               /\ other \notin DOMAIN Settings
               /\ \E option \in changed : other \in Followers(option)]_vars

\* A file that is replaced by the dump of its style still means the same, in
\* every option that is dumped; in particular the widths, which follow one
\* another when they are left out (dumpConfig, parseConfig).
DumpReloads ==
  [][\A noConfig \in BOOLEAN :
       DumpAside(noConfig) =>
         LET before == IF noConfig THEN Loaded(DefaultStyle) ELSE LoadConfig(file)
             after  == LoadConfig(file')
         IN  before.loaded => /\ after.loaded
                              /\ \A option \in Emitted :
                                   after.style[option] = before.style[option]]_vars

\* docs/usage.md:66-69: "To generate a configuration file from the current
\* defaults, issue: slang-format --dump-config > .slang-format".
RedirectedDumpGenerates == [][DumpIntoFile(FALSE) => file'.kind = "map"]_vars
=============================================================================

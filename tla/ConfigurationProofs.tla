-------------------------- MODULE ConfigurationProofs --------------------------
(***************************************************************************)
(* The three theorems about the configuration file, for every set of edits *)
(* and any number of them.                                                 *)
(*                                                                         *)
(* The invariant says that each text in the file is a scalar with a        *)
(* meaning: a number, a truth value, or one of the words that there are.   *)
(* It is needed because the file comes from two hands, the user's and that *)
(* of --dump-config, and the values of a style that is dumped must be ones *)
(* that read back.                                                         *)
(***************************************************************************)
EXTENDS Configuration, TLAPS

(* Options. *)

\* The keys of options that are not groups.
SingleKeys == BoolKeys \cup UnsignedKeys \cup DOMAIN EnumOf \cup {"OneLineFormatOffRegex"}

EnumKeys ==
  {"AlignAfterOpenParen", "BreakAfterAlways", "BreakAfterInitial", "BreakBeforeAlways",
   "BreakBeforeInitial", "EventSeparator", "LineEnding", "PackedDimensionBounds",
   "RangeSpacing", "UnpackedDimensionBounds"}

\* No key stands for options of two types, and none is the name of a style.
LEMMA EnumKeysOnly == DOMAIN EnumOf = EnumKeys
  BY DEF EnumOf, EnumKeys

LEMMA KeysDistinct ==
  /\ BoolKeys \cap UnsignedKeys = {}
  /\ (BoolKeys \cup UnsignedKeys) \cap DOMAIN EnumOf = {}
  /\ "OneLineFormatOffRegex" \notin BoolKeys \cup UnsignedKeys \cup DOMAIN EnumOf
<1>1. BoolKeys \cap UnsignedKeys = {}
  BY DEF BoolKeys, UnsignedKeys
<1>2. BoolKeys \cap EnumKeys = {}
  BY DEF BoolKeys, EnumKeys
<1>3. UnsignedKeys \cap EnumKeys = {}
  BY DEF UnsignedKeys, EnumKeys
<1>4. "OneLineFormatOffRegex" \notin BoolKeys
  BY DEF BoolKeys
<1>5. "OneLineFormatOffRegex" \notin UnsignedKeys
  BY DEF UnsignedKeys
<1>6. "OneLineFormatOffRegex" \notin EnumKeys
  BY DEF EnumKeys
<1> QED
  BY <1>1, <1>2, <1>3, <1>4, <1>5, <1>6, EnumKeysOnly

LEMMA GroupsDistinct ==
  /\ SingleKeys \cap GroupKeys = {}
  /\ "BasedOnStyle" \notin SingleKeys \cup GroupKeys
<1>1. BoolKeys \cap GroupKeys = {}
  BY DEF BoolKeys, GroupKeys, AlignKeys
<1>2. UnsignedKeys \cap GroupKeys = {}
  BY DEF UnsignedKeys, GroupKeys, AlignKeys
<1>3. EnumKeys \cap GroupKeys = {}
  BY DEF EnumKeys, GroupKeys, AlignKeys
<1>4. "OneLineFormatOffRegex" \notin GroupKeys
  BY DEF GroupKeys, AlignKeys
<1>5. "BasedOnStyle" \notin BoolKeys
  BY DEF BoolKeys
<1>6. "BasedOnStyle" \notin UnsignedKeys
  BY DEF UnsignedKeys
<1>7. "BasedOnStyle" \notin EnumKeys
  BY DEF EnumKeys
<1>8. "BasedOnStyle" \notin GroupKeys
  BY DEF GroupKeys, AlignKeys
<1> QED
  BY <1>1, <1>2, <1>3, <1>4, <1>5, <1>6, <1>7, <1>8, EnumKeysOnly DEF SingleKeys

LEMMA FieldsNamed == \A key \in GroupKeys : "" \notin FieldsOf[key]
<1> SUFFICES ASSUME NEW key \in GroupKeys PROVE "" \notin FieldsOf[key]
  OBVIOUS
<1>1. CASE key \in AlignKeys
  BY <1>1 DEF FieldsOf, AlignFields, PaddingFields
<1>2. CASE key \notin AlignKeys
  BY <1>2 DEF FieldsOf, GroupKeys
<1> QED
  BY <1>1, <1>2

LEMMA SingleParts == \A key : Single(key)[1] = key /\ Single(key)[2] = ""
  BY DEF Single

\* An option is a key alone, or a group with one of its fields.
LEMMA OptionForms ==
  ASSUME NEW option \in Options
  PROVE  \/ option[1] \in SingleKeys /\ option = Single(option[1])
         \/ /\ option[1] \in GroupKeys /\ option[2] \in FieldsOf[option[1]]
            /\ option[2] # ""
<1>1. CASE \E key \in SingleKeys : option = Single(key)
  BY <1>1, SingleParts
<1>2. CASE \E key \in GroupKeys : option \in {key} \X FieldsOf[key]
  <2>1. PICK key \in GroupKeys : option \in {key} \X FieldsOf[key]
    BY <1>2
  <2>2. option[1] = key /\ option[2] \in FieldsOf[key]
    BY <2>1
  <2> QED
    BY <2>1, <2>2, FieldsNamed
<1>3. DOMAIN FieldsOf = GroupKeys
  BY DEF FieldsOf
<1> QED
  BY <1>1, <1>2, <1>3 DEF Options, SingleKeys

\* The alternatives of TypeOf exclude one another.
LEMMA OptionTypes ==
  ASSUME NEW option \in Options
  PROVE  /\ TypeOf[option] = "unsigned" <=>
              option[2] \in PaddingFields \/ option[1] \in UnsignedKeys
         /\ TypeOf[option] = "enum" <=> option[1] \in DOMAIN EnumOf
         /\ TypeOf[option] = "string" <=> option = Single("OneLineFormatOffRegex")
         /\ TypeOf[option] \in {"unsigned", "enum", "string", "bool"}
<1>1. "" \notin PaddingFields
  BY DEF PaddingFields
<1>2. option[1] \in SingleKeys => option[2] = ""
  BY OptionForms, GroupsDistinct, SingleParts
<1>3. option[1] \in DOMAIN EnumOf => option[2] \notin PaddingFields /\ option[1] \notin UnsignedKeys
  BY <1>1, <1>2, KeysDistinct DEF SingleKeys
<1>4. option = Single("OneLineFormatOffRegex") =>
        /\ option[2] \notin PaddingFields /\ option[1] \notin UnsignedKeys
        /\ option[1] \notin DOMAIN EnumOf
  BY <1>1, KeysDistinct, SingleParts
<1>5. TypeOf[option] =
        CASE option[2] \in PaddingFields \/ option[1] \in UnsignedKeys -> "unsigned"
          [] option[1] \in DOMAIN EnumOf -> "enum"
          [] option = Single("OneLineFormatOffRegex") -> "string"
          [] OTHER -> "bool"
  BY DEF TypeOf
<1> QED
  BY <1>3, <1>4, <1>5

LEMMA WidthsAreNumbers ==
  \A key \in {"IndentWidth", "ContinuationIndentWidth", "ParameterPortListIndentWidth"} :
    Single(key) \in Options /\ TypeOf[Single(key)] = "unsigned"
<1> SUFFICES ASSUME NEW key \in {"IndentWidth", "ContinuationIndentWidth",
                                 "ParameterPortListIndentWidth"}
             PROVE  Single(key) \in Options /\ TypeOf[Single(key)] = "unsigned"
  OBVIOUS
<1>1. key \in UnsignedKeys
  BY DEF UnsignedKeys
<1>2. Single(key) \in Options
  BY <1>1 DEF Options
<1>3. Single(key)[1] = key
  BY DEF Single
<1> QED
  BY <1>1, <1>2, <1>3, OptionTypes

\* The names of the enumerations, and their values.
Enums ==
  {"ParenAlignment", "BlockBreak", "DimensionBounds", "EventSeparator", "LineEnding",
   "RangeSpacing"}

LEMMA EnumsHaveValues ==
  ASSUME NEW key \in DOMAIN EnumOf
  PROVE  /\ Fallback[EnumOf[key]] \in EnumValues[EnumOf[key]]
         /\ EnumValues[EnumOf[key]] \subseteq Words
<1>1. EnumOf[key] \in Enums
  BY DEF EnumOf, Enums
<1>2. \A enum \in Enums : Fallback[enum] \in EnumValues[enum]
  BY DEF Enums, Fallback, EnumValues
<1>3. DOMAIN EnumValues = Enums
  BY DEF EnumValues, Enums
<1> QED
  BY <1>1, <1>2, <1>3 DEF Words

\* The predefined style has a value of its type for every option.
LEMMA DefaultsTyped == \A option \in Options : IsValueOf(option, DefaultStyle[option])
<1> SUFFICES ASSUME NEW option \in Options PROVE IsValueOf(option, DefaultOf(option))
  BY DEF DefaultStyle
<1> DEFINE key == option[1]
<1>0. "MaxPadding" \in PaddingFields /\ "MinPadding" \in PaddingFields
  BY DEF PaddingFields
<1>1. CASE option[2] \in PaddingFields
  <2>1. DefaultOf(option) \in Nat
    <3>0. key \notin SingleKeys
      BY <1>0, <1>1, OptionForms, GroupsDistinct, SingleParts DEF PaddingFields
    <3>1. CASE option[2] = "MaxPadding"
      <4>1. DefaultOf(option) = IF key \in InferringKeys THEN 2 ELSE 0
        BY <3>0, <3>1, Zenon DEF DefaultOf, SingleKeys
      <4> QED
        BY <4>1
    <3>2. CASE option[2] = "MinPadding"
      <4>1. DefaultOf(option) =
              IF key \in {"AlignConsecutiveAssignments", "AlignConsecutivePortConnections"}
              THEN 2 ELSE 0
        BY <3>0, <3>2, Zenon DEF DefaultOf, SingleKeys
      <4> QED
        BY <4>1
    <3> QED
      BY <1>1, <3>1, <3>2 DEF PaddingFields
  <2> QED
    BY <1>1, <2>1, OptionTypes DEF IsValueOf
<1>2. CASE option[2] \notin PaddingFields /\ key \in UnsignedKeys
  <2>1. DefaultUnsigned[key] \in Nat
    BY <1>2 DEF UnsignedKeys, DefaultUnsigned
  <2>2. option[2] # "MaxPadding" /\ option[2] # "MinPadding"
    BY <1>0, <1>2
  <2>3. DefaultOf(option) = DefaultUnsigned[key]
    BY <1>2, <2>2, KeysDistinct, Zenon DEF DefaultOf
  <2> QED
    BY <1>2, <2>1, <2>3, OptionTypes DEF IsValueOf
<1>3. CASE key \in DOMAIN EnumOf
  <2>1. key \notin UnsignedKeys /\ option[2] \notin PaddingFields
    BY <1>3, OptionTypes
  <2>2. ASSUME key \in {"BreakAfterAlways", "BreakAfterInitial"}
        PROVE  "OnlyMultiline" \in EnumValues[EnumOf[key]]
    BY <2>2 DEF EnumOf, EnumValues
  <2>3. option[2] # "MaxPadding" /\ option[2] # "MinPadding"
    BY <1>0, <2>1
  <2>4. DefaultOf(option) = IF key \in {"BreakAfterAlways", "BreakAfterInitial"}
                            THEN "OnlyMultiline" ELSE Fallback[EnumOf[key]]
    BY <1>3, <2>1, <2>3, KeysDistinct, Zenon DEF DefaultOf
  <2>5. DefaultOf(option) \in EnumValues[EnumOf[key]]
    BY <1>3, <2>2, <2>4, EnumsHaveValues
  <2> QED
    BY <1>3, <2>5, OptionTypes DEF IsValueOf
<1>4. CASE key = "OneLineFormatOffRegex"
  <2>1. option = Single("OneLineFormatOffRegex")
    BY <1>4, OptionForms, GroupsDistinct DEF SingleKeys
  <2>2. option[2] = ""
    BY <2>1, SingleParts
  <2>3. DefaultOf(option) = ""
    BY <1>4, <2>2, KeysDistinct DEF DefaultOf
  <2> QED
    BY <2>1, <2>3, OptionTypes DEF IsValueOf, Words
<1>5. CASE /\ option[2] \notin PaddingFields /\ key \notin UnsignedKeys
           /\ key \notin DOMAIN EnumOf /\ key # "OneLineFormatOffRegex"
  <2>1. option[2] # "MaxPadding" /\ option[2] # "MinPadding"
    BY <1>0, <1>5
  <2>2. DefaultOf(option) \in BOOLEAN
    <3>1. CASE key \in BoolKeys
      <4>1. DefaultOf(option) = (key \notin FalseByDefault)
        BY <1>5, <2>1, <3>1, Zenon DEF DefaultOf
      <4> QED
        BY <4>1, Zenon
    <3>2. CASE key \notin BoolKeys
      <4>1. DefaultOf(option) = (option \in TrueFields)
        BY <1>5, <2>1, <3>2, Zenon DEF DefaultOf
      <4>2. (option \in TrueFields) \in BOOLEAN
        OBVIOUS
      <4> QED
        BY <4>1, <4>2, Zenon
    <3> QED
      BY <3>1, <3>2
  <2>3. TypeOf[option] = "bool"
    BY <1>5, OptionTypes, SingleParts
  <2> QED
    BY <2>2, <2>3 DEF IsValueOf
<1> QED
  BY <1>1, <1>2, <1>3, <1>4, <1>5

-----------------------------------------------------------------------------
(* Texts that are read and written. *)

\* A text that may stand for an option: a number for the pattern is one of the
\* words only if the user wrote it there.
MayStand(option, text) ==
  text \in Texts /\ (option = Single("OneLineFormatOffRegex") => Spelling(text) \in Words)

LEMMA ScalarForms ==
  ASSUME NEW text \in Texts
  PROVE  \/ DOMAIN text = {"bool"} /\ text["bool"] \in BOOLEAN
         \/ DOMAIN text = {"unsigned"} /\ text["unsigned"] \in Nat
         \/ DOMAIN text = {"word"} /\ text["word"] \in Words
  BY DEF Texts

\* What parseBool, parseUnsigned, parseString and parseEnum return.
LEMMA ReadTyped ==
  ASSUME NEW option \in Options, NEW text, MayStand(option, text), Converts(option, text)
  PROVE  IsValueOf(option, AsValue(option, text))
<1>1. CASE TypeOf[option] \in {"unsigned", "bool"}
  BY <1>1, ScalarForms DEF Converts, AsValue, IsValueOf, MayStand
<1>2. CASE TypeOf[option] = "enum"
  BY <1>2, OptionTypes, EnumsHaveValues DEF AsValue, IsValueOf
<1>3. CASE TypeOf[option] = "string"
  BY <1>3, OptionTypes DEF AsValue, IsValueOf, MayStand
<1> QED
  BY <1>1, <1>2, <1>3, OptionTypes

\* What is emitted for a value reads back as that value.
LEMMA WrittenReads ==
  ASSUME NEW option \in Options, NEW value, IsValueOf(option, value)
  PROVE  /\ MayStand(option, Emit(option, value)) /\ Converts(option, Emit(option, value))
         /\ AsValue(option, Emit(option, value)) = value
<1> DEFINE text == Emit(option, value)
<1>1. CASE TypeOf[option] = "unsigned"
  <2>1. value \in Nat /\ text = [t \in {"unsigned"} |-> value]
    BY <1>1 DEF IsValueOf, Emit, TextOf
  <2>2. text \in Texts
    BY <2>1 DEF Texts
  <2> QED
    BY <1>1, <2>1, <2>2, OptionTypes DEF Converts, AsValue, MayStand
<1>2. CASE TypeOf[option] = "bool"
  <2>1. value \in BOOLEAN /\ text = [t \in {"bool"} |-> value]
    BY <1>2 DEF IsValueOf, Emit, TextOf
  <2>2. text \in Texts
    BY <2>1 DEF Texts
  <2> QED
    BY <1>2, <2>1, <2>2, OptionTypes DEF Converts, AsValue, MayStand
<1>3. CASE TypeOf[option] \in {"enum", "string"}
  <2>1. value \in Words
    BY <1>3, OptionTypes, EnumsHaveValues DEF IsValueOf
  <2>2. text = [t \in {"word"} |-> value]
    BY <1>3 DEF Emit, TextOf
  <2>3. text \in Texts
    BY <2>1, <2>2 DEF Texts
  <2>4. Spelling(text) = value
    BY <2>2 DEF Spelling
  <2>5. AsValue(option, text) = value
    BY <1>3, <2>4, OptionTypes DEF AsValue, IsValueOf
  <2> QED
    BY <1>3, <2>1, <2>3, <2>4, <2>5 DEF Converts, MayStand
<1> QED
  BY <1>1, <1>2, <1>3, OptionTypes

-----------------------------------------------------------------------------
(* Files. *)

\* Settings that a user or a dump may have written.
IsSettings(settings) ==
  \A option \in DOMAIN settings : MayStand(option, settings[option])

\* The widths that follow another one.
Continuation == Single("ContinuationIndentWidth")
PortList == Single("ParameterPortListIndentWidth")

LEMMA WidthsDiffer ==
  /\ Single("IndentWidth") \in Options \ {Continuation, PortList}
  /\ Continuation \in Options \ {PortList} /\ PortList \in Options
  BY WidthsAreNumbers, SingleParts DEF Continuation, PortList

\* Setting an option wins over all that a file says elsewhere.
LEMMA ParseSets ==
  ASSUME NEW settings, NEW option \in Options \cap DOMAIN settings
  PROVE  ParseConfig(settings, DefaultStyle)[option] = AsValue(option, settings[option])
<1>1. CASE option = Continuation
  BY <1>1, WidthsDiffer DEF ParseConfig, Continuation, PortList
<1>2. CASE option = PortList
  BY <1>2, WidthsDiffer DEF ParseConfig, Continuation, PortList
<1>3. CASE option \notin {Continuation, PortList}
  BY <1>3 DEF ParseConfig, Continuation, PortList
<1> QED
  BY <1>1, <1>2, <1>3

\* What is not set is as in the predefined style, but for the widths that follow
\* another one.
LEMMA ParseKeeps ==
  ASSUME NEW settings, NEW option \in Options \ DOMAIN settings,
         option \notin {Continuation, PortList}
  PROVE  ParseConfig(settings, DefaultStyle)[option] = DefaultStyle[option]
  BY DEF ParseConfig, Continuation, PortList

\* A width that is not set is the one before it.
LEMMA ParseFollows ==
  ASSUME NEW settings, NEW style, style = ParseConfig(settings, DefaultStyle)
  PROVE  /\ Continuation \notin DOMAIN settings =>
              style[Continuation] = style[Single("IndentWidth")]
         /\ PortList \notin DOMAIN settings =>
              style[PortList] = style[Continuation]
<1>1. Continuation \notin DOMAIN settings =>
        style[Continuation] = style[Single("IndentWidth")]
  BY WidthsDiffer DEF ParseConfig, Continuation, PortList
<1>2. PortList \notin DOMAIN settings => style[PortList] = style[Continuation]
  BY WidthsDiffer DEF ParseConfig, Continuation, PortList
<1> QED
  BY <1>1, <1>2

\* A file that loads gives every option a value of its type.
LEMMA ParseTyped ==
  ASSUME NEW settings, IsSettings(settings), ~Throws(settings)
  PROVE  LET style == ParseConfig(settings, DefaultStyle)
         IN  \A option \in Options : IsValueOf(option, style[option])
<1> DEFINE style == ParseConfig(settings, DefaultStyle)
<1> HIDE DEF style
<1> SUFFICES ASSUME NEW option \in Options PROVE IsValueOf(option, style[option])
  BY DEF style
<1>1. ASSUME NEW o \in Options \cap DOMAIN settings
      PROVE  IsValueOf(o, style[o])
  <2>1. MayStand(o, settings[o]) /\ Converts(o, settings[o])
    BY DEF IsSettings, Throws
  <2> QED
    BY <2>1, ReadTyped, ParseSets DEF style
<1>2. ASSUME NEW o \in Options \ DOMAIN settings, o \notin {Continuation, PortList}
      PROVE  IsValueOf(o, style[o])
  BY <1>2, ParseKeeps, DefaultsTyped DEF style
<1>3. \A o, other \in Options :
        TypeOf[o] = "unsigned" /\ TypeOf[other] = "unsigned" =>
          \A value : IsValueOf(o, value) <=> IsValueOf(other, value)
  BY DEF IsValueOf
<1>4. /\ TypeOf[Single("IndentWidth")] = "unsigned" /\ TypeOf[Continuation] = "unsigned"
      /\ TypeOf[PortList] = "unsigned"
  BY WidthsAreNumbers DEF Continuation, PortList
<1>5. IsValueOf(Single("IndentWidth"), style[Single("IndentWidth")])
  BY <1>1, <1>2, WidthsDiffer
<1>6. IsValueOf(Continuation, style[Continuation])
  <2>1. CASE Continuation \in DOMAIN settings
    BY <1>1, <2>1, WidthsDiffer
  <2>2. CASE Continuation \notin DOMAIN settings
    <3>1. style[Continuation] = style[Single("IndentWidth")]
      BY <2>2, ParseFollows DEF style
    <3> QED
      BY <1>3, <1>4, <1>5, <3>1, WidthsDiffer
  <2> QED
    BY <2>1, <2>2
<1>7. IsValueOf(PortList, style[PortList])
  <2>1. CASE PortList \in DOMAIN settings
    BY <1>1, <2>1, WidthsDiffer
  <2>2. CASE PortList \notin DOMAIN settings
    <3>1. style[PortList] = style[Continuation]
      BY <2>2, ParseFollows DEF style
    <3> QED
      BY <1>3, <1>4, <1>6, <3>1, WidthsDiffer
  <2> QED
    BY <2>1, <2>2
<1> QED
  BY <1>1, <1>2, <1>6, <1>7

\* A dump loads, with the values that were dumped.
LEMMA DumpReadsBack ==
  ASSUME NEW style, \A option \in Options : IsValueOf(option, style[option])
  PROVE  LET settings == DumpConfig(style)
         IN  /\ IsSettings(settings) /\ ~Throws(settings)
             /\ \A option \in Emitted :
                  ParseConfig(settings, DefaultStyle)[option] = style[option]
<1> DEFINE settings == DumpConfig(style)
<1>1. DOMAIN settings = Emitted /\ Emitted \subseteq Options
  BY DEF DumpConfig, Emitted
<1>2. \A option \in Emitted : settings[option] = Emit(option, style[option])
  BY DEF DumpConfig
<1> HIDE DEF settings
<1>3. \A option \in Emitted :
        MayStand(option, settings[option]) /\ Converts(option, settings[option])
  BY <1>1, <1>2, WrittenReads
<1>4. \A option \in Emitted : ~(option[1] \in DOMAIN FieldsOf /\ option[2] = "")
  BY <1>1, OptionForms, GroupsDistinct DEF FieldsOf
<1>5. BasedOnStyle \notin Emitted
  BY <1>1, OptionForms, GroupsDistinct, SingleParts DEF BasedOnStyle
<1>6. IsSettings(settings) /\ ~Throws(settings)
  BY <1>1, <1>3, <1>4, <1>5 DEF IsSettings, Throws
<1>7. \A option \in Emitted : ParseConfig(settings, DefaultStyle)[option] = style[option]
  BY <1>1, <1>2, ParseSets, WrittenReads
<1> QED
  BY <1>6, <1>7 DEF settings

\* Two files, and the options for which they say different things.
Differ(settings, others) ==
  LET kept == DOMAIN settings \cap DOMAIN others
  IN  ((DOMAIN settings \cup DOMAIN others) \ kept)
        \cup {option \in kept : settings[option] # others[option]}

\* Two files that differ in some options give styles that differ in these and the
\* widths that follow them.
LEMMA ParseLocal ==
  ASSUME NEW S, NEW T, NEW other \in Options \ Differ(S, T),
         ParseConfig(S, DefaultStyle)[other] # ParseConfig(T, DefaultStyle)[other]
  PROVE  /\ other \notin DOMAIN S
         /\ \E option \in Differ(S, T) : other \in Followers(option)
<1> DEFINE before == ParseConfig(S, DefaultStyle)
           after  == ParseConfig(T, DefaultStyle)
           indent == Single("IndentWidth")
<1> HIDE DEF before, after
<1>1. \A o \in Options \ Differ(S, T) :
        /\ o \in DOMAIN S <=> o \in DOMAIN T
        /\ o \in DOMAIN S => S[o] = T[o]
  BY DEF Differ
<1>2. \A o \in Options \ Differ(S, T) : o \in DOMAIN S => before[o] = after[o]
  BY <1>1, ParseSets DEF before, after
<1>3. \A o \in Options \ Differ(S, T) :
        o \notin {Continuation, PortList} => before[o] = after[o]
  BY <1>1, <1>2, ParseKeeps DEF before, after
<1>4. /\ Continuation \in Followers(indent) /\ PortList \in Followers(indent)
      /\ PortList \in Followers(Continuation)
  <2>1. indent # Continuation
    BY WidthsDiffer
  <2> QED
    BY <2>1 DEF Followers, Continuation, PortList
<1>5. ASSUME Continuation \notin Differ(S, T), before[Continuation] # after[Continuation]
      PROVE  indent \in Differ(S, T)
  <2>1. Continuation \notin DOMAIN S /\ Continuation \notin DOMAIN T
    BY <1>1, <1>2, <1>5, WidthsDiffer
  <2>2. before[indent] # after[indent]
    BY <1>5, <2>1, ParseFollows DEF before, after
  <2> QED
    BY <1>3, <2>2, WidthsDiffer
<1>6. before[other] # after[other]
  BY DEF before, after
<1>7. other \notin DOMAIN S /\ other \notin DOMAIN T
  BY <1>1, <1>2, <1>6
<1>8. CASE other = Continuation
  BY <1>4, <1>5, <1>6, <1>7, <1>8
<1>9. CASE other = PortList
  <2>1. before[Continuation] # after[Continuation]
    BY <1>6, <1>7, <1>9, ParseFollows DEF before, after
  <2> QED
    BY <1>4, <1>5, <1>7, <1>9, <2>1
<1> QED
  BY <1>3, <1>6, <1>8, <1>9

-----------------------------------------------------------------------------
(* The file through edits and dumps. *)

\* Whatever stands in the file is something the user may write.
FileOK ==
  /\ file.kind \in {"absent", "scalar", "map"}
  /\ file.kind = "map" => IsSettings(file.settings)

LEMMA LoadedTyped ==
  ASSUME FileOK, NEW result, result = LoadConfig(file), result.loaded
  PROVE  \A option \in Options : IsValueOf(option, result.style[option])
<1>1. CASE file.kind = "absent"
  BY <1>1, DefaultsTyped DEF LoadConfig, Loaded
<1>2. CASE file.kind = "scalar"
  BY <1>2 DEF LoadConfig, Throwing
<1>3. CASE file.kind = "map"
  <2>1. ~Throws(file.settings)
    BY <1>3 DEF LoadConfig, Throwing
  <2>2. result.style = ParseConfig(file.settings, DefaultStyle)
    BY <1>3, <2>1 DEF LoadConfig, Loaded
  <2> QED
    BY <1>3, <2>1, <2>2, ParseTyped DEF FileOK
<1> QED
  BY <1>1, <1>2, <1>3 DEF FileOK

LEMMA FileInit == Init => FileOK
  BY DEF Init, FileOK, NoFile, NotAMap, Mapping, IsSettings

LEMMA DumpStep == ASSUME FileOK, NEW noConfig \in BOOLEAN, file' = DumpedBy(noConfig)
                  PROVE  FileOK'
<1> DEFINE result == IF noConfig THEN Loaded(DefaultStyle) ELSE LoadConfig(file)
<1>1. CASE result.loaded
  <2>1. \A option \in Options : IsValueOf(option, result.style[option])
    BY <1>1, LoadedTyped, DefaultsTyped DEF Loaded
  <2>2. file' = Mapping(DumpConfig(result.style))
    BY <1>1 DEF DumpedBy
  <2>3. IsSettings(DumpConfig(result.style))
    BY <2>1, DumpReadsBack
  <2> QED
    BY <2>2, <2>3 DEF FileOK, Mapping
<1>2. CASE ~result.loaded
  BY <1>2 DEF DumpedBy, FileOK
<1> QED
  BY <1>1, <1>2

LEMMA FileStep == FileOK /\ [Next]_vars => FileOK'
<1> SUFFICES ASSUME FileOK, [Next]_vars PROVE FileOK'
  OBVIOUS
<1>1. file.kind = "map" => Settings = file.settings
  BY DEF Settings
<1>2. \A option \in DOMAIN Settings : MayStand(option, Settings[option])
  BY DEF Settings, FileOK, IsSettings
<1>3. ASSUME NEW edit \in Edits, Edit(edit[1], edit[2])
      PROVE  FileOK'
  <2>1. MayStand(edit[1], edit[2])
    <3>1. edit[2] \in Texts
      BY EditsAssumption
    <3>2. Spelling(edit[2]) \in Words
      <4>1. Spelling(edit[2]) \in UserWords
        BY DEF UserWords
      <4> QED
        BY <4>1 DEF Words
    <3> QED
      BY <3>1, <3>2 DEF MayStand
  <2>2. PICK others \in SUBSET DOMAIN Settings :
          file' = Mapping([other \in others \cup {edit[1]} |->
                             IF other = edit[1] THEN edit[2] ELSE Settings[other]])
    BY <1>3 DEF Edit
  <2> QED
    BY <1>2, <2>1, <2>2 DEF FileOK, Mapping, IsSettings
<1>4. ASSUME NEW edit \in Edits, Remove(edit[1])
      PROVE  FileOK'
  BY <1>2, <1>4 DEF Remove, FileOK, Mapping, IsSettings
<1>5. ASSUME NEW noConfig \in BOOLEAN, DumpAside(noConfig) \/ DumpIntoFile(noConfig)
      PROVE  FileOK'
  BY <1>5, DumpStep DEF DumpAside, DumpIntoFile
<1>6. CASE Redirect
  BY <1>6 DEF Redirect, NotAMap, FileOK
<1>7. CASE UNCHANGED vars
  BY <1>7 DEF vars, FileOK
<1> QED
  BY <1>3, <1>4, <1>5, <1>6, <1>7 DEF Next

LEMMA FileInvariant == Spec => []FileOK
  BY FileInit, FileStep, PTL DEF Spec

-----------------------------------------------------------------------------
(* Theorems. *)

\* A file that loads gives each option it sets what it says, and every option a
\* value of its type, whatever else it holds (parseConfig).
THEOREM SettingsCorrect == Spec => []SetOptionsWin
<1>1. ASSUME FileOK PROVE SetOptionsWin
  <2> DEFINE result == LoadConfig(file)
  <2> SUFFICES ASSUME result.loaded
               PROVE  /\ \A option \in Options \cap DOMAIN Settings :
                           result.style[option] = AsValue(option, Settings[option])
                      /\ \A option \in Options : IsValueOf(option, result.style[option])
    BY DEF SetOptionsWin
  <2>1. \A option \in Options : IsValueOf(option, result.style[option])
    BY <1>1, LoadedTyped
  <2>2. CASE file.kind = "map"
    <3>1. ~Throws(file.settings)
      BY <2>2 DEF LoadConfig, Throwing
    <3>2. result.style = ParseConfig(file.settings, DefaultStyle)
      BY <2>2, <3>1 DEF LoadConfig, Loaded
    <3> QED
      BY <2>1, <2>2, <3>2, ParseSets DEF Settings
  <2>3. CASE file.kind # "map"
    <3>1. DOMAIN Settings = {}
      BY <2>3 DEF Settings
    <3> QED
      BY <2>1, <3>1
  <2> QED
    BY <2>2, <2>3
<1> QED
  BY <1>1, FileInvariant, PTL

\* What an edit changes in the style is the option edited and the widths that
\* follow it (parseConfig).
THEOREM EditsLocal == Spec => EditsAreLocal
<1> DEFINE Local ==
      LET before  == LoadConfig(file)
          after   == LoadConfig(file')
          kept    == DOMAIN Settings \cap DOMAIN Settings'
          changed == ((DOMAIN Settings \cup DOMAIN Settings') \ kept)
                     \cup {option \in kept : Settings[option] # Settings'[option]}
      IN  edits' # edits /\ file.kind = "map" /\ before.loaded /\ after.loaded =>
            \A other \in Options \ changed :
              before.style[other] # after.style[other] =>
                /\ other \notin DOMAIN Settings
                /\ \E option \in changed : other \in Followers(option)
<1>1. ASSUME NEW from, from.kind = "map", LoadConfig(from).loaded
      PROVE  LoadConfig(from).style = ParseConfig(from.settings, DefaultStyle)
  BY <1>1 DEF LoadConfig, Throwing, Loaded
<1>2. ASSUME Next, edits' # edits
      PROVE  file'.kind = "map"
  <2>1. ~Redirect /\ \A noConfig : ~DumpAside(noConfig) /\ ~DumpIntoFile(noConfig)
    BY <1>2 DEF Redirect, DumpAside, DumpIntoFile
  <2>2. \E edit \in Edits : Edit(edit[1], edit[2]) \/ Remove(edit[1])
    BY <1>2, <2>1 DEF Next
  <2> QED
    BY <2>2 DEF Edit, Remove, Mapping
<1>3. ASSUME Next PROVE Local
  <2> DEFINE S == Settings
             T == Settings'
  <2> SUFFICES ASSUME edits' # edits, file.kind = "map",
                      LoadConfig(file).loaded, LoadConfig(file').loaded,
                      NEW other \in Options \ Differ(S, T),
                      LoadConfig(file).style[other] # LoadConfig(file').style[other]
               PROVE  /\ other \notin DOMAIN S
                      /\ \E option \in Differ(S, T) : other \in Followers(option)
    BY DEF Differ
  <2>1. file'.kind = "map"
    BY <1>2, <1>3
  <2>2. S = file.settings /\ T = file'.settings
    BY <2>1 DEF Settings
  <2> HIDE DEF S, T
  <2>3. ParseConfig(S, DefaultStyle)[other] # ParseConfig(T, DefaultStyle)[other]
    BY <1>1, <2>1, <2>2
  <2> QED
    BY <2>3, ParseLocal
<1>4. [Next]_vars => [Local]_vars
  BY <1>3
<1> QED
  BY <1>4, PTL DEF Spec, EditsAreLocal

\* A dump of the style that a file stands for stands for the same style
\* (dumpConfig, parseConfig).
THEOREM DumpsReload == Spec => DumpReloads
<1>1. ASSUME FileOK, NEW noConfig \in BOOLEAN, DumpAside(noConfig),
             NEW before, before = IF noConfig THEN Loaded(DefaultStyle) ELSE LoadConfig(file),
             before.loaded
      PROVE  LET after == LoadConfig(file')
             IN  /\ after.loaded
                 /\ \A option \in Emitted : after.style[option] = before.style[option]
  <2> DEFINE settings == DumpConfig(before.style)
  <2>1. \A option \in Options : IsValueOf(option, before.style[option])
    BY <1>1, LoadedTyped, DefaultsTyped DEF Loaded
  <2>2. file' = Mapping(settings)
    BY <1>1 DEF DumpAside, DumpedBy
  <2>3. /\ ~Throws(settings)
        /\ \A option \in Emitted :
             ParseConfig(settings, DefaultStyle)[option] = before.style[option]
    BY <2>1, DumpReadsBack
  <2>4. LoadConfig(file') = Loaded(ParseConfig(settings, DefaultStyle))
    BY <2>2, <2>3 DEF LoadConfig, Mapping
  <2> QED
    BY <2>3, <2>4 DEF Loaded
<1> DEFINE Reloads ==
      \A noConfig \in BOOLEAN :
        DumpAside(noConfig) =>
          LET before == IF noConfig THEN Loaded(DefaultStyle) ELSE LoadConfig(file)
              after  == LoadConfig(file')
          IN  before.loaded => /\ after.loaded
                               /\ \A option \in Emitted :
                                    after.style[option] = before.style[option]
<1>2. FileOK => Reloads
  BY <1>1
<1> QED
  BY <1>2, FileInvariant, PTL DEF DumpReloads
=============================================================================

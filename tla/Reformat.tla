------------------------------- MODULE Reformat -------------------------------
(***************************************************************************)
(* reformat(): what happens to the characters of a text around the passes  *)
(* over its tree and its lines.  The line ending is resolved, carriage     *)
(* returns are dropped, the text is formatted, lines that the one-line     *)
(* pattern matches lose their indentation, and the line ending comes back. *)
(***************************************************************************)
EXTENDS Integers, FiniteSets, SequencesExt

CONSTANTS
  Sources,    \* the texts to be formatted
  Styles,     \* the style options that matter here
  Formats(_)  \* what the rewriter, the printer and the alignment passes may
              \* make of a text without carriage returns

\* Characters: "match" stands for a piece of code that the pattern matches.
Chars == {"cr", "lf", "space", "code", "match"}
Text == Seq(Chars)

LineEndingStyle == {"CRLF", "DeriveCRLF", "DeriveLF", "LF"}

\* OneLineFormatOffRegex: whether there is a pattern.
Style == [LineEnding : LineEndingStyle, OneLineFormatOffRegex : BOOLEAN]

ASSUME SourcesAssumption == Sources \subseteq Text

ASSUME StylesAssumption == Styles \subseteq Style

\* What a loop over the characters of a text writes.
ForEach(t, write) == FlattenSeq([k \in DOMAIN t |-> write[t[k]]])

\* The characters of a text that are among the given ones.
Only(t, chars) == ForEach(t, [c \in Chars |-> IF c \in chars THEN <<c>> ELSE <<>>])

Newlines(t) == {k \in DOMAIN t : t[k] = "lf"}

\* Mutation: only the carriage returns in front of a newline are dropped.
StripLineEndings(t) ==
  FlattenSeq([k \in DOMAIN t |->
                IF t[k] = "cr" /\ k + 1 \in Newlines(t) THEN <<>> ELSE <<t[k]>>])

StripCarriageReturns(t) == Only(t, Chars \ {"cr"})

\* No pass writes a carriage return when the text it reads has none.
ASSUME FormatsAssumption ==
  \A s \in Sources : Formats(Only(s, Chars \ {"cr"})) \subseteq Seq(Chars \ {"cr"})

VARIABLES
  style,     \* the style in force
  source,    \* the text that was given
  stage,     \* how far reformat() has come
  resolved,  \* the line ending that the result gets
  formatted, \* what Formats made (history)
  text,      \* the text as the stages in front have left it
  pos,       \* where the one-line pass stands in the text
  result     \* what the one-line pass has written

vars == <<style, source, stage, resolved, formatted, text, pos, result>>

Stages == {"resolve", "strip", "format", "one line", "ending", "done"}

-----------------------------------------------------------------------------

CarriageReturns(t) == {k \in Newlines(t) : k > 1 /\ t[k - 1] = "cr"}

\* The majority decides, and the name of the style when there is none.
ResolveLineEnding(t, lineEnding) ==
  LET crlfCount == Cardinality(CarriageReturns(t))
      lfCount == Cardinality(Newlines(t) \ CarriageReturns(t))
  IN  CASE lineEnding \in {"LF", "CRLF"} -> lineEnding
        [] lineEnding = "DeriveCRLF" -> IF lfCount > crlfCount THEN "LF" ELSE "CRLF"
        [] lineEnding = "DeriveLF" -> IF crlfCount > lfCount THEN "CRLF" ELSE "LF"

\* Mutation: a newline that starts the text or follows another one gets none.
ApplyLineEndingToLines(t) ==
  FlattenSeq([k \in DOMAIN t |->
                IF t[k] = "lf" /\ k > 1 /\ t[k - 1] # "lf" THEN <<"cr", "lf">> ELSE <<t[k]>>])

ApplyLineEnding(t) ==
  ForEach(t, [c \in Chars |-> IF c = "lf" THEN <<"cr", "lf">> ELSE <<c>>])

\* Mutation: the end of the line is looked for from the start of the text.
FirstLine(t, from) == SubSeq(t, from, Min(Newlines(t) \cup {Len(t)}))

\* The line that starts at a position, with its newline.
LineAt(t, from) == SubSeq(t, from, Min({k \in Newlines(t) : k >= from} \cup {Len(t)}))

\* The line without its indentation.
Trimmed(line) ==
  LET content == {k \in DOMAIN line : line[k] # "space"}
  IN  IF content = {} THEN <<>> ELSE SubSeq(line, Min(content), Len(line))

RegexSearch(line) == \E k \in DOMAIN line : line[k] = "match"

-----------------------------------------------------------------------------

Init ==
  /\ style \in Styles /\ source \in Sources
  /\ stage = "resolve" /\ resolved = "LF"
  /\ text = source /\ formatted = <<>>
  /\ pos = 1 /\ result = <<>>

Resolve ==
  /\ stage = "resolve"
  /\ resolved' = ResolveLineEnding(source, style.LineEnding)
  /\ stage' = "strip"
  /\ UNCHANGED <<style, source, formatted, text, pos, result>>

Strip ==
  /\ stage = "strip"
  /\ text' = StripCarriageReturns(text)
  /\ stage' = "format"
  /\ UNCHANGED <<style, source, resolved, formatted, pos, result>>

\* The rewrite passes, the printer and applyAlignment.
Format ==
  /\ stage = "format"
  /\ text' \in Formats(text)
  /\ formatted' = text'
  /\ stage' = IF style.OneLineFormatOffRegex THEN "one line" ELSE "ending"
  /\ UNCHANGED <<style, source, resolved, pos, result>>

\* What the one-line pass writes for a line.
FormattedOff(line) == IF RegexSearch(Trimmed(line)) THEN Trimmed(line) ELSE line

\* Mutation: the pass moves on by what it wrote, not by what it read.
OneLineFormatOffBehind ==
  /\ stage = "one line" /\ pos <= Len(text)
  /\ LET line == LineAt(text, pos)
     IN  result' = result \o FormattedOff(line) /\ pos' = pos + Len(FormattedOff(line))
  /\ UNCHANGED <<style, source, stage, resolved, formatted, text>>

\* One turn of applyOneLineFormatOff.
OneLineFormatOff ==
  /\ stage = "one line" /\ pos <= Len(text)
  /\ LET line == LineAt(text, pos)
     IN  result' = result \o FormattedOff(line) /\ pos' = pos + Len(line)
  /\ UNCHANGED <<style, source, stage, resolved, formatted, text>>

EndOneLineFormatOff ==
  /\ stage = "one line" /\ pos > Len(text)
  /\ text' = result
  /\ stage' = "ending"
  /\ UNCHANGED <<style, source, resolved, formatted, pos, result>>

LineEnding ==
  /\ stage = "ending"
  /\ text' = IF resolved = "CRLF" THEN ApplyLineEnding(text) ELSE text
  /\ stage' = "done"
  /\ UNCHANGED <<style, source, resolved, formatted, pos, result>>

Step == Resolve \/ Strip \/ Format \/ OneLineFormatOff \/ EndOneLineFormatOff \/ LineEnding

Done == stage = "done" /\ UNCHANGED vars

Next == Step \/ Done

\* One thread that waits for nothing keeps running.
Spec == Init /\ [][Next]_vars /\ WF_vars(Step)

-----------------------------------------------------------------------------
(* Properties. *)

\* applyLineEnding behind stripCarriageReturns: whatever mixture the source had,
\* the result has one line ending, the resolved one, and no carriage return
\* anywhere else.
EndingsUniform ==
  stage = "done" =>
    /\ CarriageReturns(text) = IF resolved = "CRLF" THEN Newlines(text) ELSE {}
    /\ \A k \in DOMAIN text : text[k] = "cr" => k + 1 \in CarriageReturns(text)

\* resolveLineEnding: formatting the result again gives the same line ending, and
\* the two passes over lines do not change that, whatever newlines the formatter
\* adds or removes.
EndingStable ==
  stage = "done" =>
    \/ ResolveLineEnding(text, style.LineEnding) = resolved
    \/ Newlines(text) = {}

Visible(t) == Only(t, {"code", "match"})

\* reformat(): no stage before the formatter, and none after it, loses or reorders
\* anything but blanks and carriage returns; the one-line pass writes every line
\* and stays within the text.
ContentKept ==
  /\ stage \in {"strip", "format"} => Visible(text) = Visible(source)
  /\ stage \in {"one line", "ending", "done"} => Visible(text) = Visible(formatted)
  /\ stage = "one line" =>
       /\ pos \in 1..(Len(text) + 1)
       /\ Visible(result) = Visible(SubSeq(text, 1, pos - 1))

\* The result is reached whatever the lines look like.
Terminates == <>(stage = "done")
=============================================================================

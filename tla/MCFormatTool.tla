----------------------------- MODULE MCFormatTool -----------------------------
(***************************************************************************)
(* A working directory /w with files in it and in /w/d, two levels of      *)
(* configuration, an ignore file, file lists, and every short command line *)
(* over them.                                                              *)
(***************************************************************************)
EXTENDS ToolProperties

F(name) == <<name>>
D(name) == <<"d", name>>
W(path) == <<"w">> \o path

MCTexts == {"empty", "partial", "raw", "one", "two"}

\* Formatting changes a text at most twice; formatting twice is not always
\* formatting once.
MCReformat ==
  [ts \in MCTexts \X {"Default", "S", "T", "invalid"} |->
     CASE ts[1] = "empty" -> "empty"
       [] ts[1] = "partial" -> "partial"
       [] ts[2] = "S" -> IF ts[1] = "raw" THEN "one" ELSE "two"
       [] OTHER -> "one"]

\* A near file of the second name and a far one of the first name; /w/e has no
\* valid configuration.
MCConfigs ==
  (<<W(<<>>), 2>> :> "S") @@ (<<<<>>, 1>> :> "T") @@ (<<W(<<"e">>), 1>> :> "invalid")

Entry(matches, negated) == [matches |-> matches, negated |-> negated]

\* In /w, a and d/c are ignored, then d/c is not; in /w/e everything is.
MCIgnores ==
  (<<W(<<>>), 1>> :> <<Entry({F("i"), D("c"), F("a")}, FALSE), Entry({D("c"), F("a")}, TRUE)>>)
    @@ (<<W(<<"e">>), 1>> :> <<Entry({F("i")}, FALSE)>>)

MCLists ==
  (F("entries") :> <<D("c"), F("a")>>) @@ (F("none") :> <<>>)

MCDisks ==
  {[f \in {W(F("a")), W(D("c")), W(F("r")), W(F("i")), W(<<"e", "x">>), W(<<"e", "i">>)} |->
      IF f = W(F("a")) THEN a ELSE IF f = W(F("r")) THEN r ELSE "raw"] :
     a \in {"raw", "two"}, r \in {"raw", "two"}}

File(path) == [list |-> FALSE, name |-> path]

MCArguments ==
  {File(F("a")), File(F("r")), File(F("i")), File(<<"e", "x">>), File(<<"e", "i">>),
   File(F("missing")), File(Stdin), AsList(F("entries")), AsList(F("lost"))}

CommandLines(options, length, fileLists) ==
  {[options |-> o, positional |-> p, fileLists |-> l] :
     o \in options, p \in UNION {[1..n -> MCArguments] : n \in 0..length}, l \in fileLists}

FormatOptions ==
  {{}, {"inplace"}, {"inplace", "noIgnored"}, {"inplace", "noConfig"}, {"noConfig", "noIgnored"}}

MCInvocations ==
  CommandLines(FormatOptions, 2, {<<>>, <<F("entries")>>})
  \cup CommandLines({{"listIgnored"}, {"listIgnored", "noIgnored"}}, 2, {<<>>})
  \cup CommandLines({{"inplace"}}, 1, {<<F("none")>>, <<F("lost")>>, <<F("none"), F("entries")>>})
  \cup CommandLines({{"help"}, {"version"}, {"dumpConfig"}, {"dumpConfig", "noConfig"}}, 0, {<<>>})

MCInputs == {"raw"}
MCReadOnly == {W(F("r"))}
WorkingDirectory == <<"w">>
AnyFault == {"crash", "write"}
=============================================================================

# slang-format: a TLA+ verification project

slang-format reformats SystemVerilog source. `reformat()` parses the text with
slang, runs five structural rewrite passes over the syntax tree, walks the
rewritten tree once to emit text (`FormatPrinter`), then runs six text-level
alignment passes, a regex pass and a line-ending pass. The command-line tool
adds file lists, ignore files, configuration lookup and in-place editing.

There are no threads. What makes the program hard to get right is a long
sequential walk over about twenty-five mutable printer fields, each set by one
helper and consumed by another one several tokens later, plus two side tables
(the per-line metadata and the set of format-off lines) that a later pass must
interpret exactly as the printer meant them.

## 1. Inventory

### FormatPrinter core (`source/FormatPrinter.{h,cpp}`, `source/TokenHelper.cpp`)
State: `output`, `lineMetadata`/`currentLineMeta`, `outputLineNumber`,
`lineStart`, `depth`/`lineDepth`, `atLineStart`, `nextIsPrimary`,
`portItemNextIndent`, `parenAlignColumn`, `formatEnabled`, `emptyLineCount`,
`triviaSkip`, `beforeOperator`, `suppressSeparator`, `after.*`,
`bracketDepth`, the dimension flags, the `spaceBeforeClose*Pending` flags,
`skipExpandedToken`, `nextLineKind`, `lastTokenKind`.
Operations: `emitToken`, `emitTrivia`, `emitDirectiveTrivia`,
`emitEndTokenTrivia`, `emitLeadingTrailingComment`, `insertBlankLineBefore`,
`forceNewline`, `finalizeLine`, `breakBeforeClose`, `ensureSpace`,
`ensureSingleSpace`, `normalizeSpaceBefore`, `stripTrailingSpaces`,
`forceStatementBreak`, `visitBody`.
Correct when: no token or comment is lost, duplicated or reordered; two tokens
never merge; no token lands behind a line comment; metadata record k describes
output line `lineNumber`; `lineStart` is the start of the last line; the text of
a format-off region is left alone; blank lines stay within the limit.

### Node handlers (`source/Format{Statement,Member,Expression,Declaration,PortList,Class}.cpp`)
One `handle()` per syntax kind: a sequence of calls to the helpers above, with
conditions on style, on source trivia (`hasLeadingNewline`) and on printer state.
The ones with behaviour of their own: block statements, conditionals, loops,
case items, procedural blocks, module members and time-units compaction,
function port lists (speculative emission, then rollback by `output.resize`),
constraint blocks, coverpoints and crosses (one-line compaction that skips
trivia), binary operators, argument wrapping, UDP edge fields.

### Rewriter (`source/Rewriter.cpp`)
State: the tree. Five passes; three iterate to a fixpoint
(`transformUntilConverged`), two run once. A replaced node is not revisited, so
nested changes registered in the same pass are lost and redone in the next one.
Correct when: every pass terminates, no bare body / wrong separator / missing
parenthesis remains, the token content other than the inserted or replaced
tokens is kept, and the result is a fixpoint of every pass.

### Alignment (`source/Align*.cpp`)
State: the lines, the metadata map, `LineInfo` per line, `AlignState`
(`groupStart`, `inGroup`, `groupIndent`, `groupDepth`), per-group maxima.
Correct when: each line is emitted exactly once and in order, only spaces
change, groups are maximal runs the break rules allow, all members of a bucket
end with the operator in one column, no padding count underflows, format-off
lines are the ones the printer left alone.

### Reformat pipeline and line endings (`source/Format.cpp`)
State: the text, the resolved line ending. `resolveLineEnding`,
`stripCarriageReturns`, `applyLineEnding`, `applyOneLineFormatOff`, and the order
of the stages in `reformat`.
Correct when: the result has one line ending, formatting it again derives the
same one, no stage loses anything but blanks, the pass over lines ends.

### Configuration and ignore lookup (`tools/format/source/{ConfigFile,IgnoreFile,FileLoader}.cpp`)
`findFileInHierarchy` walks to the root; the nearest file wins, two candidate
names per level; ignore entries are last-match-wins with `!` negation;
`BasedOnStyle` resets the style before the other keys; three widths follow one
another where they are not set; `--dump-config` writes a style back.
Correct when: an option that is set is in force, setting one leaves the others
alone, a dumped configuration means what the one it came from meant.

### Command-line tool (`tools/format/source/main.cpp`)
State: the file list, the files on disk, stdout, `failed`. Per file: ignore
check, config lookup, read, reformat, write only if changed (truncate, then
write, no check of the write). One failing file does not stop the others; a
failing file list stops everything.

### Not modelled
slang itself (lexer, parser, preprocessor, SyntaxRewriter), yaml-cpp, the build
files, `VersionInfo`, tests and documentation.


## 2. Modules

| module | models | kind |
| --- | --- | --- |
| `TokenHelper` | `TokenHelper.cpp`: questions about tokens and their trivia; what a document is | operators |
| `PrinterState` | the private members of `FormatPrinter` and its helpers | operators |
| `PrinterCalls` | the call stack: emitting tokens and trivia, line breaks, spacing | actions |
| `FormatStatement` | `FormatStatement.cpp`: statements, case items, assertions, generates, scopes, random sequences | actions |
| `FormatMember` | `FormatMember.cpp` and the constraints of `FormatClass.cpp`: members, procedural blocks, classes, time units | actions |
| `FormatPortList` | `FormatPortList.cpp` without the lists on trial | actions |
| `FormatDeclaration` | `FormatDeclaration.cpp`, and the coverpoints, crosses and distributions of `FormatClass.cpp` | actions |
| `FormatPrinter` | the visitor: all of them in one next-state relation | state machine |
| `ContentCopy` | what a formatter promises about content | abstract specification |
| `PrinterProperties` | properties of the printer, and its refinement of `ContentCopy` | properties |
| `FunctionPorts` | function port lists with bin packing: trial, rollback, second printing | state machine on top of `FormatPrinter` |
| `FormatPrinterProofs` | that the printer's helpers, its calls and all its handlers keep the invariant | proofs |
| `ContentProofs` | that the printer copies its document | proofs |
| `Rewriter`, `RewriterProperties` | the five tree passes and `transformUntilConverged` | state machine |
| `Alignment`, `AlignmentProperties` | classification, groups, normalisation of ranges and the six column passes | state machine |
| `Reformat` | `Format.cpp`: line endings, the one-line pass, the order of the stages | state machine |
| `Configuration` | `ConfigFile.cpp`: reading a style, dumping it; a user, a shell and the tool that share a file | state machine |
| `FileLookup` | configuration search and ignore files | operators |
| `FormatTool` | `main.cpp`, from the command line to the exit status | state machine |
| `ToolProperties` | properties of the tool | properties |
| `InductionLemmas` | induction over numbers and sequences, and `FlattenSeq` | lemmas |
| `ToolProofs`, `RewriterProofs`, `AlignmentProofs`, `ReformatProofs`, `ConfigurationProofs` | the properties of these components for all values of the constants | proofs |
| `MC*` | documents, trees, disks, lines, texts and styles for the runs | instances |

The modules of the printer extend one another along the source files:
`TokenHelper`, `PrinterState`, `PrinterCalls`, `FormatStatement`,
`FormatMember`, `FormatPortList`, `FormatDeclaration`, `FormatPrinter`.
`FunctionPorts` composes
`FormatPrinter` with the one handler that prints on trial. `FormatTool` composes
`FileLookup` and takes what the formatter makes of a text as a constant
(`Reformat`), so that the tool is checked for every formatter;
`Reformat` in turn takes what the tree and line passes make of a text as a
constant (`Formats`).

An operator whose comment starts with "Mutation:" is never used by a
specification. It is what a plausible slip would make of the definition below
it, and each property is known to fail when the slip is put in.

### The printer
*State.* `doc` is the parsed source (tokens with leading trivia, nodes with
their tokens and children, all of them in source order: `IsInSourceOrder`), `pr` the record of the printer's members, `work` the
C++ call stack as the sequence of calls still to be made. The output is a
sequence of items: an end of line, a maximal run of spaces, or the text of one
token or comment with the place in the document it comes from. A handler's
action replaces `visit` by the calls the handler makes; a condition that the code
evaluates between two calls is a call of its own, so it is evaluated when the
code evaluates it and not earlier. A token expands into one call per leading
trivia and one for the rest of `emitToken`.

*Actions.* `Visit` (one per handler), `Emit` (`emitToken`, `emitTrivia`,
`emitEndTokenTrivia`, `insertBlankLineBefore`), `Lay` (line breaks, depth,
normalisation of spaces), `Loop` (the handlers' loops over children), `Done`.

*Port lists.* Parameters, ports (ANSI, non-ANSI, wildcard), modports, parameter
values and connections: the lists that keep the breaks of the source, those that
are wrapped one item to a line, those that are packed, with the indentation of
items (`portItemNextIndent`), the column of the opening parenthesis, and the kind
that the line of the closing parenthesis gets.

*Directives.* A directive or the use of a macro is one trivia with tokens of its
own. In the model they are laid out in a row, so that `emitDirectiveTrivia` is
one call per piece: the start (deferred spaces; `skipExpandedToken` for a macro),
the trivia of the first token, its name, the later tokens with their ends of line
and blanks, the end. Where a piece stands (`place`) says which of the two loops
emits it, and keeps it out of the questions about a token's trivia. A branch that
the preprocessor disabled is tokens of its directive; `begin` and `end` among
them move the depth.

*Declarations.* A declaration says what kind of line it begins and is otherwise
its tokens and children in order (`Announced`); its declarators are a loop
(`NextDeclarator`). Genvars, defparams, package imports and exports lay out their
items like ports, without a scope of their own and so at depth 0 too
(`NextListedItem`). Enumerations, distributions and the ports of a DPI import are
one list with items on lines of their own (`NextListItem`), which differ in
whether the break is still made where formatting is off and in whether the trivia
of the closing token get a call of their own. Coverpoints and crosses are put on
one line if they fit (`NextInlineItem` skips the trivia of each member) or broken
up like a constraint block.

*Abstractions.* The text of tokens (a token is its kind), column widths (whether
a construct fits the column limit is a free choice), spacing records kept for
the alignment passes, wrapping of arguments and of binary
expressions, constraints nested in the condition of another one. Attributes, and all tokens between two
decisions of a handler, are the head of its node.

*Statements.* A label has its break or its space decided before the statement
is visited; a body that is not a block is indented by `BodyOf` the way
`visitBody` does it; the scopes (functions, tasks, generates, cases, clocking,
covergroups, ...) share `visitMembers` and differ in what they do in front of it
and in whether the closing token starts a line.

### Function ports on trial
With `BinPackParameters` the printer emits the list as it stands and looks at
the column it has come to. If that is too far it truncates `output` to the length
it remembered (`savedOutput`) and prints the ports again, breaking where a port
would not fit. Nothing else is put back: `pr` keeps what the trial left in every
other member. `StartTrial`, `NextTrialPort`, `EndTrial` and `NextPackedPort` are
the handler's steps. `PortContentCopied` is the refinement of `ContentCopy` by
what is *committed*: while a list is on trial, the output up to `savedOutput`;
otherwise all of it. So a trial adds its content in one step, once, whether it is
kept or printed anew.

### The rewriter
`tree` is the tree, `pass` the pass, `todo` the nodes still to be visited,
`changes` what slang's `SyntaxRewriter` has been asked to replace. slang copies a
replaced node without looking into it, so of nested requests only the outermost
takes effect (`Effective`); asking twice for one node makes slang throw. Trivia
and the text of literals are left out, and so are `PatternCaseItem` and
`RandCaseItem` bodies, which the code does not wrap.

### The alignment passes
A line is its words with the columns they start at, what its text looks like
(`text`), its packed dimensions (`dims`: the widths of the bounds and the spaces
around them and the colon), and the metadata the printer recorded (`kind`,
`depth`, `excess` and `ranges`, the most spaces by which a gap of the source,
between tokens or around the colon of a range, exceeded the output's). `style`
and `text` are chosen once; `lines`, `infos`, `i`, `state` and `result` are the
locals of `applyAlignConsecutive`, and `pass` counts `applyAlignment`'s calls of
it. One action is one turn of its loop, `StartGroup`, `JoinGroup` or
`PassThrough`, each of which pads and writes the open group first if the line
breaks it; `EndPass` writes the last group and classifies the lines anew,
`SkipPass` is a pass that the style does not enable. What the C++ does with
`substr` and `append` is `MoveWord`: a word and all that follows it get another
column; a dimension that gets wider moves what follows it. Where the code
computes with `npos`, so does the model (`npos = -1`, the value it has after the
code's cast to `ptrdiff_t`).

*Abstractions.* Lines are not scanned character by character; comments stand at
the end of lines or alone; every line has metadata under its own number;
metadata of kind Continuation does not occur: the one place that assigns it
(`FormatDeclaration.cpp:417`) asks for `atLineStart` right after a comma was
emitted, which clears it.

### The reformat pipeline
A text is a sequence of characters of five classes: carriage return, newline,
blank, code, and code that the one-line pattern matches. `formatted` is history:
what the passes made, before its line endings. The stages are the
calls `reformat` makes, one turn of the one-line pass per step (`pos` is where it
stands in what it reads, `result` what it wrote). The tree and line passes are one
stage, any member of `Formats(text)`.

### The configuration
An option is a key, or a key and the field of a group; a file is absent, not a
mapping, or a function from options to texts, where a text knows what yaml-cpp
would convert it to. `ParseConfig` has all options of `Style.h`, their types, the
defaults, the fallback of enumerations, the order in which the widths follow one
another, and what throws. `DumpConfig` writes the fields that `dumpConfig` writes.
The state machine is a file in use: a user adds, changes and takes out options,
the tool prints the style to a file that takes its place (`DumpAside`), or the
shell opens the file itself for the output (`Redirect`, then `DumpIntoFile`).

### The tool
State: the command line, the disk, standard input and output, the file list, how
far it has come, `failed`, the exit status (`pc`), and as history which files
were `damaged` by a write that failed. `writeFile` is two steps, `TruncateFile`
and `WriteFile`, with the failures that may come between: the process may crash
and a write may fail, both in the one run. Left out: parsing of the command line,
absolute path arguments, directories given as files, other programs that change
files, glob matching (an ignore entry is the set of paths it matches); a
configuration file is the style it gives, or invalid.

## 3. Runs

| run | bounds | states | shows |
| --- | --- | --- | --- |
| `layout` | twenty-four trees of up to 43 tokens: always blocks, control statements, members, expressions, classes, headers, instances, port lists, cases, loops, assertions, generates, scopes, random sequences, declarations, lists of items in and without braces, imports, distributions, coverpoints; flat or in lines, one gap replaced by any of eight blank or comment gaps or six directives (one line, continued, a disabled branch, macros); three styles | 1,675,457 | bookkeeping of lines, indentation (port items too), line breaks, blank lines, spacing of operators |
| `content` | member tree with two odd gaps or a region with formatting off; always, class, header, instance, port, statement and declaration trees with one odd gap, directives and macros among them; two styles | 138,610 | the printer implements `ContentCopy`: every token and comment once, in order (`ContentCopied`), and it ends (`CopyFinished`) |
| `function_ports` | functions with ports, one or two odd gaps, regions with formatting off, both outcomes of every trial, every way of packing | 125,446 | a port list printed once or twice is in the output once; line bookkeeping survives the rollback |
| `off_region` | formatting off from any token to any later one, pragmas as line or block comments, and with a directive in the region | 443,083 | the region is copied verbatim, looked at as each of its tokens is printed |
| `tool` | command lines of up to two arguments and two lists, two levels of configuration, a read-only and a missing file, a crash between any two steps, a failing write | 93,240 | disk, output and exit status at every step |
| `rewrite` | nested conditionals, cases, chained controls and events, a statement on its own, 50 styles | 93,224 | termination, as many rounds as hits are nested, the tree one would get by rewriting every node once |
| `align` | all bodies of three lines out of thirteen member lines, thirteen block lines or eight lines with dimensions, all nestings of six lines in two depths, headers with and without ranges, instances, distributions, format-off regions; four styles | 957,096 | no line lost, columns meet after all passes, documented limits on padding kept (without inference, and with it where the source shows no alignment), nothing aligned across |
| `endings` | all texts of at most four characters, eight styles, a formatter that indents any lines and adds or drops the last newline | 89,972 | one line ending, stable under formatting again; nothing visible lost; the one-line pass ends |
| `config` | two edits with options of every sort and valid and invalid texts, dumps in between | 1,299 | what is set wins, edits are local, dumps reload |
| `word_operators` | `SpaceAroundOperators` off | | disagreement 1 |
| `port_comments` | comments in front of function ports | | disagreement 2 |
| `config_dump` | one edit | | disagreement 3 |

*Why the bounds are enough.* The printer's flags are set by one token and
consumed by the next one or two, and its counters by the trivia between two
tokens: one odd gap, at every place of trees that nest each handler in another,
puts every trivia between every pair of calls; two neighbouring gaps and regions
cover what carries over. The rewriter's interesting case is a hit inside a hit,
which the trees nest three deep. The group scan of the alignment passes looks at
one line, the open group and what came before: three lines of every two kinds
give every transition between opening, joining and ending a group, and six
lines in two depths the sub-runs. Line endings are counted and compared: four
characters give a majority of either kind, a tie and neither, a carriage return
that is not in front of a newline, and an unfinished last line behind a finished
one. Two edits put any option behind or over any other; a dump sets all of
them.

*Deadlock.* Checked everywhere but in `align`, where a behaviour stops when the
last pass has ended; the other modules say so with `Done`, and a configuration
file can always be dumped.

*Fairness.* One thread that waits for nothing: weak fairness of the program's own
steps (`Next` of the printer, `PortsNext` of `FunctionPorts`, `Step` of the
rewriter and of `Reformat`) only says that it keeps running. It is used for
`CopyFinished`, `PortContentCopied` (its copy is finished as well), `Converges` and
`Terminates`. The tool, the configuration and the alignment passes state no
liveness and no fairness; a crash, an edit or a dump is never assumed to happen.

*Bounds in the models.* `MaxUnsigned` (1000) is the largest value of the
unsigned `depth`, which wraps around to it from zero and is far from any depth a
document reaches; `MaxRounds` (6) caps the count of rounds of a rewrite
pass, which then stays: a pass that never converges would loop, and
`Converges` would see it. `MaxEdits` (2) is the number of edits of a
configuration file.

### Disagreements that a run shows
1. `word_operators`: with `SpaceAroundOperators: false` the normalisation of a
   word operator (`a and b`) strips the separator that keeps it apart.
2. `port_comments`: when a function port list does not fit and is printed
   again, the trivia of each port are skipped as a whole, comments included.
3. `config_dump`: the documented command `slang-format --dump-config >
   .slang-format` reads the file that the shell has just emptied, and ends with
   an exception that nothing catches.

### Known disagreements without a run of their own
Met while modelling, each reproducible with a few lines added to an MC module.

Printer:
- a comment that contains newlines is not counted by `outputLineNumber`, so the
  metadata of all later lines are filed under wrong numbers
  (`FormatPrinter.cpp:403`); `LineNumberIsOutputLine` is checked without them;
- a constraint block joined on one line drops trivia that were not checked for
  comments (`FormatClass.cpp:104`); one whose item is broken inside gets its
  braces joined, but the breaks of the item stay (`FormatClass.cpp:96`);
- a comment after a forced break is preceded by the space owed to the token
  before the break (`FormatPrinter.cpp:380`);
- an operator with an end of line or comment in front of it is not spaced from
  its right operand (`FormatPrinter.cpp:345`);
- breaks after `begin` and `always` are forced where formatting is off
  (`FormatStatement.cpp:31`);
- blanks in front of an end of line are stripped where formatting is off
  (`FormatPrinter.cpp:364`), though such regions are to stay as they are;
  `OffRegionVerbatim` exempts them;
- a pragma between brackets leaves `bracketDepth` unbalanced, and later operators
  are spaced as if in brackets (`FormatPrinter.cpp:309`);
- `nextLineKind` is meant for the line of a closing parenthesis
  (`FormatPrinter.h:278`); when the parenthesis does not start a line, the next
  line that starts takes it (`FormatPortList.cpp:213`);
- trivia of the closing parenthesis of instances and of non-ANSI lists are
  indented as items where those of ANSI lists are not
  (`FormatPortList.cpp:89`, `139`);
- a function port list outside of any scope computes `depth - 1` from 0, and
  records made by an abandoned trial stay, under line numbers that are used again
  (`FormatPortList.cpp:61`).

- a comment among the later tokens of a directive, or in a branch the
  preprocessor disabled, is dropped: of the trivia in there only ends of line and
  blanks are emitted (`FormatPrinter.cpp:148`);
- `skipExpandedToken` leaves out exactly one token after a macro: one that expands
  to nothing loses the next token of the source, one that expands to several
  prints the rest of its expansion (`FormatPrinter.cpp:332`);
- ends of line inside a directive are not seen by `hasLeadingNewline`, which
  looks at the trivia of the token itself (`TokenHelper.cpp`): a forced break adds
  a blank line in front of a directive or macro that stands on a line of its own;
- a disabled branch that opens more than it closes leaves the depth changed, and
  its first line in a list of ports takes the indentation of the item behind it
  (`FormatPrinter.cpp:160`, `166`); `DepthBalanced` and `TokensIndented` are
  checked without the two;
- a directive between two time units is lost when they are joined, since only
  comments are asked for (`FormatMember.cpp:247`);
- with `BreakAfterAssertionLabel` a line break is forced after the label although
  the source has one, so that each formatting adds a blank line up to the limit
  (`FormatStatement.cpp:95`; `docs/style-options.md:551`); the default item of a
  case generate does the same (`FormatStatement.cpp:175`), and so do argument
  lists with block indentation (`FormatExpression.cpp`, `visitArgumentList`, not
  modelled);
- `visitDeclarators` never marks a continuation line, though
  `FormatPrinter.h:355` says "Visits declarators, marking continuation lines.";
- enumerations and distributions emit the trivia of the closing brace after
  lowering `depth`, the other lists before (`FormatClass.cpp:316`): a comment in
  front of that brace is indented like the brace;
- the braces of a coverpoint or cross without members are dropped
  (`FormatClass.cpp:170`, `259`), and a comment in front of the closing brace of
  one that is joined on one line is skipped unchecked (`FormatClass.cpp:179`,
  `268`);
- the ports of a DPI import are broken even when formatting is switched off
  inside of the list (`FormatDeclaration.cpp:89`).

Rewriter:
- the tree passes insert `begin` and `end` where formatting is off
  (`Rewriter.cpp:121`, `Format.cpp:116`).

Alignment:
- a line that waits for an event is recorded as timing control but has no delay;
  aligning moves the whole line to the right (`AlignDeclaration.cpp:189`);
- a declaration behind a block comment on its line is recorded as a declaration
  and looks like a comment; the pass over trailing comments takes that comment
  for the trailing one and moves the whole line (`AlignComment.cpp:61`). The
  texts of the run have no such line;
- regions switched off by `verilog_format: off` are aligned, because the passes
  look for the other spelling only; and with `AcrossComments` a line `b = x;` of a
  region that follows a declaration is taken for a continuation and moved
  (`AlignClassifier.cpp:591`, `474`). `OffLinesUntouched` covers both and is
  checked for regions without them;
- ranges in regions that are off are respaced (`AlignDimension.cpp:423`), though
  `docs/style-options.md:42` says that such regions are left alone;
- `MaxPadding` of declarations is compared with the widths of type names only, so
  that a packed dimension may move names further (`AlignDeclaration.cpp:163`);
  that of dimensions is compared with bounds, not with the padding in front
  (`AlignDimension.cpp:388`); `docs/style-options.md:166` promises a limit on the
  padding;
- `docs/style-options.md:166` (and `Style.h:32`) call `MaxPadding` the most spaces
  that any line may be padded; where alignment is inferred the code multiplies it
  by `ContinuationIndentWidth` (`AlignGroup.cpp:107`), so that with the default
  style operators move by up to eight columns instead of two, and a test expects
  that (`tests/AlignInferenceTest.cpp:55`, seven spaces with `MaxPadding: 2`).
  `PaddingLimited` states what is documented and kept: `MaxPadding` without
  inference, and with it `MinPadding` for a text without spaces added by hand.
  Stated with `MaxPadding` for every text, it fails in `align`: of
  `parameter p = x` and an assignment with three spaces too many in front of its
  operator, the latter moves by five;
- with inference a limit of zero after the multiplication is taken for no limit
  (`AlignInference.cpp:35`), so that a `ContinuationIndentWidth` of 0 switches
  `MaxPadding` off;
- lines that start with a keyword are laid out anew by the declarations pass, so
  that dimensions aligned before do not meet (`AlignDeclaration.cpp:47`); with
  `AlignColon`, neither do colons with different spacing
  (`AlignDimension.cpp:135`). The part of
  `ColumnsMeet` that is about dimensions is checked without both.

Tool and configuration:
- a write that fails leaves the file truncated and counts as done (`main.cpp:102`);
- `../a` takes the configuration of the directory it leaves
  (`FileLoader.cpp:20`);
- the dump leaves out `MaxPadding` and `MinPadding` of declarations and packed
  dimensions, which are read and used (`ConfigFile.cpp:359`, `AlignGroup.cpp:104`);
  `DumpReloads` is about the options that are dumped;
- a misspelt enumeration value silently becomes the fallback
  (`ConfigFile.cpp:150`);
- without a file `ContinuationIndentWidth` is 4, with a file that does not set
  it it follows `IndentWidth`; an empty mapping or `BasedOnStyle: Default` is
  therefore not the default style (`ConfigFile.cpp:511`);
- `OneLineFormatOffRegex` is documented to switch formatting off for a line
  (`docs/style-options.md:893`); the line is formatted and loses its indentation
  (`Format.cpp:41`).

## 4. Proofs

Checked by TLAPS for every value of the constants that the named assumptions
allow. TLC evaluates the assumptions in the runs, and checks the property in the
last column on the instances of section 3.

| theorem | states | property |
| --- | --- | --- |
| `FormatPrinterProofs`: `Invariance` | `IInv` of the printer, below | |
| `TypeCorrect` | every member and every pending call keeps its type, whatever the handlers do in whichever order (`depth` is an unsigned that wraps around; that it does not is `DepthCorrect`) | `TypeOK` |
| `LineStartCorrect` | `lineStart` stands right behind the last end of line | `LineStartBeginsLine` |
| `AtLineStartCorrect` | while `atLineStart` is set the line holds no text | `AtLineStartMeansNoText` |
| `MetadataCorrect` | one metadata record per end of line, under increasing numbers | `MetadataPerLine` |
| `LineNumbersCorrect` | if no comment holds a newline, an end of line is filed under the number of its line in the output | `LineNumberIsOutputLine` |
| `DepthCorrect` | without begin or end in disabled branches, and with room in `unsigned` for the number of nodes, `depth` never runs below 0 nor above the number of nodes, and is back at 0 at the end | `DepthBalanced` |
| `LineCommentsCorrect` | whatever the document and the style, nothing is ever printed behind a line comment | `LineCommentEndsLine` |
| `ContentProofs`: `ContentCopiedCorrect` | unless a directive holds comments or a one-line form drops trivia with content, each step writes what comes next in the source, or nothing: no token, comment or directive is lost, repeated or reordered | `ContentCopied` |
| `ToolProofs`: `ToolTypes` | the tool's variables keep their types; no more files fail than were dealt with | `TypeOK` |
| `DiskCorrect` | at every step the disk is the original one with the files so far formatted, in their order, however often one is listed; a crash leaves at most the file being written in another state | `DiskIsFormattedSoFar` |
| `PrintedCorrect` | standard output holds the texts of the files so far, in order, standard input once | `PrintedInOrder` |
| `ExitStatusCorrect` | success just if there were files and each could be dealt with | `ExitStatusTellsFailures` |
| `ListsFirst` | an unreadable file list ends the run before anything is printed or changed | `ListsComeFirst` |
| `NearestConfigCorrect` | without `..` in the paths, the configuration of the nearest directory is the one used | `NearestConfigUsed` |
| `RewriterProofs`: `RewriterTypes` | each pass turns a syntax tree into a syntax tree | `TypeOK` |
| `NoReplacementTwice` | slang's rewriter is never asked to replace a node twice | `NoNodeReplacedTwice` |
| `EndsAsWantedAlways` | when the passes are over, the tree is the parsed one with each node rewritten once, as the style wants it | `EndsAsWanted` |
| `RoundsBoundedAlways` | no pass changes the tree more often than what it replaces is nested, those over ranges at most once | `RoundsBoundedByNesting` |
| `AlignmentProofs`: `LinesKeptAlways` | each line is written once, in order and with all its words; only columns and the spaces in brackets change | `LinesKept` |
| `NoAlignmentAcrossEver` | an assignment moves to the operator of one of its depth only, with nothing in between that the style does not reach across | `NoAlignmentAcross` |
| `PaddingLimitedAlways` | no operator or parenthesis moves further than `MaxPadding` without inference, nor further than `MinPadding` with it in a text that shows no alignment | `PaddingLimited` |
| `OffLinesUntouchedAlways` | in the regions that the passes know to be off, no word of a line moves | `OffLinesUntouched` |
| `LinesLaidOutAlways` | no two words of a line overlap or run into each other, no bracket gets less than no spaces, and lines keep their indentation unless they carry on a list | `TypeOK` |
| `ReformatProofs`: `OneLineEnding` | the result has the resolved line ending and no other | `EndingsUniform` |
| `LineEndingStable` | formatting the result again resolves the same line ending | `EndingStable` |
| `NothingVisibleLost` | around the passes only carriage returns, newlines and blanks change, at every step | `ContentKept` |
| `ConfigurationProofs`: `SettingsCorrect` | a file that loads gives each option it sets what it says, and every option a value of its type | `SetOptionsWin` |
| `EditsLocal` | an edit changes the option and the widths that follow it | `EditsAreLocal` |
| `DumpsReload` | a dump loads and means the style that was dumped | `DumpReloads` |

### The printer
*Assumptions.* `DocumentsAssumption` (the parser returns a well-formed tree over a
finite list of tokens, in which the tokens of nodes and children stand in source
order, and the lexer ends a line comment with an end of line), `StylesAssumption` (options have their types),
`MaxUnsignedAssumption`.

*Argument.* `IInv` is `doc \in Documents /\ Safe(pr) /\ work \in Seq(Calls)` and a
statement about the depth. The four properties of lines are not inductive one by
one: stripping spaces keeps `lineStart` right only because the item at `lineStart`
is no run of spaces, dropping an end of line keeps the metadata right only because
nothing stands behind `lineStart`, and both read `atLineStart`. `Safe(p)` is their conjunction
with the types. For the line numbers it says (`Numbered`) that each end of line
has a record of its own under the number of ends of line in front of it, counted
by a function that grows by one at each; the count kept by `finalizeLine`
is then the number of newlines. `LineNumbersCorrect` needs the hypothesis
`CommentsOnOneLine`, which cannot be dropped: `emitTrivia` does not count the
newlines inside of a comment, see the list above. `Calls` is narrower than the
type of a call: the tokens, trivia and nodes it names exist in the document,
without which a handler would read outside of it.

The depth is right only because of what is still to be called: `Leads` says that
there is a level for each position among the pending calls, all of them natural
numbers, from the present depth down to 0, where `Rise` is by how much a call
with everything it calls moves the depth (+1 for `indent`, -1 for `dedent` and
for the loops over the members of a scope, which lower it at their end, 0 for the
rest), and where no call starts so high that it could rise above the number of
nodes. `Height` bounds how high a call rises: by no more than the number of its
node, since the nodes of a document are numbered so that children come before
their parents. A handler keeps this
if what it calls in place of itself is `Balanced` (back at the level it started
from) or, for those loops, `Closing` (one below). The hypotheses are
`NoDisabledScopes`, which cannot be dropped (`emitTrivia` counts the begin and end
of a disabled branch, and nothing makes them match, see the list above), and
`RoomForDepth`: a document has no more nodes than `unsigned` has values. Only
the depth needs the two, so `IInv` has the statement as an implication and the
other theorems hold without them.

`LineCommentEndsLine` is lost as soon as a comment has been written and is true
again after the next call, so it needs the calls as well: the output is `Tidy` (in
front of whatever it ends with, each line comment has its end of line) or it is
`Ending`, with a line comment at its end, and the next call prints the end of
line that the document has behind it. Every
helper keeps a tidy output tidy, and the calls that a token expands into keep
comment and end of line together (`RowsEnd`, `TriviaRowCalls`), wherever a
handler puts calls in front of others. No handler gets to print, strip or
break between the two.

`FormatPrinterProofs` shows first for each helper of `PrinterState` that it takes a
safe printer to a safe one, which of them leave the depth alone and that they are
tidy, then defines `Calls`, `Leads` and `IInv` and shows the step for emitting and
laying out (`EmitStep`, `LayStep`); then, for statements, members, port lists and
declarations in turn, that the calls each handler makes are `Balanced` or
`Closing` and that its action keeps `IInv`, and puts the steps together. The theorems are about
`FormatPrinter`. `FunctionPorts` truncates the output without touching the
metadata, so `Safe` does not hold after a rollback; what survives it is checked
by the run `function_ports`.

*The copy* (`ContentProofs`). A place in a document is in front of a token with
its trivia (`At`) or between the two (`Mid`). `Spans` says from which place to which a call copies,
`Carries` that a sequence of calls copies from one place to another, each call
from where the one before it ended. The invariant `CopyInv` says that the output
holds the content in front of some place and that the pending calls carry the
copy from there to the end of the document. A handler `PassesOn` the copy if the
calls it makes in place of itself carry it over the same span. For each handler
this follows from the order of the tokens in its node (`IsInSourceOrder`), with
the tokens that a handler leaves out when they hold nothing (`PassesOver`), with
trivia that were printed ahead of their token (`triviaSkip`), and with the token
that `skipExpandedToken` leaves out behind a macro (`HoldsNothing`,
`Before`, `Early`, `Finishing`). `ContentCopied` then follows step by step: content
is only appended, in the order of the source.

The theorem has two hypotheses. `DirectivesHoldNoComments`: no comment stands
among the later tokens of a directive; the code drops it (`FormatPrinter.cpp:148`).
`NothingLeftOut`: where a constraint block, a coverpoint or cross or a second time
unit is put on one line, the trivia that are skipped there hold no directive, nor
do those of the closing token hold a comment; the code asks only for comments, and
not at all at the closing token. Neither can be dropped, see the list above. All
documents of the run `content` satisfy both, 252 pairs of a document and a style
with trivia that are in fact skipped.

### The tool
*Assumptions.* Disks, lists, command lines and the formatter have their types;
nothing is assumed of what the formatter does, which paths are ignored, or what
the configurations say. `NearestConfigCorrect` has one more hypothesis,
`PlainNames`: no path has `..`. It cannot be dropped: `../a` takes the
configuration of the directory it leaves, see the list above.

*Argument.* `Base` says which variables have settled in which stage of `main`
and is the common ground. Each property then has an invariant of its own.
`DiskInv` ties the stages of `writeFile` to the disk (before `TruncateFile` it is
`Formatted`, between the two steps `Formatted` with one file empty) and needs
the equation that defines `DiskAfter`, a function defined by recursion over the
file list: that it has a solution is shown by induction. `PrintInv` adds when
standard input is at its end. `ExitInv` says that
`failed` is not 0 just if one of the files so far does not succeed; whether a
file does may depend on what it holds, but only if it cannot be written, and then
no step changes it (`FixedSucceeds`). `ListsInv` says that an unreadable list
is still to be taken up, or has ended the run.

### The rewriter
*Assumptions.* `StylesAssumption` and `MaxRoundsAssumption`: types.
`TreesAssumption`: the trees to start from have every node but
the root as the child of one node, and every node the parts that the grammar
gives it. `ParsedAssumption` has the rest of what slang's types say:

- The nodes are numbered from the root down (`NumberedDown`). What a node is
  called is the model's choice, and each finite tree can be numbered like this; it
  keeps out circles of nodes that hold one another and are reached from nowhere,
  which "the child of one node" alone would let in.
- What a loop or a procedure runs and what a timing control delays is a
  `StatementSyntax`, and there is one of it; a case item has one clause, which may
  be any node (`BodiesAreStatements`).
- `@*` has no operand, the other controls have one (`ControlsHaveOneOperand`).
- A range between two literals holds nothing else (`RangesAreLeaves`), and the
  separator of an event is `or` or a comma (`EventsSeparated`).

The passes themselves break some of this (nodes are added with higher numbers
above old ones), so it is said of the parsed trees only. The root may be any node:
slang parses a statement on its own into a tree that is that statement.

*That the tree stays a tree, and that no node is asked for twice.* The latter
follows from the order of the visit:
`Visits` says that there is a set of nodes visited so far, disjoint from those to
come, closed under parents, and that whatever is to be replaced was asked for by
a visited node. A node is asked for by itself, its parent, or, behind a timing
control, its parent's parent (`Replaces`), and `ReplacesDisjoint` shows that two
nodes never ask for the same one. That the tree stays a tree is `SurroundIsTree`
(a new node between a node and its parent) and `ReplacedIsTree`.

*That the end is as wanted.* `EndsAsWanted` reads the parsed nodes off the final
tree and compares. `EInv` has three parts. `Keeps`: the parsed nodes are all
there, under their parents or with one wanted block or pair of parentheses in
between, and nothing else is. `Written` and `Enclosed`: what is not wanted has not
happened, and what is wanted has, once the pass that is responsible is over.
`Covers`: the root and, below a visited node, its children are visited or
to come, unless the visit stays above them (`Descends`), and what a visited node
asks for is registered. The pass ends with a round that registers nothing:
then the visit has stayed above no node that had anything below it to replace, so it has
reached all of them, and none of them had anything to ask for (`PassDone`). `Rooted`
gives a depth to each node of the present tree, so that "reached by descending
from the root" can be used by induction. `DoneReads` compares what is read
off and what is wanted (`ReadingOf`, `WantedIs`) from the leaves up.

*That the rounds are few.* `RoundsBoundedByNesting` counts how deeply the hits of
a pass are nested. `RInv` says, of every function that counts hits within
hits (`IsDepth`), that the rounds so far plus the count at any hit that is still
open are at most the count at the root (`NestedRounds`). A round replaces
each hit that is asked for and not within another one. What it leaves open is
below a hit that it has replaced (`Topmost`), which counts at least one more
(`AncestorDeeper`): the round can be added. That the depth of the property is such a
function, and that the recursions it and `EndsAsWanted` are written with have a
solution, is shown by induction over the depth of the tree (`DepthExists`,
`NestingIs`).

### The alignment
*Assumptions.* `TextsAssumption` and `StylesAssumption`: lines and options have
their types. Nothing is assumed of how many lines there are, of which kinds or how
they nest. Only `LinesLaidOutAlways` uses `LinesAssumption`, which says what lines
of code have in common: before the passes, their words stand one behind the other
(`IsLaidOut`), a keyword first and a name once, behind its dimensions and in front
of the operator (`IsInOrder`, which is what `findDimPos` and `classifyLine` look
for), with spaces around names (`HasNamesApart`); and what is recorded of a line
fits what it looks like (`IsRecognised`). All texts of the run satisfy it.

*Argument.* `AInv` is about one turn of the loop of `applyAlignConsecutive`. The
lines that the pass works on are those of the text but for columns and spaces
(`Kept`). The lines before `Unwritten`, which is the start of the open group if
there is one and the present line if not, are written, each of them `PaddedWell`:
kept, and moved within the two limits. An open group is a `GroupOpen`: it starts with a line of
the kinds that the pass is about, and no line since then would have ended it.
That is what `NoAlignmentAcross` needs: the lines in between are known not to be
blank lines, comments or boundaries that the style does not reach across only
because each of them has passed `ShouldBreakGroup`. The other half of it, that
nothing in between has a smaller depth, comes from `alignGroupAssignments`, which
starts a new bucket of a depth behind such a line. It numbers the buckets in a
recursion over the lines: `SubRunsDefined` shows that the equation has a solution,
`SubRunsUnparted` that two lines with one number have no line between them that
parts them.

A pass is known by one lemma: what it keeps (`DeclarationsKept` and the like, also
for the normalisation of ranges), or, for the two that the limits are about, which
column a line moves to (`AssignmentsPadded`, `PortConnectionsPadded`).
`PolicyLimits` says what
`inferAlignPolicy` allows for a context that tells of the style in force and of the
source (`Tells`); `ContextTells` and `MembersTell` show that the groups and their
buckets pass on such a context, in which a text without spaces added by hand has no
excess (`NothingToInfer`). `PaddingLimited` needs the maximum over the group to be
one of its columns, hence `RangeMax` and `RangeMin` on finitely many numbers.

A line in which formatting is off stays because of what the passes take it for
(`QuietKinds`): nothing that they pad, and for the pass over trailing comments, which
pads lines of any kind, one that ends the group. What a line is taken for must
therefore be the same in all six passes though columns move in between: `KindsKept`
shows that the classification, with the recursion that finds lines that carry on a
list, reads only what passes keep. `FormatOffFollows` and `StaysOff` solve the
recursion over the pragmas. The theorem has four hypotheses about the texts. Three
are the disagreements of the list above: `OneSpelling`, `NothingCarriedOn` (a
line `b = x;` of the region is not taken to carry on a declaration) and
`NoRangesSpaced`; without any of them the passes do move such lines. `BoundariesBare`
says that what looks like the end of a port list has no comment, as
`AlignClassifier.cpp:354` has it. The texts of the run satisfy all four.

`TypeOK` of this module is more than types: words do not overlap or merge, and no
space count is negative, which in the code would be a difference of `size_t` that
wraps. `LayoutInv` says that each line, written or not, is `Straight`, that is laid
out as it was in the text. For each pass there is a lemma that it keeps lines so
(`PackedDimensionsStraight` and the like). A word that moves to the column of a
group moves to the right, or, in lines that the declarations pass lays out anew,
not further to the left than one space behind what stands in front of it. Why is
different for each: the largest column is that of some line of the group; a type
behind a keyword has room because `maxTypeWidth` counts keywords only if all bodies
fit behind the widest one; brackets are padded up to the largest of a slot.
What the passes know of a line is only what `classifyLine` has found,
so that `InfoFits` (`ReadFits`) relates the recorded columns to the words: a name
that a declaration has is the word "ident", a keyword comes first. This would be
false without `IsRecognised`. Two hypotheses remain. `EventsAlone` is the first
disagreement of the list above: lines that wait for an event move as a whole if
there are others. `SpacesBeforeComments` says that
`SpacesBeforeTrailingComments` is not 0, since with 0 the longest line of a group
loses its spaces in front of the comment, as it is told to. The texts and styles
of the run satisfy both.

### The pipeline
*Assumptions.* `FormatsAssumption`: the passes in the middle write no carriage
return when they read none. They are otherwise any function of the text.

*Argument.* The loops over characters (`stripCarriageReturns`,
`applyLineEnding`) are both `ForEach`; `ForEachConcat` and what follows from it
are proved by induction over the text. The invariant of the one-line pass is
that what it has written is as visible as what it has read. For the line ending,
"cr" and "lf" are counted in the result: in a text without "cr" to which the
line ending was applied they stand in pairs only.

### The configuration
*Assumptions.* `EditsAssumption`: what the user writes is a scalar of a type that
yaml-cpp knows.

*Argument.* `FileOK` says that what stands in the file may stand there: the user
wrote it, or a dump did. The lemmas on `ParseConfig` (`ParseSets`, `ParseKeeps`,
`ParseFollows`) hold for any settings; `DefaultsTyped`, `ReadTyped` and
`WrittenReads` go through all options by type. `DumpsReload` needs that a style
that was loaded has values of their types only: a value outside of its
enumeration would be written as a word that reads back as the fallback.

### Induction
`InductionLemmas` states induction over the natural numbers and over sequences
for a set of values (`Induction`, `SequenceInduction`) and not for a predicate,
so that the first-order provers can use it, and derives what `FlattenSeq` of the
community modules is on an appended sequence (`FlattenAppend`, `FlattenEach`) and
that a recursion over an interval has a solution (`Recursion`).

### What is only model-checked
- *Liveness* (`CopyFinished`, `Converges`, `Terminates`, and the end of the copy in
  `PortContentCopied`): out of the prover's reach, as is ENABLED. For the rewriter
  `RoundsBoundedAlways` bounds what `Converges` says is finite.
- *The printer:* `WordsStayApart`, `LineBreaksKept`, `BlankLinesBounded`,
  `TokensIndented`, `OperatorsOnLineSpaced`, `OffRegionVerbatim`. They relate the
  blanks of the output to the trivia of the document and to what each handler
  asks for in between. `CopyInv` says which content has been printed, not which
  blanks stand between its parts; and that two words stay apart needs a rule for
  each pair of neighbours in the grammar, which `DocumentsAssumption` does not have.
- *Function ports:* everything, see above.
- *The alignment passes:* `ColumnsMeet`. A pass promises it only where nothing parts
  two neighbours, and the passes that follow must keep it: a proof needs that no
  group ends between two such lines in any later pass, and how far each of those
  passes moves both.

## 5. Not modelled, and why

- Macros with arguments that hold directives, macros that expand to nothing or
  to several tokens (what the parser makes of these is not in this repository),
  and tokens the parser skipped: their text is appended as it stands.
- Wrapping of arguments and binary expressions: decided by widths, which the
  model abstracts; the breaks it makes are those of the other lists.
- Path declarations, UDPs, elaboration tasks, the brackets of bins, the dimensions
  and initializers of declarations: handlers that make the same calls in the same
  patterns.
- Single calls of handlers that are modelled: the space after the delay of a
  deferred assertion (`FormatStatement.cpp:318`), the port list of a production
  (`FormatStatement.cpp:380`), and the semicolon behind the closing brace of a
  coverpoint or cross (`FormatClass.cpp:181`, `205`, `269`, `294`).
- The exception for an invalid `OneLineFormatOffRegex` (`Format.cpp:127`,
  caught at `main.cpp:142`): it ends a file as an invalid style does. The buffer
  of `std::cout` (`main.cpp:116`): after a crash the real output may be shorter
  than the modelled one. The loop of `FileLoader.cpp:20` is written as the choice
  of the nearest level.
- YAML parsing, glob matching, regular expressions, slang's lexer, parser and
  preprocessor: not this repository's logic; they enter as assumptions about
  documents, texts and styles.
- Build files, packaging, `VersionInfo`: no behaviour.

## 6. Plan

Done, in this order: token queries and printer, its proofs, tool, rewriter,
alignment; then packed dimensions, the pipeline, port lists and function ports,
configuration, the remaining statements (labels, cases, loops, assertions,
generates, scopes, random sequences), directives and macros, declarations, lists
in braces, coverpoints and distributions. Next:

1. Proofs: `WordsStayApart` and `LineBreaksKept` on top of `CopyInv`, which knows
   the two neighbours of every gap.
2. An abstract specification of the tool (each file independently old or new)
   that `FormatTool` implements, crashes included.
3. Expressions and the wrapping of arguments (`FormatExpression.cpp`), the
   brackets of dimensions (`FormatDeclaration.cpp`).

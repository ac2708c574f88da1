---------------------------- MODULE ToolProperties ----------------------------
(***************************************************************************)
(* What a user of the command-line tool relies on: which files change and  *)
(* how, what is printed, what the exit status says, and which              *)
(* configuration applies.                                                  *)
(***************************************************************************)
EXTENDS FormatTool

\* Types of all variables.
TypeOK ==
  /\ call.options \subseteq Options
  /\ DOMAIN original.disk = DOMAIN disk
  /\ disk \in [DOMAIN disk -> Texts]
  /\ stdin \in Texts
  /\ result \in Texts
  /\ at \in 1..(Len(files) + 1)
  /\ failed \in 0..Len(files)
  /\ damaged \subseteq DOMAIN files
  /\ pc \in Running \cup Exited

\* The command line asks for formatting.
Formats == call.options \cap {"help", "version", "dumpConfig", "listIgnored"} = {}

-----------------------------------------------------------------------------
(* The disk. *)

\* The disk d with the k-th file formatted in place; what could not be written
\* in full is a partial text from then on.
WithFormatted(d, k) ==
  LET path == Resolve(Absolute(files[k]))
  IN  IF Option("inplace") /\ Formattable(files[k]) /\ path \notin ReadOnly
      THEN [d EXCEPT ![path] =
              IF k \in damaged THEN Partial ELSE Reformat[<<@, StyleFor(files[k])>>]]
      ELSE d

\* What the disk holds after the first k files, one after the other.
DiskAfter[k \in 0..Len(files)] ==
  IF k = 0 THEN original.disk ELSE WithFormatted(DiskAfter[k - 1], k)

Formatted == DiskAfter[IF Formats THEN at - 1 ELSE 0]

\* formatFiles, writeFile: at any time the disk is the original one with the
\* files up to the current one formatted, each once for every time it is listed;
\* nothing else is touched, and nothing at all unless -i is given.  While a file
\* is written only that file is different: it is empty.  A crash at any time
\* leaves at most that file in a state that is neither what it was nor what it
\* becomes.
DiskIsFormattedSoFar ==
  LET torn == {path \in DOMAIN disk : disk[path] # Formatted[path]}
  IN  /\ pc = "write" => disk = [Formatted EXCEPT ![Target] = Empty]
      /\ pc \notin {"write", "crashed"} => torn = {}
      /\ pc = "crashed" /\ torn # {} => at <= Len(files) /\ torn = {Target}

-----------------------------------------------------------------------------
(* Standard output and exit status. *)

Printed(k) ==
  LET file  == files[k]
      style == StyleFor(file)
  IN  IF file = Stdin
      THEN IF style = Invalid THEN <<>>
           ELSE <<Reformat[<<IF \E j \in 1..(k - 1) : files[j] = Stdin THEN Empty
                             ELSE original.stdin, style>>]>>
      ELSE IF Formattable(file) THEN <<Reformat[<<Text(file), style>>]>> ELSE <<>>

\* formatFiles: standard output holds the formatted texts in the order of the
\* files, without those that are ignored or failed; standard input is printed
\* for the first "-" only.
PrintedInOrder ==
  Formats =>
    stdout = IF Option("inplace") THEN <<>>
             ELSE FlattenSeq([k \in 1..(at - 1) |-> Printed(k)])

\* Whether a file can be dealt with, whatever became of the others.
Succeeds(file) ==
  IF file = Stdin THEN Option("inplace") \/ StyleFor(Stdin) # Invalid
  ELSE \/ Skips(file)
       \/ /\ Formattable(file)
          /\ \/ ~Option("inplace")
             \/ Resolve(Absolute(file)) \notin ReadOnly
             \/ Reformat[<<Text(file), StyleFor(file)>>] = Text(file)

\* main: when formatting ends, the exit status is success just if there were
\* files and every one of them was formatted or ignored; a write that failed
\* counts as one that did not.
ExitStatusTellsFailures ==
  Formats /\ pc \in {"success", "failure"} =>
    (pc = "success" <=>
       pending = <<>> /\ files # <<>> /\ \A k \in DOMAIN files : Succeeds(files[k]))

UnreadableList ==
  \/ \E k \in DOMAIN call.positional :
       call.positional[k].list /\ call.positional[k].name \notin DOMAIN Lists
  \/ \E k \in DOMAIN call.fileLists : call.fileLists[k] \notin DOMAIN Lists

\* buildFileList: one file list that cannot be read fails the run before any
\* file is printed or changed, those listed before it included.
ListsComeFirst ==
  Formats /\ UnreadableList =>
    stdout = <<>> /\ disk = original.disk /\ pc # "success"

-----------------------------------------------------------------------------
(* Configuration. *)

\* The style of the nearest directory above the file, by where the file
\* really is.
NearestStyle(file) ==
  LET real   == ParentPath(Resolve(Absolute(file)))
      Named(n) == {name \in CandidateNames : <<SubSeq(real, 1, n), name>> \in DOMAIN Configs}
      levels == {n \in 0..Len(real) : Named(n) # {}}
      level  == CHOOSE n \in levels : \A m \in levels : m <= n
      name   == CHOOSE k \in Named(level) : \A j \in Named(level) : k <= j
  IN  IF levels = {} THEN DefaultStyle ELSE Configs[<<SubSeq(real, 1, level), name>>]

\* loadConfig: every file is formatted with the configuration of the nearest
\* directory that contains it.
NearestConfigUsed ==
  \A k \in DOMAIN files :
    files[k] # Stdin /\ ~Option("noConfig") => StyleFor(files[k]) = NearestStyle(files[k])

=============================================================================

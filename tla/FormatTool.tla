------------------------------ MODULE FormatTool ------------------------------
(***************************************************************************)
(* The command-line tool: it collects the files to format from arguments   *)
(* and file lists, then formats one after the other, to standard output or *)
(* in place.  An error ends the work on one file, or, while the files are  *)
(* being collected, all of the work.                                       *)
(*                                                                         *)
(* What the text of a file is and how it is formatted is left open: the    *)
(* constant Reformat gives the result for a text and a style.  The faults  *)
(* that the environment may add are a crash between any two steps and a    *)
(* write that fails after the file was truncated.                          *)
(***************************************************************************)
EXTENDS FileLookup

CONSTANTS
  Invocations,   \* command lines
  Lists,         \* the file lists that can be read: path to the files named
  Disks,         \* initial contents of the disk: resolved path to text
  Inputs,        \* what standard input may hold
  ReadOnly,      \* the paths that cannot be opened for writing
  Texts,         \* what a file may hold
  Empty,         \* the empty text
  Partial,       \* what a failed write leaves
  Reformat,      \* <<text, style>> to text
  CurrentPath,   \* the working directory
  Faults         \* a subset of {"crash", "write"}

Options == {"help", "version", "dumpConfig", "inplace", "listIgnored", "noConfig",
            "noIgnored"}

Stdin == <<"-">>

Paths == Seq(STRING)

\* A positional argument is a file, or with a leading @ a file list.
Arguments == [list : BOOLEAN, name : Paths]

Styles == {DefaultStyle} \cup {Configs[file] : file \in DOMAIN Configs}

ASSUME TextsAssumption == {Empty, Partial} \cup Inputs \subseteq Texts

ASSUME DisksAssumption == \A d \in Disks : d \in [DOMAIN d -> Texts]

ASSUME InvocationsAssumption ==
  Invocations \subseteq
    [options : SUBSET Options, positional : Seq(Arguments), fileLists : Seq(Paths)]

ASSUME ListsAssumption == Lists \in [DOMAIN Lists -> Seq(Paths)]

ASSUME CurrentPathAssumption == CurrentPath \in Paths

\* Every text that can be formatted in a valid style becomes a text.
ASSUME ReformatAssumption ==
  \A text \in Texts, style \in Styles \ {Invalid} : Reformat[<<text, style>>] \in Texts

ASSUME FaultsAssumption == Faults \subseteq {"crash", "write"}

VARIABLES
  call,       \* the command line
  original,   \* the disk and the standard input before the run (history)
  disk,       \* resolved path to text
  stdin,      \* the text not yet read from standard input
  pending,    \* the arguments not yet taken up
  files,      \* the files to process
  at,         \* the position in files
  result,     \* the formatted text about to be written
  stdout,     \* the texts printed
  failed,     \* how many files could not be formatted
  damaged,    \* the positions of the files whose write failed (history)
  pc          \* where the program is

given == <<call, original>>
lists == <<pending, files>>
vars  == <<given, disk, stdin, lists, at, result, stdout, failed, damaged, pc>>

Exited  == {"success", "failure", "aborted", "crashed"}
Running == {"start", "lists", "listing", "formatting", "truncate", "write"}

Option(o) == o \in call.options

AsList(name) == [list |-> TRUE, name |-> name]

Init ==
  /\ call \in Invocations
  /\ disk \in Disks
  /\ stdin \in Inputs
  /\ original = [disk |-> disk, stdin |-> stdin]
  \* the positional arguments first, then those of --files
  /\ pending = call.positional \o [k \in DOMAIN call.fileLists |-> AsList(call.fileLists[k])]
  /\ files = <<>>
  /\ at = 1
  /\ result = Empty
  /\ stdout = <<>>
  /\ failed = 0
  /\ damaged = {}
  /\ pc = "start"

-----------------------------------------------------------------------------
(* main, up to the list of files. *)

Exit(status) == pc' = status

ShowInformation ==
  /\ pc = "start"
  /\ Option("help") \/ Option("version")
  /\ Exit("success")
  /\ UNCHANGED <<given, disk, stdin, lists, at, result, stdout, failed, damaged>>

\* No try block surrounds this: an exception ends the process.
DumpConfig ==
  /\ pc = "start"
  /\ ~Option("help") /\ ~Option("version") /\ Option("dumpConfig")
  /\ LET style == IF Option("noConfig") THEN DefaultStyle ELSE LoadConfig(CurrentPath)
     IN  IF style = Invalid
         THEN Exit("aborted") /\ UNCHANGED stdout
         ELSE Exit("success") /\ stdout' = Append(stdout, style)
  /\ UNCHANGED <<given, disk, stdin, lists, at, result, failed, damaged>>

Start ==
  /\ pc = "start"
  /\ call.options \cap {"help", "version", "dumpConfig"} = {}
  /\ pc' = "lists"
  /\ UNCHANGED <<given, disk, stdin, lists, at, result, stdout, failed, damaged>>

\* Mutation: a list that cannot be read is passed over.
BuildFileListLenient ==
  /\ pc = "lists"
  /\ pending # <<>>
  /\ pending' = Tail(pending)
  /\ files' = files \o (IF ~Head(pending).list THEN <<Head(pending).name>>
                        ELSE IF Head(pending).name \in DOMAIN Lists
                        THEN Lists[Head(pending).name] ELSE <<>>)
  /\ UNCHANGED <<given, disk, stdin, at, result, stdout, failed, damaged, pc>>

\* One argument: a file, or the entries of a file list.
BuildFileList ==
  /\ pc = "lists"
  /\ pending # <<>>
  /\ LET arg == Head(pending)
     IN  IF arg.list /\ arg.name \notin DOMAIN Lists
         THEN Exit("failure") /\ UNCHANGED <<pending, files>>
         ELSE /\ pending' = Tail(pending)
              /\ files' = files \o (IF arg.list THEN Lists[arg.name] ELSE <<arg.name>>)
              /\ UNCHANGED pc
  /\ UNCHANGED <<given, disk, stdin, at, result, stdout, failed, damaged>>

EndFileList ==
  /\ pc = "lists"
  /\ pending = <<>>
  /\ pc' = IF files = <<>> THEN "failure"     \* after the usage text
           ELSE IF Option("listIgnored") THEN "listing" ELSE "formatting"
  /\ UNCHANGED <<given, disk, stdin, lists, at, result, stdout, failed, damaged>>

-----------------------------------------------------------------------------
(* The files. *)

\* std::filesystem::absolute
Absolute(file) == CurrentPath \o file

Skips(file) == ~Option("noIgnored") /\ IsIgnored(Absolute(file))

ListIgnoredFiles ==
  /\ pc = "listing"
  /\ IF at > Len(files)
     THEN Exit("success") /\ UNCHANGED <<at, stdout>>
     ELSE /\ stdout' = IF files[at] # Stdin /\ Skips(files[at])
                       THEN Append(stdout, files[at]) ELSE stdout
          /\ at' = at + 1
          /\ UNCHANGED pc
  /\ UNCHANGED <<given, disk, stdin, pending, files, result, failed, damaged>>

StyleFor(file) ==
  IF Option("noConfig") THEN DefaultStyle
  ELSE LoadConfig(IF file = Stdin THEN CurrentPath ELSE ParentPath(Absolute(file)))

OnDisk(file) == Resolve(Absolute(file)) \in DOMAIN disk

Text(file) == disk[Resolve(Absolute(file))]

Formatting == pc = "formatting" /\ at <= Len(files)

\* Ignored, or standard input together with in-place editing.
SkipFile ==
  /\ Formatting
  /\ LET file == files[at]
     IN  IF file = Stdin THEN Option("inplace") ELSE Skips(file)
  /\ at' = at + 1
  /\ UNCHANGED <<given, disk, stdin, pending, files, result, stdout, failed, damaged, pc>>

\* Mutation: the step to the next file is made twice.
FailFileTwice ==
  /\ Formatting
  /\ LET file == files[at]
     IN  IF file = Stdin THEN ~Option("inplace") /\ StyleFor(file) = Invalid
         ELSE ~Skips(file) /\ (StyleFor(file) = Invalid \/ ~OnDisk(file))
  /\ failed' = failed + 1
  /\ at' = at + 2
  /\ UNCHANGED <<given, disk, stdin, pending, files, result, stdout, damaged, pc>>

\* The configuration is invalid, or the file cannot be read.
FailFile ==
  /\ Formatting
  /\ LET file == files[at]
     IN  IF file = Stdin THEN ~Option("inplace") /\ StyleFor(file) = Invalid
         ELSE ~Skips(file) /\ (StyleFor(file) = Invalid \/ ~OnDisk(file))
  /\ failed' = failed + 1
  /\ at' = at + 1
  /\ UNCHANGED <<given, disk, stdin, pending, files, result, stdout, damaged, pc>>

\* Mutation: standard input is read from its beginning again.
FormatStdinAgain ==
  /\ Formatting
  /\ files[at] = Stdin
  /\ ~Option("inplace")
  /\ StyleFor(Stdin) # Invalid
  /\ stdout' = Append(stdout, Reformat[<<stdin, StyleFor(Stdin)>>])
  /\ at' = at + 1
  /\ UNCHANGED <<given, disk, stdin, pending, files, result, failed, damaged, pc>>

\* Standard input is at its end after the first time.
FormatStdin ==
  /\ Formatting
  /\ files[at] = Stdin
  /\ ~Option("inplace")
  /\ StyleFor(Stdin) # Invalid
  /\ stdout' = Append(stdout, Reformat[<<stdin, StyleFor(Stdin)>>])
  /\ stdin' = Empty
  /\ at' = at + 1
  /\ UNCHANGED <<given, disk, pending, files, result, failed, damaged, pc>>

\* What an existing file that is not ignored, with a valid style, becomes.
Formattable(file) ==
  file # Stdin /\ ~Skips(file) /\ StyleFor(file) # Invalid /\ OnDisk(file)

PrintFile ==
  /\ Formatting
  /\ ~Option("inplace")
  /\ Formattable(files[at])
  /\ stdout' = Append(stdout, Reformat[<<Text(files[at]), StyleFor(files[at])>>])
  /\ at' = at + 1
  /\ UNCHANGED <<given, disk, stdin, pending, files, result, failed, damaged, pc>>

\* Read and format; a text that does not change is not written.
ReadFile ==
  /\ Formatting
  /\ Option("inplace")
  /\ Formattable(files[at])
  /\ LET source    == Text(files[at])
         formatted == Reformat[<<source, StyleFor(files[at])>>]
     IN  IF formatted = source
         THEN at' = at + 1 /\ UNCHANGED <<result, pc>>
         ELSE result' = formatted /\ pc' = "truncate" /\ UNCHANGED at
  /\ UNCHANGED <<given, disk, stdin, pending, files, stdout, failed, damaged>>

Target == Resolve(Absolute(files[at]))

\* Mutation: a failed open is not counted.
TruncateFileUnchecked ==
  /\ pc = "truncate"
  /\ IF Target \in ReadOnly
     THEN at' = at + 1 /\ pc' = "formatting" /\ UNCHANGED <<disk, failed>>
     ELSE disk' = [disk EXCEPT ![Target] = Empty] /\ pc' = "write" /\ UNCHANGED <<failed, at>>
  /\ UNCHANGED <<given, stdin, pending, files, result, stdout, damaged>>

\* writeFile opens the file, which empties it, or fails to.
TruncateFile ==
  /\ pc = "truncate"
  /\ IF Target \in ReadOnly
     THEN /\ failed' = failed + 1 /\ at' = at + 1 /\ pc' = "formatting"
          /\ UNCHANGED disk
     ELSE disk' = [disk EXCEPT ![Target] = Empty] /\ pc' = "write" /\ UNCHANGED <<failed, at>>
  /\ UNCHANGED <<given, stdin, pending, files, result, stdout, damaged>>

\* Mutation: the text goes to the first file of the list.
WriteFileToFirst ==
  /\ pc = "write"
  /\ disk' = [disk EXCEPT ![Resolve(Absolute(files[1]))] = result]
  /\ at' = at + 1
  /\ pc' = "formatting"
  /\ UNCHANGED <<given, stdin, pending, files, result, stdout, failed, damaged>>

\* ... and writes the text; nobody asks whether that succeeded.
WriteFile ==
  /\ pc = "write"
  /\ \/ disk' = [disk EXCEPT ![Target] = result] /\ UNCHANGED damaged
     \/ /\ "write" \in Faults
        /\ disk' = [disk EXCEPT ![Target] = Partial]
        /\ damaged' = damaged \cup {at}
  /\ at' = at + 1
  /\ pc' = "formatting"
  /\ UNCHANGED <<given, stdin, pending, files, result, stdout, failed>>

EndFormatting ==
  /\ pc = "formatting"
  /\ at > Len(files)
  /\ Exit(IF failed > 0 THEN "failure" ELSE "success")
  /\ UNCHANGED <<given, disk, stdin, lists, at, result, stdout, failed, damaged>>

Crash ==
  /\ "crash" \in Faults
  /\ pc \in Running
  /\ Exit("crashed")
  /\ UNCHANGED <<given, disk, stdin, lists, at, result, stdout, failed, damaged>>

Step ==
  \/ ShowInformation \/ DumpConfig \/ Start \/ BuildFileList \/ EndFileList
  \/ ListIgnoredFiles \/ SkipFile \/ FailFile \/ FormatStdin \/ PrintFile
  \/ ReadFile \/ TruncateFile \/ WriteFile \/ EndFormatting

Done == pc \in Exited /\ UNCHANGED vars

Next == Step \/ Crash \/ Done

Spec == Init /\ [][Next]_vars
=============================================================================

------------------------------ MODULE ToolProofs ------------------------------
(***************************************************************************)
(* The command-line tool does what its users rely on, for every command    *)
(* line, disk, configuration and ignore file, and with every fault.        *)
(***************************************************************************)
EXTENDS ToolProperties, InductionLemmas, SequenceTheorems

\* The types, with those of the variables that TypeOK leaves out.
Types ==
  /\ TypeOK
  /\ call \in Invocations
  /\ original \in [disk : [DOMAIN disk -> Texts], stdin : Texts]
  /\ pending \in Seq(Arguments)
  /\ files \in Seq(Paths)
  /\ failed <= at - 1
  /\ damaged \subseteq 1..(at - 1)

\* What holds at each place of the program.
Stages ==
  /\ pc \in {"start", "lists"} =>
       /\ at = 1
       /\ stdout = <<>>
       /\ disk = original.disk
       /\ stdin = original.stdin
  /\ pc = "lists" => call.options \cap {"help", "version", "dumpConfig"} = {}
  /\ pc = "listing" => Option("listIgnored")
  /\ pc \in {"formatting", "truncate", "write"} => Formats /\ files # <<>> /\ pending = <<>>
  /\ pc \in {"truncate", "write"} =>
       at \in DOMAIN files /\ Option("inplace") /\ Formattable(files[at])
  /\ pc = "write" => Target \notin ReadOnly

Base == Types /\ Stages

-----------------------------------------------------------------------------
(* Files and styles. *)

\* The configuration files above a directory: their levels and names.
Hits(dir) ==
  {h \in (0..Len(dir)) \X CandidateNames :
     <<Resolve(SubSeq(dir, 1, h[1])), h[2]>> \in DOMAIN Configs}

\* The lowest level, and there the first name.
Preferred(h, dir) == \A g \in Hits(dir) : h[1] > g[1] \/ (h[1] = g[1] /\ h[2] <= g[2])

\* loadConfig: the preferred configuration file above a directory, if there is any.
LEMMA LoadConfigFinds ==
  ASSUME NEW dir \in Paths
  PROVE  \/ Hits(dir) = {} /\ LoadConfig(dir) = DefaultStyle
         \/ \E h \in Hits(dir) :
              /\ Preferred(h, dir)
              /\ LoadConfig(dir) = Configs[<<Resolve(SubSeq(dir, 1, h[1])), h[2]>>]
<1> DEFINE best == CHOOSE h \in Hits(dir) : Preferred(h, dir)
<1>0. /\ Len(dir) \in Nat
      /\ \A h \in Hits(dir) : h[1] \in 0..Len(dir) /\ h[2] \in {1, 2} /\ h = <<h[1], h[2]>>
  BY DEF Paths, CandidateNames, Hits
<1>1. CASE Hits(dir) = {}
  BY <1>1 DEF LoadConfig, FindFileInHierarchy, Nothing, Hits
<1>2. CASE Hits(dir) # {}
  <2>1. \E h \in Hits(dir) : Preferred(h, dir)
    <3> DEFINE far == {Len(dir) - h[1] : h \in Hits(dir)}
    <3>1. far \subseteq Nat /\ far # {}
      BY <1>0, <1>2
    <3>2. PICK x \in far : \A y \in far : x <= y
      BY <3>1, LeastNumber
    <3>3. PICK h \in Hits(dir) : Len(dir) - h[1] = x
      BY <3>2
    <3>4. ASSUME NEW g \in Hits(dir)
          PROVE  h[1] >= g[1]
      <4>1. x <= Len(dir) - g[1]
        BY <3>2
      <4>2. QED
        BY <1>0, <3>3, <4>1
    <3>5. ASSUME NEW first \in Hits(dir), first[1] = h[1], first[2] = 1
          PROVE  Preferred(first, dir)
      BY <1>0, <3>4, <3>5 DEF Preferred
    <3>6. ASSUME ~\E g \in Hits(dir) : g[1] = h[1] /\ g[2] = 1
          PROVE  Preferred(h, dir)
      <4>1. h[2] = 2
        BY <1>0, <3>6
      <4>2. ASSUME NEW g \in Hits(dir)
            PROVE  h[1] > g[1] \/ (h[1] = g[1] /\ h[2] <= g[2])
        BY <1>0, <3>4, <3>6, <4>1
      <4>3. QED
        BY <4>2 DEF Preferred
    <3>7. QED
      BY <3>5, <3>6
  <2>2. best \in Hits(dir) /\ Preferred(best, dir)
    BY <2>1
  <2>3. LoadConfig(dir) = Configs[<<Resolve(SubSeq(dir, 1, best[1])), best[2]>>]
    BY <1>2 DEF LoadConfig, FindFileInHierarchy, Hits, Preferred
  <2>4. QED
    BY <2>2, <2>3
<1>3. QED
  BY <1>1, <1>2

\* loadConfig: the style is the default one or that of a configuration file.
LEMMA LoadConfigType ==
  ASSUME NEW dir \in Paths
  PROVE  LoadConfig(dir) \in Styles
BY LoadConfigFinds DEF Hits, Styles

\* Paths are closed under the operations on them.
LEMMA PathTypes ==
  ASSUME NEW file \in Paths
  PROVE  Absolute(file) \in Paths /\ ParentPath(file) \in Paths
<1>1. Absolute(file) \in Paths
  BY ConcatProperties, CurrentPathAssumption DEF Absolute, Paths
<1>2. ParentPath(file) \in Paths
  <2>1. CASE file = <<>>
    BY <2>1 DEF ParentPath
  <2>2. CASE file # <<>>
    <3>1. file \in Seq(STRING) /\ Len(file) \in Nat
      BY LenProperties DEF Paths
    <3>2. \A i \in 1..(Len(file) - 1) : file[i] \in STRING
      BY <3>1, ElementOfSeq
    <3>3. SubSeq(file, 1, Len(file) - 1) \in Seq(STRING)
      BY <3>1, <3>2, SubSeqProperties
    <3>4. QED
      BY <2>2, <3>3 DEF ParentPath, Front, Paths
  <2>3. QED
    BY <2>1, <2>2
<1>3. QED
  BY <1>1, <1>2

\* The style for a file.
LEMMA StyleForType ==
  ASSUME NEW file \in Paths
  PROVE  StyleFor(file) \in Styles
BY LoadConfigType, PathTypes, CurrentPathAssumption DEF StyleFor, Styles

\* A valid style makes a text from a text.
LEMMA ReformatType ==
  ASSUME NEW text \in Texts, NEW file \in Paths, StyleFor(file) # Invalid
  PROVE  Reformat[<<text, StyleFor(file)>>] \in Texts
BY StyleForType, ReformatAssumption

-----------------------------------------------------------------------------
(* Types and stages. *)

\* What the command line says and what is typed stay as they are.
LEMMA Fixed ==
  ASSUME UNCHANGED call
  PROVE  /\ Formats' = Formats
         /\ \A o : Option(o)' = Option(o)
         /\ \A file : Skips(file)' = Skips(file) /\ StyleFor(file)' = StyleFor(file)
BY DEF Formats, Option, Skips, StyleFor

\* Whether a file is formattable depends on which files there are.
LEMMA FixedFormattable ==
  ASSUME UNCHANGED call, DOMAIN disk' = DOMAIN disk
  PROVE  \A file : Formattable(file)' = Formattable(file)
BY Fixed DEF Formattable, OnDisk

\* The start of the program.
LEMMA BaseInit ==
  ASSUME Init
  PROVE  Base
<1>1. call \in [options : SUBSET Options, positional : Seq(Arguments), fileLists : Seq(Paths)]
  BY InvocationsAssumption DEF Init
<1>2. [k \in DOMAIN call.fileLists |-> AsList(call.fileLists[k])] \in Seq(Arguments)
  <2>1. /\ call.fileLists \in Seq(Paths)
        /\ DOMAIN call.fileLists = 1..Len(call.fileLists)
        /\ Len(call.fileLists) \in Nat
    BY <1>1, LenProperties
  <2>2. \A k \in 1..Len(call.fileLists) : AsList(call.fileLists[k]) \in Arguments
    BY <2>1, ElementOfSeq DEF AsList, Arguments
  <2>3. QED
    BY <2>1, <2>2
<1>3. pending \in Seq(Arguments)
  BY <1>1, <1>2, ConcatProperties DEF Init
<1>4. disk \in [DOMAIN disk -> Texts]
  BY DisksAssumption DEF Init
<1>5. stdin \in Texts /\ Empty \in Texts
  BY TextsAssumption DEF Init
<1>6. Types
  BY <1>1, <1>3, <1>4, <1>5 DEF Init, Types, TypeOK, Running, Exited
<1>7. Stages
  BY DEF Init, Stages
<1>8. QED
  BY <1>6, <1>7 DEF Base

\* Up to the list of files.
LEMMA BaseStart ==
  ASSUME Base, ShowInformation \/ DumpConfig \/ Start
  PROVE  Base'
<1> USE DEF Base, Types, TypeOK, Stages, ShowInformation, DumpConfig, Start, Exit,
            given, lists, Running, Exited, Option
<1>1. CASE ShowInformation
  BY <1>1
<1>2. CASE DumpConfig
  BY <1>2
<1>3. CASE Start
  BY <1>3
<1>4. QED
  BY <1>1, <1>2, <1>3

LEMMA BaseFileList ==
  ASSUME Base, BuildFileList
  PROVE  Base'
<1> DEFINE arg == Head(pending)
<1>1. pc = "lists" /\ pending # <<>> /\ at = 1 /\ failed = 0 /\ damaged = {}
  BY DEF BuildFileList, Base, Types, TypeOK, Stages
<1>2. /\ arg \in Arguments
      /\ Tail(pending) \in Seq(Arguments)
  BY <1>1, HeadTailProperties DEF Base, Types
<1>3. CASE arg.list /\ arg.name \notin DOMAIN Lists
  BY <1>1, <1>3 DEF BuildFileList, Exit, Base, Types, TypeOK, Stages, given, Running, Exited
<1>4. CASE ~(arg.list /\ arg.name \notin DOMAIN Lists)
  <2> DEFINE named == IF arg.list THEN Lists[arg.name] ELSE <<arg.name>>
  <2>1. named \in Seq(Paths)
    <3>1. CASE arg.list
      BY <1>4, <3>1, ListsAssumption
    <3>2. CASE ~arg.list
      BY <1>2, <3>2 DEF Arguments
    <3>3. QED
      BY <3>1, <3>2
  <2>2. files' = files \o named /\ pending' = Tail(pending) /\ pc' = pc
    BY <1>4 DEF BuildFileList
  <2>3. /\ files' \in Seq(Paths)
        /\ Len(files') \in Nat
        /\ DOMAIN files' = 1..Len(files')
    BY <2>1, <2>2, ConcatProperties, LenProperties DEF Base, Types
  <2>4. UNCHANGED <<call, original, disk, stdin, at, result, stdout, failed, damaged>>
    BY DEF BuildFileList, given
  <2>5. Types'
    BY <1>1, <1>2, <2>2, <2>3, <2>4 DEF Base, Types, TypeOK
  <2>6. Stages'
    BY <1>1, <2>2, <2>4 DEF Base, Stages
  <2>7. QED
    BY <2>5, <2>6 DEF Base
<1>5. QED
  BY <1>3, <1>4

LEMMA BaseEndFileList ==
  ASSUME Base, EndFileList
  PROVE  Base'
BY DEF EndFileList, Base, Types, TypeOK, Stages, given, lists, Running, Exited, Option,
       Formats

\* From one file to the next.
LEMMA BaseNextFile ==
  ASSUME Base, ListIgnoredFiles \/ SkipFile \/ FailFile
  PROVE  Base'
<1>1. /\ Len(files) \in Nat /\ DOMAIN files = 1..Len(files)
  BY LenProperties DEF Base, Types
<1>2. CASE ListIgnoredFiles
  BY <1>1, <1>2 DEF ListIgnoredFiles, Exit, Base, Types, TypeOK, Stages, given, lists,
     Running, Exited, Option
<1>3. CASE SkipFile \/ FailFile
  <2>1. /\ pc = "formatting" /\ at <= Len(files) /\ at' = at + 1
        /\ failed' \in {failed, failed + 1}
        /\ UNCHANGED <<given, disk, stdin, lists, result, stdout, damaged, pc>>
    BY <1>3 DEF SkipFile, FailFile, Formatting, lists
  <2>2. Types'
    BY <1>1, <2>1 DEF Base, Types, TypeOK, given, lists
  <2>3. Stages'
    BY <2>1, Fixed DEF Base, Stages, given, lists
  <2>4. QED
    BY <2>2, <2>3 DEF Base
<1>4. QED
  BY <1>2, <1>3

LEMMA BasePrint ==
  ASSUME Base, FormatStdin \/ PrintFile
  PROVE  Base'
<1>1. /\ Len(files) \in Nat /\ DOMAIN files = 1..Len(files)
  BY LenProperties DEF Base, Types
<1>2. /\ pc = "formatting" /\ at <= Len(files) /\ at' = at + 1
      /\ stdin' \in {stdin, Empty}
      /\ UNCHANGED <<given, disk, lists, result, failed, damaged, pc>>
  BY DEF FormatStdin, PrintFile, Formatting, lists
<1>3. Types'
  BY <1>1, <1>2, TextsAssumption DEF Base, Types, TypeOK, given, lists
<1>4. Stages'
  BY <1>2, Fixed DEF Base, Stages, given, lists
<1>5. QED
  BY <1>3, <1>4 DEF Base

\* The three steps of formatting in place.
LEMMA BaseRead ==
  ASSUME Base, ReadFile
  PROVE  Base'
<1> DEFINE formatted == Reformat[<<Text(files[at]), StyleFor(files[at])>>]
<1>1. /\ Len(files) \in Nat /\ DOMAIN files = 1..Len(files)
      /\ pc = "formatting" /\ at \in 1..Len(files) /\ files[at] \in Paths
      /\ Formattable(files[at]) /\ Option("inplace")
      /\ UNCHANGED <<given, disk, stdin, lists, stdout, failed, damaged>>
  BY LenProperties, ElementOfSeq DEF Base, Types, TypeOK, ReadFile, Formatting, lists
<1>2. Text(files[at]) \in Texts
  BY <1>1 DEF Text, Formattable, OnDisk, Base, Types, TypeOK
<1>3. formatted \in Texts
  BY <1>1, <1>2, ReformatType DEF Formattable
<1>4. \/ at' = at + 1 /\ UNCHANGED <<result, pc>>
      \/ result' = formatted /\ pc' = "truncate" /\ UNCHANGED at
  BY DEF ReadFile
<1>5. Types'
  BY <1>1, <1>3, <1>4 DEF Base, Types, TypeOK, given, lists, Running
<1>6. Stages'
  BY <1>1, <1>4, Fixed, FixedFormattable DEF Base, Stages, given, lists
<1>7. QED
  BY <1>5, <1>6 DEF Base

LEMMA BaseTruncate ==
  ASSUME Base, TruncateFile
  PROVE  Base'
<1>1. /\ Len(files) \in Nat /\ DOMAIN files = 1..Len(files)
      /\ pc = "truncate" /\ at \in 1..Len(files) /\ Target \in DOMAIN disk
      /\ UNCHANGED <<given, stdin, lists, result, stdout, damaged>>
  BY LenProperties DEF Base, Types, TypeOK, TruncateFile, lists, Stages, Formattable,
     OnDisk, Target
<1>2. CASE Target \in ReadOnly
  <2>1. /\ failed' = failed + 1 /\ at' = at + 1 /\ pc' = "formatting" /\ disk' = disk
    BY <1>2 DEF TruncateFile
  <2>2. Types'
    BY <1>1, <2>1 DEF Base, Types, TypeOK, given, lists, Running
  <2>3. Stages'
    BY <1>1, <2>1, Fixed DEF Base, Stages, given, lists
  <2>4. QED
    BY <2>2, <2>3 DEF Base
<1>3. CASE Target \notin ReadOnly
  <2>1. /\ disk' = [disk EXCEPT ![Target] = Empty] /\ pc' = "write"
        /\ failed' = failed /\ at' = at
    BY <1>3 DEF TruncateFile
  <2>2. disk' \in [DOMAIN disk -> Texts] /\ DOMAIN disk' = DOMAIN disk
    BY <2>1, TextsAssumption DEF Base, Types, TypeOK
  <2>3. Types'
    BY <1>1, <2>1, <2>2 DEF Base, Types, TypeOK, given, lists, Running
  <2>4. Target' = Target
    BY <1>1, <2>1 DEF Target, lists
  <2>5. Stages'
    BY <1>1, <1>3, <2>1, <2>2, <2>4, Fixed, FixedFormattable DEF Base, Stages, given, lists
  <2>6. QED
    BY <2>3, <2>5 DEF Base
<1>4. QED
  BY <1>2, <1>3

LEMMA BaseWrite ==
  ASSUME Base, WriteFile
  PROVE  Base'
<1>1. /\ Len(files) \in Nat /\ DOMAIN files = 1..Len(files)
      /\ pc = "write" /\ at \in 1..Len(files) /\ Target \in DOMAIN disk
      /\ at' = at + 1 /\ pc' = "formatting"
      /\ UNCHANGED <<given, stdin, lists, result, stdout, failed>>
  BY LenProperties DEF Base, Types, TypeOK, WriteFile, lists, Stages, Formattable,
     OnDisk, Target
<1>2. /\ \E text \in {result, Partial} : disk' = [disk EXCEPT ![Target] = text]
      /\ damaged' \in {damaged, damaged \cup {at}}
  BY DEF WriteFile
<1>3. disk' \in [DOMAIN disk -> Texts] /\ DOMAIN disk' = DOMAIN disk
  BY <1>2, TextsAssumption DEF Base, Types, TypeOK
<1>4. damaged' \subseteq 1..at
  BY <1>1, <1>2 DEF Base, Types, TypeOK
<1>5. Types'
  <2>1. damaged' \subseteq 1..(at' - 1) /\ damaged' \subseteq DOMAIN files'
    BY <1>1, <1>4 DEF lists
  <2>2. at' \in 1..(Len(files') + 1) /\ failed' \in 0..Len(files') /\ failed' <= at' - 1
    BY <1>1 DEF Base, Types, TypeOK, lists
  <2>3. QED
    BY <1>1, <1>3, <2>1, <2>2 DEF Base, Types, TypeOK, given, lists, Running
<1>6. Stages'
  BY <1>1, Fixed DEF Base, Stages, given, lists
<1>7. QED
  BY <1>5, <1>6 DEF Base

\* The end, a crash, and nothing.
LEMMA BaseStop ==
  ASSUME Base, EndFormatting \/ Crash \/ UNCHANGED vars
  PROVE  Base'
<1>1. CASE EndFormatting
  BY <1>1 DEF EndFormatting, Exit, Base, Types, TypeOK, Stages, given, lists, Running, Exited
<1>2. CASE Crash
  BY <1>2 DEF Crash, Exit, Base, Types, TypeOK, Stages, given, lists, Running, Exited
<1>3. CASE UNCHANGED vars
  <2>1. Target' = Target
    BY <1>3 DEF Target, vars, lists
  <2>2. QED
    BY <1>3, <2>1, Fixed, FixedFormattable DEF vars, Base, Types, TypeOK, Stages, given, lists
<1>4. QED
  BY <1>1, <1>2, <1>3

LEMMA BaseStep == Base /\ [Next]_vars => Base'
BY BaseStart, BaseFileList, BaseEndFileList, BaseNextFile, BasePrint, BaseRead, BaseTruncate,
   BaseWrite, BaseStop DEF Next, Step, Done

LEMMA BaseInvariant == Spec => []Base
BY BaseInit, BaseStep, PTL DEF Spec

\* The variables of the command-line tool have their types at every step.
THEOREM ToolTypes == Spec => []TypeOK
<1>1. Base => TypeOK
  BY DEF Base, Types
<1>2. QED
  BY <1>1, BaseInvariant, PTL

-----------------------------------------------------------------------------
(* File lists. *)

Unread(arg) == arg.list /\ arg.name \notin DOMAIN Lists

\* A file list that cannot be read is still to be taken up, or has ended the run.
ListsInv ==
  UnreadableList =>
    /\ pc \notin {"listing", "formatting", "truncate", "write"}
    /\ pc \in {"start", "lists"} => \E k \in DOMAIN pending : Unread(pending[k])
    /\ Formats => stdout = <<>> /\ disk = original.disk /\ pc # "success"

LEMMA ListsInit ==
  ASSUME Init, Base
  PROVE  ListsInv
<1> DEFINE lists1 == call.positional
           lists2 == [k \in DOMAIN call.fileLists |-> AsList(call.fileLists[k])]
<1>1. call \in [options : SUBSET Options, positional : Seq(Arguments), fileLists : Seq(Paths)]
  BY InvocationsAssumption DEF Init
<1>2. /\ lists1 \in Seq(Arguments) /\ Len(lists1) \in Nat
      /\ DOMAIN lists1 = 1..Len(lists1)
      /\ call.fileLists \in Seq(Paths) /\ Len(call.fileLists) \in Nat
      /\ DOMAIN call.fileLists = 1..Len(call.fileLists)
  BY <1>1, LenProperties
<1>3. /\ lists2 \in Seq(Arguments) /\ Len(lists2) = Len(call.fileLists)
      /\ \A k \in 1..Len(call.fileLists) : lists2[k] = AsList(call.fileLists[k])
  <2>1. \A k \in 1..Len(call.fileLists) : AsList(call.fileLists[k]) \in Arguments
    BY <1>2, ElementOfSeq DEF AsList, Arguments
  <2>2. QED
    BY <1>2, <2>1
<1>4. /\ pending \in Seq(Arguments)
      /\ Len(pending) = Len(lists1) + Len(lists2)
      /\ \A i \in 1..Len(lists1) + Len(lists2) :
           pending[i] = IF i <= Len(lists1) THEN lists1[i] ELSE lists2[i - Len(lists1)]
      /\ DOMAIN pending = 1..Len(pending)
  <2> HIDE DEF lists1, lists2
  <2>1. pending = lists1 \o lists2
    BY DEF Init, lists1, lists2
  <2>2. QED
    BY <1>2, <1>3, <2>1, ConcatProperties, LenProperties
<1>5. ASSUME UnreadableList
      PROVE  \E k \in DOMAIN pending : Unread(pending[k])
  <2> HIDE DEF lists2
  <2>1. CASE \E k \in DOMAIN lists1 : lists1[k].list /\ lists1[k].name \notin DOMAIN Lists
    <3>1. PICK k \in DOMAIN lists1 : lists1[k].list /\ lists1[k].name \notin DOMAIN Lists
      BY <2>1
    <3> k \in 1..Len(lists1)
      BY <1>2
    <3> HIDE DEF lists1
    <3>2. k \in 1..Len(pending) /\ pending[k] = lists1[k]
      BY <1>2, <1>3, <1>4
    <3>3. QED
      BY <1>4, <3>1, <3>2 DEF Unread
  <2>2. CASE \E k \in DOMAIN call.fileLists : call.fileLists[k] \notin DOMAIN Lists
    <3>1. PICK k \in DOMAIN call.fileLists : call.fileLists[k] \notin DOMAIN Lists
      BY <2>2
    <3> k \in 1..Len(call.fileLists)
      BY <1>2
    <3> HIDE DEF lists1
    <3>2. /\ k + Len(lists1) \in 1..Len(pending)
          /\ pending[k + Len(lists1)] = lists2[k]
      BY <1>2, <1>3, <1>4
    <3>3. lists2[k] = AsList(call.fileLists[k])
      BY <1>3
    <3>4. Unread(AsList(call.fileLists[k]))
      BY <3>1 DEF Unread, AsList
    <3>5. QED
      BY <1>4, <3>2, <3>3, <3>4
  <2>3. QED
    BY <1>5, <2>1, <2>2 DEF UnreadableList
<1>6. QED
  BY <1>5 DEF ListsInv, Init, Base, Stages

LEMMA ListsStep ==
  ASSUME Base, Base', ListsInv, [Next]_vars
  PROVE  ListsInv'
<1> SUFFICES ASSUME UnreadableList'
             PROVE  /\ pc' \notin {"listing", "formatting", "truncate", "write"}
                    /\ pc' \in {"start", "lists"} =>
                         \E k \in DOMAIN pending' : Unread(pending'[k])
                    /\ Formats' => stdout' = <<>> /\ disk' = original'.disk /\ pc' # "success"
  BY DEF ListsInv, Unread
<1>1. UNCHANGED given
  BY DEF Next, Step, Done, ShowInformation, DumpConfig, Start, BuildFileList, EndFileList,
     ListIgnoredFiles, SkipFile, FailFile, FormatStdin, PrintFile, ReadFile, TruncateFile,
     WriteFile, EndFormatting, Crash, vars
<1>2. UnreadableList /\ Formats' = Formats
  BY <1>1, Fixed DEF UnreadableList, given
<1>3. /\ pc \notin {"listing", "formatting", "truncate", "write"}
      /\ pc \in {"start", "lists"} => \E k \in DOMAIN pending : Unread(pending[k])
      /\ Formats => stdout = <<>> /\ disk = original.disk /\ pc # "success"
  BY <1>2 DEF ListsInv
<1>4. CASE ShowInformation \/ DumpConfig
  BY <1>1, <1>2, <1>4 DEF ShowInformation, DumpConfig, Exit, Formats, Option
<1>5. CASE Start
  BY <1>1, <1>2, <1>3, <1>5 DEF Start, lists, given
<1>6. CASE BuildFileList
  <2>1. /\ pending \in Seq(Arguments) /\ pending # <<>> /\ pc = "lists"
        /\ Len(pending) \in Nat /\ DOMAIN pending = 1..Len(pending)
    BY <1>6, LenProperties DEF BuildFileList, Base, Types
  <2>2. CASE Unread(Head(pending))
    BY <1>1, <1>2, <1>3, <1>6, <2>2 DEF BuildFileList, Unread, Exit, given
  <2>3. CASE ~Unread(Head(pending))
    <3>1. pending' = Tail(pending) /\ pc' = pc /\ UNCHANGED <<disk, stdout>>
      BY <1>6, <2>3 DEF BuildFileList, Unread
    <3>2. PICK k \in DOMAIN pending : Unread(pending[k])
      BY <1>3, <2>1
    <3>3. k # 1
      BY <2>1, <2>3, <3>2
    <3>4. /\ Tail(pending) \in Seq(Arguments) /\ Len(Tail(pending)) = Len(pending) - 1
          /\ \A i \in 1..Len(Tail(pending)) : Tail(pending)[i] = pending[i + 1]
          /\ DOMAIN Tail(pending) = 1..Len(Tail(pending))
      BY <2>1, HeadTailProperties, LenProperties
    <3>5. k - 1 \in DOMAIN pending' /\ pending'[k - 1] = pending[k]
      BY <2>1, <3>1, <3>2, <3>3, <3>4
    <3>6. QED
      BY <1>1, <1>2, <1>3, <2>1, <3>1, <3>2, <3>5 DEF given
  <2>4. QED
    BY <2>2, <2>3
<1>7. CASE EndFileList
  BY <1>3, <1>7, EmptySeq DEF EndFileList
<1>8. CASE Crash \/ UNCHANGED vars
  BY <1>1, <1>2, <1>3, <1>8 DEF Crash, Exit, vars, given, lists
<1>9. QED
  BY <1>3, <1>4, <1>5, <1>6, <1>7, <1>8 DEF Next, Step, Done, ListIgnoredFiles, SkipFile,
     FailFile, FormatStdin, PrintFile, ReadFile, TruncateFile, WriteFile, EndFormatting,
     Formatting

\* buildFileList: a file list that cannot be read fails the run before any file is
\* printed or changed.
THEOREM ListsFirst == Spec => []ListsComeFirst
<1>1. Init => ListsInv
  BY ListsInit, BaseInit
<1>2. Base /\ Base' /\ ListsInv /\ [Next]_vars => ListsInv'
  BY ListsStep
<1>3. ListsInv => ListsComeFirst
  BY DEF ListsInv, ListsComeFirst
<1>4. QED
  BY <1>1, <1>2, <1>3, BaseInvariant, PTL DEF Spec

-----------------------------------------------------------------------------
(* The exit status. *)

\* Failures are counted: some file could not be dealt with just if the count is
\* not 0.
ExitInv ==
  /\ ExitStatusTellsFailures
  /\ pc \in {"formatting", "truncate", "write"} =>
       (failed > 0 <=> \E k \in 1..(at - 1) : ~Succeeds(files[k]))
  /\ pc = "truncate" =>
       Reformat[<<Text(files[at]), StyleFor(files[at])>>] # Text(files[at])

\* Whether a file succeeds depends on the files that cannot be written only.
LEMMA FixedSucceeds ==
  ASSUME UNCHANGED call, DOMAIN disk' = DOMAIN disk,
         \A path \in ReadOnly \cap DOMAIN disk : disk'[path] = disk[path]
  PROVE  \A file : Succeeds(file)' = Succeeds(file)
<1> SUFFICES ASSUME NEW file
             PROVE  Succeeds(file)' = Succeeds(file)
  OBVIOUS
<1>1. /\ Skips(file)' = Skips(file) /\ StyleFor(file)' = StyleFor(file)
      /\ StyleFor(Stdin)' = StyleFor(Stdin)
      /\ Option("inplace")' = Option("inplace")
      /\ Formattable(file)' = Formattable(file)
  BY Fixed, FixedFormattable
<1>2. CASE Formattable(file) /\ Resolve(Absolute(file)) \in ReadOnly
  <2>1. Text(file)' = Text(file)
    BY <1>2 DEF Text, Formattable, OnDisk
  <2>2. QED
    BY <1>1, <2>1 DEF Succeeds
<1>3. CASE ~(Formattable(file) /\ Resolve(Absolute(file)) \in ReadOnly)
  BY <1>1, <1>3 DEF Succeeds
<1>4. QED
  BY <1>2, <1>3

LEMMA ExitInit == Init /\ Base => ExitInv
BY DEF Init, ExitInv, ExitStatusTellsFailures

\* A step to the next file: the count follows what becomes of the current one.
LEMMA ExitNext ==
  ASSUME Base, ExitInv, pc \in {"formatting", "truncate", "write"},
         at \in 1..Len(files), at' = at + 1, pc' = "formatting",
         failed' \in {failed, failed + 1}, failed' = failed <=> Succeeds(files[at]),
         UNCHANGED <<call, files, original>>, DOMAIN disk' = DOMAIN disk,
         \A path \in ReadOnly \cap DOMAIN disk : disk'[path] = disk[path]
  PROVE  ExitInv'
<1>1. \A k : Succeeds(files[k])' = Succeeds(files[k])
  <2>1. \A file : Succeeds(file)' = Succeeds(file)
    BY FixedSucceeds
  <2>2. QED
    BY <2>1 DEF Succeeds
<1>2. failed \in Nat /\ (failed > 0 <=> \E k \in 1..(at - 1) : ~Succeeds(files[k]))
  BY DEF Base, Types, TypeOK, ExitInv
<1>3. failed' > 0 <=> \E k \in 1..at : ~Succeeds(files[k])
  <2>1. CASE Succeeds(files[at])
    BY <1>2, <2>1
  <2>2. CASE ~Succeeds(files[at])
    BY <1>2, <2>2
  <2>3. QED
    BY <2>1, <2>2
<1>4. (failed > 0 <=> \E k \in 1..(at - 1) : ~Succeeds(files[k]))'
  BY <1>1, <1>3
<1>5. QED
  BY <1>4 DEF ExitInv, ExitStatusTellsFailures

LEMMA ExitStep ==
  ASSUME Base, Base', ExitInv, [Next]_vars
  PROVE  ExitInv'
<1>1. /\ Len(files) \in Nat /\ DOMAIN files = 1..Len(files)
      /\ failed \in Nat /\ at \in 1..(Len(files) + 1)
  BY LenProperties DEF Base, Types, TypeOK
<1>2. CASE ShowInformation \/ DumpConfig
  BY <1>2 DEF ShowInformation, DumpConfig, Exit, given, Formats, Option, ExitInv,
     ExitStatusTellsFailures
<1>3. CASE Start
  BY <1>3 DEF Start, ExitInv, ExitStatusTellsFailures
<1>4. CASE BuildFileList
  BY <1>4 DEF BuildFileList, Exit, ExitInv, ExitStatusTellsFailures
<1>5. CASE EndFileList
  <2>1. failed' = 0 /\ at' = 1
    BY <1>1, <1>5 DEF EndFileList, Base, Types, Stages, lists
  <2>2. pc' \in {"failure", "listing", "formatting"} /\ (pc' = "failure" => files' = <<>>)
    BY <1>5 DEF EndFileList, lists
  <2>3. QED
    BY <2>1, <2>2 DEF ExitInv, ExitStatusTellsFailures
<1>6. CASE ListIgnoredFiles
  BY <1>6 DEF ListIgnoredFiles, Exit, ExitInv, ExitStatusTellsFailures, Base, Stages, given,
     Formats, Option
<1>7. CASE SkipFile
  <2>1. Succeeds(files[at])
    BY <1>7 DEF SkipFile, Succeeds
  <2>2. QED
    BY <1>1, <1>7, <2>1, ExitNext DEF SkipFile, Formatting, given
<1>8. CASE FailFile
  <2>1. ~Succeeds(files[at])
    BY <1>8 DEF FailFile, Succeeds, Formattable
  <2>2. QED
    BY <1>1, <1>8, <2>1, ExitNext DEF FailFile, Formatting, given
<1>9. CASE FormatStdin \/ PrintFile
  <2>1. Succeeds(files[at])
    BY <1>9 DEF FormatStdin, PrintFile, Succeeds, Formattable
  <2>2. QED
    BY <1>1, <1>9, <2>1, ExitNext DEF FormatStdin, PrintFile, Formatting, given
<1>10. CASE ReadFile
  <2> DEFINE formatted == Reformat[<<Text(files[at]), StyleFor(files[at])>>]
  <2>1. /\ Formattable(files[at]) /\ Formatting
        /\ UNCHANGED <<given, disk, stdin, pending, files, stdout, failed, damaged>>
    BY <1>10 DEF ReadFile
  <2>2. CASE formatted = Text(files[at])
    <3>1. Succeeds(files[at])
      BY <2>1, <2>2 DEF Succeeds, Formattable
    <3>2. at' = at + 1 /\ pc' = pc
      BY <1>10, <2>2 DEF ReadFile
    <3>3. QED
      BY <1>1, <2>1, <3>1, <3>2, ExitNext DEF Formatting, given
  <2>3. CASE formatted # Text(files[at])
    <3>1. pc' = "truncate" /\ at' = at
      BY <1>10, <2>3 DEF ReadFile
    <3>2. /\ (Text(files[at]))' = Text(files[at])
          /\ (StyleFor(files[at]))' = StyleFor(files[at])
          /\ \A k : (Succeeds(files[k]))' = Succeeds(files[k])
      BY <2>1, <3>1, Fixed, FixedSucceeds DEF Text, StyleFor, Option, Succeeds, given
    <3>3. failed > 0 <=> \E k \in 1..(at - 1) : ~Succeeds(files[k])
      BY <2>1 DEF ExitInv, Formatting
    <3>4. QED
      BY <2>1, <2>3, <3>1, <3>2, <3>3 DEF ExitInv, ExitStatusTellsFailures
  <2>4. QED
    BY <2>2, <2>3
<1>11. CASE TruncateFile
  <2>1. /\ pc = "truncate" /\ at \in DOMAIN files /\ Formattable(files[at])
        /\ Option("inplace") /\ files[at] # Stdin
        /\ UNCHANGED <<given, stdin, pending, files, result, stdout, damaged>>
    BY <1>11 DEF TruncateFile, Base, Stages, Formattable
  <2>2. CASE Target \in ReadOnly
    <3>1. failed' = failed + 1 /\ at' = at + 1 /\ pc' = "formatting" /\ disk' = disk
      BY <1>11, <2>2 DEF TruncateFile
    <3>2. ~Succeeds(files[at])
      BY <2>1, <2>2 DEF Succeeds, Formattable, Target, ExitInv
    <3>3. QED
      BY <1>1, <2>1, <3>1, <3>2, ExitNext DEF given
  <2>3. CASE Target \notin ReadOnly
    <3>1. /\ disk' = [disk EXCEPT ![Target] = Empty] /\ pc' = "write"
          /\ failed' = failed /\ at' = at
      BY <1>11, <2>3 DEF TruncateFile
    <3>2. /\ DOMAIN disk' = DOMAIN disk
          /\ \A path \in ReadOnly \cap DOMAIN disk : disk'[path] = disk[path]
      BY <2>3, <3>1
    <3>3. \A k : (Succeeds(files[k]))' = Succeeds(files[k])
      BY <2>1, <3>2, FixedSucceeds DEF Succeeds, given
    <3>4. failed > 0 <=> \E k \in 1..(at - 1) : ~Succeeds(files[k])
      BY <2>1 DEF ExitInv
    <3>5. QED
      BY <3>1, <3>3, <3>4 DEF ExitInv, ExitStatusTellsFailures
  <2>4. QED
    BY <2>2, <2>3
<1>12. CASE WriteFile
  <2>1. /\ pc = "write" /\ at \in DOMAIN files /\ Formattable(files[at])
        /\ Target \notin ReadOnly /\ at' = at + 1 /\ pc' = "formatting"
        /\ UNCHANGED <<given, stdin, pending, files, result, stdout, failed>>
    BY <1>12 DEF WriteFile, Base, Stages
  <2>2. Succeeds(files[at])
    BY <2>1 DEF Succeeds, Formattable, Target
  <2>3. \E text : disk' = [disk EXCEPT ![Target] = text]
    BY <1>12 DEF WriteFile
  <2>4. /\ DOMAIN disk' = DOMAIN disk
        /\ \A path \in ReadOnly \cap DOMAIN disk : disk'[path] = disk[path]
    BY <2>1, <2>3
  <2>5. QED
    BY <1>1, <2>1, <2>2, <2>4, ExitNext DEF given
<1>13. CASE EndFormatting
  <2>1. /\ pc = "formatting" /\ at = Len(files) + 1
        /\ UNCHANGED <<given, disk, stdin, lists, at, result, stdout, failed, damaged>>
        /\ pc' = IF failed > 0 THEN "failure" ELSE "success"
    BY <1>1, <1>13 DEF EndFormatting, Exit
  <2>2. failed > 0 <=> \E k \in DOMAIN files : ~Succeeds(files[k])
    BY <1>1, <2>1 DEF ExitInv
  <2>3. pending = <<>> /\ files # <<>>
    BY <2>1 DEF Base, Stages
  <2>4. \A k : (Succeeds(files[k]))' = Succeeds(files[k])
    BY <2>1, FixedSucceeds DEF Succeeds, given, lists
  <2>5. QED
    BY <2>1, <2>2, <2>3, <2>4 DEF ExitInv, ExitStatusTellsFailures, lists
<1>14. CASE Crash
  BY <1>14 DEF Crash, Exit, ExitInv, ExitStatusTellsFailures
<1>15. CASE UNCHANGED vars
  <2>1. /\ \A k : (Succeeds(files[k]))' = Succeeds(files[k])
        /\ (Text(files[at]))' = Text(files[at])
        /\ (StyleFor(files[at]))' = StyleFor(files[at])
    BY <1>15, Fixed, FixedSucceeds DEF Succeeds, Text, StyleFor, Option, vars, given, lists
  <2>2. Formats' = Formats
    BY <1>15, Fixed DEF vars, given
  <2>3. QED
    BY <1>15, <2>1, <2>2 DEF ExitInv, ExitStatusTellsFailures, vars, given, lists
<1>16. QED
  BY <1>2, <1>3, <1>4, <1>5, <1>6, <1>7, <1>8, <1>9, <1>10, <1>11, <1>12, <1>13, <1>14, <1>15
     DEF Next, Step, Done

\* main: the exit status is success just if there were files and each of them could
\* be dealt with.
THEOREM ExitStatusCorrect == Spec => []ExitStatusTellsFailures
<1>1. Init => ExitInv
  BY ExitInit, BaseInit
<1>2. Base /\ Base' /\ ExitInv /\ [Next]_vars => ExitInv'
  BY ExitStep
<1>3. ExitInv => ExitStatusTellsFailures
  BY DEF ExitInv
<1>4. QED
  BY <1>1, <1>2, <1>3, BaseInvariant, PTL DEF Spec

-----------------------------------------------------------------------------
(* Standard output. *)

\* Standard input is at its end once it was formatted.
PrintInv ==
  /\ PrintedInOrder
  /\ Formats => stdout \in Seq(Texts)
  /\ Formats =>
       stdin = IF /\ ~Option("inplace") /\ StyleFor(Stdin) # Invalid
                  /\ \E k \in 1..(at - 1) : files[k] = Stdin
               THEN Empty ELSE original.stdin

LEMMA PrintedType ==
  ASSUME Base, NEW k \in DOMAIN files
  PROVE  Printed(k) \in Seq(Texts)
<1>1. files[k] \in Paths /\ original.stdin \in Texts /\ Empty \in Texts
  BY ElementOfSeq, LenProperties, TextsAssumption DEF Base, Types
<1>2. CASE files[k] = Stdin /\ StyleFor(files[k]) # Invalid
  <2> DEFINE input == IF \E j \in 1..(k - 1) : files[j] = Stdin THEN Empty ELSE original.stdin
  <2>1. input \in Texts
    BY <1>1
  <2>2. Reformat[<<input, StyleFor(files[k])>>] \in Texts
    <3> HIDE DEF input
    <3>1. QED
      BY <1>1, <1>2, <2>1, ReformatType
  <2>3. QED
    BY <1>2, <2>2 DEF Printed
<1>3. CASE files[k] # Stdin /\ Formattable(files[k])
  <2>1. Text(files[k]) \in Texts
    BY <1>3 DEF Text, Formattable, OnDisk, Base, Types, TypeOK
  <2>2. Reformat[<<Text(files[k]), StyleFor(files[k])>>] \in Texts
    BY <1>1, <1>3, <2>1, ReformatType DEF Formattable
  <2>3. QED
    BY <1>3, <2>2 DEF Printed
<1>4. QED
  BY <1>2, <1>3 DEF Printed

LEMMA PrintInit == Init /\ Base => PrintInv
<1> SUFFICES ASSUME Init, Base PROVE PrintInv
  OBVIOUS
<1>1. at = 1 /\ stdout = <<>> /\ stdin = original.stdin
  BY DEF Init
<1>2. FlattenSeq([k \in 1..(at - 1) |-> Printed(k)]) = <<>>
  BY <1>1 DEF FlattenSeq
<1>3. QED
  BY <1>1, <1>2 DEF PrintInv, PrintedInOrder

\* A step to the next file prints what there is to print of the current one.
LEMMA PrintNext ==
  ASSUME Base, PrintInv, Formats, pc = "formatting", ~Option("inplace"),
         at \in DOMAIN files, at' = at + 1, UNCHANGED <<call, files, original, disk>>,
         stdout' = stdout \o Printed(at),
         stdin' = IF files[at] = Stdin /\ StyleFor(Stdin) # Invalid THEN Empty ELSE stdin
  PROVE  PrintInv'
<1> DEFINE next == [k \in 1..(at + 1 - 1) |-> Printed(k)]
<1>1. Len(files) \in Nat /\ DOMAIN files = 1..Len(files) /\ at - 1 \in Nat
  BY LenProperties DEF Base, Types, TypeOK
<1>2. \A k : Printed(k)' = Printed(k)
  BY Fixed, FixedFormattable DEF Printed, Text, Formattable, StyleFor, Option
<1>3. stdout' = FlattenSeq(next)
  <2>1. next \in [1..((at - 1) + 1) -> Seq(Texts)]
    BY <1>1, PrintedType
  <2>2. FlattenSeq(next) = FlattenSeq([k \in 1..(at - 1) |-> next[k]]) \o next[(at - 1) + 1]
    <3> HIDE DEF next
    <3>1. QED
      BY <1>1, <2>1, FlattenAppend
  <2>3. [k \in 1..(at - 1) |-> next[k]] = [k \in 1..(at - 1) |-> Printed(k)]
    BY <1>1
  <2>4. next[(at - 1) + 1] = Printed(at)
    BY <1>1
  <2>5. stdout = FlattenSeq([k \in 1..(at - 1) |-> Printed(k)])
    BY DEF PrintInv, PrintedInOrder
  <2>6. QED
    BY <2>2, <2>3, <2>4, <2>5
<1>4. PrintedInOrder'
  <2>1. [k \in 1..(at' - 1) |-> Printed(k)'] = next
    BY <1>1, <1>2
  <2>2. Formats' = Formats /\ Option("inplace")' = Option("inplace")
    BY Fixed
  <2>3. QED
    BY <1>3, <2>1, <2>2 DEF PrintedInOrder
<1>5. stdin' = IF /\ StyleFor(Stdin) # Invalid
                  /\ \E k \in 1..at : files[k] = Stdin
               THEN Empty ELSE original.stdin
  <2>1. (\E k \in 1..at : files[k] = Stdin) <=>
          files[at] = Stdin \/ \E k \in 1..(at - 1) : files[k] = Stdin
    BY <1>1
  <2>2. QED
    BY <2>1 DEF PrintInv
<1>6. stdout' \in Seq(Texts)
  BY PrintedType, ConcatProperties DEF PrintInv
<1>7. QED
  BY <1>1, <1>4, <1>5, <1>6, Fixed DEF PrintInv

\* Formatting in place prints nothing and leaves standard input alone.
LEMMA PrintNothing ==
  ASSUME PrintInv, Formats, Option("inplace"), UNCHANGED <<call, original, stdin, stdout>>
  PROVE  PrintInv'
BY Fixed DEF PrintInv, PrintedInOrder

\* What has no effect on standard input and output.
LEMMA PrintSame ==
  ASSUME PrintInv, UNCHANGED <<call, original, stdin, stdout, disk, files, at>>
  PROVE  PrintInv'
<1>1. \A k : Printed(k)' = Printed(k)
  BY Fixed, FixedFormattable DEF Printed, Text, Formattable, StyleFor, Option
<1>2. [k \in 1..(at' - 1) |-> Printed(k)'] = [k \in 1..(at - 1) |-> Printed(k)]
  BY <1>1
<1>3. /\ Formats' = Formats /\ Option("inplace")' = Option("inplace")
      /\ StyleFor(Stdin)' = StyleFor(Stdin)
  BY Fixed
<1>4. QED
  BY <1>2, <1>3 DEF PrintInv, PrintedInOrder

LEMMA PrintStep ==
  ASSUME Base, Base', PrintInv, [Next]_vars
  PROVE  PrintInv'
<1>1. Len(files) \in Nat /\ DOMAIN files = 1..Len(files) /\ at \in 1..(Len(files) + 1)
  BY LenProperties DEF Base, Types, TypeOK
<1>2. CASE ShowInformation \/ DumpConfig
  BY <1>2, Fixed DEF ShowInformation, DumpConfig, given, Formats, Option, PrintInv,
     PrintedInOrder
<1>3. CASE Start \/ EndFileList \/ EndFormatting \/ Crash \/ UNCHANGED vars
  BY <1>3, PrintSame DEF Start, EndFileList, EndFormatting, Crash, vars, given, lists
<1>4. CASE BuildFileList
  <2>1. /\ at = 1 /\ stdout = <<>> /\ stdin = original.stdin
        /\ UNCHANGED <<given, stdin, stdout, at>>
    BY <1>4 DEF BuildFileList, Base, Stages
  <2>2. FlattenSeq([k \in 1..(at' - 1) |-> Printed(k)']) = <<>>
    BY <2>1 DEF FlattenSeq
  <2>3. QED
    BY <2>1, <2>2 DEF PrintInv, PrintedInOrder, given
<1>5. CASE ListIgnoredFiles
  BY <1>5, Fixed DEF ListIgnoredFiles, PrintInv, PrintedInOrder, Base, Stages, given, Formats,
     Option
<1>6. CASE (SkipFile \/ FailFile \/ ReadFile \/ TruncateFile \/ WriteFile) /\ Option("inplace")
  <2>1. Formats
    BY <1>6 DEF SkipFile, FailFile, ReadFile, TruncateFile, WriteFile, Formatting, Base, Stages
  <2>2. UNCHANGED <<call, original, stdin, stdout>>
    BY <1>6 DEF SkipFile, FailFile, ReadFile, TruncateFile, WriteFile, given
  <2>3. QED
    BY <1>6, <2>1, <2>2, PrintNothing
<1>7. CASE (SkipFile \/ FailFile) /\ ~Option("inplace")
  <2>1. Printed(at) = <<>> /\ (files[at] = Stdin => StyleFor(Stdin) = Invalid)
    BY <1>7 DEF SkipFile, FailFile, Printed, Formattable
  <2>2. Formats
    BY <1>7 DEF SkipFile, FailFile, Formatting, Base, Stages
  <2>3. /\ Formats /\ pc = "formatting" /\ at \in DOMAIN files /\ at' = at + 1
        /\ UNCHANGED <<given, files, disk, stdin, stdout>>
    BY <1>1, <1>7 DEF SkipFile, FailFile, Formatting, Base, Stages
  <2>4. stdout' = stdout \o Printed(at)
    BY <2>1, <2>2, <2>3, ConcatEmptySeq DEF PrintInv
  <2>5. QED
    BY <1>7, <2>1, <2>3, <2>4, PrintNext DEF given
<1>8. CASE FormatStdin
  <2> DEFINE text == Reformat[<<stdin, StyleFor(Stdin)>>]
  <2>1. /\ Formats /\ pc = "formatting" /\ at \in DOMAIN files /\ at' = at + 1
        /\ files[at] = Stdin /\ StyleFor(Stdin) # Invalid /\ ~Option("inplace")
        /\ stdin' = Empty /\ stdout' = Append(stdout, text)
        /\ UNCHANGED <<given, files, disk>>
    BY <1>1, <1>8 DEF FormatStdin, Formatting, Base, Stages
  <2>2. Printed(at) = <<text>>
    BY <2>1 DEF Printed, PrintInv
  <2>3. stdout' = stdout \o Printed(at)
    <3>1. stdout \in Seq(Texts) /\ text \in Texts
      BY <2>1, ReformatType, ElementOfSeq DEF PrintInv, Base, Types, TypeOK
    <3>2. QED
      BY <2>1, <2>2, <3>1, AppendIsConcat
  <2>4. QED
    BY <2>1, <2>3, PrintNext DEF given
<1>9. CASE PrintFile
  <2> DEFINE text == Reformat[<<Text(files[at]), StyleFor(files[at])>>]
  <2>1. /\ Formats /\ pc = "formatting" /\ at \in DOMAIN files /\ at' = at + 1
        /\ Formattable(files[at]) /\ ~Option("inplace")
        /\ stdin' = stdin /\ stdout' = Append(stdout, text)
        /\ UNCHANGED <<given, files, disk>>
    BY <1>1, <1>9 DEF PrintFile, Formatting, Base, Stages
  <2>2. Printed(at) = <<text>> /\ files[at] # Stdin
    BY <2>1 DEF Printed, Formattable
  <2>3. stdout' = stdout \o Printed(at)
    <3>1. Printed(at) \in Seq(Texts)
      BY <2>1, PrintedType
    <3>2. text \in Texts
      BY <2>2, <3>1
    <3>3. QED
      BY <2>1, <2>2, <3>2, AppendIsConcat DEF PrintInv
  <2>4. QED
    BY <2>1, <2>2, <2>3, PrintNext DEF given
<1>10. CASE (ReadFile \/ TruncateFile \/ WriteFile) /\ ~Option("inplace")
  BY <1>10 DEF ReadFile, TruncateFile, WriteFile, Base, Stages
<1>11. QED
  BY <1>2, <1>3, <1>4, <1>5, <1>6, <1>7, <1>8, <1>9, <1>10 DEF Next, Step, Done

\* formatFiles: standard output holds the formatted texts in the order of the files.
THEOREM PrintedCorrect == Spec => []PrintedInOrder
<1>1. Init => PrintInv
  BY PrintInit, BaseInit
<1>2. Base /\ Base' /\ PrintInv /\ [Next]_vars => PrintInv'
  BY PrintStep
<1>3. PrintInv => PrintedInOrder
  BY DEF PrintInv
<1>4. QED
  BY <1>1, <1>2, <1>3, BaseInvariant, PTL DEF Spec

-----------------------------------------------------------------------------
(* The disk. *)

Contents == [DOMAIN disk -> Texts]

\* The recursion by which DiskAfter is defined has a solution.
DiskUnfolds ==
  /\ DiskAfter \in [0..Len(files) -> Contents]
  /\ DiskAfter[0] = original.disk
  /\ \A k \in 1..Len(files) : \A d : d = DiskAfter[k - 1] => DiskAfter[k] = WithFormatted(d, k)

\* A disk stays one when a file is formatted in place.
LEMMA WithFormattedType ==
  ASSUME Types, NEW k \in DOMAIN files, NEW d \in Contents
  PROVE  WithFormatted(d, k) \in Contents
<1> DEFINE file == files[k]
           path == Resolve(Absolute(file))
           new  == IF k \in damaged THEN Partial ELSE Reformat[<<d[path], StyleFor(file)>>]
<1>1. CASE Option("inplace") /\ Formattable(file) /\ path \notin ReadOnly
  <2>1. path \in DOMAIN disk /\ StyleFor(file) # Invalid /\ file \in Paths
    BY <1>1, ElementOfSeq, LenProperties DEF Formattable, OnDisk, Types
  <2>2. d[path] \in Texts
    BY <2>1 DEF Contents
  <2>3. new \in Texts
    BY <2>1, <2>2, ReformatType, TextsAssumption
  <2>4. WithFormatted(d, k) = [d EXCEPT ![path] = new]
    BY <1>1 DEF WithFormatted
  <2>5. QED
    BY <2>3, <2>4 DEF Contents
<1>2. CASE ~(Option("inplace") /\ Formattable(file) /\ path \notin ReadOnly)
  BY <1>2 DEF WithFormatted
<1>3. QED
  BY <1>1, <1>2

LEMMA DiskAfterDefined == Types => DiskUnfolds
<1> SUFFICES ASSUME Types PROVE DiskUnfolds
  OBVIOUS
<1> DEFINE n == Len(files)
           step == [pair \in (1..n) \X Contents |-> WithFormatted(pair[2], pair[1])]
           Rule(f) == [k \in 0..n |-> IF k = 0 THEN original.disk
                                      ELSE WithFormatted(f[k - 1], k)]
<1>1. n \in Nat /\ DOMAIN files = 1..n /\ original.disk \in Contents
  BY LenProperties DEF Types, Contents
<1>2. step \in [(1..n) \X Contents -> Contents]
  BY <1>1, WithFormattedType
<1>3. PICK g \in [0..n -> Contents] : Iterates(g, original.disk, step, n)
  <2> HIDE DEF step, n
  <2>1. QED
    BY <1>1, <1>2, Recursion
<1>4. ASSUME NEW k \in 1..n
      PROVE  g[k] = WithFormatted(g[k - 1], k)
  <2>1. k - 1 \in 0..n
    BY <1>1
  <2>2. g[k] = step[<<k, g[k - 1]>>] /\ g[k - 1] \in Contents
    BY <1>3, <2>1 DEF Iterates
  <2>3. QED
    BY <2>2
<1>5. g = Rule(g)
  <2>1. ASSUME NEW k \in 0..n
        PROVE  g[k] = IF k = 0 THEN original.disk ELSE WithFormatted(g[k - 1], k)
    BY <1>1, <1>3, <1>4 DEF Iterates
  <2>2. QED
    BY <2>1
<1>6. DiskAfter = Rule(DiskAfter)
  <2>1. \E f : f = Rule(f)
    BY <1>5
  <2>2. DiskAfter = CHOOSE f : f = Rule(f)
    BY DEF DiskAfter
  <2> HIDE DEF Rule
  <2>3. QED
    BY <2>1, <2>2
<1>7. \A k \in 0..n : DiskAfter[k] = IF k = 0 THEN original.disk
                                     ELSE WithFormatted(DiskAfter[k - 1], k)
  BY <1>6
<1>8. \A k \in 0..n : DiskAfter[k] \in Contents
  <2> DEFINE T == {k \in Nat : k <= n => DiskAfter[k] \in Contents}
  <2>1. 0 \in T
    BY <1>1, <1>7
  <2>2. ASSUME NEW k \in Nat, k \in T
        PROVE  k + 1 \in T
    <3>1. SUFFICES ASSUME k + 1 <= n PROVE DiskAfter[k + 1] \in Contents
      OBVIOUS
    <3>2. DiskAfter[k] \in Contents /\ k + 1 \in 1..n /\ k + 1 # 0 /\ (k + 1) - 1 = k
      BY <1>1, <2>2, <3>1
    <3>3. DiskAfter[k + 1] = WithFormatted(DiskAfter[k], k + 1)
      BY <1>7, <3>2
    <3>4. QED
      BY <1>1, <3>2, <3>3, WithFormattedType
  <2>3. Nat \subseteq T
    <3> HIDE DEF T
    <3>1. QED
      BY <2>1, <2>2, Induction
  <2>4. QED
    BY <1>1, <2>3
<1>9. DiskAfter \in [0..n -> Contents]
  <2>1. DiskAfter = [k \in 0..n |-> DiskAfter[k]]
    BY <1>6
  <2>2. QED
    BY <1>8, <2>1
<1>10. QED
  BY <1>1, <1>7, <1>9 DEF DiskUnfolds

\* The disk is the original one with the files up to the current one formatted; the
\* current one is empty while it is written.
DiskInv ==
  /\ pc \notin {"write", "crashed"} => disk = Formatted
  /\ pc = "truncate" => result = Reformat[<<disk[Target], StyleFor(files[at])>>]
  /\ pc = "write" =>
       /\ disk = [Formatted EXCEPT ![Target] = Empty]
       /\ result = Reformat[<<Formatted[Target], StyleFor(files[at])>>]
  /\ pc = "crashed" =>
       \/ disk = Formatted
       \/ at <= Len(files) /\ Target \in DOMAIN disk /\ disk = [Formatted EXCEPT ![Target] = Empty]

LEMMA DiskInvMeans == Base /\ DiskInv => DiskIsFormattedSoFar
<1> SUFFICES ASSUME Base, DiskInv PROVE DiskIsFormattedSoFar
  OBVIOUS
<1> DEFINE torn == {path \in DOMAIN disk : disk[path] # Formatted[path]}
<1>1. Formatted \in Contents
  <2>1. DiskUnfolds /\ Len(files) \in Nat /\ at - 1 \in 0..Len(files)
    BY DiskAfterDefined, LenProperties DEF Base, Types, TypeOK
  <2>2. QED
    BY <2>1 DEF DiskUnfolds, Formatted
<1>2. CASE disk = Formatted
  BY <1>2 DEF DiskIsFormattedSoFar, DiskInv
<1>3. CASE pc = "write"
  BY <1>3 DEF DiskIsFormattedSoFar, DiskInv
<1>4. CASE pc = "crashed" /\ disk # Formatted
  <2>1. at <= Len(files) /\ Target \in DOMAIN disk /\ disk = [Formatted EXCEPT ![Target] = Empty]
    BY <1>4 DEF DiskInv
  <2>2. \A path \in DOMAIN disk : path # Target => disk[path] = Formatted[path]
    BY <1>1, <2>1 DEF Contents
  <2>3. disk[Target] # Formatted[Target]
    BY <1>1, <1>4, <2>1 DEF Contents
  <2>4. torn = {Target}
    BY <2>1, <2>2, <2>3
  <2>5. QED
    BY <1>4, <2>1, <2>4 DEF DiskIsFormattedSoFar
<1>5. QED
  BY <1>2, <1>3, <1>4 DEF DiskInv

\* What was formatted before stays as it was.
LEMMA DiskStays ==
  ASSUME Types, Types', UNCHANGED <<call, original, files>>, DOMAIN disk' = DOMAIN disk,
         NEW n \in 0..Len(files), \A k \in 1..n : k \in damaged' <=> k \in damaged
  PROVE  \A k \in 0..n : DiskAfter'[k] = DiskAfter[k]
<1>1. DiskUnfolds /\ DiskUnfolds' /\ Len(files) \in Nat
  <2>1. DiskUnfolds
    BY DiskAfterDefined
  <2>2. DiskUnfolds'
    BY DiskAfterDefined, PTL
  <2>3. QED
    BY <2>1, <2>2, LenProperties DEF Types
<1>2. ASSUME NEW k \in 1..n, NEW d
      PROVE  WithFormatted(d, k)' = WithFormatted(d, k)
  <2>1. /\ Option("inplace")' = Option("inplace")
        /\ \A file : Formattable(file)' = Formattable(file) /\ StyleFor(file)' = StyleFor(file)
    BY Fixed, FixedFormattable
  <2>2. Resolve(Absolute(files'[k])) = Resolve(Absolute(files[k]))
    OBVIOUS
  <2>3. QED
    BY <2>1, <2>2 DEF WithFormatted
<1> DEFINE T == {k \in Nat : k <= n => DiskAfter'[k] = DiskAfter[k]}
<1>3. 0 \in T
  BY <1>1 DEF DiskUnfolds
<1>4. ASSUME NEW k \in Nat, k \in T
      PROVE  k + 1 \in T
  <2>1. SUFFICES ASSUME k + 1 <= n PROVE DiskAfter'[k + 1] = DiskAfter[k + 1]
    OBVIOUS
  <2>2. k + 1 \in 1..n /\ (k + 1) - 1 = k /\ DiskAfter'[k] = DiskAfter[k]
    BY <1>1, <1>4, <2>1
  <2>3. k + 1 \in 1..Len(files) /\ k + 1 \in 1..Len(files')
    BY <1>1, <2>2
  <2>4. DiskAfter[k + 1] = WithFormatted(DiskAfter[k], k + 1)
    BY <1>1, <2>2, <2>3 DEF DiskUnfolds
  <2>5. DiskAfter'[k + 1] = WithFormatted(DiskAfter[k], k + 1)
    <3>1. \A e : e = DiskAfter'[k] => DiskAfter'[k + 1] = WithFormatted(e, k + 1)'
      BY <1>1, <2>2, <2>3 DEF DiskUnfolds
    <3>2. \A e : WithFormatted(e, k + 1)' = WithFormatted(e, k + 1)
      BY <1>2, <2>2
    <3>3. QED
      BY <2>2, <3>1, <3>2
  <2>6. QED
    BY <2>4, <2>5
<1>5. Nat \subseteq T
  <2> HIDE DEF T
  <2>1. QED
    BY <1>3, <1>4, Induction
<1>6. QED
  BY <1>1, <1>5

\* Before the first file, and when nothing is formatted.
DiskUntouched == at = 1 \/ ~Formats => Formatted = original.disk

LEMMA DiskBefore == Base => DiskUntouched
<1> SUFFICES ASSUME Base PROVE DiskUntouched
  OBVIOUS
<1>1. DiskAfter[0] = original.disk
  BY DiskAfterDefined DEF Base, DiskUnfolds
<1>2. QED
  BY <1>1 DEF DiskUntouched, Formatted

LEMMA DiskSame ==
  ASSUME Base, Base', UNCHANGED <<call, original, files, at, damaged>>,
         DOMAIN disk' = DOMAIN disk
  PROVE  Formatted' = Formatted
<1>1. Len(files) \in Nat /\ at - 1 \in 0..Len(files)
  BY LenProperties DEF Base, Types, TypeOK
<1>2. \A k \in 0..(at - 1) : DiskAfter'[k] = DiskAfter[k]
  BY <1>1, DiskStays DEF Base
<1>3. Formats' = Formats
  BY Fixed
<1>4. QED
  BY <1>1, <1>2, <1>3 DEF Formatted

\* A step to the next file does to the disk what formatting the current one does.
LEMMA DiskNext ==
  ASSUME Base, Base', Formats, at \in DOMAIN files, at' = at + 1,
         UNCHANGED <<call, original, files>>, DOMAIN disk' = DOMAIN disk,
         damaged' \in {damaged, damaged \cup {at}},
         disk' = IF Option("inplace") /\ Formattable(files[at]) /\ Target \notin ReadOnly
                 THEN [Formatted EXCEPT ![Target] =
                         IF at \in damaged' THEN Partial
                         ELSE Reformat[<<Formatted[Target], StyleFor(files[at])>>]]
                 ELSE Formatted
  PROVE  disk' = Formatted'
<1>1. Len(files) \in Nat /\ at - 1 \in 0..Len(files) /\ at \in 1..Len(files)
  BY LenProperties DEF Base, Types, TypeOK
<1>2. DiskAfter'[at - 1] = DiskAfter[at - 1]
  <2>1. \A k \in 1..(at - 1) : k \in damaged' <=> k \in damaged
    BY <1>1
  <2>2. \A k \in 0..(at - 1) : DiskAfter'[k] = DiskAfter[k]
    BY <1>1, <2>1, DiskStays DEF Base
  <2>3. QED
    BY <1>1, <2>2
<1>3. Formatted = DiskAfter[at - 1]
  BY DEF Formatted
<1>4. Formatted' = DiskAfter'[at]
  BY <1>1, Fixed DEF Formatted
<1>5. DiskUnfolds'
  <2>1. Types'
    BY DEF Base
  <2>2. QED
    BY <2>1, DiskAfterDefined, PTL
<1>6. ASSUME NEW d, d = Formatted
      PROVE  DiskAfter'[at] = disk'
  <2>1. \A k \in 1..Len(files') : \A e :
          e = DiskAfter'[k - 1] => DiskAfter'[k] = WithFormatted(e, k)'
    BY <1>5 DEF DiskUnfolds
  <2>2. PICK k \in 1..Len(files') : k = at
    BY <1>1
  <2>3. DiskAfter'[k] = WithFormatted(d, k)'
    BY <1>2, <1>3, <1>6, <2>1, <2>2
  <2>4. /\ Option("inplace")' = Option("inplace")
        /\ \A file : Formattable(file)' = Formattable(file) /\ StyleFor(file)' = StyleFor(file)
    BY Fixed, FixedFormattable
  <2>5. WithFormatted(d, k)' = disk'
    BY <1>6, <2>2, <2>4 DEF WithFormatted, Target
  <2>6. QED
    BY <2>2, <2>3, <2>5
<1>7. QED
  BY <1>4, <1>6

LEMMA DiskInit == Init /\ Base => DiskInv
BY DiskBefore DEF Init, DiskUntouched, DiskInv

LEMMA DiskStep ==
  ASSUME Base, Base', DiskInv, [Next]_vars
  PROVE  DiskInv'
<1>1. Len(files) \in Nat /\ DOMAIN files = 1..Len(files) /\ at \in 1..(Len(files) + 1)
  BY LenProperties DEF Base, Types, TypeOK
<1>2. Formatted \in Contents
  <2>1. DiskUnfolds /\ at - 1 \in 0..Len(files)
    BY <1>1, DiskAfterDefined DEF Base
  <2>2. QED
    BY <1>1, <2>1 DEF DiskUnfolds, Formatted
<1>3. CASE ShowInformation \/ DumpConfig \/ Start \/ EndFileList \/ EndFormatting
  <2>1. /\ UNCHANGED <<given, disk, files, at, damaged>>
        /\ pc \in {"start", "lists", "formatting"}
        /\ pc' \notin {"truncate", "write", "crashed"}
    BY <1>3 DEF ShowInformation, DumpConfig, Start, EndFileList, EndFormatting, Exit, lists
  <2>2. Formatted' = Formatted
    BY <2>1, DiskSame DEF given
  <2>3. QED
    BY <2>1, <2>2 DEF DiskInv
<1>4. CASE BuildFileList
  <2>1. /\ at' = 1 /\ disk' = original.disk /\ original' = original
        /\ pc' \notin {"truncate", "write", "crashed"}
    BY <1>4 DEF BuildFileList, Exit, Base, Stages, given
  <2>2. DiskUntouched'
    BY DiskBefore, PTL
  <2>3. QED
    BY <2>1, <2>2 DEF DiskUntouched, DiskInv
<1>5. CASE ListIgnoredFiles
  <2>1. /\ ~Formats' /\ disk' = disk /\ original' = original /\ ~Formats
        /\ pc = "listing" /\ pc' \in {"listing", "success"}
    BY <1>5 DEF ListIgnoredFiles, Exit, Base, Stages, given, Formats, Option
  <2>2. DiskUntouched /\ DiskUntouched'
    <3>1. DiskUntouched
      BY DiskBefore
    <3>2. DiskUntouched'
      BY DiskBefore, PTL
    <3>3. QED
      BY <3>1, <3>2
  <2>3. QED
    BY <2>1, <2>2 DEF DiskUntouched, DiskInv
<1>6. CASE SkipFile \/ FailFile \/ FormatStdin \/ PrintFile
  <2>1. /\ Formats /\ pc = "formatting" /\ at \in DOMAIN files /\ at' = at + 1 /\ pc' = pc
        /\ UNCHANGED <<given, files, disk, damaged>>
    BY <1>1, <1>6 DEF SkipFile, FailFile, FormatStdin, PrintFile, Formatting, Base, Stages
  <2>2. ~(Option("inplace") /\ Formattable(files[at]))
    BY <1>6 DEF SkipFile, FailFile, FormatStdin, PrintFile, Formattable
  <2>3. disk' = Formatted'
    BY <2>1, <2>2, DiskNext DEF DiskInv, given
  <2>4. QED
    BY <2>1, <2>3 DEF DiskInv
<1>7. CASE ReadFile
  <2> DEFINE formatted == Reformat[<<Text(files[at]), StyleFor(files[at])>>]
  <2>1. /\ Formats /\ pc = "formatting" /\ at \in DOMAIN files
        /\ Formattable(files[at]) /\ Option("inplace")
        /\ UNCHANGED <<given, files, disk, damaged>> /\ disk = Formatted
        /\ Text(files[at]) = disk[Target]
        /\ Target \in DOMAIN disk
    BY <1>1, <1>7 DEF ReadFile, Formatting, Base, Stages, DiskInv, Text, Target, Formattable,
       OnDisk
  <2>2. CASE formatted = Text(files[at])
    <3>1. at' = at + 1 /\ pc' = pc
      BY <1>7, <2>2 DEF ReadFile
    <3>2. at \notin damaged
      BY <1>1 DEF Base, Types
    <3>3. disk = [disk EXCEPT ![Target] = formatted]
      BY <1>2, <2>1, <2>2 DEF Contents
    <3>4. disk' = Formatted'
      BY <2>1, <2>2, <3>1, <3>2, <3>3, DiskNext DEF given
    <3>5. QED
      BY <2>1, <3>1, <3>4 DEF DiskInv
  <2>3. CASE formatted # Text(files[at])
    <3>1. result' = formatted /\ pc' = "truncate" /\ at' = at
      BY <1>7, <2>3 DEF ReadFile
    <3>2. Formatted' = Formatted
      BY <2>1, <3>1, DiskSame DEF given
    <3>3. Target' = Target /\ (StyleFor(files[at]))' = StyleFor(files[at])
      BY <2>1, <3>1 DEF Target, StyleFor, Option, given
    <3>4. QED
      BY <2>1, <3>1, <3>2, <3>3 DEF DiskInv
  <2>4. QED
    BY <2>2, <2>3
<1>8. CASE TruncateFile
  <2>1. /\ Formats /\ pc = "truncate" /\ at \in DOMAIN files
        /\ UNCHANGED <<given, files, result, damaged>> /\ disk = Formatted
        /\ result = Reformat[<<disk[Target], StyleFor(files[at])>>]
    BY <1>8 DEF TruncateFile, Base, Stages, DiskInv
  <2>2. CASE Target \in ReadOnly
    <3>1. at' = at + 1 /\ pc' = "formatting" /\ disk' = disk
      BY <1>8, <2>2 DEF TruncateFile
    <3>2. disk' = Formatted'
      BY <2>1, <2>2, <3>1, DiskNext DEF given
    <3>3. QED
      BY <3>1, <3>2 DEF DiskInv
  <2>3. CASE Target \notin ReadOnly
    <3>1. disk' = [disk EXCEPT ![Target] = Empty] /\ pc' = "write" /\ at' = at
      BY <1>8, <2>3 DEF TruncateFile
    <3>2. DOMAIN disk' = DOMAIN disk
      BY <1>2, <2>1, <3>1 DEF Contents
    <3>3. Formatted' = Formatted
      BY <2>1, <3>1, <3>2, DiskSame DEF given
    <3>4. Target' = Target /\ (StyleFor(files[at]))' = StyleFor(files[at])
      BY <2>1, <3>1 DEF Target, StyleFor, Option, given
    <3>5. QED
      BY <2>1, <3>1, <3>3, <3>4 DEF DiskInv
  <2>4. QED
    BY <2>2, <2>3
<1>9. CASE WriteFile
  <2>1. /\ Formats /\ pc = "write" /\ at \in DOMAIN files /\ at' = at + 1 /\ pc' = "formatting"
        /\ Formattable(files[at]) /\ Option("inplace") /\ Target \notin ReadOnly
        /\ UNCHANGED <<given, files>>
        /\ disk = [Formatted EXCEPT ![Target] = Empty]
        /\ result = Reformat[<<Formatted[Target], StyleFor(files[at])>>]
    BY <1>9 DEF WriteFile, Base, Stages, DiskInv
  <2>2. at \notin damaged
    BY <1>1 DEF Base, Types
  <2>3. \/ disk' = [disk EXCEPT ![Target] = result] /\ damaged' = damaged
        \/ disk' = [disk EXCEPT ![Target] = Partial] /\ damaged' = damaged \cup {at}
    BY <1>9 DEF WriteFile
  <2>4. /\ DOMAIN disk' = DOMAIN disk
        /\ disk' = [Formatted EXCEPT ![Target] =
                      IF at \in damaged' THEN Partial
                      ELSE Reformat[<<Formatted[Target], StyleFor(files[at])>>]]
    BY <1>2, <2>1, <2>2, <2>3 DEF Contents
  <2>5. disk' = Formatted'
    BY <2>1, <2>3, <2>4, DiskNext DEF given
  <2>6. QED
    BY <2>1, <2>5 DEF DiskInv
<1>10. CASE Crash
  <2>1. /\ UNCHANGED <<given, disk, files, at, damaged>> /\ pc' = "crashed"
        /\ pc \in Running
    BY <1>10 DEF Crash, Exit, lists
  <2>2. Formatted' = Formatted /\ Target' = Target
    BY <2>1, DiskSame DEF given, Target
  <2>3. pc = "write" => at \in DOMAIN files /\ Target \in DOMAIN disk
    BY DEF Base, Stages, Formattable, OnDisk, Target
  <2>4. QED
    BY <1>1, <2>1, <2>2, <2>3 DEF DiskInv, Running
<1>11. CASE UNCHANGED vars
  <2>1. Formatted' = Formatted
    BY <1>11, DiskSame DEF vars, given, lists
  <2>2. Target' = Target /\ (StyleFor(files[at]))' = StyleFor(files[at])
    BY <1>11 DEF vars, given, lists, Target, StyleFor, Option
  <2>3. QED
    BY <1>11, <2>1, <2>2 DEF DiskInv, vars, given, lists
<1>12. QED
  BY <1>3, <1>4, <1>5, <1>6, <1>7, <1>8, <1>9, <1>10, <1>11 DEF Next, Step, Done

\* formatFiles, writeFile: at any time the disk is the original one with the files
\* up to the current one formatted, and a crash damages at most that one.
THEOREM DiskCorrect == Spec => []DiskIsFormattedSoFar
<1>1. Init => DiskInv
  BY DiskInit, BaseInit
<1>2. Base /\ Base' /\ DiskInv /\ [Next]_vars => DiskInv'
  BY DiskStep
<1>3. Base /\ DiskInv => DiskIsFormattedSoFar
  BY DiskInvMeans
<1>4. QED
  BY <1>1, <1>2, <1>3, BaseInvariant, PTL DEF Spec

-----------------------------------------------------------------------------
(* Configuration. *)

\* A path without "..".
Plain(path) == \A i \in DOMAIN path : path[i] # ".."

\* No path that the tool is given, or that a file list names, has "..".
PlainNames ==
  /\ Plain(CurrentPath)
  /\ \A invocation \in Invocations :
       /\ \A k \in DOMAIN invocation.positional : Plain(invocation.positional[k].name)
       /\ \A k \in DOMAIN invocation.fileLists : Plain(invocation.fileLists[k])
  /\ \A name \in DOMAIN Lists : \A k \in DOMAIN Lists[name] : Plain(Lists[name][k])

\* The operating system takes such a path as it is written.
LEMMA PlainResolves ==
  ASSUME NEW path \in Paths, Plain(path)
  PROVE  Resolve(path) = path
<1> DEFINE n == Len(path)
           Rule(f) == [k \in 0..n |-> IF k = 0 THEN <<>>
                         ELSE IF path[k] = ".." THEN ParentPath(f[k - 1])
                         ELSE Append(f[k - 1], path[k])]
           prefixes == [k \in 0..n |-> SubSeq(path, 1, k)]
<1>1. n \in Nat /\ DOMAIN path = 1..n /\ path \in Seq(STRING)
  BY LenProperties DEF Paths
<1>2. ASSUME NEW k \in 1..n
      PROVE  SubSeq(path, 1, k) = Append(SubSeq(path, 1, k - 1), path[k])
  <2>1. /\ SubSeq(path, 1, k) = SubSeq(path, 1, k - 1) \o <<path[k]>>
        /\ path[k] \in STRING
    <3>1. 1 \in 1..n /\ k \in 1..n /\ path[k] \in STRING
      BY <1>1, ElementOfSeq
    <3>2. QED
      BY <1>1, <3>1, SubSeqRecursiveSecond
  <2>2. SubSeq(path, 1, k - 1) \in Seq(STRING)
    <3>1. \A i \in 1..(k - 1) : path[i] \in STRING
      BY <1>1, ElementOfSeq
    <3>2. QED
      BY <1>1, <3>1, SubSeqProperties
  <2>3. QED
    BY <2>1, <2>2, AppendIsConcat
<1>3. prefixes = Rule(prefixes)
  <2>1. ASSUME NEW k \in 0..n
        PROVE  prefixes[k] = IF k = 0 THEN <<>>
                             ELSE IF path[k] = ".." THEN ParentPath(prefixes[k - 1])
                             ELSE Append(prefixes[k - 1], path[k])
    <3>1. CASE k = 0
      <4>1. SubSeq(path, 1, 0) = <<>>
        BY SubSeqEmpty
      <4>2. QED
        BY <3>1, <4>1
    <3>2. CASE k # 0
      <4>1. k \in 1..n /\ k - 1 \in 0..n /\ path[k] # ".."
        BY <1>1, <3>2 DEF Plain
      <4>2. prefixes[k] = SubSeq(path, 1, k) /\ prefixes[k - 1] = SubSeq(path, 1, k - 1)
        BY <4>1
      <4>3. QED
        BY <1>2, <3>2, <4>1, <4>2
    <3>3. QED
      BY <3>1, <3>2
  <2>2. QED
    BY <2>1
<1> DEFINE f == CHOOSE x : x = Rule(x)
<1>4. f = Rule(f)
  <2>1. \E x : x = Rule(x)
    BY <1>3
  <2> HIDE DEF Rule
  <2>2. QED
    BY <2>1
<1>5. Resolve(path) = f[n]
  BY DEF Resolve
<1> HIDE DEF f
<1> DEFINE T == {k \in Nat : k <= n => f[k] = SubSeq(path, 1, k)}
<1>6. 0 \in T
  <2>1. SubSeq(path, 1, 0) = <<>> /\ f[0] = <<>>
    BY <1>1, <1>4, SubSeqEmpty
  <2>2. QED
    BY <2>1
<1>7. ASSUME NEW k \in Nat, k \in T
      PROVE  k + 1 \in T
  <2>1. SUFFICES ASSUME k + 1 <= n PROVE f[k + 1] = SubSeq(path, 1, k + 1)
    OBVIOUS
  <2>2. /\ k + 1 \in 1..n /\ k + 1 \in 0..n /\ (k + 1) - 1 = k /\ k + 1 # 0
        /\ path[k + 1] # ".." /\ f[k] = SubSeq(path, 1, k)
    BY <1>1, <1>7, <2>1 DEF Plain
  <2>3. f[k + 1] = Append(f[k], path[k + 1])
    BY <1>4, <2>2
  <2>4. SubSeq(path, 1, k + 1) = Append(SubSeq(path, 1, k), path[k + 1])
    BY <1>2, <2>2
  <2>5. QED
    BY <2>2, <2>3, <2>4
<1>8. Nat \subseteq T
  <2> HIDE DEF T
  <2>1. QED
    BY <1>6, <1>7, Induction
<1>9. f[n] = SubSeq(path, 1, n)
  BY <1>1, <1>8
<1>10. QED
  BY <1>1, <1>5, <1>9, SubSeqFull

\* The parts of plain paths are plain.
LEMMA PlainParts ==
  ASSUME NEW path \in Paths, Plain(path)
  PROVE  /\ Plain(ParentPath(path))
         /\ \A n \in 0..Len(path) : SubSeq(path, 1, n) \in Paths /\ Plain(SubSeq(path, 1, n))
<1>1. Len(path) \in Nat /\ DOMAIN path = 1..Len(path) /\ path \in Seq(STRING)
  BY LenProperties DEF Paths
<1>2. ASSUME NEW n \in 0..Len(path)
      PROVE  SubSeq(path, 1, n) \in Paths /\ Plain(SubSeq(path, 1, n))
  <2>1. \A i \in 1..n : path[i] \in STRING
    BY <1>1, ElementOfSeq
  <2>2. /\ SubSeq(path, 1, n) \in Seq(STRING)
        /\ Len(SubSeq(path, 1, n)) = n
        /\ \A i \in 1..n : SubSeq(path, 1, n)[i] = path[i]
    BY <1>1, <2>1, SubSeqProperties
  <2>3. DOMAIN SubSeq(path, 1, n) = 1..n
    BY <2>2, LenProperties
  <2>4. QED
    BY <1>1, <2>2, <2>3 DEF Paths, Plain
<1>3. Plain(ParentPath(path))
  <2>1. CASE path = <<>>
    BY <2>1 DEF ParentPath
  <2>2. CASE path # <<>>
    <3>1. Len(path) - 1 \in 0..Len(path)
      BY <1>1, <2>2
    <3>2. QED
      BY <1>2, <2>2, <3>1 DEF ParentPath, Front
  <2>3. QED
    BY <2>1, <2>2
<1>4. QED
  BY <1>2, <1>3

LEMMA PlainAbsolute ==
  ASSUME PlainNames, NEW file \in Paths, Plain(file)
  PROVE  Plain(Absolute(file))
<1>1. /\ CurrentPath \in Seq(STRING) /\ file \in Seq(STRING)
      /\ Len(CurrentPath) \in Nat /\ Len(file) \in Nat
      /\ DOMAIN CurrentPath = 1..Len(CurrentPath) /\ DOMAIN file = 1..Len(file)
  BY CurrentPathAssumption, LenProperties DEF Paths
<1>2. /\ Absolute(file) \in Seq(STRING)
      /\ Len(Absolute(file)) = Len(CurrentPath) + Len(file)
      /\ \A i \in 1..(Len(CurrentPath) + Len(file)) :
           Absolute(file)[i] = IF i <= Len(CurrentPath) THEN CurrentPath[i]
                               ELSE file[i - Len(CurrentPath)]
  BY <1>1, ConcatProperties DEF Absolute
<1>3. DOMAIN Absolute(file) = 1..(Len(CurrentPath) + Len(file))
  BY <1>2, LenProperties
<1>4. ASSUME NEW i \in 1..(Len(CurrentPath) + Len(file))
      PROVE  Absolute(file)[i] # ".."
  <2>1. CASE i <= Len(CurrentPath)
    BY <1>1, <1>2, <2>1 DEF Plain, PlainNames
  <2>2. CASE ~(i <= Len(CurrentPath))
    <3>1. i - Len(CurrentPath) \in 1..Len(file)
      BY <1>1, <2>2
    <3>2. QED
      BY <1>1, <1>2, <2>2, <3>1 DEF Plain
  <2>3. QED
    BY <2>1, <2>2
<1>5. QED
  BY <1>3, <1>4 DEF Plain

\* loadConfig: for plain paths the preferred file is that of the nearest directory.
LEMMA NearestFound ==
  ASSUME PlainNames, NEW file \in Paths, Plain(file), file # Stdin, ~Option("noConfig")
  PROVE  StyleFor(file) = NearestStyle(file)
<1> DEFINE dir == ParentPath(Absolute(file))
           Named(n) == {name \in CandidateNames : <<SubSeq(dir, 1, n), name>> \in DOMAIN Configs}
           levels == {n \in 0..Len(dir) : Named(n) # {}}
           level == CHOOSE n \in levels : \A m \in levels : m <= n
           name == CHOOSE k \in Named(level) : \A j \in Named(level) : k <= j
<1>1. Absolute(file) \in Paths /\ dir \in Paths /\ Plain(Absolute(file)) /\ Plain(dir)
  <2>1. Absolute(file) \in Paths /\ dir \in Paths
    BY PathTypes
  <2>2. Plain(Absolute(file))
    BY PlainAbsolute
  <2>3. QED
    BY <2>1, <2>2, PlainParts
<1>2. ParentPath(Resolve(Absolute(file))) = dir
  BY <1>1, PlainResolves
<1>3. NearestStyle(file) =
        IF levels = {} THEN DefaultStyle ELSE Configs[<<SubSeq(dir, 1, level), name>>]
  BY <1>2 DEF NearestStyle
<1>4. StyleFor(file) = LoadConfig(dir)
  BY DEF StyleFor
<1> HIDE DEF dir
<1>5. \A n \in 0..Len(dir) : Resolve(SubSeq(dir, 1, n)) = SubSeq(dir, 1, n)
  BY <1>1, PlainParts, PlainResolves
<1>6. Len(dir) \in Nat /\ CandidateNames = {1, 2}
  BY <1>1 DEF Paths, CandidateNames
<1>7. ASSUME NEW n \in 0..Len(dir), NEW k \in CandidateNames
      PROVE  k \in Named(n) <=> <<n, k>> \in Hits(dir)
  BY <1>5, <1>7 DEF Hits
<1>8. \A h \in Hits(dir) : h[1] \in 0..Len(dir) /\ h[2] \in CandidateNames /\ h = <<h[1], h[2]>>
  BY DEF Hits
<1>9. CASE Hits(dir) = {} /\ LoadConfig(dir) = DefaultStyle
  <2>1. levels = {}
    BY <1>7, <1>9
  <2>2. QED
    BY <1>3, <1>4, <1>9, <2>1
<1>10. ASSUME NEW h \in Hits(dir), Preferred(h, dir),
              LoadConfig(dir) = Configs[<<Resolve(SubSeq(dir, 1, h[1])), h[2]>>]
       PROVE  StyleFor(file) = NearestStyle(file)
  <2>1. h[1] \in levels /\ h[2] \in Named(h[1])
    BY <1>7, <1>8
  <2>2. ASSUME NEW m \in levels
        PROVE  m <= h[1]
    <3>1. PICK k \in Named(m) : <<m, k>> \in Hits(dir)
      BY <1>7
    <3>2. h[1] > m \/ h[1] = m
      BY <1>10, <3>1 DEF Preferred
    <3>3. QED
      BY <1>8, <3>2
  <2>3. ASSUME NEW j \in Named(h[1])
        PROVE  h[2] <= j
    <3>1. <<h[1], j>> \in Hits(dir)
      BY <1>7, <1>8
    <3>2. h[1] > h[1] \/ h[2] <= j
      BY <1>10, <3>1 DEF Preferred
    <3>3. QED
      BY <1>8, <3>2
  <2>4. level = h[1]
    <3>1. levels \subseteq Nat
      BY <1>6
    <3> HIDE DEF levels
    <3>2. level \in levels /\ \A m \in levels : m <= level
      BY <2>1, <2>2
    <3>3. level <= h[1] /\ h[1] <= level /\ level \in Nat /\ h[1] \in Nat
      BY <2>1, <2>2, <3>1, <3>2
    <3>4. QED
      BY <3>3
  <2>5. name = h[2]
    <3>1. Named(level) = Named(h[1])
      BY <2>4
    <3>2. Named(h[1]) \subseteq Nat
      BY <1>6
    <3> HIDE DEF Named, level
    <3>3. name \in Named(level) /\ \A j \in Named(level) : name <= j
      BY <2>1, <2>3, <3>1
    <3>4. name <= h[2] /\ h[2] <= name /\ name \in Nat /\ h[2] \in Nat
      BY <2>1, <2>3, <3>1, <3>2, <3>3
    <3>5. QED
      BY <3>4
  <2>6. Resolve(SubSeq(dir, 1, h[1])) = SubSeq(dir, 1, h[1])
    BY <1>5, <1>8
  <2>7. QED
    <3> HIDE DEF levels, level, name
    <3>1. QED
      BY <1>3, <1>4, <1>10, <2>1, <2>4, <2>5, <2>6
<1>11. QED
  BY <1>1, <1>9, <1>10, LoadConfigFinds

\* The files and the arguments still to be taken up have plain names.
PlainSoFar ==
  /\ \A k \in DOMAIN pending : Plain(pending[k].name)
  /\ \A k \in DOMAIN files : Plain(files[k])

LEMMA PlainInit ==
  ASSUME PlainNames, Init
  PROVE  PlainSoFar
<1> DEFINE named == call.positional
           listed == [k \in DOMAIN call.fileLists |-> AsList(call.fileLists[k])]
<1>1. call \in Invocations
      /\ call \in [options : SUBSET Options, positional : Seq(Arguments), fileLists : Seq(Paths)]
  BY InvocationsAssumption DEF Init
<1>2. /\ named \in Seq(Arguments) /\ Len(named) \in Nat /\ DOMAIN named = 1..Len(named)
      /\ call.fileLists \in Seq(Paths) /\ Len(call.fileLists) \in Nat
      /\ DOMAIN call.fileLists = 1..Len(call.fileLists)
  BY <1>1, LenProperties
<1>3. /\ listed \in Seq(Arguments) /\ Len(listed) = Len(call.fileLists)
      /\ \A k \in 1..Len(call.fileLists) : listed[k].name = call.fileLists[k]
  <2>1. \A k \in 1..Len(call.fileLists) : AsList(call.fileLists[k]) \in Arguments
    BY <1>2, ElementOfSeq DEF AsList, Arguments
  <2>2. \A k \in 1..Len(call.fileLists) : AsList(call.fileLists[k]).name = call.fileLists[k]
    BY DEF AsList
  <2>3. QED
    BY <1>2, <2>1, <2>2
<1>4. /\ \A k \in 1..Len(named) : Plain(named[k].name)
      /\ \A k \in 1..Len(listed) : Plain(listed[k].name)
  <2>1. /\ \A k \in DOMAIN call.positional : Plain(call.positional[k].name)
        /\ \A k \in DOMAIN call.fileLists : Plain(call.fileLists[k])
    BY <1>1 DEF PlainNames
  <2> HIDE DEF listed
  <2>2. QED
    BY <1>2, <1>3, <2>1
<1> HIDE DEF named, listed
<1>5. /\ pending = named \o listed
      /\ Len(pending) = Len(named) + Len(listed)
      /\ \A i \in 1..Len(named) + Len(listed) :
           pending[i] = IF i <= Len(named) THEN named[i] ELSE listed[i - Len(named)]
      /\ DOMAIN pending = 1..Len(pending)
  <2>1. pending = named \o listed
    BY DEF Init, named, listed
  <2>2. /\ named \o listed \in Seq(Arguments)
        /\ Len(named \o listed) = Len(named) + Len(listed)
        /\ \A i \in 1..Len(named) + Len(listed) :
             (named \o listed)[i] = IF i <= Len(named) THEN named[i] ELSE listed[i - Len(named)]
    BY <1>2, <1>3, ConcatProperties
  <2>3. QED
    BY <2>1, <2>2, LenProperties
<1>6. ASSUME NEW i \in DOMAIN pending
      PROVE  Plain(pending[i].name)
  <2>1. CASE i <= Len(named)
    BY <1>2, <1>3, <1>4, <1>5, <2>1
  <2>2. CASE ~(i <= Len(named))
    <3>1. i - Len(named) \in 1..Len(listed)
      BY <1>2, <1>3, <1>5, <2>2
    <3>2. pending[i] = listed[i - Len(named)]
      BY <1>2, <1>3, <1>5, <2>2
    <3>3. QED
      BY <1>4, <3>1, <3>2
  <2>3. QED
    BY <2>1, <2>2
<1>7. QED
  BY <1>6 DEF PlainSoFar, Init

LEMMA PlainStep ==
  ASSUME PlainNames, Base, PlainSoFar, [Next]_vars
  PROVE  PlainSoFar'
<1>1. CASE BuildFileList /\ ~Unread(Head(pending))
  <2> DEFINE arg == Head(pending)
             named == IF arg.list THEN Lists[arg.name] ELSE <<arg.name>>
  <2>1. /\ pending \in Seq(Arguments) /\ pending # <<>>
        /\ DOMAIN pending = 1..Len(pending) /\ Len(pending) \in Nat \ {0}
        /\ files \in Seq(Paths) /\ Len(files) \in Nat /\ DOMAIN files = 1..Len(files)
    BY <1>1, LenProperties, EmptySeq DEF BuildFileList, Base, Types
  <2>2. /\ arg = pending[1] /\ arg \in Arguments
        /\ Tail(pending) \in Seq(Arguments) /\ Len(Tail(pending)) = Len(pending) - 1
        /\ \A i \in 1..Len(Tail(pending)) : Tail(pending)[i] = pending[i + 1]
        /\ DOMAIN Tail(pending) = 1..Len(Tail(pending))
    BY <2>1, HeadTailProperties, LenProperties
  <2>3. named \in Seq(Paths) /\ \A k \in DOMAIN named : Plain(named[k])
    <3>1. CASE arg.list
      BY <1>1, <3>1, ListsAssumption DEF Unread, PlainNames
    <3>2. CASE ~arg.list
      BY <2>1, <2>2, <3>2 DEF Arguments, PlainSoFar
    <3>3. QED
      BY <3>1, <3>2
  <2>4. pending' = Tail(pending) /\ files' = files \o named
    BY <1>1 DEF BuildFileList, Unread
  <2>5. \A k \in DOMAIN pending' : Plain(pending'[k].name)
    <3>1. \A k \in DOMAIN pending' : k + 1 \in DOMAIN pending /\ pending'[k] = pending[k + 1]
      BY <2>1, <2>2, <2>4
    <3>2. QED
      BY <3>1 DEF PlainSoFar
  <2>6. ASSUME NEW k \in DOMAIN files'
        PROVE  Plain(files'[k])
    <3> HIDE DEF named
    <3>1. /\ Len(named) \in Nat /\ DOMAIN named = 1..Len(named)
          /\ Len(files') = Len(files) + Len(named)
          /\ DOMAIN files' = 1..Len(files')
          /\ files'[k] = IF k <= Len(files) THEN files[k] ELSE named[k - Len(files)]
      <4>1. files' \in Seq(Paths)
        BY <2>1, <2>3, <2>4, ConcatProperties
      <4>2. /\ Len(files') = Len(files) + Len(named) /\ DOMAIN files' = 1..Len(files')
            /\ Len(named) \in Nat /\ DOMAIN named = 1..Len(named)
        BY <2>1, <2>3, <2>4, <4>1, ConcatProperties, LenProperties
      <4>3. QED
        BY <2>1, <2>3, <2>4, <4>2, ConcatProperties
    <3>2. CASE k <= Len(files)
      BY <2>1, <3>1, <3>2 DEF PlainSoFar
    <3>3. CASE ~(k <= Len(files))
      <4>1. k - Len(files) \in DOMAIN named
        BY <2>1, <3>1, <3>3
      <4>2. QED
        BY <2>3, <3>1, <3>3, <4>1
    <3>4. QED
      BY <3>2, <3>3
  <2>7. QED
    BY <2>5, <2>6 DEF PlainSoFar
<1>2. CASE ~(BuildFileList /\ ~Unread(Head(pending)))
  <2>1. UNCHANGED lists
    BY <1>2 DEF Next, Step, Done, ShowInformation, DumpConfig, Start, BuildFileList,
       EndFileList, ListIgnoredFiles, SkipFile, FailFile, FormatStdin, PrintFile, ReadFile,
       TruncateFile, WriteFile, EndFormatting, Crash, vars, lists, Unread
  <2>2. QED
    BY <2>1 DEF lists, PlainSoFar
<1>3. QED
  BY <1>1, <1>2

\* loadConfig: every file is formatted with the configuration of the nearest
\* directory that contains it, as long as no path has "..".
THEOREM NearestConfigCorrect ==
  ASSUME PlainNames
  PROVE  Spec => []NearestConfigUsed
<1>1. Init => PlainSoFar
  BY PlainInit
<1>2. Base /\ PlainSoFar /\ [Next]_vars => PlainSoFar'
  BY PlainStep
<1>3. Base /\ PlainSoFar => NearestConfigUsed
  <2> SUFFICES ASSUME Base, PlainSoFar, NEW k \in DOMAIN files, files[k] # Stdin,
                      ~Option("noConfig")
               PROVE  StyleFor(files[k]) = NearestStyle(files[k])
    BY DEF NearestConfigUsed
  <2>1. files[k] \in Paths /\ Plain(files[k])
    BY ElementOfSeq, LenProperties DEF Base, Types, PlainSoFar
  <2>2. QED
    BY <2>1, NearestFound
<1>4. QED
  BY <1>1, <1>2, <1>3, BaseInvariant, PTL DEF Spec
=============================================================================

------------------------------ MODULE FileLookup ------------------------------
(***************************************************************************)
(* How the command-line tool finds the configuration and the ignore file   *)
(* that apply to a source file: a walk from the file's directory to the    *)
(* root, in terms of path names, as std::filesystem::path does it.         *)
(*                                                                         *)
(* A path is the sequence of its names below the root.  A name may be      *)
(* "..": std::filesystem::absolute does not resolve it, and parent_path    *)
(* drops it like any other name; the operating system resolves it when a   *)
(* file is opened.                                                         *)
(***************************************************************************)
EXTENDS Naturals, Sequences, FiniteSets, SequencesExt

CONSTANTS
  Configs,    \* the configuration files: <<directory, name>> to their content
  Ignores     \* the ignore files: <<directory, name>> to their content

\* .slang-format and _slang-format, in the order they are tried; likewise for
\* the ignore files.
CandidateNames == {1, 2}

Candidates(files) ==
  \A file \in DOMAIN files : Len(file) = 2 /\ file[2] \in CandidateNames

ASSUME ConfigsAssumption == Candidates(Configs)

ASSUME IgnoresAssumption == Candidates(Ignores)

\* What DOMAIN cannot hold: no such file.
Nothing == [found |-> FALSE]

\* The default style, and the content of a file that is no configuration:
\* broken YAML, an unknown value.
DefaultStyle == "Default"
Invalid == "invalid"

-----------------------------------------------------------------------------
(* Paths. *)

ParentPath(path) == IF path = <<>> THEN path ELSE Front(path)

\* What the operating system takes the path for.
Resolve(path) ==
  LET resolved[k \in 0..Len(path)] ==
        IF k = 0 THEN <<>>
        ELSE IF path[k] = ".." THEN ParentPath(resolved[k - 1])
        ELSE Append(resolved[k - 1], path[k])
  IN  resolved[Len(path)]

\* The path of a file relative to a directory, both resolved first.
RelativePath(file, dir) ==
  LET target == Resolve(file)
      base   == Resolve(dir)
      common == Cardinality({k \in 1..Len(target) : IsPrefix(SubSeq(target, 1, k), base)})
  IN  [k \in 1..(Len(base) - common) |-> ".."]
        \o SubSeq(target, common + 1, Len(target))

-----------------------------------------------------------------------------
(* The walk. *)

\* Mutation: the preferred name is looked for on all levels first.
FindFilePreferringNames(files, searchDir) ==
  LET Dir(level) == SubSeq(searchDir, 1, level)
      hits == {h \in (0..Len(searchDir)) \X CandidateNames :
                 <<Resolve(Dir(h[1])), h[2]>> \in DOMAIN files}
  IN  IF hits = {} THEN Nothing
      ELSE LET best == CHOOSE h \in hits :
                 \A g \in hits : h[2] < g[2] \/ (h[2] = g[2] /\ h[1] >= g[1])
           IN  [found |-> TRUE, dir |-> Dir(best[1]),
                content |-> files[<<Resolve(Dir(best[1])), best[2]>>]]

\* The nearest level that has a file under either name; on that level the
\* first name goes first.
FindFileInHierarchy(files, searchDir) ==
  LET Dir(level) == SubSeq(searchDir, 1, level)
      hits == {h \in (0..Len(searchDir)) \X CandidateNames :
                 <<Resolve(Dir(h[1])), h[2]>> \in DOMAIN files}
  IN  IF hits = {} THEN Nothing
      ELSE LET best == CHOOSE h \in hits :
                 \A g \in hits : h[1] > g[1] \/ (h[1] = g[1] /\ h[2] <= g[2])
           IN  [found |-> TRUE, dir |-> Dir(best[1]),
                content |-> files[<<Resolve(Dir(best[1])), best[2]>>]]

\* loadConfig: the style, or Invalid when it throws.
LoadConfig(searchDir) ==
  LET result == FindFileInHierarchy(Configs, searchDir)
  IN  IF result.found THEN result.content ELSE DefaultStyle

\* The content of an ignore file is the sequence of its entries; matches are
\* the relative paths that the glob pattern of an entry matches.
IsIgnored(path) ==
  LET result  == FindFileInHierarchy(Ignores, ParentPath(path))
      entries == result.content
      hits    == {i \in DOMAIN entries :
                    RelativePath(path, result.dir) \in entries[i].matches}
  IN  /\ result.found
      /\ hits # {}
      /\ ~entries[CHOOSE i \in hits : \A j \in hits : j <= i].negated
=============================================================================

-------------------------- MODULE RewriterProperties --------------------------
(***************************************************************************)
(* What the rewrite passes promise together: the tree they end with is the *)
(* one that rewriting every node of the parsed tree once would give, and   *)
(* they get there.                                                         *)
(***************************************************************************)
EXTENDS Rewriter

\* Types of all variables; the tree stays one that could have been parsed.
TypeOK ==
  /\ style \in Style
  /\ pass \in DOMAIN Passes
  /\ IsSyntaxTree(tree)
  /\ Range(todo) \cup changes \subseteq DOMAIN nodes
  /\ rounds \in [DOMAIN Passes -> Nat]
  /\ pc \in {"start", "visit", "done", "threw"}

\* SyntaxRewriter::replace: no handler asks for a node that another one has
\* already asked to replace, which would end the program with an exception.
NoNodeReplacedTwice == pc # "threw"

-----------------------------------------------------------------------------
(* The result, by the parsed tree alone. *)

old == source.nodes

UnderOld(n) == old[Parent(old, n)]

\* The statement of a procedure, or of the timing control it starts with.
StartsProcedure(n, kind) ==
  \/ UnderOld(n).kind = kind /\ old[n].kind # "Timing"
  \/ /\ UnderOld(n).kind = "Timing"
     /\ UnderOld(n).kids[2] = n
     /\ Parent(old, n) # source.root
     /\ UnderOld(Parent(old, n)).kind = kind

\* A bare body that the style wants between begin and end.
WantsBlock(n) ==
  /\ style.beginEnd
  /\ n # source.root
  /\ old[n].kind \in StatementKinds \ {"Block"}
  /\ \/ /\ "control" \in style.bodies
        /\ \/ UnderOld(n).kind = "Loop"
           \/ UnderOld(n).kind = "CaseItem" /\ old[n].kind # "Empty"
           \/ UnderOld(n).kind = "Conditional"
              /\ ~(old[n].kind = "Conditional" /\ UnderOld(n).kids[1] # n)
     \/ "always" \in style.bodies /\ StartsProcedure(n, "Always")
     \/ "initial" \in style.bodies /\ StartsProcedure(n, "Initial")

\* An operand of # or @ that the style wants between parentheses.
WantsParens(n) ==
  /\ n # source.root
  /\ old[n].kind # "Parens"
  /\ UnderOld(n).kind \in style.parens

Ordered(bounds, order) ==
  IF Len(bounds) = 2 /\ order # "Preserve"
     /\ (order = "MSBFirst") = (bounds[1] < bounds[2])
  THEN Reverse(bounds) ELSE bounds

\* What is read off a tree: its nodes without their numbers.
Reading(t) ==
  LET reading[n \in DOMAIN t.nodes] ==
        LET node == t.nodes[n]
        IN  <<node.kind, node.sep, node.bounds, node.parens,
              [k \in DOMAIN node.kids |-> reading[node.kids[k]]]>>
  IN  reading[t.root]

\* The same for what the parsed tree is to become.
Wanted ==
  LET wanted[n \in DOMAIN old] ==
        LET node == old[n]
            bare == <<node.kind,
                      IF node.kind = "BinaryEvent" /\ style.separator # "Preserve"
                      THEN Separator ELSE node.sep,
                      CASE node.kind = "PackedRange" -> Ordered(node.bounds, style.packed)
                        [] node.kind = "UnpackedRange" -> Ordered(node.bounds, style.unpacked)
                        [] OTHER -> <<>>,
                      node.parens \/ (node.kind = "ImplicitControl"
                                      /\ "ImplicitControl" \in style.parens),
                      [k \in DOMAIN node.kids |-> wanted[node.kids[k]]]>>
            In(kind) == <<kind, "none", <<>>, FALSE, <<bare>>>>
        IN  CASE WantsBlock(n)  -> In("Block")
              [] WantsParens(n) -> In("Parens")
              [] OTHER -> bare
  IN  wanted[source.root]

\* apply* in sequence: the passes end with every bare body wrapped once, every
\* separator and range in the wanted form and every control in parentheses, at
\* any depth and whatever the order of the passes; nothing else is different.
EndsAsWanted == pc = "done" => Reading(tree) = Wanted

\* How many nodes that a pass replaces lie above one another in the parsed tree.
Nesting(Hit(_)) ==
  LET depth[n \in DOMAIN old] ==
        Max({0} \cup {depth[k] : k \in KidSet(old, n)}) + (IF Hit(n) THEN 1 ELSE 0)
  IN  depth[source.root]

\* transformUntilConverged: a pass changes the tree at most as often as its
\* hits are nested.
RoundsBoundedByNesting ==
  /\ rounds[1] <= Nesting(WantsBlock)
  /\ rounds[2] <= Nesting(LAMBDA n : old[n].kind \in style.parens)
  /\ rounds[3] <= Nesting(LAMBDA n : old[n].kind = "BinaryEvent")
  /\ rounds[4] <= 1 /\ rounds[5] <= 1

\* transformUntilConverged: every pass comes to an end.
Converges == <>(pc \in {"done", "threw"})

=============================================================================

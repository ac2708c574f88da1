------------------------------- MODULE Rewriter -------------------------------
(***************************************************************************)
(* The five structural passes that run on the syntax tree before it is     *)
(* printed.  A pass visits the tree once and registers the nodes it wants  *)
(* replaced; then all replacements are made at once.  What is replaced is  *)
(* replaced by a copy made before the visit went on below it, so whatever  *)
(* was registered inside it is lost; the first three passes are therefore  *)
(* repeated until nothing is registered any more.                          *)
(*                                                                         *)
(* A tree is a function from node numbers to nodes.  A copy keeps the      *)
(* number of its original; inserted nodes get new numbers.                 *)
(***************************************************************************)
EXTENDS Integers, Sequences, FiniteSets, SequencesExt

CONSTANTS
  Trees,    \* the trees to rewrite: [nodes, root]
  Styles,   \* the style options that matter here
  MaxRounds \* where the history of rounds stops counting

\* Kinds of statements and members ...
StatementKinds == {"Statement", "Empty", "Block", "Conditional", "Loop", "Case", "Timing"}
\* ... and of what stands behind # or @ in a timing control.
ControlKinds == {"Delay", "EventControl", "ExpressionControl", "ImplicitControl"}
Kinds ==
  StatementKinds \cup ControlKinds
    \cup {"Module", "Always", "Initial", "CaseItem", "Parens", "BinaryEvent", "Signal",
          "PackedRange", "UnpackedRange"}

\* sep is the separator of a binary event, bounds are the literal bounds of a
\* range; parens says whether @* has its parentheses.
Node == [kind : Kinds, kids : Seq(Nat), sep : {"none", "or", ","}, bounds : Seq(Nat),
         parens : BOOLEAN]

KidSet(nodes, n) == Range(nodes[n].kids)

Parent(nodes, n) == CHOOSE p \in DOMAIN nodes : n \in KidSet(nodes, p)

\* Every node but the root is the child of one node, once; the nodes are
\* numbered from 1 on.
IsTree(t) ==
  /\ t.root \in DOMAIN t.nodes
  /\ \E last \in DOMAIN t.nodes : DOMAIN t.nodes \subseteq 1..last
  /\ \A p \in DOMAIN t.nodes :
       KidSet(t.nodes, p) \subseteq DOMAIN t.nodes \ {t.root}
  /\ \A n \in DOMAIN t.nodes \ {t.root} :
       \E p \in DOMAIN t.nodes : n \in KidSet(t.nodes, p)
  /\ \A p, q \in DOMAIN t.nodes :
       \A j \in DOMAIN t.nodes[p].kids, k \in DOMAIN t.nodes[q].kids :
         t.nodes[p].kids[j] = t.nodes[q].kids[k] => p = q /\ j = k

\* The nodes that have a body to put between begin and end.
Askers == {"Conditional", "Loop", "CaseItem", "Always", "Initial"}

\* The parts that the grammar gives a node: bodies, and what stands behind # or @.
HasParts(node) ==
  /\ node.kind \in Askers \cup (ControlKinds \ {"ImplicitControl"}) => node.kids # <<>>
  /\ node.kind = "Timing" => Len(node.kids) >= 2

\* What the parser makes.
IsSyntaxTree(t) ==
  /\ t \in [nodes : {t.nodes}, root : {t.root}]
  /\ t.nodes \in [DOMAIN t.nodes -> Node]
  /\ IsTree(t)
  /\ \A n \in DOMAIN t.nodes : HasParts(t.nodes[n])

ASSUME MaxRoundsAssumption == MaxRounds \in Nat

ASSUME TreesAssumption == \A t \in Trees : IsSyntaxTree(t)

\* The nodes of a parsed tree are numbered from the root down.
NumberedDown ==
  \A t \in Trees : \A p \in DOMAIN t.nodes : \A k \in KidSet(t.nodes, p) : p < k

\* Loops, procedures and case items have one body, which is a statement but for
\* that of a case item; so are the branches of a conditional, and what a timing
\* control delays.
BodiesAreStatements ==
  \A t \in Trees : \A n \in DOMAIN t.nodes :
    LET node == t.nodes[n]
        IsStatement(k) == t.nodes[node.kids[k]].kind \in StatementKinds
    IN  /\ node.kind \in Askers \ {"Conditional"} => Len(node.kids) = 1
        /\ node.kind \in Askers \ {"CaseItem"} => \A k \in DOMAIN node.kids : IsStatement(k)
        /\ node.kind = "Timing" => IsStatement(2)

\* A control has one operand, @* has none.
ControlsHaveOneOperand ==
  \A t \in Trees : \A n \in DOMAIN t.nodes :
    t.nodes[n].kind \in ControlKinds =>
      Len(t.nodes[n].kids) = IF t.nodes[n].kind = "ImplicitControl" THEN 0 ELSE 1

RangeKinds == {"PackedRange", "UnpackedRange"}

\* Only ranges have bounds, and one between literals has nothing else.
RangesAreLeaves ==
  \A t \in Trees : \A n \in DOMAIN t.nodes :
    /\ t.nodes[n].bounds # <<>> => t.nodes[n].kind \in RangeKinds
    /\ Len(t.nodes[n].bounds) = 2 => Len(t.nodes[n].kids) = 0

\* The separator of an event is or or a comma.
EventsSeparated ==
  \A t \in Trees : \A n \in DOMAIN t.nodes :
    t.nodes[n].kind = "BinaryEvent" => t.nodes[n].sep \in {"or", ","}

ASSUME ParsedAssumption ==
  /\ NumberedDown
  /\ BodiesAreStatements /\ ControlsHaveOneOperand /\ RangesAreLeaves /\ EventsSeparated

Bounds == {"MSBFirst", "LSBFirst", "Preserve"}

Style ==
  [beginEnd  : BOOLEAN,
   bodies    : SUBSET {"control", "always", "initial"},
   parens    : SUBSET ControlKinds,
   separator : {"Comma", "Or", "Preserve"},
   packed    : Bounds,
   unpacked  : Bounds]

ASSUME StylesAssumption == Styles \subseteq Style

VARIABLES
  source,    \* the tree that was parsed (history)
  style,
  tree,      \* the tree as it is now
  pass,      \* the position in Passes
  todo,      \* the nodes still to visit
  changes,   \* the nodes to replace
  rounds,    \* transforms of each pass that changed something (history)
  pc

vars == <<source, style, tree, pass, todo, changes, rounds, pc>>

Passes == <<"BeginEnd", "Parens", "Separator", "Packed", "Unpacked">>

\* Mutation: only begin and end are inserted until nothing changes.
RepeatedBeginEndOnly == {"BeginEnd"}

Repeated == {"BeginEnd", "Parens", "Separator"}

Applies(p) ==
  CASE p = "BeginEnd"  -> style.beginEnd
    [] p = "Parens"    -> style.parens # {}
    [] p = "Separator" -> style.separator # "Preserve"
    [] p = "Packed"    -> style.packed # "Preserve"
    [] p = "Unpacked"  -> style.unpacked # "Preserve"

nodes == tree.nodes
Kind(n) == nodes[n].kind
Kid(n, k) == nodes[n].kids[k]

-----------------------------------------------------------------------------
(* The handlers: which nodes a visited node asks to be replaced. *)

\* wrapInBlock
WrapInBlock(bodies) == {b \in bodies : Kind(b) # "Block"}

\* The statement, and what follows else unless that is another if.
ConditionalBodies(n) ==
  {Kid(n, k) : k \in {j \in DOMAIN nodes[n].kids : j = 1 \/ Kind(Kid(n, j)) # "Conditional"}}

\* The body of an always or initial procedure, behind its timing control.
ProceduralBody(n) ==
  IF Kind(Kid(n, 1)) = "Timing" THEN Kid(Kid(n, 1), 2) ELSE Kid(n, 1)

\* Mutation: a timing control wraps its statement as well.
InsertBeginEndTwice(n) ==
  LET bodies ==
        CASE Kind(n) = "Conditional" -> ConditionalBodies(n)
          [] Kind(n) \in {"Loop", "CaseItem"} -> {Kid(n, 1)}
          [] Kind(n) \in {"Always", "Initial"} -> {ProceduralBody(n)}
          [] Kind(n) = "Timing" -> {Kid(n, 2)}
          [] OTHER -> {}
  IN  WrapInBlock(bodies)

InsertBeginEnd(n) ==
  LET bodies ==
        CASE Kind(n) = "Conditional" /\ "control" \in style.bodies -> ConditionalBodies(n)
          [] Kind(n) = "Loop" /\ "control" \in style.bodies -> {Kid(n, 1)}
          [] Kind(n) = "CaseItem" /\ "control" \in style.bodies ->
               {Kid(n, 1)} \cap {c \in DOMAIN nodes : Kind(c) \in StatementKinds \ {"Empty"}}
          [] Kind(n) = "Always" /\ "always" \in style.bodies -> {ProceduralBody(n)}
          [] Kind(n) = "Initial" /\ "initial" \in style.bodies -> {ProceduralBody(n)}
          [] OTHER -> {}
  IN  WrapInBlock(bodies)

\* Mutation: the parentheses put around an implicit control are not recognized.
HasParensOfExpressions(n) ==
  Kind(n) # "ImplicitControl" /\ Kind(Kid(n, 1)) = "Parens"

\* Whether the control has its parentheses already.
HasParens(n) ==
  IF Kind(n) = "ImplicitControl" THEN nodes[n].parens ELSE Kind(Kid(n, 1)) = "Parens"

InsertParens(n) ==
  IF Kind(n) \in style.parens /\ ~HasParens(n) THEN {n} ELSE {}

Separator == IF style.separator = "Comma" THEN "," ELSE "or"

\* Mutation: every separator is exchanged.
ExchangeSeparator(n) == IF Kind(n) = "BinaryEvent" THEN {n} ELSE {}

RewriteSeparator(n) ==
  IF Kind(n) = "BinaryEvent" /\ nodes[n].sep # Separator THEN {n} ELSE {}

\* A range is swapped when both bounds are literals and in the wrong order.
SwapBounds(n, kind, order) ==
  LET bounds == nodes[n].bounds
  IN  IF /\ Kind(n) = kind
         /\ Len(bounds) = 2
         /\ \/ order = "MSBFirst" /\ bounds[1] < bounds[2]
            \/ order = "LSBFirst" /\ bounds[1] > bounds[2]
      THEN {n} ELSE {}

Replaces(n) ==
  CASE Passes[pass] = "BeginEnd"  -> InsertBeginEnd(n)
    [] Passes[pass] = "Parens"    -> InsertParens(n)
    [] Passes[pass] = "Separator" -> RewriteSeparator(n)
    [] Passes[pass] = "Packed"    -> SwapBounds(n, "PackedRange", style.packed)
    [] Passes[pass] = "Unpacked"  -> SwapBounds(n, "UnpackedRange", style.unpacked)

\* All handlers but that for begin and end stay above a node they replace.
Descends(n) == Passes[pass] = "BeginEnd" \/ Replaces(n) = {}

-----------------------------------------------------------------------------
(* The replacements. *)

Ancestors ==
  LET above[n \in DOMAIN nodes] ==
        IF n = tree.root THEN {}
        ELSE LET p == Parent(nodes, n) IN {p} \cup above[p]
  IN  above

\* The changes that are not inside a replaced node.
Effective == {n \in changes : Ancestors[n] \cap changes = {}}

\* Numbers for the nodes inserted around others.
Around(n) == n + Max(DOMAIN nodes)

Plain(kind, kids) ==
  [kind |-> kind, kids |-> kids, sep |-> "none", bounds |-> <<>>, parens |-> FALSE]

\* A node of the given kind is put around each of the nodes.
Surround(kind, inner) ==
  LET outer == {Around(n) : n \in inner}
  IN  [n \in DOMAIN nodes \cup outer |->
         IF n \in outer THEN Plain(kind, <<n - Max(DOMAIN nodes)>>)
         ELSE [nodes[n] EXCEPT !.kids =
                 [k \in DOMAIN @ |-> IF @[k] \in inner THEN Around(@[k]) ELSE @[k]]]]

Replaced ==
  CASE Passes[pass] = "BeginEnd" -> Surround("Block", Effective)
    [] Passes[pass] = "Parens" ->
         LET implicit  == {n \in Effective : Kind(n) = "ImplicitControl"}
             explicit  == Effective \ implicit
             surrounded == Surround("Parens", {Kid(n, 1) : n \in explicit})
         IN  [n \in DOMAIN surrounded |->
                IF n \in implicit THEN [surrounded[n] EXCEPT !.parens = TRUE]
                ELSE surrounded[n]]
    [] Passes[pass] = "Separator" ->
         [n \in DOMAIN nodes |->
            IF n \in Effective
            THEN [nodes[n] EXCEPT !.sep = IF @ = "or" THEN "," ELSE "or"] ELSE nodes[n]]
    [] OTHER ->
         [n \in DOMAIN nodes |->
            IF n \in Effective THEN [nodes[n] EXCEPT !.bounds = Reverse(@)] ELSE nodes[n]]

-----------------------------------------------------------------------------
Init ==
  /\ source \in Trees
  /\ style \in Styles
  /\ tree = source
  /\ pass = 1
  /\ todo = <<>>
  /\ changes = {}
  /\ rounds = [p \in DOMAIN Passes |-> 0]
  /\ pc = "start"

\* Mutation: the last pass is not known to be the last.
NextPassAlways == pc' = "start" /\ pass' = pass + 1

NextPass ==
  IF pass = Len(Passes) THEN pc' = "done" /\ UNCHANGED pass
  ELSE pc' = "start" /\ pass' = pass + 1

SkipPass ==
  /\ pc = "start"
  /\ ~Applies(Passes[pass])
  /\ NextPass
  /\ UNCHANGED <<source, style, tree, todo, changes, rounds>>

StartTransform ==
  /\ pc = "start"
  /\ Applies(Passes[pass])
  /\ todo' = <<tree.root>>
  /\ changes' = {}
  /\ pc' = "visit"
  /\ UNCHANGED <<source, style, tree, pass, rounds>>

\* To replace a node a second time throws.
Visit ==
  /\ pc = "visit"
  /\ todo # <<>>
  /\ LET n == Head(todo)
     IN  /\ changes' = changes \cup Replaces(n)
         /\ todo' = (IF Descends(n) THEN nodes[n].kids ELSE <<>>) \o Tail(todo)
         /\ pc' = IF Replaces(n) \cap changes = {} THEN "visit" ELSE "threw"
  /\ UNCHANGED <<source, style, tree, pass, rounds>>

\* Nothing registered: the same tree comes back.
Unchanged ==
  /\ pc = "visit"
  /\ todo = <<>>
  /\ changes = {}
  /\ NextPass
  /\ UNCHANGED <<source, style, tree, todo, changes, rounds>>

Commit ==
  /\ pc = "visit"
  /\ todo = <<>>
  /\ changes # {}
  /\ tree' = [tree EXCEPT !.nodes = Replaced]
  /\ rounds' = [rounds EXCEPT ![pass] = IF @ < MaxRounds THEN @ + 1 ELSE @]
  /\ changes' = {}
  /\ IF Passes[pass] \in Repeated THEN pc' = "start" /\ UNCHANGED pass ELSE NextPass
  /\ UNCHANGED <<source, style, todo>>

Step == SkipPass \/ StartTransform \/ Visit \/ Unchanged \/ Commit

Done == pc \in {"done", "threw"} /\ UNCHANGED vars

Next == Step \/ Done

\* One thread that waits for nothing.
Spec == Init /\ [][Next]_vars /\ WF_vars(Step)
=============================================================================

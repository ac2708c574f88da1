---------------------------- MODULE RewriterProofs ----------------------------
(***************************************************************************)
(* Four theorems about the rewrite passes, for every tree and style: the   *)
(* tree stays a tree whatever is put around its nodes, no node is          *)
(* registered for replacement twice, the passes end with the tree that     *)
(* rewriting every node of the parsed one once would give, and no pass     *)
(* changes the tree more often than what it replaces is nested.            *)
(*                                                                         *)
(* None but the first is inductive.  Behind the second stands that a visit *)
(* reaches every node at most once, which in turn needs the first, and     *)
(* that two nodes never ask for the replacement of the same one: a body is *)
(* asked for by its parent, or by its parent's parent when a timing        *)
(* control stands between them, and a timing control asks for nothing.     *)
(*                                                                         *)
(* Behind the third stands that the parsed nodes are always all there,     *)
(* with nothing between them but what is wanted there, that what a pass is *)
(* responsible for is done once it is over, and that a visit reaches every *)
(* node that is not below one it stays above: when it registers nothing,   *)
(* there is nothing left.  The tree that is read off is compared with the  *)
(* wanted one from the leaves up.                                          *)
(*                                                                         *)
(* Behind the fourth stands that every node still to be replaced is nested *)
(* less deeply than the nodes that the last round replaced: it was left    *)
(* because it is below one of them.                                        *)
(***************************************************************************)
EXTENDS RewriterProperties, InductionLemmas, SequenceTheorems

\* The tree and the position among the passes.
Shape ==
  /\ style \in Style
  /\ pass \in 1..5
  /\ rounds \in [1..5 -> Nat]
  /\ pc \in {"start", "visit", "done", "threw"}
  /\ IsSyntaxTree(tree)

\* A set of nodes that may have been visited when the others are still to come:
\* nothing is on both sides, nothing is to come twice, a parent comes first, and
\* what is to be replaced was asked for by one that has been visited.
Visited(seen) ==
  /\ IsInjective(todo)
  /\ Range(todo) \cap seen = {}
  /\ \A p \in DOMAIN nodes : \A k \in KidSet(nodes, p) :
       k \in seen \cup Range(todo) => p \in seen
  /\ \A c \in changes : \E n \in seen : c \in Replaces(n)

Visits ==
  /\ todo \in Seq(DOMAIN nodes)
  /\ changes \subseteq DOMAIN nodes
  /\ pc = "visit" => \E seen \in SUBSET DOMAIN nodes : Visited(seen)

IInv == Shape /\ Visits /\ NoNodeReplacedTwice

-----------------------------------------------------------------------------
(* Which nodes a node asks for. *)

\* c is a body of n.
IsBodyOf(c, n) ==
  /\ Kind(n) \in Askers
  /\ \/ c \in KidSet(nodes, n)
     \/ \E q \in KidSet(nodes, n) : Kind(q) = "Timing" /\ c \in KidSet(nodes, q)

LEMMA KidInKidSet ==
  ASSUME Shape, NEW n \in DOMAIN nodes, NEW k \in DOMAIN nodes[n].kids
  PROVE  Kid(n, k) \in KidSet(nodes, n) /\ Kid(n, k) \in DOMAIN nodes
<1>1. Kid(n, k) \in KidSet(nodes, n)
  BY DEF Kid, KidSet, Range
<1> QED
  BY <1>1 DEF Shape, IsSyntaxTree, IsTree, nodes

LEMMA KidsOf ==
  ASSUME Shape, NEW n \in DOMAIN nodes
  PROVE  /\ nodes[n] \in Node
         /\ nodes[n].kids \in Seq(DOMAIN nodes)
         /\ KidSet(nodes, n) \subseteq DOMAIN nodes
         /\ tree.root \notin KidSet(nodes, n)
         /\ IsInjective(nodes[n].kids)
<1>1. nodes[n] \in Node
  BY DEF Shape, IsSyntaxTree, nodes
<1>2. KidSet(nodes, n) \subseteq DOMAIN nodes /\ tree.root \notin KidSet(nodes, n)
  BY DEF Shape, IsSyntaxTree, IsTree, nodes
<1>3. nodes[n].kids \in Seq(Nat)
  BY <1>1 DEF Node
<1>4. nodes[n].kids \in Seq(DOMAIN nodes)
  <2>1. \A k \in 1..Len(nodes[n].kids) : nodes[n].kids[k] \in DOMAIN nodes
    BY <1>2, <1>3 DEF KidSet, Range
  <2> QED
    BY <1>3, <2>1
<1>5. IsInjective(nodes[n].kids)
  BY DEF IsInjective, Shape, IsSyntaxTree, IsTree, nodes
<1> QED
  BY <1>1, <1>2, <1>4, <1>5

LEMMA OneParent ==
  ASSUME Shape, NEW p \in DOMAIN nodes, NEW q \in DOMAIN nodes,
         NEW c \in KidSet(nodes, p), c \in KidSet(nodes, q)
  PROVE  p = q
<1>1. PICK j \in DOMAIN nodes[p].kids : nodes[p].kids[j] = c
  BY DEF KidSet, Range
<1>2. PICK k \in DOMAIN nodes[q].kids : nodes[q].kids[k] = c
  BY DEF KidSet, Range
<1> QED
  BY <1>1, <1>2 DEF Shape, IsSyntaxTree, IsTree, nodes

LEMMA FirstKid ==
  ASSUME Shape, NEW n \in DOMAIN nodes,
         Kind(n) \in Askers \cup (ControlKinds \ {"ImplicitControl"})
  PROVE  1 \in DOMAIN nodes[n].kids
<1>1. nodes[n].kids \in Seq(Nat)
  BY DEF Shape, IsSyntaxTree, Node, nodes
<1>2. nodes[n].kids # <<>>
  BY DEF Shape, IsSyntaxTree, HasParts, Kind, Askers, nodes
<1> QED
  BY <1>1, <1>2

LEMMA TimingKids ==
  ASSUME Shape, NEW n \in DOMAIN nodes, Kind(n) = "Timing"
  PROVE  2 \in DOMAIN nodes[n].kids
<1>1. nodes[n].kids \in Seq(Nat)
  BY DEF Shape, IsSyntaxTree, Node, nodes
<1>2. Len(nodes[n].kids) >= 2
  BY DEF Shape, IsSyntaxTree, HasParts, Kind, nodes
<1> QED
  BY <1>1, <1>2

LEMMA BodiesOf ==
  ASSUME Shape, NEW n \in DOMAIN nodes, NEW c \in InsertBeginEnd(n)
  PROVE  c \in DOMAIN nodes /\ IsBodyOf(c, n)
<1>1. Kind(n) \in Askers
  BY DEF InsertBeginEnd, WrapInBlock, Askers
<1>2. 1 \in DOMAIN nodes[n].kids
  BY <1>1, FirstKid
<1>3. Kid(n, 1) \in KidSet(nodes, n) /\ Kid(n, 1) \in DOMAIN nodes
  BY <1>2, KidInKidSet
<1>4. CASE Kind(n) = "Conditional"
  <2>1. c \in ConditionalBodies(n)
    BY <1>4 DEF InsertBeginEnd, WrapInBlock
  <2>2. PICK k \in DOMAIN nodes[n].kids : c = Kid(n, k)
    BY <2>1 DEF ConditionalBodies
  <2> QED
    BY <1>1, <2>2, KidInKidSet DEF IsBodyOf
<1>5. CASE Kind(n) \in {"Loop", "CaseItem"}
  <2>1. c = Kid(n, 1)
    BY <1>5 DEF InsertBeginEnd, WrapInBlock
  <2> QED
    BY <1>1, <1>3, <2>1 DEF IsBodyOf
<1>6. CASE Kind(n) \in {"Always", "Initial"}
  <2>1. c = ProceduralBody(n)
    BY <1>6 DEF InsertBeginEnd, WrapInBlock
  <2>2. CASE Kind(Kid(n, 1)) # "Timing"
    BY <1>1, <1>3, <2>1, <2>2 DEF IsBodyOf, ProceduralBody
  <2>3. CASE Kind(Kid(n, 1)) = "Timing"
    <3>1. 2 \in DOMAIN nodes[Kid(n, 1)].kids
      BY <1>3, <2>3, TimingKids
    <3>2. /\ Kid(Kid(n, 1), 2) \in KidSet(nodes, Kid(n, 1))
          /\ Kid(Kid(n, 1), 2) \in DOMAIN nodes
      BY <1>3, <3>1, KidInKidSet
    <3> QED
      BY <1>1, <1>3, <2>1, <2>3, <3>2 DEF IsBodyOf, ProceduralBody
  <2> QED
    BY <2>2, <2>3
<1> QED
  BY <1>1, <1>4, <1>5, <1>6 DEF Askers

\* Only the first pass asks for other nodes than the visited one.
LEMMA ReplacesOf ==
  ASSUME Shape, NEW n \in DOMAIN nodes
  PROVE  /\ pass = 1 => Replaces(n) = InsertBeginEnd(n)
         /\ pass # 1 => Replaces(n) \subseteq {n}
<1>1. CASE pass = 1
  BY <1>1 DEF Replaces, Passes
<1>2. CASE pass = 2
  BY <1>2 DEF Replaces, Passes, InsertParens
<1>3. CASE pass = 3
  BY <1>3 DEF Replaces, Passes, RewriteSeparator
<1>4. CASE pass = 4
  <2>1. Replaces(n) = SwapBounds(n, "PackedRange", style.packed)
    BY <1>4 DEF Replaces, Passes
  <2> QED
    BY <1>4, <2>1 DEF SwapBounds
<1>5. CASE pass = 5
  <2>1. Replaces(n) = SwapBounds(n, "UnpackedRange", style.unpacked)
    BY <1>5 DEF Replaces, Passes
  <2> QED
    BY <1>5, <2>1 DEF SwapBounds
<1> QED
  BY <1>1, <1>2, <1>3, <1>4, <1>5 DEF Shape

LEMMA ReplacesNodes ==
  ASSUME Shape, NEW n \in DOMAIN nodes
  PROVE  /\ Replaces(n) \subseteq DOMAIN nodes
         /\ pass = 1 => tree.root \notin Replaces(n)
<1>1. CASE pass = 1
  <2>1. ASSUME NEW c \in Replaces(n)
        PROVE  c \in DOMAIN nodes /\ c # tree.root
    <3>1. c \in DOMAIN nodes /\ IsBodyOf(c, n)
      BY <1>1, <2>1, ReplacesOf, BodiesOf
    <3> QED
      BY <3>1, KidsOf DEF IsBodyOf
  <2> QED
    BY <2>1
<1>2. CASE pass # 1
  BY <1>2, ReplacesOf
<1> QED
  BY <1>1, <1>2

\* No two nodes ask for the same one.
LEMMA ReplacesDisjoint ==
  ASSUME Shape, NEW n \in DOMAIN nodes, NEW m \in DOMAIN nodes,
         NEW c \in Replaces(n), c \in Replaces(m)
  PROVE  n = m
<1>1. CASE pass # 1
  BY <1>1, ReplacesOf
<1>2. CASE pass = 1
  <2>1. IsBodyOf(c, n) /\ IsBodyOf(c, m)
    BY <1>2, ReplacesOf, BodiesOf
  <2>2. CASE c \in KidSet(nodes, n) /\ c \in KidSet(nodes, m)
    BY <2>2, OneParent
  <2>3. ASSUME NEW x \in DOMAIN nodes, NEW y \in DOMAIN nodes, IsBodyOf(c, x),
               c \in KidSet(nodes, x),
               NEW q \in KidSet(nodes, y), Kind(q) = "Timing", c \in KidSet(nodes, q)
        PROVE  FALSE
    <3>1. q \in DOMAIN nodes
      BY <2>3, KidsOf
    <3>2. q = x
      BY <2>3, <3>1, OneParent
    <3> QED
      BY <2>3, <3>2 DEF IsBodyOf, Askers
  <2>4. CASE /\ \E q \in KidSet(nodes, n) : Kind(q) = "Timing" /\ c \in KidSet(nodes, q)
             /\ \E q \in KidSet(nodes, m) : Kind(q) = "Timing" /\ c \in KidSet(nodes, q)
    <3>1. PICK q \in KidSet(nodes, n) : c \in KidSet(nodes, q)
      BY <2>4
    <3>2. PICK r \in KidSet(nodes, m) : c \in KidSet(nodes, r)
      BY <2>4
    <3>3. q = r
      BY <3>1, <3>2, KidsOf, OneParent
    <3> QED
      BY <3>1, <3>2, <3>3, OneParent
  <2> QED
    BY <2>1, <2>2, <2>3, <2>4 DEF IsBodyOf
<1> QED
  BY <1>1, <1>2

-----------------------------------------------------------------------------
(* The visit of a tree. *)

LEMMA StartVisits ==
  ASSUME Shape, StartTransform
  PROVE  Visits'
<1>1. tree.root \in DOMAIN nodes
  BY DEF Shape, IsSyntaxTree, IsTree, nodes
<1>2. todo' = <<tree.root>> /\ changes' = {} /\ UNCHANGED nodes
  BY DEF StartTransform, nodes
<1>3. \A p \in DOMAIN nodes : tree.root \notin KidSet(nodes, p)
  BY KidsOf
<1>4. Visited({})'
  <2>1. IsInjective(todo')
    BY <1>2 DEF IsInjective
  <2>2. Range(todo') = {tree.root}
    BY <1>2 DEF Range
  <2>3. \A p \in DOMAIN nodes' : \A k \in KidSet(nodes', p) :
          k \in {} \cup Range(todo') => p \in {}
    BY <1>2, <1>3, <2>2
  <2> QED
    BY <1>2, <2>1, <2>3 DEF Visited
<1>5. todo' \in Seq(DOMAIN nodes') /\ changes' \subseteq DOMAIN nodes'
  BY <1>1, <1>2
<1>6. \E seen \in SUBSET DOMAIN nodes' : Visited(seen)'
  BY <1>4
<1> QED
  BY <1>5, <1>6 DEF Visits

\* What the head of the list does to the list.
LEMMA ListsJoined ==
  ASSUME NEW S, NEW kids \in Seq(S), NEW list \in Seq(S), list # <<>>,
         IsInjective(kids), IsInjective(list),
         Range(kids) \cap Range(list) = {}
  PROVE  /\ kids \o Tail(list) \in Seq(S)
         /\ IsInjective(kids \o Tail(list))
         /\ Range(kids \o Tail(list)) = Range(kids) \cup (Range(list) \ {Head(list)})
<1> DEFINE both == kids \o Tail(list)
<1>1. Tail(list) \in Seq(S) /\ Len(Tail(list)) = Len(list) - 1
  OBVIOUS
<1>2. both \in Seq(S) /\ Len(both) = Len(kids) + Len(list) - 1
  BY <1>1
<1>3. \A k \in 1..Len(kids) : both[k] = kids[k]
  BY <1>1
<1>4. \A k \in (Len(kids) + 1)..Len(both) :
        /\ k - Len(kids) + 1 \in 2..Len(list)
        /\ both[k] = list[k - Len(kids) + 1]
  BY <1>1, <1>2
<1>5. \A k \in 1..Len(kids) : kids[k] \in Range(kids)
  BY DEF Range
<1>6. \A k \in 1..Len(list) : list[k] \in Range(list)
  BY DEF Range
<1> HIDE DEF both
<1>7. ASSUME NEW j \in 1..Len(both), NEW k \in 1..Len(both), both[j] = both[k]
      PROVE  j = k
  <2>1. CASE j <= Len(kids) /\ k <= Len(kids)
    BY <1>3, <1>7, <2>1 DEF IsInjective
  <2>2. CASE j > Len(kids) /\ k > Len(kids)
    <3>1. j \in (Len(kids) + 1)..Len(both) /\ k \in (Len(kids) + 1)..Len(both)
      BY <1>2, <2>2
    <3>2. /\ j - Len(kids) + 1 \in DOMAIN list /\ k - Len(kids) + 1 \in DOMAIN list
          /\ list[j - Len(kids) + 1] = list[k - Len(kids) + 1]
      BY <1>4, <1>7, <3>1
    <3>3. j - Len(kids) + 1 = k - Len(kids) + 1
      BY <3>2 DEF IsInjective
    <3> QED
      BY <3>3
  <2>3. ASSUME NEW x \in 1..Len(both), NEW y \in 1..Len(both), x <= Len(kids),
               y > Len(kids), both[x] = both[y]
        PROVE  FALSE
    <3>1. both[x] \in Range(kids)
      BY <1>3, <1>5, <2>3
    <3>2. y \in (Len(kids) + 1)..Len(both)
      BY <1>2, <2>3
    <3>3. both[y] \in Range(list)
      BY <1>4, <1>6, <3>2
    <3> QED
      BY <2>3, <3>1, <3>3
  <2> QED
    BY <1>7, <2>1, <2>2, <2>3
<1>8. IsInjective(both)
  BY <1>2, <1>7 DEF IsInjective
<1>9. Range(both) = Range(kids) \cup (Range(list) \ {Head(list)})
  <2>1. ASSUME NEW x \in Range(both)
        PROVE  x \in Range(kids) \cup (Range(list) \ {Head(list)})
    <3>1. PICK k \in 1..Len(both) : both[k] = x
      BY <1>2 DEF Range
    <3>2. CASE k <= Len(kids)
      BY <1>3, <1>5, <3>1, <3>2
    <3>3. CASE k > Len(kids)
      <4>1. k \in (Len(kids) + 1)..Len(both)
        BY <3>3
      <4>2. PICK j \in 2..Len(list) : x = list[j]
        BY <1>4, <3>1, <4>1
      <4>3. list[j] # list[1]
        BY <4>2 DEF IsInjective
      <4> QED
        BY <1>6, <4>2, <4>3
    <3> QED
      BY <3>2, <3>3
  <2>2. ASSUME NEW x \in Range(kids)
        PROVE  x \in Range(both)
    <3>1. PICK k \in 1..Len(kids) : kids[k] = x
      BY DEF Range
    <3> QED
      BY <1>2, <1>3, <3>1 DEF Range
  <2>3. ASSUME NEW x \in Range(list) \ {Head(list)}
        PROVE  x \in Range(both)
    <3>1. PICK j \in 2..Len(list) : list[j] = x
      BY DEF Range
    <3>2. /\ j + Len(kids) - 1 \in (Len(kids) + 1)..Len(both)
          /\ j + Len(kids) - 1 - Len(kids) + 1 = j
      BY <1>2
    <3>3. both[j + Len(kids) - 1] = x
      BY <1>4, <3>1, <3>2
    <3>4. j + Len(kids) - 1 \in DOMAIN both
      BY <1>2, <3>2
    <3> QED
      BY <3>3, <3>4 DEF Range
  <2> QED
    BY <2>1, <2>2, <2>3
<1> QED
  BY <1>2, <1>8, <1>9 DEF both

\* What is asked for depends on the tree, the style and the pass alone.
LEMMA SameReplaces ==
  ASSUME UNCHANGED <<style, tree, pass>>
  PROVE  \A n : Replaces(n)' = Replaces(n)
<1>1. UNCHANGED nodes
  BY DEF nodes
<1>2. \A n : Kind(n)' = Kind(n)
  BY <1>1 DEF Kind
<1>3. \A n, k : Kid(n, k)' = Kid(n, k)
  BY <1>1 DEF Kid
<1>4. \A n : ConditionalBodies(n)' = ConditionalBodies(n)
  BY <1>1, <1>2, <1>3 DEF ConditionalBodies
<1>5. \A n : ProceduralBody(n)' = ProceduralBody(n)
  BY <1>2, <1>3 DEF ProceduralBody
<1>6. \A n : InsertBeginEnd(n)' = InsertBeginEnd(n)
  <2> TAKE n
  <2>1. \A S : WrapInBlock(S)' = WrapInBlock(S)
    BY <1>2 DEF WrapInBlock
  <2> DEFINE real == {c \in DOMAIN nodes : Kind(c) \in StatementKinds \ {"Empty"}}
  <2>2. real' = real
    BY <1>1, <1>2
  <2>3. /\ Kind(n)' = Kind(n) /\ Kid(n, 1)' = Kid(n, 1) /\ style' = style
        /\ ConditionalBodies(n)' = ConditionalBodies(n)
        /\ ProceduralBody(n)' = ProceduralBody(n)
    BY <1>2, <1>3, <1>4, <1>5
  <2> HIDE DEF real
  <2>4. InsertBeginEnd(n)' = WrapInBlock(
          CASE Kind(n) = "Conditional" /\ "control" \in style.bodies -> ConditionalBodies(n)
            [] Kind(n) = "Loop" /\ "control" \in style.bodies -> {Kid(n, 1)}
            [] Kind(n) = "CaseItem" /\ "control" \in style.bodies -> {Kid(n, 1)} \cap real
            [] Kind(n) = "Always" /\ "always" \in style.bodies -> {ProceduralBody(n)}
            [] Kind(n) = "Initial" /\ "initial" \in style.bodies -> {ProceduralBody(n)}
            [] OTHER -> {})
    BY <2>1, <2>2, <2>3, Zenon DEF InsertBeginEnd, real
  <2> QED
    BY <2>4 DEF InsertBeginEnd, real
<1>7. \A n : InsertParens(n)' = InsertParens(n)
  BY <1>1, <1>2, <1>3 DEF InsertParens, HasParens
<1>8. \A n : RewriteSeparator(n)' = RewriteSeparator(n)
  BY <1>1, <1>2 DEF RewriteSeparator, Separator
<1>9. \A n, kind, order : SwapBounds(n, kind, order)' = SwapBounds(n, kind, order)
  BY <1>1, <1>2 DEF SwapBounds
<1> QED
  BY <1>6, <1>7, <1>8, <1>9 DEF Replaces

LEMMA VisitStep ==
  ASSUME IInv, Visit
  PROVE  Visits' /\ NoNodeReplacedTwice'
<1>1. PICK n \in DOMAIN nodes : n = Head(todo) /\ n \in Range(todo)
  BY DEF IInv, Visits, Visit, Range
<1> DEFINE kids == IF Descends(n) THEN nodes[n].kids ELSE <<>>
<1>2. /\ Shape /\ todo \in Seq(DOMAIN nodes) /\ todo # <<>> /\ changes \subseteq DOMAIN nodes
      /\ n \in Range(todo) /\ UNCHANGED nodes
  BY <1>1 DEF IInv, Visits, Visit, nodes
<1>3. PICK seen \in SUBSET DOMAIN nodes : Visited(seen)
  BY DEF IInv, Visits, Visit
<1>4. /\ kids \in Seq(DOMAIN nodes) /\ IsInjective(kids)
      /\ Range(kids) \subseteq KidSet(nodes, n)
  <2>1. CASE Descends(n)
    BY <1>2, <2>1, KidsOf DEF KidSet
  <2>2. CASE ~Descends(n)
    BY <2>2 DEF IsInjective, Range
  <2> QED
    BY <2>1, <2>2
<1>5. /\ todo' = kids \o Tail(todo)
      /\ changes' = changes \cup Replaces(n)
      /\ pc' = IF Replaces(n) \cap changes = {} THEN "visit" ELSE "threw"
  BY <1>1 DEF Visit
<1>6. n \notin seen
  BY <1>2, <1>3 DEF Visited
<1>7. \A k \in KidSet(nodes, n) : k \notin seen \cup Range(todo)
  BY <1>2, <1>3, <1>6 DEF Visited
<1> HIDE DEF kids
<1>8. /\ todo' \in Seq(DOMAIN nodes) /\ IsInjective(todo')
      /\ Range(todo') = Range(kids) \cup (Range(todo) \ {n})
  BY <1>1, <1>2, <1>3, <1>4, <1>5, <1>7, ListsJoined DEF Visited
<1>9. Replaces(n) \cap changes = {}
  <2> SUFFICES ASSUME NEW c \in changes, c \in Replaces(n)
               PROVE  FALSE
    OBVIOUS
  <2>1. PICK m \in seen : c \in Replaces(m)
    BY <1>3 DEF Visited
  <2>2. m = n
    BY <1>2, <2>1, ReplacesDisjoint
  <2> QED
    BY <1>6, <2>1, <2>2
<1>10. pc' = "visit"
  BY <1>5, <1>9
<1>11. Replaces(n) \subseteq DOMAIN nodes
  BY <1>2, ReplacesNodes
<1>12. \A m : Replaces(m)' = Replaces(m)
  BY SameReplaces DEF Visit
<1>13. Visited(seen \cup {n})'
  <2> DEFINE now == seen \cup {n}
  <2>1. Range(todo') \cap now = {}
    <3>1. n \notin Range(kids)
      BY <1>2, <1>4, <1>7
    <3> QED
      BY <1>3, <1>4, <1>7, <1>8, <3>1 DEF Visited
  <2>2. ASSUME NEW p \in DOMAIN nodes, NEW k \in KidSet(nodes, p),
               k \in now \cup Range(todo')
        PROVE  p \in now
    <3>1. CASE k \in seen \cup Range(todo)
      BY <1>3, <2>2, <3>1 DEF Visited
    <3>2. CASE k \in Range(kids)
      BY <1>2, <1>4, <2>2, <3>2, OneParent
    <3> QED
      BY <1>2, <1>8, <2>2, <3>1, <3>2
  <2>3. ASSUME NEW c \in changes'
        PROVE  \E m \in now : c \in Replaces(m)'
    BY <1>3, <1>5, <1>12, <2>3 DEF Visited
  <2>4. \A p \in DOMAIN nodes' : \A k \in KidSet(nodes', p) :
          k \in now \cup Range(todo') => p \in now
    BY <1>2, <2>2
  <2> HIDE DEF now
  <2>5. Visited(now)'
    BY <1>8, <2>1, <2>3, <2>4 DEF Visited
  <2> QED
    BY <2>5 DEF now
<1>14. \E set \in SUBSET DOMAIN nodes' : Visited(set)'
  BY <1>2, <1>13
<1>15. changes' \subseteq DOMAIN nodes'
  BY <1>2, <1>5, <1>11
<1> QED
  BY <1>2, <1>8, <1>10, <1>14, <1>15 DEF Visits, NoNodeReplacedTwice

-----------------------------------------------------------------------------
(* The replacements. *)

\* A nonempty set of numbers up to a bound has a largest one.
LEMMA LargestNumber ==
  ASSUME NEW bound \in Nat, NEW S, S \subseteq 1..bound, S # {}
  PROVE  \E last \in S : S \subseteq 1..last
<1> DEFINE T == {m \in Nat : S \subseteq 1..m}
<1>1. PICK m \in T : \A y \in T : m <= y
  <2>1. T \subseteq Nat /\ T # {}
    OBVIOUS
  <2> HIDE DEF T
  <2> QED
    BY <2>1, LeastNumber
<1>2. ASSUME m \notin S
      PROVE  FALSE
  <2>1. m \in Nat /\ S \subseteq 1..m
    OBVIOUS
  <2>2. PICK s \in S : TRUE
    OBVIOUS
  <2>3. m - 1 \in Nat
    BY <2>1, <2>2
  <2>4. S \subseteq 1..(m - 1)
    BY <1>2, <2>1
  <2> QED
    BY <1>1, <2>1, <2>3, <2>4
<1> QED
  BY <1>2

LEMMA LastNode ==
  ASSUME Shape
  PROVE  /\ Max(DOMAIN nodes) \in DOMAIN nodes
         /\ Max(DOMAIN nodes) \in Nat
         /\ DOMAIN nodes \subseteq 1..Max(DOMAIN nodes)
<1>1. PICK last \in DOMAIN nodes : DOMAIN nodes \subseteq 1..last
  BY DEF Shape, IsSyntaxTree, IsTree, nodes
<1>2. \A n \in DOMAIN nodes : last >= n /\ n \in Nat
  BY <1>1
<1>3. /\ Max(DOMAIN nodes) \in DOMAIN nodes
      /\ \A n \in DOMAIN nodes : Max(DOMAIN nodes) >= n
  BY <1>2 DEF Max
<1> QED
  BY <1>1, <1>2, <1>3

\* The nodes put around others, and the others.
IsSurrounded(after, kind, inner) ==
  /\ DOMAIN after = DOMAIN nodes \cup {Around(i) : i \in inner}
  /\ \A i \in inner : /\ Around(i) > Max(DOMAIN nodes)
                      /\ after[Around(i)] = Plain(kind, <<i>>)
  /\ \A n \in DOMAIN nodes :
       /\ after[n] \in Node
       /\ after[n].kind = nodes[n].kind
       /\ after[n].sep = nodes[n].sep /\ after[n].bounds = nodes[n].bounds
       /\ after[n].parens = nodes[n].parens
       /\ Len(after[n].kids) = Len(nodes[n].kids)
       /\ after[n].kids \in Seq(Nat)
       /\ \A k \in DOMAIN nodes[n].kids :
            after[n].kids[k] = IF nodes[n].kids[k] \in inner
                               THEN Around(nodes[n].kids[k]) ELSE nodes[n].kids[k]

LEMMA Surrounded ==
  ASSUME Shape, NEW inner \in SUBSET DOMAIN nodes, NEW kind \in Kinds,
         NEW after, after = Surround(kind, inner)
  PROVE  IsSurrounded(after, kind, inner)
<1> DEFINE last == Max(DOMAIN nodes)
<1>1. last \in Nat /\ DOMAIN nodes \subseteq 1..last
  BY LastNode
<1> HIDE DEF last
<1>2. \A n : Around(n) = n + last
  BY DEF Around, last
<1>3. DOMAIN after = DOMAIN nodes \cup {Around(i) : i \in inner}
  BY DEF Surround
<1>4. \A i \in inner : Around(i) > last /\ Around(i) - last = i
  BY <1>1, <1>2
<1>5. \A i \in inner : after[Around(i)] = Plain(kind, <<i>>)
  BY <1>4 DEF Surround, last
<1>6. ASSUME NEW n \in DOMAIN nodes
      PROVE  /\ after[n] \in Node
             /\ after[n].kind = nodes[n].kind
             /\ after[n].sep = nodes[n].sep /\ after[n].bounds = nodes[n].bounds
             /\ after[n].parens = nodes[n].parens
             /\ Len(after[n].kids) = Len(nodes[n].kids)
             /\ after[n].kids \in Seq(Nat)
             /\ \A k \in DOMAIN nodes[n].kids :
                  after[n].kids[k] = IF nodes[n].kids[k] \in inner
                                     THEN Around(nodes[n].kids[k]) ELSE nodes[n].kids[k]
  <2> DEFINE kids == [k \in DOMAIN nodes[n].kids |->
                        IF nodes[n].kids[k] \in inner
                        THEN Around(nodes[n].kids[k]) ELSE nodes[n].kids[k]]
  <2>1. n \notin {Around(i) : i \in inner}
    <3>1. n <= last /\ n \in Nat
      BY <1>1
    <3>2. SUFFICES ASSUME NEW i \in inner, n = Around(i)
                   PROVE  FALSE
      OBVIOUS
    <3> QED
      BY <1>1, <1>4, <3>1, <3>2
  <2>2. after[n] = [nodes[n] EXCEPT !.kids = kids]
    BY <2>1 DEF Surround
  <2>3. nodes[n] \in Node /\ nodes[n].kids \in Seq(DOMAIN nodes)
    BY KidsOf
  <2>4. kids \in Seq(Nat) /\ Len(kids) = Len(nodes[n].kids)
    <3>1. DOMAIN kids = 1..Len(nodes[n].kids)
      BY <2>3
    <3>2. ASSUME NEW k \in 1..Len(nodes[n].kids)
          PROVE  kids[k] \in Nat
      <4>1. nodes[n].kids[k] \in Nat
        BY <1>1, <2>3
      <4> QED
        BY <1>1, <1>2, <2>3, <4>1
    <3>3. Len(nodes[n].kids) \in Nat
      BY <2>3
    <3>4. kids \in [1..Len(nodes[n].kids) -> Nat]
      BY <3>1, <3>2
    <3> HIDE DEF kids
    <3> QED
      BY <3>3, <3>4
  <2> HIDE DEF kids
  <2>5. /\ after[n] \in Node /\ after[n].kids = kids /\ after[n].kind = nodes[n].kind
        /\ after[n].sep = nodes[n].sep /\ after[n].bounds = nodes[n].bounds
        /\ after[n].parens = nodes[n].parens
    BY <2>2, <2>3, <2>4 DEF Node
  <2> QED
    BY <2>4, <2>5 DEF kids
<1> QED
  BY <1>3, <1>4, <1>6, <1>5 DEF last, IsSurrounded

LEMMA SurroundIsTree ==
  ASSUME Shape, NEW inner \in SUBSET (DOMAIN nodes \ {tree.root}),
         NEW kind \in {"Block", "Parens"}, NEW after, after = Surround(kind, inner)
  PROVE  IsSyntaxTree([nodes |-> after, root |-> tree.root])
<1> DEFINE last == Max(DOMAIN nodes)
           outer == {Around(i) : i \in inner}
<1>1. /\ last \in Nat /\ last \in DOMAIN nodes /\ DOMAIN nodes \subseteq 1..last
      /\ inner \subseteq DOMAIN nodes /\ inner \subseteq 1..last
      /\ tree.root \in DOMAIN nodes /\ tree.root \notin inner
      /\ \A n : Around(n) = n + last
  BY LastNode DEF Around, Shape, IsSyntaxTree, IsTree, nodes
<1>2. /\ DOMAIN after = DOMAIN nodes \cup outer
      /\ \A i \in inner : Around(i) > last /\ after[Around(i)] = Plain(kind, <<i>>)
      /\ \A n \in DOMAIN nodes :
           /\ after[n] \in Node
           /\ after[n].kind = nodes[n].kind
           /\ Len(after[n].kids) = Len(nodes[n].kids)
           /\ after[n].kids \in Seq(Nat)
           /\ \A k \in DOMAIN nodes[n].kids :
                after[n].kids[k] = IF nodes[n].kids[k] \in inner
                                   THEN Around(nodes[n].kids[k]) ELSE nodes[n].kids[k]
  <2>1. inner \in SUBSET DOMAIN nodes /\ kind \in Kinds
    BY <1>1 DEF Kinds, StatementKinds
  <2>2. IsSurrounded(after, kind, inner)
    BY <2>1, Surrounded
  <2> QED
    BY <2>2 DEF IsSurrounded
<1>3. after = [n \in DOMAIN after |-> after[n]]
  BY DEF Surround
<1> HIDE DEF last
<1>4. \A n \in DOMAIN nodes :
        /\ nodes[n].kids \in Seq(DOMAIN nodes)
        /\ DOMAIN nodes[n].kids = 1..Len(nodes[n].kids)
        /\ DOMAIN after[n].kids = DOMAIN nodes[n].kids
        /\ \A k \in DOMAIN nodes[n].kids :
             nodes[n].kids[k] \in DOMAIN nodes /\ nodes[n].kids[k] # tree.root
  <2> TAKE n \in DOMAIN nodes
  <2>1. nodes[n].kids \in Seq(DOMAIN nodes) /\ tree.root \notin KidSet(nodes, n)
    BY KidsOf
  <2> QED
    BY <1>2, <2>1 DEF KidSet, Range
<1>5. \A n \in DOMAIN nodes : \A k \in DOMAIN after[n].kids :
         \E c \in DOMAIN nodes \ {tree.root} :
           /\ k \in DOMAIN nodes[n].kids /\ nodes[n].kids[k] = c
           /\ c \in inner => after[n].kids[k] = c + last
           /\ c \notin inner => after[n].kids[k] = c
  <2> TAKE n \in DOMAIN nodes
  <2> TAKE k \in DOMAIN after[n].kids
  <2>1. /\ k \in DOMAIN nodes[n].kids
        /\ nodes[n].kids[k] \in DOMAIN nodes \ {tree.root}
    BY <1>4
  <2>2. after[n].kids[k] = IF nodes[n].kids[k] \in inner
                           THEN Around(nodes[n].kids[k]) ELSE nodes[n].kids[k]
    BY <1>2, <2>1
  <2> QED
    BY <1>1, <2>1, <2>2
<1>6. \A i \in inner :
        /\ after[Around(i)] \in Node /\ HasParts(after[Around(i)])
        /\ after[Around(i)].kids = <<i>>
        /\ DOMAIN after[Around(i)].kids = {1} /\ after[Around(i)].kids[1] = i
  <2> TAKE i \in inner
  <2>1. i \in Nat /\ <<i>> \in Seq(Nat) /\ <<>> \in Seq(Nat)
    BY <1>1
  <2>2. Plain(kind, <<i>>) \in Node /\ Plain(kind, <<i>>).kids = <<i>>
    BY <2>1 DEF Plain, Node, Kinds, StatementKinds
  <2>3. HasParts(Plain(kind, <<i>>))
    BY DEF Plain, HasParts, ControlKinds
  <2> QED
    BY <1>2, <2>2, <2>3
<1>7. after \in [DOMAIN after -> Node]
  <2>1. \A n \in DOMAIN after : after[n] \in Node
    BY <1>2, <1>6
  <2> QED
    BY <1>3, <2>1
<1>8. \A n \in DOMAIN after : HasParts(after[n])
  <2> SUFFICES ASSUME NEW n \in DOMAIN nodes
               PROVE  HasParts(after[n])
    BY <1>2, <1>6
  <2>1. HasParts(nodes[n])
    BY DEF Shape, IsSyntaxTree, nodes
  <2>2. nodes[n].kids = <<>> <=> after[n].kids = <<>>
    BY <1>2, <1>4
  <2> QED
    BY <1>2, <2>1, <2>2 DEF HasParts
<1>9. \E top \in DOMAIN after : DOMAIN after \subseteq 1..top
  <2>1. DOMAIN after \subseteq 1..(last + last) /\ last + last \in Nat /\ DOMAIN after # {}
    BY <1>1, <1>2
  <2> QED
    BY <2>1, LargestNumber
<1>10. \A p \in DOMAIN after : KidSet(after, p) \subseteq DOMAIN after \ {tree.root}
  <2>1. ASSUME NEW n \in DOMAIN nodes, NEW k \in DOMAIN after[n].kids
        PROVE  after[n].kids[k] \in DOMAIN after \ {tree.root}
    <3>1. PICK c \in DOMAIN nodes \ {tree.root} :
            /\ c \in inner => after[n].kids[k] = c + last
            /\ c \notin inner => after[n].kids[k] = c
      BY <1>5
    <3>2. CASE c \in inner
      <4>1. after[n].kids[k] = Around(c) /\ Around(c) > last
        BY <1>1, <1>2, <3>1, <3>2
      <4>2. tree.root \in 1..last
        BY <1>1
      <4> QED
        BY <1>1, <1>2, <3>2, <4>1, <4>2
    <3> QED
      BY <1>2, <3>1, <3>2
  <2>2. \A i \in inner : i \in DOMAIN after \ {tree.root}
    BY <1>1, <1>2
  <2> QED
    BY <1>2, <1>4, <1>6, <2>1, <2>2 DEF KidSet, Range
<1>11. \A n \in DOMAIN after \ {tree.root} : \E p \in DOMAIN after : n \in KidSet(after, p)
  <2>1. ASSUME NEW c \in DOMAIN nodes \ {tree.root}
        PROVE  \E p \in DOMAIN nodes :
                 (IF c \in inner THEN Around(c) ELSE c) \in KidSet(after, p)
    <3>1. PICK p \in DOMAIN nodes : c \in KidSet(nodes, p)
      BY DEF Shape, IsSyntaxTree, IsTree, nodes
    <3>2. PICK k \in DOMAIN nodes[p].kids : nodes[p].kids[k] = c
      BY <3>1 DEF KidSet, Range
    <3>3. after[p].kids[k] = IF c \in inner THEN Around(c) ELSE c
      BY <1>2, <3>2
    <3>4. k \in DOMAIN after[p].kids
      BY <1>4, <3>2
    <3> QED
      BY <3>3, <3>4 DEF KidSet, Range
  <2>2. \A i \in inner : i \in KidSet(after, Around(i))
    BY <1>6 DEF KidSet, Range
  <2> TAKE n \in DOMAIN after \ {tree.root}
  <2>3. CASE n \in inner
    BY <1>2, <2>2, <2>3
  <2>4. CASE n \in DOMAIN nodes \ inner
    BY <1>2, <2>1, <2>4
  <2>5. CASE n \in outer
    <3>1. PICK i \in inner : n = Around(i)
      BY <2>5
    <3> QED
      BY <1>1, <1>2, <2>1, <3>1
  <2> QED
    BY <1>2, <2>3, <2>4, <2>5
<1>12. ASSUME NEW p \in DOMAIN after, NEW q \in DOMAIN after,
              NEW j \in DOMAIN after[p].kids, NEW k \in DOMAIN after[q].kids,
              after[p].kids[j] = after[q].kids[k]
       PROVE  p = q /\ j = k
  <2>1. CASE p \in DOMAIN nodes /\ q \in DOMAIN nodes
    <3>1. PICK c \in DOMAIN nodes :
            /\ j \in DOMAIN nodes[p].kids /\ nodes[p].kids[j] = c
            /\ c \in inner => after[p].kids[j] = c + last
            /\ c \notin inner => after[p].kids[j] = c
      BY <1>5, <2>1
    <3>2. PICK d \in DOMAIN nodes :
            /\ k \in DOMAIN nodes[q].kids /\ nodes[q].kids[k] = d
            /\ d \in inner => after[q].kids[k] = d + last
            /\ d \notin inner => after[q].kids[k] = d
      BY <1>5, <2>1
    <3>3. c \in 1..last /\ d \in 1..last
      BY <1>1
    <3>4. c = d
      BY <1>1, <1>12, <3>1, <3>2, <3>3
    <3> QED
      BY <2>1, <3>1, <3>2, <3>4 DEF Shape, IsSyntaxTree, IsTree, nodes
  <2>2. CASE p \in outer /\ q \in outer
    BY <1>6, <1>12, <2>2
  <2>3. ASSUME NEW n \in DOMAIN nodes, NEW l \in DOMAIN after[n].kids, NEW i \in inner
        PROVE  after[n].kids[l] # i
    <3>1. PICK c \in DOMAIN nodes :
            /\ c \in inner => after[n].kids[l] = c + last
            /\ c \notin inner => after[n].kids[l] = c
      BY <1>5
    <3>2. c \in 1..last /\ i \in 1..last
      BY <1>1
    <3> QED
      BY <1>1, <3>1, <3>2
  <2>4. \A r \in outer : \A l \in DOMAIN after[r].kids : after[r].kids[l] \in inner
    BY <1>6
  <2> QED
    BY <1>2, <1>12, <2>1, <2>2, <2>3, <2>4
<1>13. IsTree([nodes |-> after, root |-> tree.root])
  <2> DEFINE t == [nodes |-> after, root |-> tree.root]
  <2>1. t.nodes = after /\ t.root = tree.root
    OBVIOUS
  <2>2. tree.root \in DOMAIN after
    BY <1>1, <1>2
  <2> HIDE DEF t
  <2>3. IsTree(t)
    BY <1>9, <1>10, <1>11, <1>12, <2>1, <2>2 DEF IsTree
  <2> QED
    BY <2>3 DEF t
<1> QED
  BY <1>7, <1>8, <1>13 DEF IsSyntaxTree

\* Nodes may change in other things than their kind and children.
LEMMA SameKids ==
  ASSUME NEW t, IsSyntaxTree(t), NEW after \in [DOMAIN t.nodes -> Node],
         \A n \in DOMAIN t.nodes : /\ after[n].kids = t.nodes[n].kids
                                   /\ after[n].kind = t.nodes[n].kind
  PROVE  IsSyntaxTree([nodes |-> after, root |-> t.root])
<1> DEFINE new == [nodes |-> after, root |-> t.root]
<1>1. new.nodes = after /\ new.root = t.root /\ new \in [nodes : {after}, root : {t.root}]
  OBVIOUS
<1>2. DOMAIN after = DOMAIN t.nodes
  OBVIOUS
<1>3. \A n \in DOMAIN after : KidSet(after, n) = KidSet(t.nodes, n)
  BY <1>2 DEF KidSet, Range
<1> HIDE DEF new
<1>4. IsTree(new)
  BY <1>1, <1>2, <1>3 DEF IsTree, IsSyntaxTree
<1>5. \A n \in DOMAIN after : HasParts(after[n])
  BY <1>2 DEF HasParts, IsSyntaxTree
<1>6. IsSyntaxTree(new)
  BY <1>1, <1>2, <1>4, <1>5 DEF IsSyntaxTree
<1> QED
  BY <1>6 DEF new

\* Only nodes that were asked for are replaced.
LEMMA ChangesOf ==
  ASSUME IInv, pc = "visit", NEW c \in changes
  PROVE  \E n \in DOMAIN nodes : c \in Replaces(n)
<1>1. PICK seen \in SUBSET DOMAIN nodes : Visited(seen)
  BY DEF IInv, Visits
<1> QED
  BY <1>1 DEF Visited

LEMMA ReplacedIsTree ==
  ASSUME IInv, pc = "visit"
  PROVE  IsSyntaxTree([nodes |-> Replaced, root |-> tree.root])
<1> USE DEF IInv
<1>1. /\ IsSyntaxTree(tree) /\ tree.nodes = nodes
      /\ \A n \in DOMAIN nodes : nodes[n] \in Node
  BY DEF Shape, IsSyntaxTree, nodes
<1>2. Effective \subseteq changes /\ changes \subseteq DOMAIN nodes
  BY DEF Effective, Visits
<1>3. CASE pass = 1
  <2>1. \A c \in changes : c # tree.root
    BY <1>3, ChangesOf, ReplacesNodes
  <2>2. Effective \in SUBSET (DOMAIN nodes \ {tree.root})
    BY <1>2, <2>1
  <2>3. Replaced = Surround("Block", Effective)
    BY <1>3 DEF Replaced, Passes
  <2> QED
    BY <2>2, <2>3, SurroundIsTree
<1>4. CASE pass = 2
  <2> DEFINE implicit == {n \in Effective : Kind(n) = "ImplicitControl"}
             inner == {Kid(n, 1) : n \in Effective \ implicit}
             surrounded == Surround("Parens", inner)
             after == [n \in DOMAIN surrounded |->
                         IF n \in implicit THEN [surrounded[n] EXCEPT !.parens = TRUE]
                         ELSE surrounded[n]]
  <2>1. Replaced = after
    BY <1>4 DEF Replaced, Passes
  <2>2. ASSUME NEW c \in Effective \ implicit
        PROVE  Kid(c, 1) \in DOMAIN nodes \ {tree.root}
    <3>1. PICK n \in DOMAIN nodes : c \in Replaces(n)
      BY <1>2, ChangesOf
    <3>2. c = n /\ Kind(c) \in style.parens
      BY <1>4, <3>1 DEF Replaces, Passes, InsertParens
    <3>3. style.parens \subseteq ControlKinds
      BY DEF Shape, Style
    <3>4. 1 \in DOMAIN nodes[c].kids
      BY <3>2, <3>3, FirstKid
    <3>5. Kid(c, 1) \in KidSet(nodes, c) /\ Kid(c, 1) \in DOMAIN nodes
      BY <3>2, <3>4, KidInKidSet
    <3> QED
      BY <3>2, <3>5, KidsOf
  <2>3. inner \in SUBSET (DOMAIN nodes \ {tree.root})
    BY <2>2
  <2> HIDE DEF implicit, inner, surrounded
  <2>4. IsSyntaxTree([nodes |-> surrounded, root |-> tree.root])
    BY <2>3, SurroundIsTree DEF surrounded
  <2>5. surrounded \in [DOMAIN surrounded -> Node]
    BY <2>4 DEF IsSyntaxTree
  <2>6. after \in [DOMAIN surrounded -> Node]
    BY <2>5 DEF Node
  <2>7. \A n \in DOMAIN surrounded : /\ after[n].kids = surrounded[n].kids
                                     /\ after[n].kind = surrounded[n].kind
    BY <2>5 DEF Node
  <2> HIDE DEF after
  <2>8. IsSyntaxTree([nodes |-> after, root |-> tree.root])
    <3> DEFINE t == [nodes |-> surrounded, root |-> tree.root]
    <3>1. t.nodes = surrounded /\ t.root = tree.root /\ IsSyntaxTree(t)
      BY <2>4
    <3> HIDE DEF t
    <3> QED
      BY <2>6, <2>7, <3>1, SameKids
  <2> QED
    BY <2>1, <2>8
<1>5. CASE pass = 3
  <2> DEFINE after == [n \in DOMAIN nodes |->
                         IF n \in Effective
                         THEN [nodes[n] EXCEPT !.sep = IF @ = "or" THEN "," ELSE "or"]
                         ELSE nodes[n]]
  <2>1. Replaced = after
    BY <1>5 DEF Replaced, Passes
  <2>2. after \in [DOMAIN nodes -> Node]
    BY <1>1 DEF Node
  <2>3. \A n \in DOMAIN nodes : after[n].kids = nodes[n].kids /\ after[n].kind = nodes[n].kind
    BY <1>1 DEF Node
  <2> HIDE DEF after
  <2> QED
    BY <1>1, <2>1, <2>2, <2>3, SameKids
<1>6. CASE pass \in {4, 5}
  <2> DEFINE after == [n \in DOMAIN nodes |->
                         IF n \in Effective THEN [nodes[n] EXCEPT !.bounds = Reverse(@)]
                         ELSE nodes[n]]
  <2>1. Passes[pass] \notin {"BeginEnd", "Parens", "Separator"}
    BY <1>6 DEF Passes
  <2>2. Replaced = after
    BY <2>1 DEF Replaced
  <2>3. ASSUME NEW s \in Seq(Nat)
        PROVE  Reverse(s) \in Seq(Nat)
    <3>1. \A i \in 1..Len(s) : s[(Len(s) - i) + 1] \in Nat
      OBVIOUS
    <3>2. Reverse(s) \in [1..Len(s) -> Nat]
      BY <3>1 DEF Reverse
    <3> QED
      BY <3>2
  <2>4. after \in [DOMAIN nodes -> Node]
    BY <1>1, <2>3 DEF Node
  <2>5. \A n \in DOMAIN nodes : after[n].kids = nodes[n].kids /\ after[n].kind = nodes[n].kind
    BY <1>1 DEF Node
  <2> HIDE DEF after
  <2> QED
    BY <1>1, <2>4, <2>5, <2>2, SameKids
<1> QED
  BY <1>3, <1>4, <1>5, <1>6 DEF Shape

LEMMA CommitStep ==
  ASSUME IInv, Commit
  PROVE  Shape' /\ Visits'
<1>1. IsSyntaxTree([nodes |-> Replaced, root |-> tree.root])
  BY ReplacedIsTree DEF Commit
<1>2. tree' = [nodes |-> Replaced, root |-> tree.root]
  BY DEF Commit, IInv, Shape, IsSyntaxTree
<1>3. IsSyntaxTree(tree)'
  BY <1>1, <1>2 DEF IsSyntaxTree, IsTree, KidSet, HasParts, Range
<1>4. pass' \in 1..5 /\ pc' \in {"start", "done"}
  BY DEF Commit, NextPass, Passes, IInv, Shape
<1>5. rounds' \in [1..5 -> Nat]
  BY MaxRoundsAssumption DEF Commit, IInv, Shape
<1>6. todo' = <<>> /\ changes' = {} /\ style' = style
  BY DEF Commit
<1> QED
  BY <1>3, <1>4, <1>5, <1>6 DEF Shape, Visits, IInv

-----------------------------------------------------------------------------
(* The specification. *)

LEMMA InitInv == Init => IInv
<1> SUFFICES ASSUME Init PROVE IInv
  OBVIOUS
<1>1. IsSyntaxTree(tree) /\ style \in Style
  BY TreesAssumption, StylesAssumption DEF Init
<1>2. rounds \in [1..5 -> Nat]
  BY DEF Init, Passes
<1> QED
  BY <1>1, <1>2 DEF Init, IInv, Shape, Visits, NoNodeReplacedTwice

LEMMA NextInv == IInv /\ [Next]_vars => IInv'
<1> SUFFICES ASSUME IInv, [Next]_vars PROVE IInv'
  OBVIOUS
<1>1. CASE SkipPass \/ Unchanged
  <2>1. /\ UNCHANGED <<style, tree, todo, changes, rounds>>
        /\ pass' \in 1..5 /\ pc' \in {"start", "done"}
    BY <1>1 DEF SkipPass, Unchanged, NextPass, Passes, IInv, Shape
  <2> QED
    BY <2>1 DEF IInv, Shape, Visits, NoNodeReplacedTwice, nodes
<1>2. CASE StartTransform
  <2>1. Visits'
    BY <1>2, StartVisits DEF IInv
  <2>2. UNCHANGED <<style, tree, pass, rounds>> /\ pc' = "visit"
    BY <1>2 DEF StartTransform
  <2> QED
    BY <2>1, <2>2 DEF IInv, Shape, NoNodeReplacedTwice
<1>3. CASE Visit
  <2>1. Visits' /\ NoNodeReplacedTwice'
    BY <1>3, VisitStep
  <2>2. UNCHANGED <<style, tree, pass, rounds>> /\ pc' \in {"visit", "threw"}
    BY <1>3 DEF Visit
  <2> QED
    BY <2>1, <2>2 DEF IInv, Shape
<1>4. CASE Commit
  <2>1. Shape' /\ Visits'
    BY <1>4, CommitStep
  <2>2. pc' # "threw"
    BY <1>4 DEF Commit, NextPass
  <2> QED
    BY <2>1, <2>2 DEF IInv, NoNodeReplacedTwice
<1>5. CASE UNCHANGED vars
  <2>1. UNCHANGED <<style, tree, pass, todo, changes, rounds, pc>>
    BY <1>5 DEF vars
  <2>2. \A n : Replaces(n)' = Replaces(n)
    BY <2>1, SameReplaces
  <2>3. \A seen : Visited(seen)' <=> Visited(seen)
    BY <2>1, <2>2 DEF Visited, nodes
  <2> QED
    BY <2>1, <2>3 DEF IInv, Shape, Visits, NoNodeReplacedTwice, nodes
<1> QED
  BY <1>1, <1>2, <1>3, <1>4, <1>5 DEF Next, Step, Done

THEOREM Invariance == Spec => []IInv
  BY InitInv, NextInv, PTL DEF Spec

\* Whatever tree was parsed, every pass leaves one that could have been: inserted
\* blocks and parentheses stand between a node and its parent, nothing is lost or
\* shared, and no handler looks for a part that its node does not have
\* (BeginEndRewriter, ParenthesesRewriter, SyntaxRewriter::transform).
THEOREM RewriterTypes == Spec => []TypeOK
<1>1. IInv => TypeOK
  BY DEF IInv, Shape, Visits, TypeOK, Range, Passes, nodes
<1> QED
  BY <1>1, Invariance, PTL

\* SyntaxRewriter::replace never throws: every node is visited at most once in a
\* transform, and no two handlers ask for the same node, however conditionals,
\* procedures and timing controls are nested.
THEOREM NoReplacementTwice == Spec => []NoNodeReplacedTwice
<1>1. IInv => NoNodeReplacedTwice
  BY DEF IInv
<1> QED
  BY <1>1, Invariance, PTL

-----------------------------------------------------------------------------
(* What the passes make of the parsed tree. *)

\* Every node is below its parent at some depth: the nodes hang together.
Rooted(ns) ==
  \E bound \in Nat : \E depth \in [DOMAIN ns -> 0..bound] :
    \A p \in DOMAIN ns : \A k \in KidSet(ns, p) : depth[p] < depth[k]

\* The parsed trees hang together.
TreesRooted == \A t \in Trees : Rooted(t.nodes)

LEMMA ParsedRooted == TreesRooted
<1>1. SUFFICES ASSUME NEW t \in Trees PROVE Rooted(t.nodes)
  BY DEF TreesRooted
<1>2. IsSyntaxTree(t) /\ \A p \in DOMAIN t.nodes : \A k \in KidSet(t.nodes, p) : p < k
  BY TreesAssumption, ParsedAssumption DEF NumberedDown
<1>3. PICK last \in DOMAIN t.nodes : DOMAIN t.nodes \subseteq 1..last
  BY <1>2 DEF IsSyntaxTree, IsTree
<1>4. last \in Nat
  BY <1>3
<1> DEFINE depth == [n \in DOMAIN t.nodes |-> n]
<1>5. depth \in [DOMAIN t.nodes -> 0..last]
  BY <1>3, <1>4
<1>6. \A p \in DOMAIN t.nodes : \A k \in KidSet(t.nodes, p) : depth[p] < depth[k]
  BY <1>2 DEF IsSyntaxTree, IsTree
<1> QED
  BY <1>4, <1>5, <1>6 DEF Rooted

\* m was put around c.
Wraps(ns, m, c) ==
  /\ m \in DOMAIN ns \ DOMAIN old
  /\ c \in DOMAIN old \ {source.root}
  /\ \/ WantsBlock(c) /\ ns[m] = Plain("Block", <<c>>)
     \/ WantsParens(c) /\ ns[m] = Plain("Parens", <<c>>)

\* The parsed nodes are all there, under their parents or under what was put
\* around them, and nothing else is.
Keeps(ns) ==
  /\ DOMAIN old \subseteq DOMAIN ns
  /\ \A n \in DOMAIN old :
       /\ ns[n].kind = old[n].kind
       /\ Len(ns[n].kids) = Len(old[n].kids)
       /\ \A k \in DOMAIN old[n].kids :
            ns[n].kids[k] = old[n].kids[k] \/ Wraps(ns, ns[n].kids[k], old[n].kids[k])
  /\ \A m \in DOMAIN ns \ DOMAIN old : \E c \in DOMAIN old : Wraps(ns, m, c)

Wrapped(ns, n) == n \notin KidSet(ns, Parent(old, n))

\* The passes that are over.
Passed == {p \in 1..5 : pc = "done" \/ p < pass}

WantedSep(n) == old[n].kind = "BinaryEvent" /\ style.separator # "Preserve"

WantedParens(n) == old[n].kind = "ImplicitControl" /\ "ImplicitControl" \in style.parens

WantedBounds(n, passed) ==
  CASE old[n].kind = "PackedRange" /\ 4 \in passed -> Ordered(old[n].bounds, style.packed)
    [] old[n].kind = "UnpackedRange" /\ 5 \in passed -> Ordered(old[n].bounds, style.unpacked)
    [] OTHER -> old[n].bounds

\* What node n says: only what is wanted has changed, and it has once its pass
\* is over.
WrittenAs(n, node, passed) ==
  /\ ~WantedSep(n) => node.sep = old[n].sep
  /\ WantedSep(n) /\ 3 \in passed => node.sep = Separator
  /\ WantedSep(n) /\ old[n].sep # "none" => node.sep # "none"
  /\ ~WantedParens(n) => node.parens = old[n].parens
  /\ WantedParens(n) /\ 2 \in passed => node.parens = TRUE
  /\ node.bounds = WantedBounds(n, passed)

Written(ns, passed) == \A n \in DOMAIN old : WrittenAs(n, ns[n], passed)

\* What is wanted around a node is there once its pass is over.
Enclosed(ns, passed) ==
  \A n \in DOMAIN old :
    (1 \in passed /\ WantsBlock(n)) \/ (2 \in passed /\ WantsParens(n)) => Wrapped(ns, n)

\* The visited nodes: the root is among them or to come, what they ask for is
\* to be replaced, and unless the visit stays above their children, these are
\* visited or to come as well.
Covered(seen) ==
  /\ tree.root \in seen \cup Range(todo)
  /\ \A n \in seen :
       /\ Replaces(n) \subseteq changes
       /\ Descends(n) => KidSet(nodes, n) \subseteq seen \cup Range(todo)

Covers ==
  pc = "visit" => /\ Applies(Passes[pass])
                  /\ \E seen \in SUBSET DOMAIN nodes : Covered(seen)

EInv ==
  /\ source \in Trees
  /\ tree.root = source.root
  /\ pc = "done" => pass = 5
  /\ Rooted(nodes)
  /\ Keeps(nodes)
  /\ Written(nodes, Passed)
  /\ Enclosed(nodes, Passed)
  /\ Covers

-----------------------------------------------------------------------------
(* Trees. *)

LEMMA TreeKid ==
  ASSUME NEW t, IsSyntaxTree(t), NEW p \in DOMAIN t.nodes, NEW k \in DOMAIN t.nodes[p].kids
  PROVE  /\ t.nodes[p].kids[k] \in DOMAIN t.nodes \ {t.root}
         /\ t.nodes[p].kids[k] \in KidSet(t.nodes, p)
         /\ Parent(t.nodes, t.nodes[p].kids[k]) = p
         /\ \A j \in DOMAIN t.nodes[p].kids : t.nodes[p].kids[j] = t.nodes[p].kids[k] => j = k
<1> DEFINE c == t.nodes[p].kids[k]
<1>1. c \in KidSet(t.nodes, p)
  BY DEF KidSet, Range
<1>2. c \in DOMAIN t.nodes \ {t.root}
  BY <1>1 DEF IsSyntaxTree, IsTree
<1>3. Parent(t.nodes, c) \in DOMAIN t.nodes /\ c \in KidSet(t.nodes, Parent(t.nodes, c))
  BY <1>1 DEF Parent
<1> DEFINE q == Parent(t.nodes, c)
<1>4. PICK j \in DOMAIN t.nodes[q].kids : t.nodes[q].kids[j] = c
  BY <1>3 DEF KidSet, Range
<1> HIDE DEF q
<1>5. q \in DOMAIN t.nodes
  BY <1>3 DEF q
<1>6. q = p
  BY <1>4, <1>5 DEF IsSyntaxTree, IsTree
<1> QED
  BY <1>1, <1>2, <1>6 DEF q, IsSyntaxTree, IsTree

LEMMA TreeNode ==
  ASSUME NEW t, IsSyntaxTree(t), NEW n \in DOMAIN t.nodes
  PROVE  /\ t.nodes[n] \in Node /\ HasParts(t.nodes[n])
         /\ t.nodes[n].kids \in Seq(Nat) /\ Len(t.nodes[n].kids) \in Nat
         /\ DOMAIN t.nodes[n].kids = 1..Len(t.nodes[n].kids)
         /\ \A c \in KidSet(t.nodes, n) :
              \E k \in DOMAIN t.nodes[n].kids : t.nodes[n].kids[k] = c
<1>1. t.nodes[n] \in Node /\ HasParts(t.nodes[n])
  BY DEF IsSyntaxTree
<1>2. t.nodes[n].kids \in Seq(Nat)
  BY <1>1 DEF Node
<1> QED
  BY <1>1, <1>2 DEF KidSet, Range

LEMMA TreeParent ==
  ASSUME NEW t, IsSyntaxTree(t), NEW n \in DOMAIN t.nodes \ {t.root}
  PROVE  /\ Parent(t.nodes, n) \in DOMAIN t.nodes
         /\ n \in KidSet(t.nodes, Parent(t.nodes, n))
         /\ \E k \in DOMAIN t.nodes[Parent(t.nodes, n)].kids :
              t.nodes[Parent(t.nodes, n)].kids[k] = n
<1>1. \E p \in DOMAIN t.nodes : n \in KidSet(t.nodes, p)
  BY DEF IsSyntaxTree, IsTree
<1>2. Parent(t.nodes, n) \in DOMAIN t.nodes /\ n \in KidSet(t.nodes, Parent(t.nodes, n))
  BY <1>1 DEF Parent
<1> QED
  BY <1>2 DEF KidSet, Range

\* The parsed tree, the current one, and how they belong together.
Both ==
  /\ source \in Trees /\ tree.root = source.root
  /\ Shape /\ IsSyntaxTree(source)
  /\ Keeps(nodes)

LEMMA BothOf ==
  ASSUME IInv, EInv
  PROVE  Both
  BY TreesAssumption DEF IInv, EInv, Both

LEMMA OldKid ==
  ASSUME IsSyntaxTree(source), NEW p \in DOMAIN old, NEW k \in DOMAIN old[p].kids
  PROVE  /\ old[p].kids[k] \in DOMAIN old \ {source.root}
         /\ Parent(old, old[p].kids[k]) = p
         /\ \A j \in DOMAIN old[p].kids : old[p].kids[j] = old[p].kids[k] => j = k
  BY TreeKid DEF old

LEMMA OldNode ==
  ASSUME IsSyntaxTree(source), NEW n \in DOMAIN old
  PROVE  /\ old[n] \in Node /\ HasParts(old[n])
         /\ Len(old[n].kids) \in Nat /\ DOMAIN old[n].kids = 1..Len(old[n].kids)
  BY TreeNode DEF old

LEMMA OldParent ==
  ASSUME IsSyntaxTree(source), NEW n \in DOMAIN old \ {source.root}
  PROVE  /\ Parent(old, n) \in DOMAIN old
         /\ \E k \in DOMAIN old[Parent(old, n)].kids : old[Parent(old, n)].kids[k] = n
  BY TreeParent DEF old

LEMMA WantsBlockUnder ==
  ASSUME NEW c, WantsBlock(c), style \in Style
  PROVE  /\ style.beginEnd /\ old[c].kind \in StatementKinds \ {"Block"}
         /\ UnderOld(c).kind \in Askers \cup {"Timing"}
  BY DEF WantsBlock, StartsProcedure, Askers, StatementKinds

LEMMA WantsParensUnder ==
  ASSUME NEW c, WantsParens(c), style \in Style
  PROVE  /\ old[c].kind # "Parens" /\ UnderOld(c).kind \in style.parens
         /\ UnderOld(c).kind \in ControlKinds
  BY DEF WantsParens, Style

\* A child that is one of the parsed nodes, and the others.
LEMMA Slot ==
  ASSUME Both, NEW n \in DOMAIN old, NEW k \in DOMAIN old[n].kids
  PROVE  /\ n \in DOMAIN nodes /\ Kind(n) = old[n].kind
         /\ DOMAIN nodes[n].kids = DOMAIN old[n].kids
         /\ \/ Kid(n, k) = old[n].kids[k]
            \/ Wraps(nodes, Kid(n, k), old[n].kids[k])
<1>1. /\ n \in DOMAIN nodes /\ Kind(n) = old[n].kind /\ Len(nodes[n].kids) = Len(old[n].kids)
      /\ Kid(n, k) = old[n].kids[k] \/ Wraps(nodes, Kid(n, k), old[n].kids[k])
  BY DEF Both, Keeps, Kind, Kid
<1>2. nodes[n].kids \in Seq(DOMAIN nodes)
  BY <1>1, KidsOf DEF Both
<1>3. DOMAIN old[n].kids = 1..Len(old[n].kids)
  BY OldNode DEF Both
<1> QED
  BY <1>1, <1>2, <1>3

\* Whether a node is wrapped, at its place among its parent's children.
LEMMA WrappedSlot ==
  ASSUME Both, NEW n \in DOMAIN old, NEW k \in DOMAIN old[n].kids
  PROVE  LET c == old[n].kids[k]
         IN  /\ Wrapped(nodes, c) => Wraps(nodes, Kid(n, k), c)
             /\ ~Wrapped(nodes, c) => Kid(n, k) = c
<1> DEFINE c == old[n].kids[k]
<1>1. Parent(old, c) = n /\ c \in DOMAIN old
  BY OldKid DEF Both
<1>2. ASSUME Wrapped(nodes, c)
      PROVE  Kid(n, k) # c
  <2>1. k \in DOMAIN nodes[n].kids
    BY Slot
  <2> QED
    BY <1>1, <1>2, <2>1 DEF Wrapped, KidSet, Range, Kid
<1>3. ASSUME ~Wrapped(nodes, c)
      PROVE  Kid(n, k) = c
  <2>1. PICK j \in DOMAIN nodes[n].kids : nodes[n].kids[j] = c
    BY <1>1, <1>3 DEF Wrapped, KidSet, Range
  <2>2. j \in DOMAIN old[n].kids
    BY <2>1, Slot
  <2>3. Kid(n, j) = old[n].kids[j] \/ Wraps(nodes, Kid(n, j), old[n].kids[j])
    BY <2>2, Slot
  <2>4. Kid(n, j) = c
    BY <2>1 DEF Kid
  <2>5. ~Wraps(nodes, Kid(n, j), old[n].kids[j])
    BY <1>1, <2>4 DEF Wraps
  <2>6. j = k
    BY <2>2, <2>3, <2>4, <2>5, OldKid DEF Both
  <2> QED
    BY <2>4, <2>6
<1> QED
  BY <1>2, <1>3, Slot

\* Nodes of other kinds than those put around others have been parsed.
LEMMA ParsedKind ==
  ASSUME Both, NEW n \in DOMAIN nodes, Kind(n) \notin {"Block", "Parens"}
  PROVE  n \in DOMAIN old /\ Kind(n) = old[n].kind
<1>1. n \in DOMAIN old
  BY DEF Both, Keeps, Wraps, Plain, Kind
<1> QED
  BY <1>1 DEF Both, Keeps, Kind

-----------------------------------------------------------------------------
(* What the first two passes ask for is what is wanted and not yet done. *)

\* A child outside of a control that is no block has not been wrapped.
LEMMA BareSlot ==
  ASSUME Both, NEW n \in DOMAIN old, NEW k \in DOMAIN old[n].kids,
         old[n].kind \notin ControlKinds, Kind(Kid(n, k)) # "Block"
  PROVE  /\ Kid(n, k) = old[n].kids[k] /\ Kid(n, k) \in DOMAIN old \ {source.root}
         /\ Parent(old, Kid(n, k)) = n /\ ~Wrapped(nodes, Kid(n, k))
         /\ Kind(Kid(n, k)) = old[Kid(n, k)].kind
<1> DEFINE c == old[n].kids[k]
<1>1. c \in DOMAIN old \ {source.root} /\ Parent(old, c) = n
  BY OldKid DEF Both
<1>2. ~Wraps(nodes, Kid(n, k), c)
  <2> SUFFICES ASSUME Wraps(nodes, Kid(n, k), c) PROVE FALSE
    OBVIOUS
  <2>1. ~(nodes[Kid(n, k)] = Plain("Block", <<c>>))
    BY DEF Plain, Kind
  <2>2. WantsParens(c)
    BY <2>1 DEF Wraps
  <2> QED
    BY <1>1, <2>2, WantsParensUnder DEF UnderOld, Both, Shape
<1>3. Kid(n, k) = c
  BY <1>2, Slot
<1>4. ~Wrapped(nodes, c)
  BY <1>2, WrappedSlot
<1> QED
  BY <1>1, <1>3, <1>4 DEF Both, Keeps, Kind

LEMMA AskedIsWanted ==
  ASSUME Both, BodiesAreStatements, style.beginEnd,
         NEW n \in DOMAIN nodes, NEW c \in InsertBeginEnd(n)
  PROVE  c \in DOMAIN old \ {source.root} /\ WantsBlock(c) /\ ~Wrapped(nodes, c)
<1>1. Kind(n) \in Askers /\ Kind(c) # "Block"
  BY DEF InsertBeginEnd, WrapInBlock, Askers
<1>2. n \in DOMAIN old /\ Kind(n) = old[n].kind /\ old[n].kind \notin ControlKinds
  BY <1>1, ParsedKind DEF Askers, ControlKinds
<1>3. DOMAIN old[n].kids = 1..Len(old[n].kids) /\ 1 \in DOMAIN old[n].kids
  <2>1. 1 \in DOMAIN nodes[n].kids
    BY <1>1, FirstKid DEF Both
  <2>2. DOMAIN old[n].kids = 1..Len(old[n].kids) /\ Len(nodes[n].kids) = Len(old[n].kids)
    BY <1>2, OldNode DEF Both, Keeps
  <2>3. nodes[n].kids \in Seq(DOMAIN nodes)
    BY KidsOf DEF Both
  <2> QED
    BY <2>1, <2>2, <2>3
<1>4. /\ Kind(n) \in Askers \ {"Conditional"} => Len(old[n].kids) = 1
      /\ Kind(n) \in Askers \ {"CaseItem"} =>
           \A k \in DOMAIN old[n].kids : old[old[n].kids[k]].kind \in StatementKinds
  BY <1>2 DEF BodiesAreStatements, Both, old
<1>5. ASSUME NEW k \in DOMAIN old[n].kids, Kid(n, k) = c
      PROVE  /\ c \in DOMAIN old \ {source.root} /\ ~Wrapped(nodes, c)
             /\ c = old[n].kids[k] /\ Parent(old, c) = n /\ UnderOld(c) = old[n]
             /\ Kind(c) = old[c].kind
             /\ Kind(n) # "CaseItem" => old[c].kind \in StatementKinds
  BY <1>1, <1>2, <1>4, <1>5, BareSlot DEF UnderOld
<1>6. CASE Kind(n) = "Conditional"
  <2>1. "control" \in style.bodies /\ c \in ConditionalBodies(n)
    BY <1>6 DEF InsertBeginEnd, WrapInBlock
  <2>2. PICK k \in DOMAIN nodes[n].kids : c = Kid(n, k) /\ (k = 1 \/ Kind(c) # "Conditional")
    BY <2>1 DEF ConditionalBodies
  <2>3. k \in DOMAIN old[n].kids
    BY <1>2, <1>3, <2>2, Slot
  <2> QED
    BY <1>1, <1>2, <1>5, <1>6, <2>1, <2>2, <2>3 DEF WantsBlock
<1>7. CASE Kind(n) = "Loop"
  <2>1. "control" \in style.bodies /\ c = Kid(n, 1)
    BY <1>7 DEF InsertBeginEnd, WrapInBlock
  <2> QED
    BY <1>1, <1>2, <1>3, <1>5, <1>7, <2>1 DEF WantsBlock
<1>8. CASE Kind(n) = "CaseItem"
  <2>1. "control" \in style.bodies /\ c = Kid(n, 1) /\ Kind(c) \in StatementKinds \ {"Empty"}
    BY <1>8 DEF InsertBeginEnd, WrapInBlock
  <2> QED
    BY <1>1, <1>2, <1>3, <1>5, <1>8, <2>1 DEF WantsBlock
<1>9. CASE Kind(n) \in {"Always", "Initial"}
  <2>1. /\ Kind(n) = "Always" => "always" \in style.bodies
        /\ Kind(n) = "Initial" => "initial" \in style.bodies
        /\ c = ProceduralBody(n)
    BY <1>9 DEF InsertBeginEnd, WrapInBlock
  <2>2. CASE Kind(Kid(n, 1)) # "Timing"
    <3>1. c = Kid(n, 1)
      BY <2>1, <2>2 DEF ProceduralBody
    <3>2. StartsProcedure(c, Kind(n))
      BY <1>2, <1>3, <1>5, <2>2, <3>1 DEF StartsProcedure
    <3>3. old[c].kind \in StatementKinds \ {"Block"} /\ c # source.root
      BY <1>1, <1>3, <1>5, <1>9, <3>1
    <3>4. WantsBlock(c)
      BY <1>9, <2>1, <3>2, <3>3 DEF WantsBlock
    <3> QED
      BY <1>3, <1>5, <3>1, <3>4
  <2>3. CASE Kind(Kid(n, 1)) = "Timing"
    <3> DEFINE q == Kid(n, 1)
    <3>1. c = Kid(q, 2)
      BY <2>1, <2>3 DEF ProceduralBody
    <3>2. q \in DOMAIN old \ {source.root} /\ Parent(old, q) = n /\ old[q].kind = "Timing"
      BY <1>2, <1>3, <2>3, BareSlot
    <3> HIDE DEF q
    <3>3. 2 \in DOMAIN old[q].kids
      BY <3>2, OldNode DEF Both, HasParts
    <3>4. /\ c = old[q].kids[2] /\ c \in DOMAIN old \ {source.root} /\ ~Wrapped(nodes, c)
          /\ Parent(old, c) = q /\ Kind(c) = old[c].kind
      BY <1>1, <3>1, <3>2, <3>3, BareSlot DEF ControlKinds
    <3>5. old[c].kind \in StatementKinds
      BY <3>2, <3>4 DEF BodiesAreStatements, Both, old
    <3>6. StartsProcedure(c, Kind(n))
      BY <1>2, <3>2, <3>4 DEF StartsProcedure, UnderOld
    <3>7. WantsBlock(c)
      BY <1>1, <1>9, <2>1, <3>4, <3>5, <3>6 DEF WantsBlock
    <3> QED
      BY <3>4, <3>7
  <2> QED
    BY <2>2, <2>3
<1> QED
  BY <1>1, <1>6, <1>7, <1>8, <1>9 DEF Askers

LEMMA WantedIsAsked ==
  ASSUME Both, BodiesAreStatements,
         NEW c \in DOMAIN old, WantsBlock(c), ~Wrapped(nodes, c)
  PROVE  \E n \in DOMAIN old : c \in InsertBeginEnd(n)
<1> DEFINE p == Parent(old, c)
<1>1. c # source.root /\ UnderOld(c) = old[p]
  BY DEF WantsBlock, UnderOld
<1>2. p \in DOMAIN old /\ \E j \in DOMAIN old[p].kids : old[p].kids[j] = c
  BY <1>1, OldParent DEF Both
<1> HIDE DEF p
<1>3. PICK k \in DOMAIN old[p].kids : old[p].kids[k] = c
  BY <1>2
<1>4. /\ p \in DOMAIN nodes /\ Kind(p) = old[p].kind
      /\ k \in DOMAIN nodes[p].kids /\ Kid(p, k) = c
  BY <1>2, <1>3, Slot, WrappedSlot
<1>5. Kind(c) = old[c].kind /\ c \in DOMAIN nodes
  BY DEF Both, Keeps, Kind
<1>6. style.beginEnd /\ old[c].kind \in StatementKinds \ {"Block"}
  BY WantsBlockUnder DEF Both, Shape
<1>7. old[p].kind \in Askers \ {"Conditional"} => k = 1
  <2>1. DOMAIN old[p].kids = 1..Len(old[p].kids)
    BY <1>2, OldNode DEF Both
  <2> QED
    BY <1>2, <1>3, <2>1 DEF BodiesAreStatements, Both, old
<1>8. CASE old[p].kind = "Loop" /\ "control" \in style.bodies
  <2>1. c \in InsertBeginEnd(p)
    BY <1>4, <1>5, <1>6, <1>7, <1>8 DEF InsertBeginEnd, WrapInBlock, Askers
  <2> QED
    BY <1>2, <2>1
<1>9. CASE old[p].kind = "CaseItem" /\ old[c].kind # "Empty" /\ "control" \in style.bodies
  <2>1. c \in InsertBeginEnd(p)
    BY <1>4, <1>5, <1>6, <1>7, <1>9 DEF InsertBeginEnd, WrapInBlock, Askers
  <2> QED
    BY <1>2, <2>1
<1>10. CASE /\ old[p].kind = "Conditional" /\ "control" \in style.bodies
            /\ ~(old[c].kind = "Conditional" /\ old[p].kids[1] # c)
  <2>1. k = 1 \/ Kind(c) # "Conditional"
    <3>1. SUFFICES ASSUME Kind(c) = "Conditional" PROVE k = 1
      OBVIOUS
    <3>2. old[p].kids[1] = c
      BY <1>5, <1>10, <3>1
    <3>3. 1 \in DOMAIN old[p].kids
      <4>1. HasParts(old[p]) /\ DOMAIN old[p].kids = 1..Len(old[p].kids)
            /\ Len(old[p].kids) \in Nat
        BY <1>2, OldNode DEF Both
      <4> QED
        BY <1>3, <4>1
    <3> QED
      BY <1>2, <1>3, <3>2, <3>3, OldKid DEF Both
  <2>2. c \in ConditionalBodies(p)
    BY <1>4, <2>1 DEF ConditionalBodies
  <2>3. c \in InsertBeginEnd(p)
    BY <1>4, <1>5, <1>6, <1>10, <2>2 DEF InsertBeginEnd, WrapInBlock
  <2> QED
    BY <1>2, <2>3
<1>11. ASSUME NEW kind \in {"Always", "Initial"}, StartsProcedure(c, kind),
              kind = "Always" => "always" \in style.bodies,
              kind = "Initial" => "initial" \in style.bodies
       PROVE  \E n \in DOMAIN old : c \in InsertBeginEnd(n)
  <2>1. SUFFICES ASSUME NEW n \in DOMAIN old, Kind(n) = kind, ProceduralBody(n) = c
                 PROVE  c \in InsertBeginEnd(n)
    <3>1. CASE old[p].kind = kind /\ old[c].kind # "Timing"
      <4>1. ProceduralBody(p) = c
        BY <1>4, <1>5, <1>7, <3>1 DEF ProceduralBody, Askers
      <4> QED
        BY <1>2, <1>4, <2>1, <3>1, <4>1
    <3>2. CASE /\ old[p].kind = "Timing" /\ old[p].kids[2] = c
               /\ p # source.root /\ UnderOld(p).kind = kind
      <4>1. 2 \in DOMAIN old[p].kids
        BY <1>2, <3>2, OldNode DEF Both, HasParts
      <4>2. k = 2
        BY <1>2, <1>3, <3>2, <4>1, OldKid DEF Both
      <4>3. p # source.root
        BY <3>2
      <4> DEFINE g == Parent(old, p)
      <4>4. g \in DOMAIN old /\ old[g].kind = kind /\ UnderOld(p) = old[g]
            /\ \E j \in DOMAIN old[g].kids : old[g].kids[j] = p
        BY <1>2, <3>2, <4>3, OldParent DEF Both, UnderOld
      <4> HIDE DEF g
      <4>5. PICK j \in DOMAIN old[g].kids : old[g].kids[j] = p
        BY <4>4
      <4>6. j = 1
        <5>1. DOMAIN old[g].kids = 1..Len(old[g].kids)
          BY <4>4, OldNode DEF Both
        <5> QED
          BY <4>4, <4>5, <5>1 DEF BodiesAreStatements, Both, old, Askers
      <4>7. ~WantsBlock(p) /\ ~WantsParens(p)
        <5>1. ~WantsParens(p)
          BY <4>4, WantsParensUnder DEF Both, Shape, ControlKinds
        <5>2. ~WantsBlock(p)
          BY <3>2, <4>4 DEF WantsBlock, StartsProcedure
        <5> QED
          BY <5>1, <5>2
      <4>8. Kid(g, 1) = p /\ Kind(g) = kind
        BY <4>4, <4>5, <4>6, <4>7, Slot DEF Wraps
      <4>9. ProceduralBody(g) = c
        BY <1>4, <3>2, <4>2, <4>8 DEF ProceduralBody
      <4> QED
        BY <2>1, <4>4, <4>8, <4>9
    <3> QED
      BY <1>1, <1>11, <3>1, <3>2 DEF StartsProcedure, p
  <2>2. Kind(c) # "Block"
    BY <1>5, <1>6
  <2> QED
    BY <1>11, <2>1, <2>2 DEF InsertBeginEnd, WrapInBlock
<1> QED
  BY <1>1, <1>8, <1>9, <1>10, <1>11 DEF WantsBlock

\* The control that misses its parentheses, and the operand that wants them.
LEMMA ParensAsked ==
  ASSUME Both, ControlsHaveOneOperand, NEW n \in DOMAIN nodes, InsertParens(n) # {}
  PROVE  /\ n \in DOMAIN old /\ Kind(n) = old[n].kind /\ old[n].kind \in style.parens
         /\ InsertParens(n) = {n} /\ ~HasParens(n)
         /\ Kind(n) = "ImplicitControl" => WantedParens(n) /\ ~nodes[n].parens
         /\ Kind(n) # "ImplicitControl" =>
              /\ Kid(n, 1) \in DOMAIN old \ {source.root} /\ WantsParens(Kid(n, 1))
              /\ ~Wrapped(nodes, Kid(n, 1)) /\ Parent(old, Kid(n, 1)) = n
<1>1. Kind(n) \in style.parens /\ ~HasParens(n) /\ InsertParens(n) = {n}
  BY DEF InsertParens
<1>2. Kind(n) \in ControlKinds
  BY <1>1 DEF Both, Shape, Style
<1>3. n \in DOMAIN old /\ Kind(n) = old[n].kind
  BY <1>2, ParsedKind DEF ControlKinds
<1>4. CASE Kind(n) = "ImplicitControl"
  BY <1>1, <1>3, <1>4 DEF WantedParens, HasParens
<1>5. CASE Kind(n) # "ImplicitControl"
  <2> DEFINE c == old[n].kids[1]
  <2>1. 1 \in DOMAIN old[n].kids
    BY <1>2, <1>3, <1>5, OldNode DEF Both, HasParts
  <2>2. c \in DOMAIN old \ {source.root} /\ Parent(old, c) = n
    BY <1>3, <2>1, OldKid DEF Both
  <2>3. Kind(Kid(n, 1)) # "Parens"
    BY <1>1, <1>5 DEF HasParens
  <2>4. ~Wraps(nodes, Kid(n, 1), c)
    <3>1. ~WantsBlock(c)
      BY <1>2, <1>3, <2>2, WantsBlockUnder DEF Both, Shape, UnderOld, Askers, ControlKinds
    <3> QED
      BY <2>3, <3>1 DEF Wraps, Plain, Kind
  <2>5. Kid(n, 1) = c /\ ~Wrapped(nodes, c)
    BY <1>3, <2>1, <2>4, Slot, WrappedSlot
  <2>6. Kind(c) = old[c].kind
    BY <2>2 DEF Both, Keeps, Kind
  <2>7. WantsParens(c)
    BY <1>1, <1>3, <2>2, <2>3, <2>5, <2>6 DEF WantsParens, UnderOld
  <2> QED
    BY <1>1, <1>3, <1>5, <2>2, <2>5, <2>7
<1> QED
  BY <1>4, <1>5

LEMMA WantedParensAsked ==
  ASSUME Both, ControlsHaveOneOperand, NEW c \in DOMAIN old,
         WantsParens(c), ~Wrapped(nodes, c)
  PROVE  Parent(old, c) \in DOMAIN old /\ Parent(old, c) \in InsertParens(Parent(old, c))
<1> DEFINE p == Parent(old, c)
<1>1. c # source.root /\ UnderOld(c) = old[p]
  BY DEF WantsParens, UnderOld
<1>2. p \in DOMAIN old /\ \E j \in DOMAIN old[p].kids : old[p].kids[j] = c
  BY <1>1, OldParent DEF Both
<1> HIDE DEF p
<1>3. PICK k \in DOMAIN old[p].kids : old[p].kids[k] = c
  BY <1>2
<1>4. old[p].kind \in style.parens /\ old[p].kind \in ControlKinds /\ old[c].kind # "Parens"
  BY <1>1, WantsParensUnder DEF Both, Shape
<1>5. old[p].kind # "ImplicitControl" /\ k = 1
  <2>1. DOMAIN old[p].kids = 1..Len(old[p].kids)
    BY <1>2, OldNode DEF Both
  <2>2. Len(old[p].kids) = IF old[p].kind = "ImplicitControl" THEN 0 ELSE 1
    BY <1>2, <1>4 DEF ControlsHaveOneOperand, Both, old
  <2> QED
    BY <1>3, <2>1, <2>2
<1>6. Kid(p, 1) = c /\ Kind(p) = old[p].kind /\ Kind(c) = old[c].kind
  BY <1>2, <1>3, <1>5, Slot, WrappedSlot DEF Both, Keeps, Kind
<1>7. ~HasParens(p)
  BY <1>4, <1>5, <1>6 DEF HasParens
<1> QED
  BY <1>2, <1>4, <1>6, <1>7 DEF InsertParens, p

-----------------------------------------------------------------------------
(* Every step keeps the tree in this relation to the parsed one. *)

LEMMA SameNode ==
  ASSUME NEW r \in Node, NEW s \in Node, r.kind = s.kind, r.kids = s.kids,
         r.sep = s.sep, r.bounds = s.bounds, r.parens = s.parens
  PROVE  r = s
<1>1. ASSUME NEW A, NEW B, NEW C, NEW D, NEW E,
             r \in [kind : A, kids : B, sep : C, bounds : D, parens : E],
             s \in [kind : A, kids : B, sep : C, bounds : D, parens : E]
      PROVE  r = s
  BY <1>1
<1> QED
  BY <1>1 DEF Node

LEMMA SurroundKeeps ==
  ASSUME Both, NEW kind \in {"Block", "Parens"},
         NEW inner \in SUBSET (DOMAIN old \ {source.root}),
         \A i \in inner : /\ ~Wrapped(nodes, i)
                          /\ kind = "Block" => WantsBlock(i)
                          /\ kind = "Parens" => WantsParens(i),
         NEW after, after = Surround(kind, inner)
  PROVE  /\ Keeps(after)
         /\ \A n \in DOMAIN old :
              /\ after[n].sep = nodes[n].sep /\ after[n].bounds = nodes[n].bounds
              /\ after[n].parens = nodes[n].parens
         /\ \A n \in DOMAIN old \ {source.root} :
              Wrapped(after, n) <=> Wrapped(nodes, n) \/ n \in inner
<1>1. DOMAIN old \subseteq DOMAIN nodes /\ inner \in SUBSET DOMAIN nodes /\ kind \in Kinds
  BY DEF Both, Keeps, Kinds, StatementKinds
<1>2. IsSurrounded(after, kind, inner)
  BY <1>1, Surrounded DEF Both
<1>3. DOMAIN nodes \subseteq 1..Max(DOMAIN nodes) /\ Max(DOMAIN nodes) \in Nat
  BY LastNode DEF Both
<1>4. \A i \in inner : /\ Around(i) \in DOMAIN after \ DOMAIN nodes
                       /\ Wraps(after, Around(i), i)
  <2> TAKE i \in inner
  <2>1. Around(i) > Max(DOMAIN nodes) /\ Around(i) \in DOMAIN after
    BY <1>2 DEF IsSurrounded
  <2>2. Around(i) \notin DOMAIN nodes
    BY <1>3, <2>1
  <2>3. after[Around(i)] = Plain(kind, <<i>>)
    BY <1>2 DEF IsSurrounded
  <2> QED
    BY <1>1, <2>1, <2>2, <2>3 DEF Wraps
<1>5. ASSUME NEW m \in DOMAIN nodes \ DOMAIN old
      PROVE  after[m] = nodes[m] /\ m \in DOMAIN after
  <2>1. PICK c \in DOMAIN old : Wraps(nodes, m, c)
    BY DEF Both, Keeps
  <2>2. nodes[m].kids = <<c>> /\ c # source.root
    BY <2>1 DEF Wraps, Plain
  <2>3. c \notin inner
    <3>1. SUFFICES ASSUME c \in inner PROVE FALSE
      OBVIOUS
    <3>2. c \in KidSet(nodes, Parent(old, c)) /\ Parent(old, c) \in DOMAIN old
      BY <2>2, <3>1, OldParent DEF Both, Wrapped
    <3>3. c \in KidSet(nodes, m)
      BY <2>2 DEF KidSet, Range
    <3> QED
      BY <1>1, <3>2, <3>3, OneParent DEF Both
  <2>4. /\ after[m] \in Node /\ after[m].kind = nodes[m].kind
        /\ after[m].sep = nodes[m].sep /\ after[m].bounds = nodes[m].bounds
        /\ after[m].parens = nodes[m].parens
        /\ Len(after[m].kids) = 1 /\ after[m].kids \in Seq(Nat) /\ after[m].kids[1] = c
    <3>1. /\ after[m] \in Node /\ after[m].kind = nodes[m].kind
          /\ after[m].sep = nodes[m].sep /\ after[m].bounds = nodes[m].bounds
          /\ after[m].parens = nodes[m].parens
          /\ Len(after[m].kids) = Len(nodes[m].kids) /\ after[m].kids \in Seq(Nat)
          /\ \A k \in DOMAIN nodes[m].kids :
               after[m].kids[k] = IF nodes[m].kids[k] \in inner
                                  THEN Around(nodes[m].kids[k]) ELSE nodes[m].kids[k]
      BY <1>2 DEF IsSurrounded
    <3>2. 1 \in DOMAIN nodes[m].kids /\ nodes[m].kids[1] = c /\ Len(nodes[m].kids) = 1
      BY <2>2
    <3> QED
      BY <2>3, <3>1, <3>2
  <2>5. after[m].kids = nodes[m].kids
    BY <2>2, <2>4
  <2>6. nodes[m] \in Node
    BY KidsOf DEF Both
  <2>7. after[m] = nodes[m]
    BY <2>4, <2>5, <2>6, SameNode
  <2>8. m \in DOMAIN after
    BY <1>2 DEF IsSurrounded
  <2> QED
    BY <2>7, <2>8
<1>6. \A m, c : Wraps(nodes, m, c) => Wraps(after, m, c)
  BY <1>5 DEF Wraps
<1>7. ASSUME NEW n \in DOMAIN old
      PROVE  /\ after[n].kind = old[n].kind /\ Len(after[n].kids) = Len(old[n].kids)
             /\ DOMAIN after[n].kids = DOMAIN old[n].kids
             /\ \A k \in DOMAIN old[n].kids :
                  /\ after[n].kids[k] = old[n].kids[k]
                       \/ Wraps(after, after[n].kids[k], old[n].kids[k])
                  /\ after[n].kids[k] = IF Kid(n, k) \in inner THEN Around(Kid(n, k))
                                        ELSE Kid(n, k)
  <2>1. /\ after[n].kind = nodes[n].kind /\ Len(after[n].kids) = Len(nodes[n].kids)
        /\ after[n].kids \in Seq(Nat)
        /\ \A k \in DOMAIN nodes[n].kids :
             after[n].kids[k] = IF nodes[n].kids[k] \in inner
                                THEN Around(nodes[n].kids[k]) ELSE nodes[n].kids[k]
    BY <1>1, <1>2 DEF IsSurrounded
  <2>2. /\ nodes[n].kind = old[n].kind /\ Len(nodes[n].kids) = Len(old[n].kids)
        /\ DOMAIN old[n].kids = 1..Len(old[n].kids)
    BY OldNode DEF Both, Keeps
  <2>3. ASSUME NEW k \in DOMAIN old[n].kids
        PROVE  /\ after[n].kids[k] = old[n].kids[k]
                    \/ Wraps(after, after[n].kids[k], old[n].kids[k])
               /\ after[n].kids[k] = IF Kid(n, k) \in inner THEN Around(Kid(n, k))
                                     ELSE Kid(n, k)
    <3>1. k \in DOMAIN nodes[n].kids
      BY Slot
    <3>2. after[n].kids[k] = IF Kid(n, k) \in inner THEN Around(Kid(n, k)) ELSE Kid(n, k)
      BY <2>1, <3>1 DEF Kid
    <3>3. Kid(n, k) = old[n].kids[k] \/ Wraps(nodes, Kid(n, k), old[n].kids[k])
      BY Slot
    <3>4. Wraps(nodes, Kid(n, k), old[n].kids[k]) => Kid(n, k) \notin inner
      BY DEF Wraps
    <3> QED
      BY <1>4, <1>6, <3>2, <3>3, <3>4
  <2>4. DOMAIN after[n].kids = DOMAIN old[n].kids
    BY <2>1, <2>2
  <2> QED
    BY <2>1, <2>2, <2>3, <2>4
<1>8. ASSUME NEW m \in DOMAIN after \ DOMAIN old
      PROVE  \E c \in DOMAIN old : Wraps(after, m, c)
  <2>1. CASE m \in DOMAIN nodes
    BY <1>6, <2>1 DEF Both, Keeps
  <2>2. CASE \E i \in inner : m = Around(i)
    BY <1>4, <2>2
  <2> QED
    BY <1>2, <2>1, <2>2 DEF IsSurrounded
<1>9. Keeps(after)
  <2>1. DOMAIN old \subseteq DOMAIN after
    BY <1>1, <1>2 DEF IsSurrounded
  <2> QED
    BY <1>7, <1>8, <2>1 DEF Keeps
<1>10. ASSUME NEW n \in DOMAIN old \ {source.root}
       PROVE  Wrapped(after, n) <=> Wrapped(nodes, n) \/ n \in inner
  <2> DEFINE p == Parent(old, n)
  <2>1. p \in DOMAIN old /\ \E j \in DOMAIN old[p].kids : old[p].kids[j] = n
    BY OldParent DEF Both
  <2> HIDE DEF p
  <2>2. PICK k \in DOMAIN old[p].kids : old[p].kids[k] = n
    BY <2>1
  <2>3. Wrapped(nodes, n) => Wraps(nodes, Kid(p, k), n)
    BY <2>1, <2>2, WrappedSlot
  <2>4. ~Wrapped(nodes, n) => Kid(p, k) = n
    BY <2>1, <2>2, WrappedSlot
  <2>5. n \in KidSet(after, p) <=> after[p].kids[k] = n
    <3>1. ASSUME NEW j \in DOMAIN after[p].kids, after[p].kids[j] = n
          PROVE  j = k
      <4>1. after[p].kids[j] = old[p].kids[j] \/ Wraps(after, after[p].kids[j], old[p].kids[j])
        BY <1>7, <2>1
      <4>2. j \in DOMAIN old[p].kids
        BY <1>7, <2>1
      <4> QED
        BY <2>1, <2>2, <3>1, <4>1, <4>2, OldKid DEF Both, Wraps
    <3>2. k \in DOMAIN after[p].kids
      BY <1>7, <2>1, <2>2
    <3> QED
      BY <3>1, <3>2 DEF KidSet, Range
  <2>6. after[p].kids[k] = IF Kid(p, k) \in inner THEN Around(Kid(p, k)) ELSE Kid(p, k)
    BY <1>7, <2>1, <2>2
  <2>7. CASE Wrapped(nodes, n)
    <3>1. Kid(p, k) \notin DOMAIN old
      BY <2>3, <2>7 DEF Wraps
    <3>2. after[p].kids[k] # n
      BY <2>6, <3>1
    <3> QED
      BY <2>5, <2>7, <3>2 DEF Wrapped, p
  <2>8. CASE ~Wrapped(nodes, n)
    <3>1. after[p].kids[k] = n <=> n \notin inner
      BY <1>1, <1>4, <2>4, <2>6, <2>8
    <3> QED
      BY <2>5, <2>8, <3>1 DEF Wrapped, p
  <2> QED
    BY <2>7, <2>8
<1>11. \A n \in DOMAIN old :
         /\ after[n].sep = nodes[n].sep /\ after[n].bounds = nodes[n].bounds
         /\ after[n].parens = nodes[n].parens
  BY <1>1, <1>2 DEF IsSurrounded
<1> QED
  BY <1>9, <1>10, <1>11

LEMMA SurroundRooted ==
  ASSUME Shape, Rooted(nodes), NEW kind \in {"Block", "Parens"},
         NEW inner \in SUBSET DOMAIN nodes, NEW after, after = Surround(kind, inner)
  PROVE  Rooted(after)
<1> DEFINE last == Max(DOMAIN nodes)
<1>1. IsSurrounded(after, kind, inner)
  BY Surrounded DEF Kinds, StatementKinds
<1>2. last \in Nat /\ DOMAIN nodes \subseteq 1..last /\ \A n : Around(n) = n + last
  BY LastNode DEF Around
<1> HIDE DEF last
<1>10. PICK bound \in Nat : \E depth \in [DOMAIN nodes -> 0..bound] :
         \A p \in DOMAIN nodes : \A k \in KidSet(nodes, p) : depth[p] < depth[k]
  BY DEF Rooted
<1>3. PICK depth \in [DOMAIN nodes -> 0..bound] :
        \A p \in DOMAIN nodes : \A k \in KidSet(nodes, p) : depth[p] < depth[k]
  BY <1>10
<1> DEFINE deeper == [n \in DOMAIN after |->
                        IF n \in DOMAIN nodes THEN 2 * depth[n] + 1 ELSE 2 * depth[n - last]]
<1>4. \A i \in inner : /\ Around(i) \in DOMAIN after /\ Around(i) \notin DOMAIN nodes
                       /\ deeper[Around(i)] = 2 * depth[i]
  <2> TAKE i \in inner
  <2>1. Around(i) \in DOMAIN after
    BY <1>1 DEF IsSurrounded
  <2>2. i \in 1..last /\ Around(i) = i + last
    BY <1>2
  <2>3. Around(i) \notin DOMAIN nodes /\ Around(i) - last = i
    BY <1>2, <2>2
  <2> QED
    BY <2>1, <2>3
<1>5. \A n \in DOMAIN nodes : n \in DOMAIN after /\ deeper[n] = 2 * depth[n] + 1
  BY <1>1 DEF IsSurrounded
<1>6. \A n \in DOMAIN nodes : depth[n] \in 0..bound
  OBVIOUS
<1>7. deeper \in [DOMAIN after -> 0..(2 * bound + 1)]
  <2>1. ASSUME NEW n \in DOMAIN after
        PROVE  deeper[n] \in 0..(2 * bound + 1)
    <3>1. n \in DOMAIN nodes \/ \E i \in inner : n = Around(i)
      BY <1>1 DEF IsSurrounded
    <3>2. CASE n \in DOMAIN nodes
      BY <1>5, <1>6, <3>2
    <3>3. CASE \E i \in inner : n = Around(i)
      <4>1. PICK i \in inner : n = Around(i)
        BY <3>3
      <4>2. deeper[n] = 2 * depth[i] /\ depth[i] \in 0..bound
        BY <1>4, <1>6, <4>1
      <4> HIDE DEF deeper
      <4> QED
        BY <4>2
    <3> QED
      BY <3>1, <3>2, <3>3
  <2> QED
    BY <2>1
<1> HIDE DEF deeper
<1>8. ASSUME NEW p \in DOMAIN after, NEW k \in KidSet(after, p)
      PROVE  deeper[p] < deeper[k]
  <2>1. PICK j \in DOMAIN after[p].kids : after[p].kids[j] = k
    BY <1>8 DEF KidSet, Range
  <2>2. CASE p \in DOMAIN nodes
    <3>1. /\ Len(after[p].kids) = Len(nodes[p].kids) /\ after[p].kids \in Seq(Nat)
          /\ \A l \in DOMAIN nodes[p].kids :
               after[p].kids[l] = IF nodes[p].kids[l] \in inner
                                  THEN Around(nodes[p].kids[l]) ELSE nodes[p].kids[l]
      BY <1>1, <2>2 DEF IsSurrounded
    <3>2. nodes[p].kids \in Seq(DOMAIN nodes)
      BY <2>2, KidsOf
    <3>3. j \in DOMAIN nodes[p].kids
      BY <2>1, <3>1, <3>2
    <3> DEFINE c == nodes[p].kids[j]
    <3>4. c \in DOMAIN nodes /\ depth[p] < depth[c]
      <4>1. c \in DOMAIN nodes /\ c \in KidSet(nodes, p)
        BY <3>2, <3>3 DEF KidSet, Range
      <4> QED
        BY <1>3, <2>2, <4>1
    <3>5. k = IF c \in inner THEN Around(c) ELSE c
      BY <2>1, <3>1, <3>3
    <3> HIDE DEF c
    <3>6. deeper[k] = 2 * depth[c] \/ deeper[k] = 2 * depth[c] + 1
      BY <1>4, <1>5, <3>4, <3>5
    <3>7. deeper[p] = 2 * depth[p] + 1 /\ depth[p] \in Nat /\ depth[c] \in Nat
      BY <1>5, <1>6, <2>2, <3>4
    <3>8. 2 * depth[p] + 2 <= 2 * depth[c]
      BY <3>4, <3>7
    <3> QED
      BY <3>6, <3>7, <3>8
  <2>3. CASE \E i \in inner : p = Around(i)
    <3>1. PICK i \in inner : p = Around(i)
      BY <2>3
    <3>2. after[p].kids = <<i>>
      <4>1. after[Around(i)] = Plain(kind, <<i>>)
        BY <1>1 DEF IsSurrounded
      <4> QED
        BY <3>1, <4>1 DEF Plain
    <3>3. k = i
      BY <2>1, <3>2
    <3> QED
      BY <1>4, <1>5, <1>6, <3>1, <3>3
  <2> QED
    BY <1>1, <2>2, <2>3 DEF IsSurrounded
<1>9. 2 * bound + 1 \in Nat
  OBVIOUS
<1> QED
  BY <1>7, <1>8, <1>9 DEF Rooted

\* Nodes may change in other things than their kind and children.
LEMMA SameKidsKeep ==
  ASSUME NEW ns, Keeps(ns), NEW after, DOMAIN after = DOMAIN ns,
         \A n \in DOMAIN ns : after[n].kind = ns[n].kind /\ after[n].kids = ns[n].kids,
         \A n \in DOMAIN ns \ DOMAIN old : after[n] = ns[n]
  PROVE  /\ Keeps(after)
         /\ Rooted(ns) => Rooted(after)
         /\ IsSyntaxTree(source) =>
              \A n \in DOMAIN old \ {source.root} : Wrapped(after, n) <=> Wrapped(ns, n)
<1>1. \A n \in DOMAIN ns : KidSet(after, n) = KidSet(ns, n)
  BY DEF KidSet, Range
<1>2. \A m, c : Wraps(ns, m, c) => Wraps(after, m, c)
  BY DEF Wraps
<1>3. Keeps(after)
  BY <1>2 DEF Keeps
<1>4. ASSUME IsSyntaxTree(source), NEW n \in DOMAIN old \ {source.root}
      PROVE  Wrapped(after, n) <=> Wrapped(ns, n)
  <2>1. Parent(old, n) \in DOMAIN ns
    BY <1>4, OldParent DEF Keeps
  <2> QED
    BY <1>1, <2>1 DEF Wrapped
<1>5. Rooted(ns) => Rooted(after)
  BY <1>1 DEF Rooted
<1> QED
  BY <1>3, <1>4, <1>5

-----------------------------------------------------------------------------
(* The ancestors of a node. *)

LEMMA AncestorsOf ==
  ASSUME Shape, Rooted(nodes)
  PROVE  \A n \in DOMAIN nodes :
           Ancestors[n] = IF n = tree.root THEN {}
                          ELSE {Parent(nodes, n)} \cup Ancestors[Parent(nodes, n)]
<1>1. PICK bound \in Nat : \E depth \in [DOMAIN nodes -> 0..bound] :
        \A p \in DOMAIN nodes : \A k \in KidSet(nodes, p) : depth[p] < depth[k]
  BY DEF Rooted
<1>2. PICK depth \in [DOMAIN nodes -> 0..bound] :
        \A p \in DOMAIN nodes : \A k \in KidSet(nodes, p) : depth[p] < depth[k]
  BY <1>1
<1>3. \A n \in DOMAIN nodes \ {tree.root} :
        Parent(nodes, n) \in DOMAIN nodes /\ depth[Parent(nodes, n)] < depth[n]
  BY <1>2, TreeParent DEF Shape, nodes
<1>4. \A n \in DOMAIN nodes : depth[n] \in Nat /\ depth[n] <= bound
  OBVIOUS
<1> DEFINE above(f, n) == IF n = tree.root THEN {}
                          ELSE {Parent(nodes, n)} \cup f[Parent(nodes, n)]
           upper(h) == {n \in DOMAIN nodes : depth[n] < h}
           T == {h \in Nat : \E f : f = [n \in upper(h) |-> above(f, n)]}
<1>5. 0 \in T
  <2>1. upper(0) = {}
    BY <1>4
  <2> DEFINE f == [n \in {} |-> {}]
  <2>2. f = [n \in upper(0) |-> above(f, n)]
    BY <2>1
  <2> QED
    BY <2>2
<1>6. ASSUME NEW h \in Nat, h \in T
      PROVE  h + 1 \in T
  <2>1. PICK f : f = [n \in upper(h) |-> above(f, n)]
    BY <1>6
  <2> DEFINE g == [n \in upper(h + 1) |-> above(f, n)]
  <2>2. ASSUME NEW n \in upper(h + 1)
        PROVE  above(f, n) = above(g, n)
    <3>1. CASE n # tree.root
      <4> DEFINE p == Parent(nodes, n)
      <4>1. p \in DOMAIN nodes /\ depth[p] < depth[n] /\ depth[n] < h + 1
        BY <1>3, <2>2, <3>1
      <4> HIDE DEF p
      <4>2. p \in upper(h) /\ p \in upper(h + 1)
        BY <1>4, <2>2, <4>1
      <4>3. f[p] = above(f, p) /\ g[p] = above(f, p)
        <5> HIDE DEF above, upper
        <5> QED
          BY <2>1, <4>2
      <4> HIDE DEF g
      <4>4. f[p] = g[p]
        BY <4>3
      <4> QED
        BY <3>1, <4>4 DEF p
    <3> QED
      BY <3>1
  <2>3. g = [n \in upper(h + 1) |-> above(g, n)]
    <3>1. g = [n \in upper(h + 1) |-> above(f, n)]
      OBVIOUS
    <3> HIDE DEF g, above, upper
    <3> QED
      BY <2>2, <3>1
  <2> HIDE DEF g, above, upper
  <2>4. \E e : e = [n \in upper(h + 1) |-> above(e, n)]
    BY <2>3
  <2> QED
    BY <2>4
<1>7. bound + 1 \in T
  <2> HIDE DEF T
  <2> QED
    BY <1>5, <1>6, Induction
<1>8. upper(bound + 1) = DOMAIN nodes
  BY <1>4
<1>9. \E f : f = [n \in DOMAIN nodes |-> above(f, n)]
  <2> HIDE DEF above, upper
  <2> QED
    BY <1>7, <1>8
<1>10. Ancestors = CHOOSE f : f = [n \in DOMAIN nodes |-> above(f, n)]
  BY DEF Ancestors
<1>11. Ancestors = [n \in DOMAIN nodes |-> above(Ancestors, n)]
  <2> HIDE DEF above
  <2> QED
    BY <1>9, <1>10
<1> QED
  BY <1>11

\* What holds of the root, and of a node if it does of its parent.
LEMMA DownTheTree ==
  ASSUME NEW t, IsSyntaxTree(t), Rooted(t.nodes), NEW G, t.root \in G,
         \A n \in DOMAIN t.nodes \ {t.root} : Parent(t.nodes, n) \in G => n \in G
  PROVE  DOMAIN t.nodes \subseteq G
<1>1. PICK bound \in Nat : \E depth \in [DOMAIN t.nodes -> 0..bound] :
        \A p \in DOMAIN t.nodes : \A k \in KidSet(t.nodes, p) : depth[p] < depth[k]
  BY DEF Rooted
<1>2. PICK depth \in [DOMAIN t.nodes -> 0..bound] :
        \A p \in DOMAIN t.nodes : \A k \in KidSet(t.nodes, p) : depth[p] < depth[k]
  BY <1>1
<1> DEFINE rest == {depth[n] : n \in DOMAIN t.nodes \ G}
<1>3. SUFFICES ASSUME rest # {} PROVE FALSE
  OBVIOUS
<1>4. rest \subseteq Nat
  OBVIOUS
<1> HIDE DEF rest
<1>5. PICK x \in rest : \A y \in rest : x <= y
  BY <1>3, <1>4, LeastNumber
<1>6. PICK n \in DOMAIN t.nodes \ G : x = depth[n]
  BY DEF rest
<1> DEFINE p == Parent(t.nodes, n)
<1>7. p \in DOMAIN t.nodes /\ depth[p] < depth[n]
  BY <1>2, <1>6, TreeParent
<1>8. p \notin G
  BY <1>6
<1> HIDE DEF p
<1>9. depth[p] \in rest
  BY <1>7, <1>8 DEF rest
<1> QED
  BY <1>4, <1>5, <1>6, <1>7, <1>9

\* What holds of a node if it does of all its children.
LEMMA UpTheTree ==
  ASSUME NEW ns, Rooted(ns), NEW G,
         \A n \in DOMAIN ns : KidSet(ns, n) \cap DOMAIN ns \subseteq G => n \in G
  PROVE  DOMAIN ns \subseteq G
<1>1. PICK bound \in Nat : \E depth \in [DOMAIN ns -> 0..bound] :
        \A p \in DOMAIN ns : \A k \in KidSet(ns, p) : depth[p] < depth[k]
  BY DEF Rooted
<1>2. PICK depth \in [DOMAIN ns -> 0..bound] :
        \A p \in DOMAIN ns : \A k \in KidSet(ns, p) : depth[p] < depth[k]
  BY <1>1
<1> DEFINE rest == {bound - depth[n] : n \in DOMAIN ns \ G}
<1>3. SUFFICES ASSUME rest # {} PROVE FALSE
  OBVIOUS
<1>4. rest \subseteq Nat
  OBVIOUS
<1> HIDE DEF rest
<1>5. PICK x \in rest : \A y \in rest : x <= y
  BY <1>3, <1>4, LeastNumber
<1>6. PICK n \in DOMAIN ns \ G : x = bound - depth[n]
  BY DEF rest
<1>7. PICK k \in KidSet(ns, n) \cap DOMAIN ns : k \notin G
  BY <1>6
<1>8. depth[n] < depth[k] /\ depth[n] \in 0..bound /\ depth[k] \in 0..bound
  BY <1>2, <1>6, <1>7
<1>9. bound - depth[k] \in rest
  BY <1>7 DEF rest
<1> QED
  BY <1>5, <1>6, <1>8, <1>9

\* Ancestors are nodes with children.
LEMMA AncestorsAreParents ==
  ASSUME Shape, Rooted(nodes)
  PROVE  \A n \in DOMAIN nodes : \A a \in Ancestors[n] :
           a \in DOMAIN nodes /\ KidSet(nodes, a) # {}
<1> DEFINE G == {n \in DOMAIN nodes : \A a \in Ancestors[n] :
                   a \in DOMAIN nodes /\ KidSet(nodes, a) # {}}
<1>1. IsSyntaxTree(tree) /\ tree.nodes = nodes /\ tree.root \in DOMAIN nodes
  BY DEF Shape, IsSyntaxTree, IsTree, nodes
<1>2. tree.root \in G
  BY <1>1, AncestorsOf
<1>3. ASSUME NEW n \in DOMAIN nodes \ {tree.root}, Parent(nodes, n) \in G
      PROVE  n \in G
  <2>1. Ancestors[n] = {Parent(nodes, n)} \cup Ancestors[Parent(nodes, n)]
    BY AncestorsOf
  <2>2. Parent(nodes, n) \in DOMAIN nodes /\ KidSet(nodes, Parent(nodes, n)) # {}
    BY <1>1, TreeParent
  <2> QED
    BY <1>3, <2>1, <2>2
<1> HIDE DEF G
<1>4. DOMAIN nodes \subseteq G
  BY <1>1, <1>2, <1>3, DownTheTree
<1> QED
  BY <1>4 DEF G

\* When the visit is over, a node has been visited or the visit stayed above it.
LEMMA Reached ==
  ASSUME Shape, Rooted(nodes), todo = <<>>, NEW seen, Covered(seen), NEW n \in DOMAIN nodes
  PROVE  n \in seen \/ \E a \in Ancestors[n] : a \in seen /\ ~Descends(a)
<1> DEFINE G == {m \in DOMAIN nodes :
                   m \in seen \/ \E a \in Ancestors[m] : a \in seen /\ ~Descends(a)}
<1>1. IsSyntaxTree(tree) /\ tree.nodes = nodes /\ tree.root \in DOMAIN nodes
  BY DEF Shape, IsSyntaxTree, IsTree, nodes
<1>2. Range(todo) = {}
  BY DEF Range
<1>3. tree.root \in G
  BY <1>1, <1>2 DEF Covered
<1>4. ASSUME NEW m \in DOMAIN nodes \ {tree.root}, Parent(nodes, m) \in G
      PROVE  m \in G
  <2> DEFINE p == Parent(nodes, m)
  <2>1. Ancestors[m] = {p} \cup Ancestors[p]
    BY AncestorsOf
  <2>2. p \in DOMAIN nodes /\ m \in KidSet(nodes, p)
    BY <1>1, TreeParent
  <2>3. p \in G
    BY <1>4
  <2> HIDE DEF p
  <2>4. CASE p \in seen /\ Descends(p)
    BY <1>2, <2>2, <2>4 DEF Covered
  <2> QED
    BY <2>1, <2>3, <2>4
<1> HIDE DEF G
<1>5. DOMAIN nodes \subseteq G
  BY <1>1, <1>3, <1>4, DownTheTree
<1> QED
  BY <1>5 DEF G

\* The visit found nothing to replace: there is nothing.
LEMMA NothingAsked ==
  ASSUME Shape, Rooted(nodes), todo = <<>>, changes = {}, NEW seen, Covered(seen),
         NEW n \in DOMAIN nodes
  PROVE  Replaces(n) = {}
<1>1. \A a \in seen : Replaces(a) = {}
  BY DEF Covered
<1>2. \A a \in seen : Descends(a)
  BY <1>1 DEF Descends
<1> QED
  BY <1>1, <1>2, Reached

-----------------------------------------------------------------------------
(* What the end of a pass means. *)

LEMMA SwapOrdered ==
  ASSUME NEW n \in DOMAIN nodes, nodes[n].bounds \in Seq(Nat), NEW kind, NEW order \in Bounds,
         Kind(n) = kind
  PROVE  Ordered(nodes[n].bounds, order) =
           IF SwapBounds(n, kind, order) = {} THEN nodes[n].bounds
           ELSE Reverse(nodes[n].bounds)
<1> DEFINE b == nodes[n].bounds
<1>1. CASE SwapBounds(n, kind, order) # {}
  <2>1. /\ Len(b) = 2
        /\ \/ order = "MSBFirst" /\ b[1] < b[2]
           \/ order = "LSBFirst" /\ b[1] > b[2]
    BY <1>1 DEF SwapBounds
  <2>2. b[1] \in Nat /\ b[2] \in Nat
    BY <2>1
  <2>3. order # "Preserve" /\ (order = "MSBFirst") = (b[1] < b[2])
    BY <2>1, <2>2
  <2> HIDE DEF b
  <2>4. Ordered(b, order) = Reverse(b)
    BY <2>1, <2>3 DEF Ordered
  <2> QED
    BY <1>1, <2>4 DEF b
<1>2. CASE SwapBounds(n, kind, order) = {}
  <2>1. ~(/\ Len(b) = 2
          /\ \/ order = "MSBFirst" /\ b[1] < b[2]
             \/ order = "LSBFirst" /\ b[1] > b[2])
    BY <1>2 DEF SwapBounds
  <2> HIDE DEF b
  <2>2. SUFFICES ASSUME Len(b) = 2, order # "Preserve", (order = "MSBFirst") = (b[1] < b[2])
                 PROVE  Reverse(b) = b
    BY <1>2 DEF Ordered, b
  <2>3. b \in Seq(Nat)
    BY DEF b
  <2>4. b[1] \in Nat /\ b[2] \in Nat
    <3>1. Len(b) = 2
      BY <2>2
    <3>2. b \in [1..2 -> Nat]
      BY <2>3, <3>1, LenProperties
    <3> QED
      BY <3>2
  <2>5. b[1] = b[2]
    BY <2>1, <2>2, <2>4 DEF Bounds
  <2>6. Reverse(b) = [j \in 1..2 |-> b[(2 - j) + 1]]
    BY <2>2 DEF Reverse
  <2>7. \A j \in 1..2 : b[(2 - j) + 1] = b[j]
    BY <2>5
  <2>8. b = [j \in 1..2 |-> b[j]]
    BY <2>2, <2>3
  <2> QED
    BY <2>6, <2>7, <2>8
<1> QED
  BY <1>1, <1>2

\* The passes that are over, and the one that is about to be.
LEMMA EndOfPass ==
  ASSUME Shape, pc # "done", NextPass
  PROVE  /\ Passed' = Passed \cup {pass} /\ pass \notin Passed
         /\ pc' \in {"start", "done"} /\ (pc' = "done" => pass' = 5)
<1>1. pass \in 1..5
  BY DEF Shape
<1>2. CASE pass = 5
  BY <1>1, <1>2 DEF NextPass, Passes, Passed
<1>3. CASE pass # 5
  <2>1. pc' = "start" /\ pass' = pass + 1
    BY <1>3 DEF NextPass, Passes
  <2> QED
    BY <1>1, <1>3, <2>1 DEF Passed
<1> QED
  BY <1>2, <1>3

\* The pass is over where it has not been applied or asks for nothing any more.
LEMMA PassDone ==
  ASSUME Both, TreesRooted, BodiesAreStatements, ControlsHaveOneOperand,
         pass \notin Passed, Written(nodes, Passed), Enclosed(nodes, Passed),
         \/ ~Applies(Passes[pass])
         \/ \A n \in DOMAIN nodes : Replaces(n) = {}
  PROVE  Written(nodes, Passed \cup {pass}) /\ Enclosed(nodes, Passed \cup {pass})
<1>1. DOMAIN old \subseteq DOMAIN nodes /\ \A n \in DOMAIN old : Kind(n) = old[n].kind
  BY DEF Both, Keeps, Kind
<1>2. /\ style.packed \in Bounds /\ style.unpacked \in Bounds
      /\ pass \in 1..5 /\ style \in Style
  BY DEF Both, Shape, Style
<1>3. \A n \in DOMAIN old : nodes[n].bounds \in Seq(Nat)
  <2> TAKE n \in DOMAIN old
  <2>1. nodes[n] \in Node
    BY <1>1, KidsOf DEF Both
  <2> QED
    BY <2>1 DEF Node
<1>4. CASE pass = 1
  <2>1. \A n \in DOMAIN old : WantsBlock(n) => Wrapped(nodes, n)
    <3>1. CASE ~style.beginEnd
      BY <3>1 DEF WantsBlock
    <3>2. CASE \A n \in DOMAIN nodes : InsertBeginEnd(n) = {}
      BY <1>1, <3>2, WantedIsAsked
    <3>3. ~Applies(Passes[pass]) => ~style.beginEnd
      BY <1>4 DEF Applies, Passes
    <3> QED
      BY <1>4, <3>1, <3>2, <3>3, ReplacesOf DEF Both
  <2> QED
    BY <1>4, <2>1 DEF Written, WrittenAs, WantedBounds, Enclosed
<1>5. CASE pass = 2
  <2>1. \A n \in DOMAIN nodes : Replaces(n) = InsertParens(n)
    BY <1>5 DEF Replaces, Passes
  <2>2. ~Applies(Passes[pass]) => style.parens = {}
    BY <1>5 DEF Applies, Passes
  <2>3. \A n \in DOMAIN old : WantsParens(n) => Wrapped(nodes, n)
    <3>1. CASE style.parens = {}
      BY <3>1 DEF WantsParens
    <3>2. CASE \A n \in DOMAIN nodes : InsertParens(n) = {}
      BY <1>1, <3>2, WantedParensAsked
    <3> QED
      BY <2>1, <2>2, <3>1, <3>2
  <2>4. ASSUME NEW n \in DOMAIN old, WantedParens(n)
        PROVE  nodes[n].parens = TRUE
    <3>1. InsertParens(n) = {}
      BY <1>1, <2>1, <2>2, <2>4 DEF WantedParens
    <3>2. nodes[n].parens
      BY <1>1, <2>4, <3>1 DEF WantedParens, InsertParens, HasParens
    <3>3. nodes[n].parens \in BOOLEAN
      BY <1>1, KidsOf DEF Node, Both
    <3> QED
      BY <3>2, <3>3
  <2> QED
    <3>1. Enclosed(nodes, Passed \cup {pass})
      BY <1>5, <2>3 DEF Enclosed
    <3>2. ASSUME NEW n \in DOMAIN old
          PROVE  WrittenAs(n, nodes[n], Passed \cup {pass})
      <4>1. WrittenAs(n, nodes[n], Passed)
        BY DEF Written
      <4>2. WantedBounds(n, Passed \cup {pass}) = WantedBounds(n, Passed)
        BY <1>5 DEF WantedBounds
      <4> QED
        <5>1. 3 \in Passed \cup {pass} <=> 3 \in Passed
          BY <1>5
        <5> QED
          BY <2>4, <4>1, <4>2, <5>1, Zenon DEF WrittenAs
    <3> QED
      BY <3>1, <3>2 DEF Written
<1>6. CASE pass = 3
  <2>1. ASSUME NEW n \in DOMAIN old, WantedSep(n)
        PROVE  nodes[n].sep = Separator
    <3>1. Applies(Passes[pass])
      BY <1>6, <2>1 DEF Applies, Passes, WantedSep
    <3>2. RewriteSeparator(n) = {}
      BY <1>1, <1>6, <3>1 DEF Replaces, Passes
    <3> QED
      BY <1>1, <2>1, <3>2 DEF RewriteSeparator, WantedSep
  <2> QED
    BY <1>6, <2>1 DEF Written, WrittenAs, WantedBounds, Enclosed
<1>7. CASE pass \in {4, 5}
  <2> DEFINE kind == IF pass = 4 THEN "PackedRange" ELSE "UnpackedRange"
             order == IF pass = 4 THEN style.packed ELSE style.unpacked
  <2>1. ASSUME NEW n \in DOMAIN old, old[n].kind = kind
        PROVE  nodes[n].bounds = Ordered(old[n].bounds, order)
    <3>1. nodes[n].bounds = old[n].bounds
      BY <1>7, <2>1 DEF Written, WrittenAs, WantedBounds
    <3>2. ~Applies(Passes[pass]) => order = "Preserve"
      <4>1. CASE pass = 4
        BY <4>1 DEF Applies, Passes
      <4>2. CASE pass = 5
        BY <4>2 DEF Applies, Passes
      <4> QED
        BY <1>7, <4>1, <4>2
    <3>3. Applies(Passes[pass]) => SwapBounds(n, kind, order) = {}
      BY <1>1, <1>7 DEF Replaces, Passes
    <3>4. order \in Bounds
      BY <1>2
    <3> HIDE DEF kind, order
    <3>5. CASE order = "Preserve"
      BY <3>1, <3>5 DEF Ordered
    <3>6. CASE SwapBounds(n, kind, order) = {}
      BY <1>1, <1>3, <2>1, <3>1, <3>4, <3>6, SwapOrdered
    <3> QED
      BY <3>2, <3>3, <3>5, <3>6
  <2>2. ASSUME NEW n \in DOMAIN old
        PROVE  nodes[n].bounds = WantedBounds(n, Passed \cup {pass})
    <3>1. nodes[n].bounds = WantedBounds(n, Passed)
      BY DEF Written, WrittenAs
    <3> QED
      BY <1>7, <2>1, <3>1 DEF WantedBounds
  <2>3. ASSUME NEW n \in DOMAIN old
        PROVE  WrittenAs(n, nodes[n], Passed \cup {pass})
    BY <1>7, <2>2 DEF Written, WrittenAs
  <2>4. Enclosed(nodes, Passed \cup {pass})
    BY <1>7 DEF Enclosed
  <2> QED
    BY <2>3, <2>4 DEF Written
<1> QED
  BY <1>2, <1>4, <1>5, <1>6, <1>7

-----------------------------------------------------------------------------
(* The replacements of each pass. *)

\* What each node of changes asked for.
LEMMA ChangesWanted ==
  ASSUME IInv, EInv, pc = "visit", NEW c \in Effective
  PROVE  /\ c \in changes /\ c \in DOMAIN nodes /\ Ancestors[c] \cap changes = {}
         /\ \E n \in DOMAIN nodes : c \in Replaces(n)
         /\ pass # 1 => c \in Replaces(c)
<1>1. c \in changes /\ c \in DOMAIN nodes /\ Ancestors[c] \cap changes = {}
  BY DEF Effective, IInv, Visits
<1>2. PICK n \in DOMAIN nodes : c \in Replaces(n)
  BY <1>1, ChangesOf
<1>3. pass # 1 => c = n
  BY <1>2, ReplacesOf DEF IInv
<1> QED
  BY <1>1, <1>2, <1>3

LEMMA BeginEndKeeps ==
  ASSUME IInv, EInv, BodiesAreStatements, pc = "visit", pass = 1
  PROVE  /\ Replaced = Surround("Block", Effective)
         /\ Effective \in SUBSET (DOMAIN old \ {source.root})
         /\ \A n \in Effective : WantsBlock(n) /\ ~Wrapped(nodes, n)
<1>1. Replaced = Surround("Block", Effective)
  BY DEF Replaced, Passes
<1>2. style.beginEnd
  BY DEF EInv, Covers, Applies, Passes
<1>3. ASSUME NEW c \in Effective
      PROVE  c \in DOMAIN old \ {source.root} /\ WantsBlock(c) /\ ~Wrapped(nodes, c)
  <2>1. PICK n \in DOMAIN nodes : c \in Replaces(n)
    BY ChangesWanted
  <2>2. c \in InsertBeginEnd(n)
    BY <2>1, ReplacesOf DEF IInv
  <2> QED
    BY <1>2, <2>2, AskedIsWanted, BothOf
<1> QED
  BY <1>1, <1>3

LEMMA ParensKeeps ==
  ASSUME IInv, EInv, ControlsHaveOneOperand, pc = "visit", pass = 2
  PROVE  LET implicit == {n \in Effective : Kind(n) = "ImplicitControl"}
             inner == {Kid(n, 1) : n \in Effective \ implicit}
             surrounded == Surround("Parens", inner)
         IN  /\ Replaced = [n \in DOMAIN surrounded |->
                              IF n \in implicit THEN [surrounded[n] EXCEPT !.parens = TRUE]
                              ELSE surrounded[n]]
             /\ inner \in SUBSET (DOMAIN old \ {source.root})
             /\ \A n \in inner : WantsParens(n) /\ ~Wrapped(nodes, n)
             /\ \A n \in implicit : n \in DOMAIN old /\ WantedParens(n)
             /\ \A n \in Effective : n \in DOMAIN old /\ old[n].kind \in style.parens
<1> DEFINE implicit == {n \in Effective : Kind(n) = "ImplicitControl"}
           inner == {Kid(n, 1) : n \in Effective \ implicit}
           surrounded == Surround("Parens", inner)
           after == [n \in DOMAIN surrounded |->
                       IF n \in implicit THEN [surrounded[n] EXCEPT !.parens = TRUE]
                       ELSE surrounded[n]]
<1>1. Replaced = after
  BY DEF Replaced, Passes
<1>2. ASSUME NEW n \in Effective
      PROVE  n \in DOMAIN nodes /\ n \in InsertParens(n)
  <2>1. n \in DOMAIN nodes /\ n \in Replaces(n)
    BY ChangesWanted
  <2> QED
    BY <2>1 DEF Replaces, Passes
<1>3. ASSUME NEW n \in Effective
      PROVE  /\ n \in DOMAIN old /\ Kind(n) = old[n].kind /\ old[n].kind \in style.parens
             /\ Kind(n) = "ImplicitControl" => WantedParens(n)
             /\ Kind(n) # "ImplicitControl" =>
                  /\ Kid(n, 1) \in DOMAIN old \ {source.root} /\ WantsParens(Kid(n, 1))
                  /\ ~Wrapped(nodes, Kid(n, 1))
  BY <1>2, ParensAsked, BothOf
<1>4. \A n \in implicit : n \in DOMAIN old /\ WantedParens(n)
  BY <1>3
<1>5. /\ inner \in SUBSET (DOMAIN old \ {source.root})
      /\ \A n \in inner : WantsParens(n) /\ ~Wrapped(nodes, n)
  BY <1>3
<1> HIDE DEF after
<1>6. /\ Replaced = after
      /\ inner \in SUBSET (DOMAIN old \ {source.root})
      /\ \A n \in inner : WantsParens(n) /\ ~Wrapped(nodes, n)
      /\ \A n \in implicit : n \in DOMAIN old /\ WantedParens(n)
      /\ \A n \in Effective : n \in DOMAIN old /\ old[n].kind \in style.parens
  BY <1>1, <1>3, <1>4, <1>5
<1> QED
  BY <1>6 DEF after

LEMMA SeparatorKeeps ==
  ASSUME IInv, EInv, pc = "visit", pass = 3
  PROVE  /\ Replaced = [n \in DOMAIN nodes |->
                          IF n \in Effective
                          THEN [nodes[n] EXCEPT !.sep = IF @ = "or" THEN "," ELSE "or"]
                          ELSE nodes[n]]
         /\ \A n \in Effective : n \in DOMAIN old /\ WantedSep(n) /\ nodes[n].sep # Separator
<1>1. ASSUME NEW n \in Effective
      PROVE  n \in DOMAIN old /\ WantedSep(n) /\ nodes[n].sep # Separator
  <2>1. n \in DOMAIN nodes /\ n \in Replaces(n)
    BY ChangesWanted
  <2>2. Kind(n) = "BinaryEvent" /\ nodes[n].sep # Separator
    BY <2>1 DEF Replaces, Passes, RewriteSeparator
  <2>3. n \in DOMAIN old /\ Kind(n) = old[n].kind
    BY <2>1, <2>2, ParsedKind, BothOf
  <2>4. style.separator # "Preserve"
    BY DEF EInv, Covers, Applies, Passes
  <2> QED
    BY <2>2, <2>3, <2>4 DEF WantedSep
<1> QED
  BY <1>1 DEF Replaced, Passes

RangeKind == IF pass = 4 THEN "PackedRange" ELSE "UnpackedRange"
RangeOrder == IF pass = 4 THEN style.packed ELSE style.unpacked

\* Every range in the wrong order is swapped.
LEMMA RangesKeep ==
  ASSUME IInv, EInv, RangesAreLeaves, pc = "visit", todo = <<>>, pass \in {4, 5}
  PROVE  /\ Replaced = [n \in DOMAIN nodes |->
                          IF n \in Effective THEN [nodes[n] EXCEPT !.bounds = Reverse(@)]
                          ELSE nodes[n]]
         /\ RangeOrder \in Bounds
         /\ \A n \in Effective : n \in DOMAIN old /\ old[n].kind = RangeKind
         /\ \A n \in DOMAIN old :
              old[n].kind = RangeKind =>
                (n \in Effective <=> SwapBounds(n, RangeKind, RangeOrder) # {})
<1>1. Shape /\ Rooted(nodes) /\ Both
  BY BothOf DEF IInv, EInv
<1>2. \A n : Replaces(n) = SwapBounds(n, RangeKind, RangeOrder)
  <2>1. CASE pass = 4
    BY <2>1 DEF Replaces, Passes, RangeKind, RangeOrder
  <2>2. CASE pass = 5
    BY <2>2 DEF Replaces, Passes, RangeKind, RangeOrder
  <2> QED
    BY <2>1, <2>2
<1>3. \A n : Replaces(n) # {} => Kind(n) = RangeKind /\ Replaces(n) = {n}
  BY <1>2 DEF SwapBounds
<1>4. ASSUME NEW n \in DOMAIN nodes, Replaces(n) # {}
      PROVE  n \in DOMAIN old /\ old[n].kind = RangeKind /\ KidSet(nodes, n) = {}
  <2>1. n \in DOMAIN old /\ Kind(n) = old[n].kind /\ Kind(n) = RangeKind
    BY <1>1, <1>3, <1>4, ParsedKind DEF RangeKind
  <2>2. nodes[n].bounds = WantedBounds(n, Passed) /\ pass \notin Passed
    BY <2>1 DEF EInv, Written, WrittenAs, Passed
  <2>3. Len(old[n].bounds) = 2
    BY <1>2, <1>4, <2>1, <2>2 DEF SwapBounds, WantedBounds, RangeKind
  <2>4. Len(old[n].kids) = 0
    BY <1>1, <2>1, <2>3 DEF RangesAreLeaves, Both, old
  <2>5. Len(nodes[n].kids) = 0 /\ nodes[n].kids \in Seq(DOMAIN nodes)
    BY <1>1, <2>1, <2>4, KidsOf DEF Both, Keeps
  <2>6. KidSet(nodes, n) = {}
    BY <2>5 DEF KidSet, Range
  <2> QED
    BY <2>1, <2>6
<1>5. \A c \in changes : c \in DOMAIN nodes /\ Replaces(c) # {}
  <2> TAKE c \in changes
  <2>1. PICK n \in DOMAIN nodes : c \in Replaces(n)
    BY ChangesOf
  <2> QED
    BY <1>3, <2>1
<1>6. \A n \in DOMAIN nodes : Ancestors[n] \cap changes = {}
  BY <1>1, <1>4, <1>5, AncestorsAreParents
<1>7. Effective = changes
  BY <1>5, <1>6 DEF Effective
<1>8. PICK seen \in SUBSET DOMAIN nodes : Covered(seen)
  BY DEF EInv, Covers
<1>9. \A n \in DOMAIN nodes : n \in seen
  <2> TAKE n \in DOMAIN nodes
  <2>1. ASSUME NEW a \in Ancestors[n], a \in seen, ~Descends(a)
        PROVE  FALSE
    <3>1. Replaces(a) # {}
      BY <2>1 DEF Descends
    <3>2. a \in DOMAIN nodes /\ KidSet(nodes, a) # {}
      BY <1>1, <2>1, AncestorsAreParents
    <3> QED
      BY <1>4, <3>1, <3>2
  <2> QED
    BY <1>1, <1>8, <2>1, Reached
<1>10. ASSUME NEW n \in DOMAIN old
       PROVE  n \in Effective <=> SwapBounds(n, RangeKind, RangeOrder) # {}
  <2>1. n \in DOMAIN nodes
    BY <1>1 DEF Both, Keeps
  <2>2. ASSUME n \in changes
        PROVE  Replaces(n) # {}
    <3>1. PICK m \in DOMAIN nodes : n \in Replaces(m)
      BY <2>2, ChangesOf
    <3> QED
      BY <1>3, <3>1
  <2>3. ASSUME Replaces(n) # {}
        PROVE  n \in changes
    BY <1>3, <1>8, <1>9, <2>1, <2>3 DEF Covered
  <2> QED
    BY <1>2, <1>7, <2>2, <2>3
<1>11. RangeOrder \in Bounds
  BY <1>1 DEF Shape, Style, RangeOrder
<1>12. Replaced = [n \in DOMAIN nodes |->
                     IF n \in Effective THEN [nodes[n] EXCEPT !.bounds = Reverse(@)]
                     ELSE nodes[n]]
  <2>1. Passes[pass] \notin {"BeginEnd", "Parens", "Separator"}
    BY DEF Passes
  <2> QED
    BY <2>1 DEF Replaced
<1> QED
  BY <1>4, <1>5, <1>7, <1>10, <1>11, <1>12

\* The passes that a commit is the end of.
LEMMA CommitKeeps ==
  ASSUME IInv, EInv, BodiesAreStatements, ControlsHaveOneOperand, RangesAreLeaves,
         pc = "visit", todo = <<>>,
         NEW passed, passed = IF pass \in {4, 5} THEN Passed \cup {pass} ELSE Passed
  PROVE  Keeps(Replaced) /\ Rooted(Replaced) /\ Written(Replaced, passed)
         /\ Enclosed(Replaced, passed)
<1>1. /\ Shape /\ Rooted(nodes) /\ Both /\ Keeps(nodes) /\ IsSyntaxTree(source)
      /\ Written(nodes, Passed) /\ Enclosed(nodes, Passed)
      /\ pass \in 1..5 /\ Passed = {p \in 1..5 : p < pass}
      /\ DOMAIN old \subseteq DOMAIN nodes /\ IsSyntaxTree(tree)
  BY BothOf DEF IInv, EInv, Both, Passed, Shape, Keeps
<1>2. \A n \in DOMAIN nodes : nodes[n] \in Node
  BY <1>1, KidsOf
<1>3. \A n \in DOMAIN old : (WantsBlock(n) \/ WantsParens(n)) => n # source.root
  BY DEF WantsBlock, WantsParens
<1>4. ASSUME NEW kind \in {"Block", "Parens"},
             NEW inner \in SUBSET (DOMAIN old \ {source.root}),
             \A i \in inner : /\ ~Wrapped(nodes, i)
                              /\ kind = "Block" => WantsBlock(i)
                              /\ kind = "Parens" => WantsParens(i),
             pass \in {1, 2}
      PROVE  /\ Keeps(Surround(kind, inner)) /\ Rooted(Surround(kind, inner))
             /\ Written(Surround(kind, inner), Passed)
             /\ Enclosed(Surround(kind, inner), Passed)
  <2> DEFINE after == Surround(kind, inner)
  <2>1. /\ Keeps(after)
        /\ \A n \in DOMAIN old :
             /\ after[n].sep = nodes[n].sep /\ after[n].bounds = nodes[n].bounds
             /\ after[n].parens = nodes[n].parens
        /\ \A n \in DOMAIN old \ {source.root} :
             Wrapped(after, n) <=> Wrapped(nodes, n) \/ n \in inner
    BY <1>1, <1>4, SurroundKeeps
  <2>2. Rooted(after)
    <3>1. inner \in SUBSET DOMAIN nodes
      BY <1>1
    <3> QED
      BY <1>1, <3>1, SurroundRooted
  <2> HIDE DEF after
  <2>3. Written(after, Passed)
    BY <1>1, <2>1 DEF Written, WrittenAs
  <2>4. Enclosed(after, Passed)
    BY <1>1, <1>3, <2>1 DEF Enclosed
  <2> QED
    BY <2>1, <2>2, <2>3, <2>4 DEF after
<1>5. CASE pass = 1
  BY <1>4, <1>5, BeginEndKeeps
<1>6. CASE pass = 2
  <2> DEFINE implicit == {n \in Effective : Kind(n) = "ImplicitControl"}
             inner == {Kid(n, 1) : n \in Effective \ implicit}
             surrounded == Surround("Parens", inner)
  <2>1. /\ Replaced = [n \in DOMAIN surrounded |->
                         IF n \in implicit THEN [surrounded[n] EXCEPT !.parens = TRUE]
                         ELSE surrounded[n]]
        /\ inner \in SUBSET (DOMAIN old \ {source.root})
        /\ \A n \in inner : WantsParens(n) /\ ~Wrapped(nodes, n)
        /\ \A n \in implicit : n \in DOMAIN old /\ WantedParens(n)
    BY <1>6, ParensKeeps
  <2> HIDE DEF implicit, inner
  <2>2. /\ Keeps(surrounded) /\ Rooted(surrounded) /\ Written(surrounded, Passed)
        /\ Enclosed(surrounded, Passed)
    BY <1>4, <1>6, <2>1
  <2>3. \A n \in DOMAIN surrounded : surrounded[n] \in Node
    <3>1. inner \in SUBSET (DOMAIN nodes \ {tree.root})
      BY <1>1, <2>1 DEF Both
    <3>2. IsSyntaxTree([nodes |-> surrounded, root |-> tree.root])
      BY <1>1, <3>1, SurroundIsTree
    <3> QED
      BY <3>2 DEF IsSyntaxTree
  <2> HIDE DEF surrounded
  <2>4. \A n \in DOMAIN surrounded :
          /\ Replaced[n].kind = surrounded[n].kind /\ Replaced[n].kids = surrounded[n].kids
          /\ Replaced[n].sep = surrounded[n].sep /\ Replaced[n].bounds = surrounded[n].bounds
          /\ Replaced[n].parens = IF n \in implicit THEN TRUE ELSE surrounded[n].parens
    BY <2>1, <2>3 DEF Node
  <2>5. \A n \in DOMAIN surrounded \ DOMAIN old : Replaced[n] = surrounded[n]
    BY <2>1
  <2>6. DOMAIN Replaced = DOMAIN surrounded
    BY <2>1
  <2>7. /\ Keeps(Replaced) /\ Rooted(Replaced)
        /\ \A n \in DOMAIN old \ {source.root} :
             Wrapped(Replaced, n) <=> Wrapped(surrounded, n)
    BY <1>1, <2>2, <2>4, <2>5, <2>6, SameKidsKeep
  <2>8. Enclosed(Replaced, Passed)
    BY <1>3, <2>2, <2>7 DEF Enclosed
  <2>9. Written(Replaced, Passed)
    <3>1. ASSUME NEW n \in DOMAIN old
          PROVE  WrittenAs(n, Replaced[n], Passed)
      <4>1. n \in DOMAIN surrounded /\ WrittenAs(n, surrounded[n], Passed)
        BY <2>2 DEF Keeps, Written
      <4>2. /\ Replaced[n].sep = surrounded[n].sep
            /\ Replaced[n].bounds = surrounded[n].bounds
            /\ WantedParens(n) \/ Replaced[n].parens = surrounded[n].parens
        BY <2>1, <2>4, <4>1
      <4>3. 2 \notin Passed
        BY <1>1, <1>6
      <4> QED
        BY <4>1, <4>2, <4>3, Zenon DEF WrittenAs
    <3> QED
      BY <3>1 DEF Written
  <2> QED
    BY <1>6, <2>7, <2>8, <2>9
<1>7. CASE pass = 3
  <2>1. /\ Replaced = [n \in DOMAIN nodes |->
                         IF n \in Effective
                         THEN [nodes[n] EXCEPT !.sep = IF @ = "or" THEN "," ELSE "or"]
                         ELSE nodes[n]]
        /\ \A n \in Effective : n \in DOMAIN old /\ WantedSep(n)
    BY <1>7, SeparatorKeeps
  <2>2. \A n \in DOMAIN nodes :
          /\ Replaced[n].kind = nodes[n].kind /\ Replaced[n].kids = nodes[n].kids
          /\ Replaced[n].parens = nodes[n].parens /\ Replaced[n].bounds = nodes[n].bounds
          /\ n \in Effective => Replaced[n].sep # "none"
          /\ n \notin Effective => Replaced[n].sep = nodes[n].sep
    BY <1>2, <2>1 DEF Node
  <2>3. /\ DOMAIN Replaced = DOMAIN nodes
        /\ \A n \in DOMAIN nodes \ DOMAIN old : Replaced[n] = nodes[n]
    BY <2>1
  <2>4. /\ Keeps(Replaced) /\ Rooted(Replaced)
        /\ \A n \in DOMAIN old \ {source.root} : Wrapped(Replaced, n) <=> Wrapped(nodes, n)
    BY <1>1, <2>2, <2>3, SameKidsKeep
  <2>5. Enclosed(Replaced, Passed)
    BY <1>1, <1>3, <2>4 DEF Enclosed
  <2>6. Written(Replaced, Passed)
    <3>1. ASSUME NEW n \in DOMAIN old
          PROVE  WrittenAs(n, Replaced[n], Passed)
      <4>1. n \in DOMAIN nodes /\ WrittenAs(n, nodes[n], Passed) /\ 3 \notin Passed
        BY <1>1, <1>7 DEF Written
      <4>2. /\ Replaced[n].parens = nodes[n].parens /\ Replaced[n].bounds = nodes[n].bounds
            /\ \/ WantedSep(n) /\ Replaced[n].sep # "none"
               \/ Replaced[n].sep = nodes[n].sep
        BY <2>1, <2>2, <4>1
      <4> QED
        BY <4>1, <4>2, Zenon DEF WrittenAs
    <3> QED
      BY <3>1 DEF Written
  <2> QED
    BY <1>7, <2>4, <2>5, <2>6
<1>8. CASE pass \in {4, 5}
  <2>1. /\ Replaced = [n \in DOMAIN nodes |->
                         IF n \in Effective THEN [nodes[n] EXCEPT !.bounds = Reverse(@)]
                         ELSE nodes[n]]
        /\ RangeOrder \in Bounds
        /\ \A n \in Effective : n \in DOMAIN old /\ old[n].kind = RangeKind
        /\ \A n \in DOMAIN old :
             old[n].kind = RangeKind =>
               (n \in Effective <=> SwapBounds(n, RangeKind, RangeOrder) # {})
    BY <1>8, RangesKeep
  <2>2. \A n \in DOMAIN nodes :
          /\ Replaced[n].kind = nodes[n].kind /\ Replaced[n].kids = nodes[n].kids
          /\ Replaced[n].parens = nodes[n].parens /\ Replaced[n].sep = nodes[n].sep
          /\ Replaced[n].bounds = IF n \in Effective THEN Reverse(nodes[n].bounds)
                                  ELSE nodes[n].bounds
    BY <1>2, <2>1 DEF Node
  <2>3. /\ DOMAIN Replaced = DOMAIN nodes
        /\ \A n \in DOMAIN nodes \ DOMAIN old : Replaced[n] = nodes[n]
    BY <2>1
  <2>4. /\ Keeps(Replaced) /\ Rooted(Replaced)
        /\ \A n \in DOMAIN old \ {source.root} : Wrapped(Replaced, n) <=> Wrapped(nodes, n)
    BY <1>1, <2>2, <2>3, SameKidsKeep
  <2>5. Enclosed(Replaced, passed)
    BY <1>1, <1>3, <1>8, <2>4 DEF Enclosed
  <2>6. ASSUME NEW n \in DOMAIN old, old[n].kind = RangeKind
        PROVE  Replaced[n].bounds = Ordered(old[n].bounds, RangeOrder)
    <3>1. n \in DOMAIN nodes /\ nodes[n].bounds \in Seq(Nat) /\ Kind(n) = RangeKind
      BY <1>1, <1>2, <2>6 DEF Keeps, Kind, Node
    <3>2. nodes[n].bounds = old[n].bounds
      BY <1>1, <1>8, <2>6 DEF Written, WrittenAs, WantedBounds, RangeKind
    <3> QED
      BY <2>1, <2>2, <2>6, <3>1, <3>2, SwapOrdered
  <2>7. ASSUME NEW n \in DOMAIN old
        PROVE  WrittenAs(n, Replaced[n], passed)
    <3>1. n \in DOMAIN nodes /\ WrittenAs(n, nodes[n], Passed)
      BY <1>1 DEF Written
    <3>2. Replaced[n].bounds = WantedBounds(n, passed)
      <4>1. nodes[n].bounds = WantedBounds(n, Passed)
        BY <3>1 DEF WrittenAs
      <4>2. CASE old[n].kind = RangeKind
        BY <1>1, <1>8, <2>6, <4>2 DEF WantedBounds, RangeKind, RangeOrder
      <4>3. CASE old[n].kind # RangeKind
        <5>1. Replaced[n].bounds = nodes[n].bounds
          BY <2>1, <2>2, <3>1, <4>3
        <5> QED
          BY <1>1, <1>8, <4>1, <4>3, <5>1 DEF WantedBounds, RangeKind
      <4> QED
        BY <4>2, <4>3
    <3>3. (2 \in passed <=> 2 \in Passed) /\ (3 \in passed <=> 3 \in Passed)
      BY <1>8
    <3>4. Replaced[n].parens = nodes[n].parens /\ Replaced[n].sep = nodes[n].sep
      BY <2>2, <3>1
    <3> QED
      BY <3>1, <3>2, <3>3, <3>4, Zenon DEF WrittenAs
  <2> QED
    BY <2>4, <2>5, <2>7 DEF Written
<1> QED
  BY <1>1, <1>5, <1>6, <1>7, <1>8

-----------------------------------------------------------------------------
(* The invariant. *)

LEMMA SamePromises ==
  ASSUME UNCHANGED <<source, style>>
  PROVE  /\ old' = old /\ Separator' = Separator
         /\ \A n : (WantsBlock(n)' <=> WantsBlock(n)) /\ (WantsParens(n)' <=> WantsParens(n))
         /\ \A n : (WantedSep(n)' <=> WantedSep(n)) /\ (WantedParens(n)' <=> WantedParens(n))
         /\ \A n, passed : WantedBounds(n, passed)' = WantedBounds(n, passed)
<1>1. old' = old /\ Separator' = Separator
  BY DEF old, Separator
<1>2. \A n : UnderOld(n)' = UnderOld(n)
  BY <1>1 DEF UnderOld
<1>3. \A n, kind : StartsProcedure(n, kind)' <=> StartsProcedure(n, kind)
  BY <1>1, <1>2 DEF StartsProcedure
<1>4. \A n : WantsBlock(n)' <=> WantsBlock(n)
  BY <1>1, <1>2, <1>3 DEF WantsBlock
<1>5. \A n : WantsParens(n)' <=> WantsParens(n)
  BY <1>1, <1>2 DEF WantsParens
<1>6. \A n : (WantedSep(n)' <=> WantedSep(n)) /\ (WantedParens(n)' <=> WantedParens(n))
  BY <1>1 DEF WantedSep, WantedParens
<1>7. \A n, passed : WantedBounds(n, passed)' = WantedBounds(n, passed)
  BY <1>1 DEF WantedBounds
<1> QED
  BY <1>1, <1>4, <1>5, <1>6, <1>7

LEMMA NextTree ==
  ASSUME UNCHANGED <<source, style>>, NEW after, after = nodes', NEW passed, passed = Passed',
         Keeps(after), Rooted(after), Written(after, passed), Enclosed(after, passed)
  PROVE  /\ Keeps(nodes)' /\ Rooted(nodes)' /\ Written(nodes, Passed)'
         /\ Enclosed(nodes, Passed)'
<1>1. /\ old' = old /\ Separator' = Separator /\ source' = source
      /\ \A n : (WantsBlock(n)' <=> WantsBlock(n)) /\ (WantsParens(n)' <=> WantsParens(n))
      /\ \A n : (WantedSep(n)' <=> WantedSep(n)) /\ (WantedParens(n)' <=> WantedParens(n))
      /\ \A n, set : WantedBounds(n, set)' = WantedBounds(n, set)
  BY SamePromises
<1>2. Keeps(nodes)'
  <2>1. \A m, c : Wraps(nodes, m, c)' <=> Wraps(after, m, c)
    BY <1>1 DEF Wraps
  <2> QED
    BY <1>1, <2>1 DEF Keeps
<1>3. Rooted(nodes)'
  BY DEF Rooted, KidSet
<1>4. Written(nodes, Passed)'
  <2>1. \A n : WantedBounds(n, Passed)' = WantedBounds(n, passed)
    BY <1>1 DEF WantedBounds
  <2>2. \A n \in DOMAIN old :
          WrittenAs(n, nodes[n], Passed)' <=> WrittenAs(n, after[n], passed)
    BY <1>1, <2>1 DEF WrittenAs
  <2> QED
    BY <1>1, <2>2 DEF Written
<1>5. Enclosed(nodes, Passed)'
  <2>1. \A n : Wrapped(nodes, n)' <=> Wrapped(after, n)
    BY <1>1 DEF Wrapped, KidSet, Parent, Range
  <2> QED
    BY <1>1, <2>1 DEF Enclosed
<1> QED
  BY <1>2, <1>3, <1>4, <1>5

LEMMA InitEnds ==
  ASSUME Init, TreesRooted
  PROVE  EInv
<1>1. source \in Trees /\ tree = source /\ old = nodes /\ pc = "start" /\ pass = 1
  BY DEF Init, old, nodes
<1>2. Rooted(nodes)
  BY <1>1 DEF TreesRooted, nodes
<1>3. Keeps(nodes)
  BY <1>1 DEF Keeps
<1>4. Passed = {}
  BY <1>1 DEF Passed
<1>5. Written(nodes, Passed) /\ Enclosed(nodes, Passed)
  <2>1. \A n \in DOMAIN old : nodes[n].bounds = WantedBounds(n, Passed)
    BY <1>1, <1>4 DEF WantedBounds
  <2> QED
    BY <1>1, <1>4, <2>1 DEF Written, WrittenAs, Enclosed
<1> QED
  BY <1>1, <1>2, <1>3, <1>5 DEF EInv, Covers

\* The hypotheses on the parsed trees.
WellParsed ==
  /\ TreesRooted
  /\ BodiesAreStatements /\ ControlsHaveOneOperand /\ RangesAreLeaves /\ EventsSeparated

LEMMA AllWellParsed == WellParsed
  BY ParsedAssumption, ParsedRooted DEF WellParsed

LEMMA VisitCovers ==
  ASSUME IInv, EInv, Visit
  PROVE  Covers'
<1>1. PICK seen \in SUBSET DOMAIN nodes : Covered(seen)
  BY DEF EInv, Covers, Visit
<1>3. PICK n \in DOMAIN nodes : n = Head(todo)
  BY DEF IInv, Visits, Visit
<1> DEFINE kids == IF Descends(n) THEN nodes[n].kids ELSE <<>>
<1>2. /\ todo \in Seq(DOMAIN nodes) /\ todo # <<>> /\ Shape
      /\ UNCHANGED <<style, tree, pass>> /\ UNCHANGED nodes
      /\ todo' = kids \o Tail(todo) /\ changes' = changes \cup Replaces(n)
  BY <1>3 DEF IInv, Visits, Visit, nodes
<1>4. kids \in Seq(DOMAIN nodes) /\ (Descends(n) => Range(kids) = KidSet(nodes, n))
  <2>1. CASE Descends(n)
    BY <1>2, <2>1, KidsOf DEF KidSet
  <2>2. CASE ~Descends(n)
    BY <2>2
  <2> QED
    BY <2>1, <2>2
<1>5. Applies(Passes[pass])' <=> Applies(Passes[pass])
  BY <1>2 DEF Applies, Passes
<1>6. \A m : Replaces(m)' = Replaces(m)
  BY <1>2, SameReplaces
<1>7. \A m : Descends(m)' <=> Descends(m)
  BY <1>2, <1>6 DEF Descends, Passes
<1> HIDE DEF kids
<1>8. Range(todo) \subseteq {n} \cup Range(Tail(todo))
  <2>1. ASSUME NEW i \in DOMAIN todo, i # 1
        PROVE  todo[i] \in Range(Tail(todo))
    <3>1. i - 1 \in DOMAIN Tail(todo) /\ Tail(todo)[i - 1] = todo[i]
      BY <1>2, <2>1
    <3> QED
      BY <3>1 DEF Range
  <2>2. todo[1] = n
    BY <1>2, <1>3
  <2> QED
    BY <2>1, <2>2 DEF Range
<1>9. Range(todo') = Range(kids) \cup Range(Tail(todo))
  <2>1. Tail(todo) \in Seq(DOMAIN nodes)
    BY <1>2
  <2>2. \A i \in DOMAIN kids : i \in DOMAIN todo' /\ todo'[i] = kids[i]
    BY <1>2, <1>4, <2>1
  <2>3. \A i \in DOMAIN Tail(todo) :
          Len(kids) + i \in DOMAIN todo' /\ todo'[Len(kids) + i] = Tail(todo)[i]
    BY <1>2, <1>4, <2>1
  <2>4. \A i \in DOMAIN todo' :
          \/ i \in DOMAIN kids /\ todo'[i] = kids[i]
          \/ i - Len(kids) \in DOMAIN Tail(todo) /\ todo'[i] = Tail(todo)[i - Len(kids)]
    BY <1>2, <1>4, <2>1
  <2> QED
    BY <2>2, <2>3, <2>4 DEF Range
<1> DEFINE now == seen \cup {n}
<1>10. Covered(now)'
  <2>1. tree.root \in now \cup Range(todo')
    BY <1>1, <1>8, <1>9 DEF Covered
  <2>2. ASSUME NEW m \in now
        PROVE  /\ Replaces(m) \subseteq changes'
               /\ Descends(m) => KidSet(nodes, m) \subseteq now \cup Range(todo')
    <3>1. CASE m = n
      BY <1>2, <1>4, <1>9, <3>1
    <3>2. CASE m \in seen
      BY <1>1, <1>2, <1>8, <1>9, <3>2 DEF Covered
    <3> QED
      BY <2>2, <3>1, <3>2
  <2>3. \A m : KidSet(nodes', m) = KidSet(nodes, m)
    BY <1>2
  <2> HIDE DEF now
  <2> QED
    BY <1>2, <1>6, <1>7, <2>1, <2>2, <2>3 DEF Covered
<1>11. \E set \in SUBSET DOMAIN nodes' : Covered(set)'
  <2>1. now \in SUBSET DOMAIN nodes'
    BY <1>2, <1>3
  <2> QED
    BY <1>10, <2>1
<1>12. Applies(Passes[pass])
  BY DEF EInv, Covers, Visit
<1> QED
  BY <1>5, <1>11, <1>12 DEF Covers

LEMMA NextEnds ==
  ASSUME IInv, EInv, WellParsed, [Next]_vars
  PROVE  EInv'
<1> USE DEF WellParsed
<1>1. /\ Both /\ Shape /\ Rooted(nodes) /\ Keeps(nodes) /\ Written(nodes, Passed)
      /\ Enclosed(nodes, Passed) /\ source \in Trees /\ tree.root = source.root
  BY BothOf DEF IInv, EInv
<1>2. CASE SkipPass \/ Unchanged
  <2>1. /\ UNCHANGED <<source, style, tree>> /\ NextPass /\ UNCHANGED nodes
        /\ pc \in {"start", "visit"}
    BY <1>2 DEF SkipPass, Unchanged, nodes
  <2>2. /\ Passed' = Passed \cup {pass} /\ pass \notin Passed
        /\ pc' \in {"start", "done"} /\ (pc' = "done" => pass' = 5)
    BY <1>1, <2>1, EndOfPass
  <2>3. ~Applies(Passes[pass]) \/ \A n \in DOMAIN nodes : Replaces(n) = {}
    <3>1. CASE Unchanged
      <4>1. PICK seen \in SUBSET DOMAIN nodes : Covered(seen)
        BY <3>1 DEF EInv, Covers, Unchanged
      <4>2. todo = <<>> /\ changes = {}
        BY <3>1 DEF Unchanged
      <4> QED
        BY <1>1, <4>1, <4>2, NothingAsked
    <3> QED
      BY <1>2, <3>1 DEF SkipPass
  <2>4. Written(nodes, Passed \cup {pass}) /\ Enclosed(nodes, Passed \cup {pass})
    BY <1>1, <2>2, <2>3, PassDone
  <2>5. /\ Keeps(nodes)' /\ Rooted(nodes)' /\ Written(nodes, Passed)'
        /\ Enclosed(nodes, Passed)'
    BY <1>1, <2>1, <2>2, <2>4, NextTree
  <2> QED
    BY <1>1, <2>1, <2>2, <2>5 DEF EInv, Covers
<1>3. ASSUME UNCHANGED <<source, style, tree, pass>>, pc # "done", pc' # "done", Covers'
      PROVE  EInv'
  <2>1. UNCHANGED nodes /\ Passed' = Passed
    BY <1>3 DEF nodes, Passed
  <2>2. /\ Keeps(nodes)' /\ Rooted(nodes)' /\ Written(nodes, Passed)'
        /\ Enclosed(nodes, Passed)'
    BY <1>1, <1>3, <2>1, NextTree
  <2> QED
    BY <1>1, <1>3, <2>2 DEF EInv
<1>4. CASE StartTransform
  <2>1. /\ UNCHANGED <<source, style, tree, pass>> /\ pc = "start" /\ pc' = "visit"
        /\ todo' = <<tree.root>> /\ UNCHANGED nodes
    BY <1>4 DEF StartTransform, nodes
  <2>2. Applies(Passes[pass])'
    BY <1>4, <2>1 DEF StartTransform, Applies, Passes
  <2>3. Covered({})'
    BY <2>1 DEF Covered, Range
  <2>4. \E seen \in SUBSET DOMAIN nodes' : Covered(seen)'
    BY <2>3
  <2>5. Covers'
    BY <2>2, <2>4 DEF Covers
  <2> QED
    BY <1>3, <2>1, <2>5
<1>5. CASE Visit
  <2>1. UNCHANGED <<source, style, tree, pass>> /\ pc # "done" /\ pc' # "done"
    BY <1>5 DEF Visit
  <2> QED
    BY <1>1, <1>3, <1>5, <2>1, VisitCovers
<1>6. CASE Commit
  <2> DEFINE passed == IF pass \in {4, 5} THEN Passed \cup {pass} ELSE Passed
  <2>1. /\ UNCHANGED <<source, style>> /\ pc = "visit" /\ todo = <<>>
        /\ nodes' = Replaced /\ tree'.root = tree.root
        /\ IF Passes[pass] \in Repeated THEN pc' = "start" /\ UNCHANGED pass ELSE NextPass
    <3>1. tree = [nodes |-> tree.nodes, root |-> tree.root]
      BY <1>1 DEF Shape, IsSyntaxTree
    <3> QED
      BY <1>6, <3>1 DEF Commit, nodes
  <2>2. /\ Keeps(Replaced) /\ Rooted(Replaced) /\ Written(Replaced, passed)
        /\ Enclosed(Replaced, passed)
    BY <2>1, CommitKeeps
  <2>3. Passed' = passed /\ pc' \in {"start", "done"} /\ (pc' = "done" => pass' = 5)
    <3>1. CASE pass \in {4, 5}
      <4>1. NextPass
        BY <2>1, <3>1 DEF Passes, Repeated
      <4> QED
        BY <1>1, <2>1, <3>1, <4>1, EndOfPass
    <3>2. CASE pass \in 1..3
      <4>1. pc' = "start" /\ UNCHANGED pass
        BY <2>1, <3>2 DEF Passes, Repeated
      <4> QED
        BY <2>1, <3>2, <4>1 DEF Passed
    <3> QED
      BY <1>1, <3>1, <3>2 DEF Shape
  <2> HIDE DEF passed
  <2>4. /\ Keeps(nodes)' /\ Rooted(nodes)' /\ Written(nodes, Passed)'
        /\ Enclosed(nodes, Passed)'
    BY <2>1, <2>2, <2>3, NextTree
  <2> QED
    BY <1>1, <2>1, <2>3, <2>4 DEF EInv, Covers
<1>7. CASE UNCHANGED vars
  <2>1. UNCHANGED <<source, style, tree, pass, pc, todo, changes>> /\ UNCHANGED nodes
        /\ Passed' = Passed
    BY <1>7 DEF vars, nodes, Passed
  <2>2. /\ Keeps(nodes)' /\ Rooted(nodes)' /\ Written(nodes, Passed)'
        /\ Enclosed(nodes, Passed)'
    BY <1>1, <2>1, NextTree
  <2>3. Covers'
    <3>1. \A m : Replaces(m)' = Replaces(m)
      BY <2>1, SameReplaces
    <3>2. \A m : Descends(m)' <=> Descends(m)
      BY <2>1, <3>1 DEF Descends, Passes
    <3>3. \A seen : Covered(seen)' <=> Covered(seen)
      BY <2>1, <3>1, <3>2 DEF Covered
    <3>4. Applies(Passes[pass])' <=> Applies(Passes[pass])
      BY <2>1 DEF Applies, Passes
    <3> QED
      BY <2>1, <3>3, <3>4 DEF EInv, Covers
  <2> QED
    BY <1>1, <2>1, <2>2, <2>3 DEF EInv
<1> QED
  BY <1>2, <1>4, <1>5, <1>6, <1>7 DEF Next, Step, Done

-----------------------------------------------------------------------------
(* What is read off a tree, and what is wanted. *)

LEMMA ReadingOf ==
  ASSUME NEW t, IsSyntaxTree(t), Rooted(t.nodes)
  PROVE  \E f : /\ Reading(t) = f[t.root]
                /\ \A n \in DOMAIN t.nodes :
                     f[n] = <<t.nodes[n].kind, t.nodes[n].sep, t.nodes[n].bounds,
                              t.nodes[n].parens,
                              [k \in DOMAIN t.nodes[n].kids |-> f[t.nodes[n].kids[k]]]>>
<1>1. PICK bound \in Nat : \E depth \in [DOMAIN t.nodes -> 0..bound] :
        \A p \in DOMAIN t.nodes : \A k \in KidSet(t.nodes, p) : depth[p] < depth[k]
  BY DEF Rooted
<1>2. PICK depth \in [DOMAIN t.nodes -> 0..bound] :
        \A p \in DOMAIN t.nodes : \A k \in KidSet(t.nodes, p) : depth[p] < depth[k]
  BY <1>1
<1>3. \A n \in DOMAIN t.nodes : \A k \in DOMAIN t.nodes[n].kids :
        t.nodes[n].kids[k] \in DOMAIN t.nodes /\ depth[n] < depth[t.nodes[n].kids[k]]
  BY <1>2, TreeKid
<1>4. \A n \in DOMAIN t.nodes : depth[n] \in Nat /\ depth[n] <= bound
  OBVIOUS
<1> DEFINE below(f, n) == [k \in DOMAIN t.nodes[n].kids |-> f[t.nodes[n].kids[k]]]
           of(sub, n) == <<t.nodes[n].kind, t.nodes[n].sep, t.nodes[n].bounds,
                           t.nodes[n].parens, sub>>
           lower(h) == {n \in DOMAIN t.nodes : bound - depth[n] < h}
           T == {h \in Nat : \E f : f = [n \in lower(h) |-> of(below(f, n), n)]}
<1>5. 0 \in T
  <2>1. lower(0) = {}
    BY <1>4
  <2> DEFINE f == [n \in {} |-> {}]
  <2> HIDE DEF of, below, lower
  <2>2. f = [n \in lower(0) |-> of(below(f, n), n)]
    BY <2>1
  <2>3. \E e : e = [n \in lower(0) |-> of(below(e, n), n)]
    BY <2>2
  <2> QED
    BY <2>3
<1>6. ASSUME NEW h \in Nat, h \in T
      PROVE  h + 1 \in T
  <2>1. PICK f : f = [n \in lower(h) |-> of(below(f, n), n)]
    BY <1>6
  <2> DEFINE g == [n \in lower(h + 1) |-> of(below(f, n), n)]
  <2>2. ASSUME NEW n \in lower(h + 1)
        PROVE  below(f, n) = below(g, n)
    <3>1. ASSUME NEW k \in DOMAIN t.nodes[n].kids
          PROVE  f[t.nodes[n].kids[k]] = g[t.nodes[n].kids[k]]
      <4> DEFINE c == t.nodes[n].kids[k]
      <4>1. /\ c \in DOMAIN t.nodes /\ depth[n] < depth[c] /\ n \in DOMAIN t.nodes
            /\ bound - depth[n] < h + 1
        BY <1>3, <2>2, <3>1
      <4> HIDE DEF c
      <4>2. c \in lower(h) /\ c \in lower(h + 1)
        BY <1>4, <4>1
      <4>3. f[c] = of(below(f, c), c) /\ g[c] = of(below(f, c), c)
        <5> HIDE DEF of, below, lower
        <5> QED
          BY <2>1, <4>2
      <4> HIDE DEF g, of, below
      <4> QED
        BY <4>3 DEF c
    <3> HIDE DEF g
    <3> QED
      BY <3>1
  <2>3. g = [n \in lower(h + 1) |-> of(below(g, n), n)]
    <3>1. g = [n \in lower(h + 1) |-> of(below(f, n), n)]
      OBVIOUS
    <3> HIDE DEF g, of, below, lower
    <3> QED
      BY <2>2, <3>1
  <2> HIDE DEF g, of, below, lower
  <2>4. \E e : e = [n \in lower(h + 1) |-> of(below(e, n), n)]
    BY <2>3
  <2> QED
    BY <2>4
<1>7. bound + 1 \in T
  <2> HIDE DEF T
  <2> QED
    BY <1>5, <1>6, Induction
<1>8. lower(bound + 1) = DOMAIN t.nodes
  BY <1>4
<1>9. \E f : f = [n \in DOMAIN t.nodes |-> of(below(f, n), n)]
  <2> HIDE DEF of, below, lower
  <2> QED
    BY <1>7, <1>8
<1> DEFINE read == CHOOSE f : f = [n \in DOMAIN t.nodes |-> of(below(f, n), n)]
<1>10. read = [n \in DOMAIN t.nodes |-> of(below(read, n), n)]
  <2> HIDE DEF of, below
  <2> QED
    BY <1>9
<1>11. Reading(t) = read[t.root]
  BY DEF Reading
<1> HIDE DEF read, of, below
<1>12. \A n \in DOMAIN t.nodes : read[n] = of(below(read, n), n)
  BY <1>10
<1> USE DEF of, below
<1> QED
  BY <1>11, <1>12

\* What is wanted of a node, given what is of its children.
WantedOf(sub, n) ==
  LET bare == <<old[n].kind,
                IF WantedSep(n) THEN Separator ELSE old[n].sep,
                CASE old[n].kind = "PackedRange" -> Ordered(old[n].bounds, style.packed)
                  [] old[n].kind = "UnpackedRange" -> Ordered(old[n].bounds, style.unpacked)
                  [] OTHER -> <<>>,
                old[n].parens \/ WantedParens(n), sub>>
  IN  CASE WantsBlock(n)  -> <<"Block", "none", <<>>, FALSE, <<bare>>>>
        [] WantsParens(n) -> <<"Parens", "none", <<>>, FALSE, <<bare>>>>
        [] OTHER -> bare

LEMMA WantedIs ==
  ASSUME IsSyntaxTree(source), Rooted(old)
  PROVE  \E f : /\ Wanted = f[source.root]
                /\ \A n \in DOMAIN old :
                     f[n] = WantedOf([k \in DOMAIN old[n].kids |-> f[old[n].kids[k]]], n)
<1>1. PICK bound \in Nat : \E depth \in [DOMAIN old -> 0..bound] :
        \A p \in DOMAIN old : \A k \in KidSet(old, p) : depth[p] < depth[k]
  BY DEF Rooted
<1>2. PICK depth \in [DOMAIN old -> 0..bound] :
        \A p \in DOMAIN old : \A k \in KidSet(old, p) : depth[p] < depth[k]
  BY <1>1
<1>3. \A n \in DOMAIN old : \A k \in DOMAIN old[n].kids :
        old[n].kids[k] \in DOMAIN old /\ depth[n] < depth[old[n].kids[k]]
  BY <1>2, TreeKid DEF old
<1>4. \A n \in DOMAIN old : depth[n] \in Nat /\ depth[n] <= bound
  OBVIOUS
<1> DEFINE below(f, n) == [k \in DOMAIN old[n].kids |-> f[old[n].kids[k]]]
           of(sub, n) == WantedOf(sub, n)
           lower(h) == {n \in DOMAIN old : bound - depth[n] < h}
           T == {h \in Nat : \E f : f = [n \in lower(h) |-> of(below(f, n), n)]}
<1>5. 0 \in T
  <2>1. lower(0) = {}
    BY <1>4
  <2> DEFINE f == [n \in {} |-> {}]
  <2> HIDE DEF of, below, lower
  <2>2. f = [n \in lower(0) |-> of(below(f, n), n)]
    BY <2>1
  <2>3. \E e : e = [n \in lower(0) |-> of(below(e, n), n)]
    BY <2>2
  <2> QED
    BY <2>3
<1>6. ASSUME NEW h \in Nat, h \in T
      PROVE  h + 1 \in T
  <2>1. PICK f : f = [n \in lower(h) |-> of(below(f, n), n)]
    BY <1>6
  <2> DEFINE g == [n \in lower(h + 1) |-> of(below(f, n), n)]
  <2>2. ASSUME NEW n \in lower(h + 1)
        PROVE  below(f, n) = below(g, n)
    <3>1. ASSUME NEW k \in DOMAIN old[n].kids
          PROVE  f[old[n].kids[k]] = g[old[n].kids[k]]
      <4> DEFINE c == old[n].kids[k]
      <4>1. /\ c \in DOMAIN old /\ depth[n] < depth[c] /\ n \in DOMAIN old
            /\ bound - depth[n] < h + 1
        BY <1>3, <2>2, <3>1
      <4> HIDE DEF c
      <4>2. c \in lower(h) /\ c \in lower(h + 1)
        BY <1>4, <4>1
      <4>3. f[c] = of(below(f, c), c) /\ g[c] = of(below(f, c), c)
        <5> HIDE DEF of, below, lower
        <5> QED
          BY <2>1, <4>2
      <4> HIDE DEF g, of, below
      <4> QED
        BY <4>3 DEF c
    <3> HIDE DEF g
    <3> QED
      BY <3>1
  <2>3. g = [n \in lower(h + 1) |-> of(below(g, n), n)]
    <3>1. g = [n \in lower(h + 1) |-> of(below(f, n), n)]
      OBVIOUS
    <3> HIDE DEF g, of, below, lower
    <3> QED
      BY <2>2, <3>1
  <2> HIDE DEF g, of, below, lower
  <2>4. \E e : e = [n \in lower(h + 1) |-> of(below(e, n), n)]
    BY <2>3
  <2> QED
    BY <2>4
<1>7. bound + 1 \in T
  <2> HIDE DEF T
  <2> QED
    BY <1>5, <1>6, Induction
<1>8. lower(bound + 1) = DOMAIN old
  BY <1>4
<1>9. \E f : f = [n \in DOMAIN old |-> of(below(f, n), n)]
  <2> HIDE DEF of, below, lower
  <2> QED
    BY <1>7, <1>8
<1> DEFINE read == CHOOSE f : f = [n \in DOMAIN old |-> of(below(f, n), n)]
<1>10. read = [n \in DOMAIN old |-> of(below(read, n), n)]
  <2> HIDE DEF of, below
  <2> QED
    BY <1>9
<1>11. Wanted = read[source.root]
  BY DEF Wanted, WantedOf, WantedSep, WantedParens
<1> HIDE DEF read, of, below
<1>12. \A n \in DOMAIN old : read[n] = of(below(read, n), n)
  BY <1>10
<1> USE DEF of, below
<1> QED
  BY <1>11, <1>12

LEMMA DoneReads ==
  ASSUME IInv, EInv, WellParsed, pc = "done"
  PROVE  Reading(tree) = Wanted
<1>1. /\ Both /\ Rooted(nodes) /\ Rooted(old) /\ IsSyntaxTree(source) /\ IsSyntaxTree(tree)
      /\ Keeps(nodes) /\ Written(nodes, 1..5) /\ Enclosed(nodes, 1..5)
      /\ tree.root = source.root /\ tree.nodes = nodes /\ style \in Style
      /\ source.root \in DOMAIN old
  <2>1. Passed = 1..5
    BY DEF Passed
  <2>2. Rooted(old)
    BY DEF WellParsed, TreesRooted, EInv, old
  <2> QED
    BY <2>1, <2>2, BothOf DEF EInv, Both, Shape, nodes, old, IsSyntaxTree, IsTree
<1>2. PICK f : /\ Reading(tree) = f[tree.root]
               /\ \A n \in DOMAIN nodes :
                    f[n] = <<nodes[n].kind, nodes[n].sep, nodes[n].bounds, nodes[n].parens,
                             [k \in DOMAIN nodes[n].kids |-> f[nodes[n].kids[k]]]>>
  <2>1. \E f : /\ Reading(tree) = f[tree.root]
               /\ \A n \in DOMAIN tree.nodes :
                    f[n] = <<tree.nodes[n].kind, tree.nodes[n].sep, tree.nodes[n].bounds,
                             tree.nodes[n].parens,
                             [k \in DOMAIN tree.nodes[n].kids |-> f[tree.nodes[n].kids[k]]]>>
    BY <1>1, ReadingOf
  <2> QED
    BY <2>1 DEF nodes
<1>3. PICK g : /\ Wanted = g[source.root]
               /\ \A n \in DOMAIN old :
                    g[n] = WantedOf([k \in DOMAIN old[n].kids |-> g[old[n].kids[k]]], n)
  BY <1>1, WantedIs
<1> DEFINE bare(n) == <<old[n].kind,
                        IF WantedSep(n) THEN Separator ELSE old[n].sep,
                        WantedBounds(n, 1..5),
                        old[n].parens \/ WantedParens(n),
                        [k \in DOMAIN old[n].kids |-> g[old[n].kids[k]]]>>
           G == {n \in DOMAIN old : f[n] = bare(n)}
<1>4. ASSUME NEW n \in DOMAIN old
      PROVE  g[n] = IF WantsBlock(n) THEN <<"Block", "none", <<>>, FALSE, <<bare(n)>>>>
                    ELSE IF WantsParens(n) THEN <<"Parens", "none", <<>>, FALSE, <<bare(n)>>>>
                    ELSE bare(n)
  <2> DEFINE bounds ==
               CASE old[n].kind = "PackedRange" -> Ordered(old[n].bounds, style.packed)
                 [] old[n].kind = "UnpackedRange" -> Ordered(old[n].bounds, style.unpacked)
                 [] OTHER -> <<>>
             sub == [k \in DOMAIN old[n].kids |-> g[old[n].kids[k]]]
             inside == <<old[n].kind, IF WantedSep(n) THEN Separator ELSE old[n].sep,
                         bounds, old[n].parens \/ WantedParens(n), sub>>
  <2>1. bounds = WantedBounds(n, 1..5)
    <3>1. old[n].kind \notin RangeKinds => old[n].bounds = <<>>
      BY <1>1 DEF WellParsed, RangesAreLeaves, Both, old
    <3> QED
      BY <3>1 DEF WantedBounds, RangeKinds
  <2> QED
    <3>1. inside = bare(n)
      BY <2>1
    <3>2. g[n] = WantedOf(sub, n)
      BY <1>3
    <3>3. WantedOf(sub, n) =
            CASE WantsBlock(n) -> <<"Block", "none", <<>>, FALSE, <<inside>>>>
              [] WantsParens(n) -> <<"Parens", "none", <<>>, FALSE, <<inside>>>>
              [] OTHER -> inside
      BY DEF WantedOf
    <3>4. WantsBlock(n) => ~WantsParens(n)
      <4>1. WantsBlock(n) => UnderOld(n).kind \in Askers \cup {"Timing"}
        BY <1>1, WantsBlockUnder
      <4>2. WantsParens(n) => UnderOld(n).kind \in ControlKinds
        BY <1>1, WantsParensUnder
      <4> QED
        BY <4>1, <4>2 DEF Askers, ControlKinds
    <3> HIDE DEF inside, sub, bare
    <3> QED
      BY <3>1, <3>2, <3>3, <3>4
<1>5. ASSUME NEW n \in DOMAIN old, NEW k \in DOMAIN old[n].kids, old[n].kids[k] \in G
      PROVE  f[Kid(n, k)] = g[old[n].kids[k]]
  <2> DEFINE c == old[n].kids[k]
  <2>1. c \in DOMAIN old \ {source.root} /\ Parent(old, c) = n
    BY <1>1, OldKid
  <2>2. f[c] = bare(c)
    BY <1>5
  <2> HIDE DEF bare, G
  <2>3. WantsBlock(c) \/ WantsParens(c) => Wraps(nodes, Kid(n, k), c)
    BY <1>1, <2>1, WrappedSlot DEF Enclosed
  <2>4. Kid(n, k) = c \/ Wraps(nodes, Kid(n, k), c)
    BY <1>1, Slot
  <2>5. ~(WantsBlock(c) /\ WantsParens(c))
    <3>1. WantsBlock(c) => UnderOld(c).kind \in Askers \cup {"Timing"}
      BY <1>1, WantsBlockUnder
    <3>2. WantsParens(c) => UnderOld(c).kind \in ControlKinds
      BY <1>1, WantsParensUnder
    <3> QED
      BY <3>1, <3>2 DEF Askers, ControlKinds
  <2> HIDE DEF c
  <2>6. ASSUME NEW m, NEW kind, m \in DOMAIN nodes, nodes[m] = Plain(kind, <<c>>)
        PROVE  f[m] = <<kind, "none", <<>>, FALSE, <<f[c]>>>>
    <3>1. /\ nodes[m].kind = kind /\ nodes[m].sep = "none" /\ nodes[m].bounds = <<>>
          /\ nodes[m].parens = FALSE /\ nodes[m].kids = <<c>>
      BY <2>6 DEF Plain
    <3>2. [j \in DOMAIN <<c>> |-> f[<<c>>[j]]] = <<f[c]>>
      OBVIOUS
    <3> QED
      BY <1>2, <2>6, <3>1, <3>2
  <2>7. c \in DOMAIN old
    BY <2>1
  <2>8. CASE WantsBlock(c)
    <3>1. Kid(n, k) \in DOMAIN nodes /\ nodes[Kid(n, k)] = Plain("Block", <<c>>)
      BY <2>3, <2>5, <2>8 DEF Wraps
    <3>2. f[Kid(n, k)] = <<"Block", "none", <<>>, FALSE, <<f[c]>>>>
      BY <2>6, <3>1
    <3> QED
      BY <1>4, <2>2, <2>7, <2>8, <3>2 DEF c
  <2>9. CASE WantsParens(c)
    <3>1. Kid(n, k) \in DOMAIN nodes /\ nodes[Kid(n, k)] = Plain("Parens", <<c>>)
      BY <2>3, <2>5, <2>9 DEF Wraps
    <3>2. f[Kid(n, k)] = <<"Parens", "none", <<>>, FALSE, <<f[c]>>>>
      BY <2>6, <3>1
    <3> QED
      BY <1>4, <2>2, <2>5, <2>7, <2>9, <3>2 DEF c
  <2>10. CASE ~WantsBlock(c) /\ ~WantsParens(c)
    <3>1. Kid(n, k) = c
      BY <2>4, <2>10 DEF Wraps
    <3> QED
      BY <1>4, <2>2, <2>7, <2>10, <3>1 DEF c
  <2> QED
    BY <2>8, <2>9, <2>10
<1>6. ASSUME NEW n \in DOMAIN old, KidSet(old, n) \cap DOMAIN old \subseteq G
      PROVE  n \in G
  <2>1. \A k \in DOMAIN old[n].kids : old[n].kids[k] \in G
    <3> TAKE k \in DOMAIN old[n].kids
    <3>1. old[n].kids[k] \in DOMAIN old
      BY <1>1, OldKid
    <3>2. old[n].kids[k] \in KidSet(old, n)
      BY DEF KidSet, Range
    <3> QED
      BY <1>6, <3>1, <3>2
  <2>2. \A k \in DOMAIN old[n].kids : f[nodes[n].kids[k]] = g[old[n].kids[k]]
    <3> HIDE DEF G, bare
    <3> QED
      BY <1>5, <2>1 DEF Kid
  <2>3. n \in DOMAIN nodes /\ nodes[n].kind = old[n].kind
        /\ WrittenAs(n, nodes[n], 1..5)
    BY <1>1 DEF Keeps, Written
  <2>4. DOMAIN nodes[n].kids = DOMAIN old[n].kids
    <3>1. /\ nodes[n].kids \in Seq(DOMAIN nodes) /\ Len(nodes[n].kids) = Len(old[n].kids)
          /\ DOMAIN old[n].kids = 1..Len(old[n].kids)
      BY <1>1, <2>3, KidsOf, OldNode DEF Both, Keeps
    <3> QED
      BY <3>1
  <2>5. [k \in DOMAIN nodes[n].kids |-> f[nodes[n].kids[k]]]
          = [k \in DOMAIN old[n].kids |-> g[old[n].kids[k]]]
    BY <2>2, <2>4
  <2>6. nodes[n].sep = (IF WantedSep(n) THEN Separator ELSE old[n].sep)
        /\ nodes[n].bounds = WantedBounds(n, 1..5)
    BY <2>3 DEF WrittenAs
  <2>7. nodes[n].parens = (old[n].parens \/ WantedParens(n))
    <3>1. old[n].parens \in BOOLEAN
      BY <1>1, OldNode DEF Node
    <3>2. WantedParens(n) => nodes[n].parens = TRUE
      BY <2>3 DEF WrittenAs
    <3>3. ~WantedParens(n) => nodes[n].parens = old[n].parens
      BY <2>3 DEF WrittenAs
    <3> QED
      BY <3>1, <3>2, <3>3
  <2>8. f[n] = <<nodes[n].kind, nodes[n].sep, nodes[n].bounds, nodes[n].parens,
                 [k \in DOMAIN nodes[n].kids |-> f[nodes[n].kids[k]]]>>
    BY <1>2, <2>3
  <2> QED
    BY <2>3, <2>5, <2>6, <2>7, <2>8
<1>7. DOMAIN old \subseteq G
  <2> HIDE DEF G, bare
  <2> QED
    BY <1>1, <1>6, UpTheTree
<1>8. f[source.root] = bare(source.root)
  BY <1>1, <1>7
<1>9. ~WantsBlock(source.root) /\ ~WantsParens(source.root)
  BY DEF WantsBlock, WantsParens
<1> HIDE DEF bare, G
<1> QED
  BY <1>1, <1>2, <1>3, <1>4, <1>8, <1>9

\* Every tree that the passes end with is the one that rewriting each node of the
\* parsed tree once gives: begin and end around each bare body, at any depth, however
\* they are nested and though a replacement is copied before what is below it has
\* been visited; one separator; every range in its order; parentheses around each
\* operand (transformUntilConverged, apply*).
THEOREM EndsAsWantedAlways == Spec => []EndsAsWanted
<1>1. Init => IInv /\ EInv
  BY InitInv, InitEnds, ParsedRooted
<1>2. IInv /\ EInv /\ [Next]_vars => IInv' /\ EInv'
  BY NextInv, NextEnds, AllWellParsed
<1>3. IInv /\ EInv => EndsAsWanted
  BY DoneReads, AllWellParsed DEF EndsAsWanted
<1> QED
  BY <1>1, <1>2, <1>3, PTL DEF Spec

-----------------------------------------------------------------------------
(* How often a pass changes the tree. *)

Hits(p) ==
  CASE p = 1 -> {n \in DOMAIN old : WantsBlock(n)}
    [] p = 2 -> {n \in DOMAIN old : old[n].kind \in style.parens}
    [] p = 3 -> {n \in DOMAIN old : old[n].kind = "BinaryEvent"}

\* f counts the hits that lie below and above one another, from the leaves up.
IsDepth(f, hits) ==
  \A n \in DOMAIN old :
    /\ \A k \in KidSet(old, n) : f[k] <= f[n]
    /\ n \in hits => f[n] > 0 /\ \A k \in KidSet(old, n) : f[k] < f[n]

\* Node n wants parentheses that it has not got.
Misses(ns, n) ==
  \/ WantedParens(n) /\ ns[n].parens # TRUE
  \/ \E c \in DOMAIN old : Parent(old, c) = n /\ WantsParens(c) /\ ~Wrapped(ns, c)

\* The hits that are still to be replaced.
Open(ns, p) ==
  CASE p = 1 -> {n \in Hits(1) : ~Wrapped(ns, n)}
    [] p = 2 -> {n \in Hits(2) : Misses(ns, n)}
    [] p = 3 -> {n \in Hits(3) : ns[n].sep # Separator}

\* The rounds of pass p that there have been are no more than its hits are nested ...
WithinNesting(p, count) ==
  \A f \in [DOMAIN old -> Nat] : IsDepth(f, Hits(p)) => count <= f[source.root]

\* ... and what is still to be replaced is nested less deeply, by as much.
OpenBelow(p, open, count) ==
  \A f \in [DOMAIN old -> Nat] :
    IsDepth(f, Hits(p)) => \A n \in open : count + f[n] <= f[source.root]

NestedRounds ==
  \A p \in 1..3 :
    /\ WithinNesting(p, rounds[p])
    /\ pass = p => OpenBelow(p, Open(nodes, p), rounds[p])

NoneYet == \A p \in 1..5 : p > pass => rounds[p] = 0

RangesOnce ==
  \A p \in {4, 5} : rounds[p] <= 1 /\ (p = pass /\ pc # "done" => rounds[p] = 0)

RInv == NestedRounds /\ NoneYet /\ RangesOnce

LEMMA RootDeepest ==
  ASSUME IsSyntaxTree(source), Rooted(old), NEW hits, NEW f \in [DOMAIN old -> Nat],
         IsDepth(f, hits), NEW n \in DOMAIN old
  PROVE  f[n] <= f[source.root]
<1> DEFINE G == {m \in DOMAIN old : f[m] <= f[source.root]}
<1>1. source.nodes = old /\ source.root \in DOMAIN old
  BY DEF old, IsSyntaxTree, IsTree
<1>2. source.root \in G
  BY <1>1
<1>3. ASSUME NEW m \in DOMAIN old \ {source.root}, Parent(old, m) \in G
      PROVE  m \in G
  <2>1. Parent(old, m) \in DOMAIN old /\ m \in KidSet(old, Parent(old, m))
    BY <1>1, TreeParent
  <2> DEFINE p == Parent(old, m)
  <2> HIDE DEF p
  <2>2. p \in DOMAIN old /\ f[m] <= f[p] /\ f[p] <= f[source.root]
    BY <1>3, <2>1 DEF IsDepth, p
  <2>3. f[m] \in Nat /\ f[p] \in Nat /\ f[source.root] \in Nat
    BY <1>1, <2>2
  <2> QED
    BY <2>2, <2>3
<1> HIDE DEF G
<1>4. DOMAIN source.nodes \subseteq G
  BY <1>1, <1>2, <1>3, DownTheTree
<1> QED
  BY <1>1, <1>4 DEF G

\* A hit above a node, in the current tree, is nested more deeply.
LEMMA AncestorDeeper ==
  ASSUME Both, Rooted(nodes), NEW hits \in SUBSET DOMAIN old, NEW f \in [DOMAIN old -> Nat],
         IsDepth(f, hits), NEW n \in DOMAIN old, NEW a \in Ancestors[n], a \in hits
  PROVE  f[n] < f[a]
<1> DEFINE d(m) == IF m \in DOMAIN old THEN f[m] ELSE f[nodes[m].kids[1]]
           G == {m \in DOMAIN nodes : \A h \in Ancestors[m] : h \in hits => d(m) < f[h]}
<1>1. /\ Shape /\ IsSyntaxTree(tree) /\ tree.nodes = nodes /\ tree.root \in DOMAIN nodes
      /\ IsSyntaxTree(source) /\ DOMAIN old \subseteq DOMAIN nodes
  BY DEF Both, Shape, IsSyntaxTree, IsTree, nodes, Keeps
<1>2. tree.root \in G
  <2>1. Ancestors[tree.root] = {}
    BY <1>1, AncestorsOf
  <2> QED
    BY <1>1, <2>1
<1>3. \A m \in DOMAIN nodes : d(m) \in Nat
  <2> TAKE m \in DOMAIN nodes
  <2>1. CASE m \in DOMAIN old
    BY <2>1
  <2>2. CASE m \notin DOMAIN old
    <3>1. PICK c \in DOMAIN old : Wraps(nodes, m, c)
      BY <2>2 DEF Both, Keeps
    <3>2. nodes[m].kids = <<c>>
      BY <3>1 DEF Wraps, Plain
    <3> QED
      BY <2>2, <3>2
  <2> QED
    BY <2>1, <2>2
<1>4. ASSUME NEW m \in DOMAIN nodes \ {tree.root}, Parent(nodes, m) \in G
      PROVE  m \in G
  <2> DEFINE p == Parent(nodes, m)
  <2>1. Ancestors[m] = {p} \cup Ancestors[p]
    BY <1>1, AncestorsOf
  <2>2. p \in DOMAIN nodes /\ \E k \in DOMAIN nodes[p].kids : nodes[p].kids[k] = m
    BY <1>1, TreeParent
  <2>3. p \in G
    BY <1>4
  <2> HIDE DEF p
  <2>4. PICK k \in DOMAIN nodes[p].kids : nodes[p].kids[k] = m
    BY <2>2
  <2>5. d(m) <= d(p) /\ (p \in hits => d(m) < f[p])
    <3>1. CASE p \in DOMAIN old
      <4> DEFINE c == old[p].kids[k]
      <4>1. k \in DOMAIN old[p].kids
        <5>1. nodes[p].kids \in Seq(DOMAIN nodes) /\ Len(nodes[p].kids) = Len(old[p].kids)
              /\ DOMAIN old[p].kids = 1..Len(old[p].kids)
          BY <1>1, <3>1, KidsOf, OldNode DEF Both, Keeps
        <5> QED
          BY <2>4, <5>1
      <4>2. m = c \/ Wraps(nodes, m, c)
        BY <2>4, <3>1, <4>1, Slot DEF Kid
      <4>3. c \in KidSet(old, p) /\ c \in DOMAIN old
        BY <1>1, <3>1, <4>1, OldKid DEF KidSet, Range
      <4> HIDE DEF c
      <4>4. d(m) = f[c]
        <5>1. CASE m = c
          BY <4>3, <5>1
        <5>2. CASE Wraps(nodes, m, c)
          <6>1. m \notin DOMAIN old /\ nodes[m].kids = <<c>>
            BY <5>2 DEF Wraps, Plain
          <6> QED
            BY <6>1
        <5> QED
          BY <4>2, <5>1, <5>2
      <4> QED
        BY <3>1, <4>3, <4>4 DEF IsDepth
    <3>2. CASE p \notin DOMAIN old
      <4>1. PICK c \in DOMAIN old : Wraps(nodes, p, c)
        BY <2>2, <3>2 DEF Both, Keeps
      <4>2. nodes[p].kids = <<c>>
        BY <4>1 DEF Wraps, Plain
      <4>3. m = c
        BY <2>4, <4>2
      <4> QED
        BY <1>3, <2>2, <3>2, <4>2, <4>3
    <3> QED
      BY <3>1, <3>2
  <2>6. d(m) \in Nat /\ d(p) \in Nat /\ \A h \in hits : f[h] \in Nat
    BY <1>3, <2>2
  <2>7. \A h \in Ancestors[p] : h \in hits => d(p) < f[h]
    BY <2>3
  <2> HIDE DEF d
  <2>8. \A h \in Ancestors[m] : h \in hits => d(m) < f[h]
    BY <2>1, <2>5, <2>6, <2>7
  <2> QED
    BY <2>8
<1> HIDE DEF G, d
<1>5. DOMAIN tree.nodes \subseteq G
  BY <1>1, <1>2, <1>3, <1>4, DownTheTree
<1> QED
  BY <1>1, <1>5 DEF G, d

\* What is not replaced for being below another change is below one that is.
LEMMA Topmost ==
  ASSUME Shape, Rooted(nodes), changes \subseteq DOMAIN nodes, NEW n \in DOMAIN nodes,
         n \in changes \/ Ancestors[n] \cap changes # {}
  PROVE  n \in Effective \/ Ancestors[n] \cap Effective # {}
<1> DEFINE G == {m \in DOMAIN nodes :
                   m \in changes \/ Ancestors[m] \cap changes # {} =>
                     m \in Effective \/ Ancestors[m] \cap Effective # {}}
<1>1. IsSyntaxTree(tree) /\ tree.nodes = nodes /\ tree.root \in DOMAIN nodes
  BY DEF Shape, IsSyntaxTree, IsTree, nodes
<1>2. tree.root \in G
  <2>1. Ancestors[tree.root] = {}
    BY <1>1, AncestorsOf
  <2> QED
    BY <1>1, <2>1 DEF Effective
<1>3. ASSUME NEW m \in DOMAIN nodes \ {tree.root}, Parent(nodes, m) \in G
      PROVE  m \in G
  <2>1. Ancestors[m] = {Parent(nodes, m)} \cup Ancestors[Parent(nodes, m)]
    BY AncestorsOf
  <2>2. CASE Ancestors[m] \cap changes = {}
    BY <2>2 DEF Effective
  <2>3. CASE Ancestors[m] \cap changes # {}
    BY <1>3, <2>1, <2>3
  <2> QED
    BY <2>2, <2>3
<1> HIDE DEF G
<1>4. DOMAIN tree.nodes \subseteq G
  BY <1>1, <1>2, <1>3, DownTheTree
<1> QED
  BY <1>1, <1>4 DEF G

-----------------------------------------------------------------------------
(* A round leaves open only what is below something it has replaced. *)

LEMMA OpenIs ==
  ASSUME NEW ns, NEW n
  PROVE  /\ n \in Hits(1) <=> n \in DOMAIN old /\ WantsBlock(n)
         /\ n \in Hits(2) <=> n \in DOMAIN old /\ old[n].kind \in style.parens
         /\ n \in Hits(3) <=> n \in DOMAIN old /\ old[n].kind = "BinaryEvent"
         /\ n \in Open(ns, 1) <=> n \in Hits(1) /\ ~Wrapped(ns, n)
         /\ n \in Open(ns, 2) <=> n \in Hits(2) /\ Misses(ns, n)
         /\ n \in Open(ns, 3) <=> n \in Hits(3) /\ ns[n].sep # Separator
<1>1. /\ Hits(1) = {m \in DOMAIN old : WantsBlock(m)}
      /\ Hits(2) = {m \in DOMAIN old : old[m].kind \in style.parens}
      /\ Hits(3) = {m \in DOMAIN old : old[m].kind = "BinaryEvent"}
  BY DEF Hits
<1>2. /\ Open(ns, 1) = {m \in Hits(1) : ~Wrapped(ns, m)}
      /\ Open(ns, 2) = {m \in Hits(2) : Misses(ns, m)}
      /\ Open(ns, 3) = {m \in Hits(3) : ns[m].sep # Separator}
  BY DEF Open
<1> QED
  BY <1>1, <1>2

\* What the node itself asks for is registered, or something above it is.
LEMMA AskedBelow ==
  ASSUME IInv, EInv, pc = "visit", todo = <<>>, pass # 1,
         NEW n \in DOMAIN nodes, n \in Replaces(n)
  PROVE  n \in changes \/ Ancestors[n] \cap changes # {}
<1>1. PICK seen \in SUBSET DOMAIN nodes : Covered(seen)
  BY DEF EInv, Covers
<1>2. CASE n \in seen
  BY <1>1, <1>2 DEF Covered
<1>3. CASE n \notin seen
  <2>1. PICK a \in Ancestors[n] : a \in seen /\ ~Descends(a)
    BY <1>1, <1>3, Reached DEF IInv, EInv
  <2>2. PICK c : c \in Replaces(a)
    BY <2>1 DEF Descends
  <2>3. a \in DOMAIN nodes
    BY <1>1, <2>1
  <2>4. c = a
    BY <2>2, <2>3, ReplacesOf DEF IInv
  <2>5. a \in changes
    BY <1>1, <2>1, <2>2, <2>4 DEF Covered
  <2> QED
    BY <2>5
<1> QED
  BY <1>2, <1>3

\* The blocks of a round are those of the bodies at the top.
LEMMA BlocksOpen ==
  ASSUME IInv, EInv, WellParsed, pc = "visit", todo = <<>>, pass = 1
  PROVE  /\ Effective \subseteq Open(nodes, 1)
         /\ Open(Replaced, 1) \subseteq Open(nodes, 1) \ Effective
         /\ \A n \in Open(nodes, 1) : n \in changes \/ Ancestors[n] \cap changes # {}
<1>1. /\ Replaced = Surround("Block", Effective)
      /\ Effective \in SUBSET (DOMAIN old \ {source.root})
      /\ \A n \in Effective : WantsBlock(n) /\ ~Wrapped(nodes, n)
  BY BeginEndKeeps DEF WellParsed
<1>2. Effective \subseteq Open(nodes, 1)
  BY <1>1, OpenIs
<1>3. \A n \in DOMAIN old \ {source.root} :
        Wrapped(Replaced, n) <=> Wrapped(nodes, n) \/ n \in Effective
  BY <1>1, SurroundKeeps, BothOf
<1>4. \A n \in Hits(1) : n \in DOMAIN old \ {source.root}
  BY DEF Hits, WantsBlock
<1>5. Open(Replaced, 1) \subseteq Open(nodes, 1) \ Effective
  BY <1>3, <1>4, OpenIs
<1>6. ASSUME NEW n \in Open(nodes, 1)
      PROVE  n \in changes
  <2>1. n \in DOMAIN old /\ WantsBlock(n) /\ ~Wrapped(nodes, n)
    BY OpenIs
  <2>2. PICK m \in DOMAIN old : n \in InsertBeginEnd(m)
    BY <2>1, WantedIsAsked, BothOf DEF WellParsed
  <2>3. PICK seen \in SUBSET DOMAIN nodes : Covered(seen)
    BY DEF EInv, Covers
  <2>4. m \in DOMAIN nodes
    BY DEF EInv, Keeps
  <2>5. \A a : Descends(a)
    BY DEF Descends, Passes
  <2>6. m \in seen
    BY <2>3, <2>4, <2>5, Reached DEF IInv, EInv
  <2>7. Replaces(m) = InsertBeginEnd(m)
    BY DEF Replaces, Passes
  <2> QED
    BY <2>2, <2>3, <2>6, <2>7 DEF Covered
<1> QED
  BY <1>2, <1>5, <1>6

\* The same for parentheses.
LEMMA ParensOpen ==
  ASSUME IInv, EInv, WellParsed, pc = "visit", todo = <<>>, pass = 2
  PROVE  /\ Effective \subseteq Open(nodes, 2)
         /\ Open(Replaced, 2) \subseteq Open(nodes, 2) \ Effective
         /\ \A n \in Open(nodes, 2) : n \in changes \/ Ancestors[n] \cap changes # {}
<1> DEFINE implicit == {n \in Effective : Kind(n) = "ImplicitControl"}
           inner == {Kid(n, 1) : n \in Effective \ implicit}
           surrounded == Surround("Parens", inner)
<1>1. /\ Replaced = [n \in DOMAIN surrounded |->
                       IF n \in implicit THEN [surrounded[n] EXCEPT !.parens = TRUE]
                       ELSE surrounded[n]]
      /\ inner \in SUBSET (DOMAIN old \ {source.root})
      /\ \A n \in inner : WantsParens(n) /\ ~Wrapped(nodes, n)
      /\ \A n \in implicit : n \in DOMAIN old /\ WantedParens(n)
      /\ \A n \in Effective : n \in DOMAIN old /\ old[n].kind \in style.parens
  BY ParensKeeps DEF WellParsed
<1>2. Both /\ ControlsHaveOneOperand /\ DOMAIN old \subseteq DOMAIN nodes /\ style \in Style
      /\ IsSyntaxTree(source) /\ source \in Trees
  BY BothOf DEF WellParsed, EInv, Keeps, Both, Shape
<1>3. ASSUME NEW n \in Effective
      PROVE  /\ n \in Hits(2) /\ Kind(n) = old[n].kind
             /\ Kind(n) = "ImplicitControl" => WantedParens(n) /\ ~nodes[n].parens
             /\ Kind(n) # "ImplicitControl" =>
                  /\ Kid(n, 1) \in DOMAIN old \ {source.root} /\ WantsParens(Kid(n, 1))
                  /\ ~Wrapped(nodes, Kid(n, 1)) /\ Parent(old, Kid(n, 1)) = n
  <2>1. n \in DOMAIN nodes /\ n \in Replaces(n)
    BY ChangesWanted
  <2>2. InsertParens(n) # {}
    BY <2>1 DEF Replaces, Passes
  <2>3. n \in Hits(2)
    BY <1>1, OpenIs
  <2> QED
    BY <1>2, <2>1, <2>2, <2>3, ParensAsked
<1>4. ASSUME NEW n \in Effective
      PROVE  n \in Open(nodes, 2)
  <2>1. CASE Kind(n) = "ImplicitControl"
    <3>1. Misses(nodes, n)
      BY <1>3, <2>1 DEF Misses
    <3> QED
      BY <1>3, <3>1, OpenIs
  <2>2. CASE Kind(n) # "ImplicitControl"
    <3>1. Misses(nodes, n)
      BY <1>3, <2>2 DEF Misses
    <3> QED
      BY <1>3, <3>1, OpenIs
  <2> QED
    BY <2>1, <2>2
<1> HIDE DEF surrounded
<1>5. /\ \A n \in DOMAIN old : surrounded[n].parens = nodes[n].parens
      /\ \A n \in DOMAIN old \ {source.root} :
           Wrapped(surrounded, n) <=> Wrapped(nodes, n) \/ n \in inner
      /\ DOMAIN old \subseteq DOMAIN surrounded
  BY <1>1, <1>2, SurroundKeeps DEF surrounded, Keeps
<1>6. \A n \in DOMAIN surrounded :
        /\ Replaced[n].kids = surrounded[n].kids
        /\ n \notin implicit => Replaced[n] = surrounded[n]
  <2> HIDE DEF implicit
  <2> QED
    BY <1>1
<1>7. \A n \in implicit : Replaced[n].parens = TRUE
  <2> TAKE n \in implicit
  <2>1. n \in DOMAIN surrounded
    BY <1>1, <1>5
  <2>2. Replaced[n] = [surrounded[n] EXCEPT !.parens = TRUE]
    BY <1>1, <2>1
  <2>3. PICK kind \in {"Parens"} : surrounded = Surround(kind, inner)
    BY DEF surrounded
  <2>4. IsSurrounded(surrounded, kind, inner)
    BY <1>1, <1>2, <2>3, Surrounded DEF Both, Kinds
  <2>5. n \in DOMAIN old
    BY <1>1
  <2>6. surrounded[n] \in Node
    BY <1>1, <1>2, <2>4, <2>5 DEF IsSurrounded
  <2> QED
    BY <2>2, <2>6 DEF Node
<1>8. ASSUME NEW n \in Open(Replaced, 2)
      PROVE  n \in Open(nodes, 2) \ Effective
  <2>1. n \in Hits(2) /\ n \in DOMAIN old /\ old[n].kind \in style.parens
        /\ Misses(Replaced, n)
    BY OpenIs
  <2>2. CASE WantedParens(n) /\ Replaced[n].parens # TRUE
    <3>1. n \notin implicit
      BY <1>7, <2>2
    <3>2. old[n].kind = "ImplicitControl"
      BY <2>2 DEF WantedParens
    <3>3. n \notin Effective
      BY <1>3, <3>1, <3>2
    <3>4. nodes[n].parens # TRUE
      BY <1>5, <1>6, <2>1, <2>2, <3>1
    <3> QED
      BY <2>1, <2>2, <3>3, <3>4, OpenIs DEF Misses
  <2>3. ASSUME NEW c \in DOMAIN old, Parent(old, c) = n, WantsParens(c), ~Wrapped(Replaced, c)
        PROVE  n \in Open(nodes, 2) \ Effective
    <3>1. c # source.root
      BY <2>3 DEF WantsParens
    <3>2. Replaced[n].kids = surrounded[n].kids
      BY <1>5, <1>6, <2>1
    <3>3. ~Wrapped(surrounded, c)
      BY <2>3, <3>2 DEF Wrapped, KidSet
    <3>4. ~Wrapped(nodes, c) /\ c \notin inner
      BY <1>5, <3>1, <3>3
    <3>5. Misses(nodes, n)
      BY <2>3, <3>4 DEF Misses
    <3>6. n \notin Effective
      <4> SUFFICES ASSUME n \in Effective PROVE FALSE
        OBVIOUS
      <4>1. PICK k \in DOMAIN old[n].kids : old[n].kids[k] = c
        BY <1>2, <2>3, <3>1, OldParent
      <4>2. Len(old[n].kids) = IF old[n].kind = "ImplicitControl" THEN 0 ELSE 1
        BY <1>2, <2>1 DEF ControlsHaveOneOperand, old, Style
      <4>3. DOMAIN old[n].kids = 1..Len(old[n].kids)
        BY <1>2, <2>1, OldNode
      <4>4. k = 1 /\ old[n].kind # "ImplicitControl"
        BY <4>1, <4>2, <4>3
      <4>5. Kid(n, 1) \in inner /\ Kid(n, 1) \in DOMAIN old
        BY <1>3, <4>4
      <4>6. Kid(n, 1) = old[n].kids[1] \/ Wraps(nodes, Kid(n, 1), old[n].kids[1])
        BY <1>2, <2>1, <4>1, <4>4, Slot
      <4>7. Kid(n, 1) = c
        BY <4>1, <4>4, <4>5, <4>6 DEF Wraps
      <4> QED
        BY <3>4, <4>5, <4>7
    <3> QED
      BY <2>1, <3>5, <3>6, OpenIs
  <2> QED
    BY <2>1, <2>2, <2>3 DEF Misses
<1>9. ASSUME NEW n \in Open(nodes, 2)
      PROVE  n \in changes \/ Ancestors[n] \cap changes # {}
  <2>1. n \in DOMAIN old /\ old[n].kind \in style.parens /\ Misses(nodes, n)
    BY OpenIs
  <2>2. CASE WantedParens(n) /\ nodes[n].parens # TRUE
    <3>1. Kind(n) = old[n].kind /\ old[n].kind = "ImplicitControl"
      BY <1>2, <2>1, <2>2 DEF Both, Keeps, Kind, WantedParens
    <3>2. n \in InsertParens(n)
      BY <2>1, <2>2, <3>1 DEF InsertParens, HasParens
    <3>3. n \in Replaces(n)
      BY <3>2 DEF Replaces, Passes
    <3> QED
      BY <1>2, <2>1, <3>3, AskedBelow
  <2>3. ASSUME NEW c \in DOMAIN old, Parent(old, c) = n, WantsParens(c), ~Wrapped(nodes, c)
        PROVE  n \in changes \/ Ancestors[n] \cap changes # {}
    <3>1. n \in InsertParens(n)
      BY <1>2, <2>3, WantedParensAsked
    <3>2. n \in Replaces(n)
      BY <3>1 DEF Replaces, Passes
    <3> QED
      BY <1>2, <2>1, <3>2, AskedBelow
  <2> QED
    BY <2>1, <2>2, <2>3 DEF Misses
<1> QED
  BY <1>4, <1>8, <1>9

\* And for separators, which are exchanged for the other one.
LEMMA SeparatorsOpen ==
  ASSUME IInv, EInv, WellParsed, pc = "visit", todo = <<>>, pass = 3
  PROVE  /\ Effective \subseteq Open(nodes, 3)
         /\ Open(Replaced, 3) \subseteq Open(nodes, 3) \ Effective
         /\ \A n \in Open(nodes, 3) : n \in changes \/ Ancestors[n] \cap changes # {}
<1>1. /\ Replaced = [n \in DOMAIN nodes |->
                       IF n \in Effective
                       THEN [nodes[n] EXCEPT !.sep = IF @ = "or" THEN "," ELSE "or"]
                       ELSE nodes[n]]
      /\ \A n \in Effective : n \in DOMAIN old /\ WantedSep(n) /\ nodes[n].sep # Separator
  BY SeparatorKeeps
<1>2. Both /\ DOMAIN old \subseteq DOMAIN nodes /\ source \in Trees /\ Shape
  BY BothOf DEF EInv, Keeps, Both
<1>3. Effective \subseteq Open(nodes, 3)
  BY <1>1, OpenIs DEF WantedSep
<1>4. ASSUME NEW n \in Open(Replaced, 3)
      PROVE  n \in Open(nodes, 3) \ Effective
  <2>1. n \in DOMAIN old /\ old[n].kind = "BinaryEvent" /\ Replaced[n].sep # Separator
    BY OpenIs
  <2>2. CASE n \in Effective
    <3>1. nodes[n] \in Node /\ nodes[n].sep # Separator /\ WantedSep(n)
      BY <1>1, <1>2, <2>1, <2>2, KidsOf
    <3>2. old[n].sep # "none"
      BY <1>2, <2>1 DEF WellParsed, EventsSeparated, old
    <3>3. nodes[n].sep # "none"
      BY <2>1, <3>1, <3>2 DEF EInv, Written, WrittenAs
    <3>4. Replaced[n].sep = IF nodes[n].sep = "or" THEN "," ELSE "or"
      BY <1>1, <1>2, <2>1, <2>2, <3>1 DEF Node
    <3>5. nodes[n].sep \in {"or", ","}
      BY <3>1, <3>3 DEF Node
    <3> QED
      BY <2>1, <3>1, <3>4, <3>5 DEF Separator
  <2>3. CASE n \notin Effective
    BY <1>1, <1>2, <2>1, <2>3, OpenIs
  <2> QED
    BY <2>2, <2>3
<1>5. ASSUME NEW n \in Open(nodes, 3)
      PROVE  n \in changes \/ Ancestors[n] \cap changes # {}
  <2>1. n \in DOMAIN old /\ old[n].kind = "BinaryEvent" /\ nodes[n].sep # Separator
    BY OpenIs
  <2>2. Kind(n) = "BinaryEvent"
    BY <1>2, <2>1 DEF Both, Keeps, Kind
  <2>3. n \in Replaces(n)
    BY <2>1, <2>2 DEF Replaces, Passes, RewriteSeparator
  <2> QED
    BY <1>2, <2>1, <2>3, AskedBelow
<1> QED
  BY <1>3, <1>4, <1>5

LEMMA RoundLeaves ==
  ASSUME IInv, EInv, WellParsed, pc = "visit", todo = <<>>, pass \in 1..3
  PROVE  /\ Effective \subseteq Open(nodes, pass) /\ Open(nodes, pass) \subseteq Hits(pass)
         /\ Hits(pass) \subseteq DOMAIN old
         /\ Open(Replaced, pass) \subseteq Open(nodes, pass) \ Effective
         /\ \A n \in Open(nodes, pass) : n \in changes \/ Ancestors[n] \cap changes # {}
<1>1. CASE pass = 1
  BY <1>1, BlocksOpen, OpenIs
<1>2. CASE pass = 2
  BY <1>2, ParensOpen, OpenIs
<1>3. CASE pass = 3
  BY <1>3, SeparatorsOpen, OpenIs
<1> QED
  BY <1>1, <1>2, <1>3

\* What a round leaves open is nested less deeply than what it has replaced.
LEMMA RoundCounts ==
  ASSUME IInv, EInv, WellParsed, RInv,
         pc = "visit", todo = <<>>, changes # {}, pass \in 1..3,
         NEW f \in [DOMAIN old -> Nat], IsDepth(f, Hits(pass))
  PROVE  /\ rounds[pass] + 1 <= f[source.root]
         /\ \A n \in Open(Replaced, pass) : rounds[pass] + 1 + f[n] <= f[source.root]
<1>1. /\ Effective \subseteq Open(nodes, pass) /\ Open(nodes, pass) \subseteq Hits(pass)
      /\ Hits(pass) \subseteq DOMAIN old
      /\ Open(Replaced, pass) \subseteq Open(nodes, pass) \ Effective
      /\ \A n \in Open(nodes, pass) : n \in changes \/ Ancestors[n] \cap changes # {}
  BY RoundLeaves
<1>2. /\ Both /\ Shape /\ Rooted(nodes) /\ DOMAIN old \subseteq DOMAIN nodes
      /\ changes \subseteq DOMAIN nodes
  BY BothOf DEF IInv, Visits, EInv, Keeps
<1>3. rounds[pass] \in Nat /\ f[source.root] \in Nat
  BY <1>2 DEF Shape, Both, IsSyntaxTree, IsTree, old
<1>4. \A n \in Open(nodes, pass) : rounds[pass] + f[n] <= f[source.root]
  BY DEF RInv, NestedRounds, OpenBelow
<1>5. \E c : c \in Effective
  <2>1. PICK n \in changes : n \in DOMAIN nodes
    BY <1>2
  <2>2. n \in Effective \/ Ancestors[n] \cap Effective # {}
    BY <1>2, <2>1, Topmost
  <2> QED
    BY <2>2
<1>6. PICK c : c \in Effective
  BY <1>5
<1>7. f[c] > 0 /\ f[c] \in Nat /\ rounds[pass] + f[c] <= f[source.root]
  BY <1>1, <1>4, <1>6 DEF IsDepth
<1>8. ASSUME NEW n \in Open(Replaced, pass)
      PROVE  rounds[pass] + 1 + f[n] <= f[source.root]
  <2>1. n \in Open(nodes, pass) /\ n \notin Effective /\ n \in DOMAIN old
    BY <1>1
  <2>2. n \in Effective \/ Ancestors[n] \cap Effective # {}
    BY <1>1, <1>2, <2>1, Topmost
  <2>3. PICK a \in Ancestors[n] : a \in Effective
    BY <2>1, <2>2
  <2>4. a \in Open(nodes, pass) /\ a \in Hits(pass) /\ a \in DOMAIN old
    BY <1>1, <2>3
  <2>5. f[n] < f[a]
    BY <1>1, <1>2, <2>1, <2>3, <2>4, AncestorDeeper
  <2>6. rounds[pass] + f[a] <= f[source.root]
    BY <1>4, <2>4
  <2>7. f[n] \in Nat /\ f[a] \in Nat
    BY <2>1, <2>4
  <2> QED
    BY <1>3, <2>5, <2>6, <2>7
<1> QED
  BY <1>3, <1>7, <1>8

LEMMA SameOpen ==
  ASSUME UNCHANGED <<source, style>>, NEW after, after = nodes'
  PROVE  /\ \A p \in 1..3 : Open(nodes, p)' = Open(after, p)
         /\ \A p, count : WithinNesting(p, count)' <=> WithinNesting(p, count)
         /\ \A p, open, count : OpenBelow(p, open, count)' <=> OpenBelow(p, open, count)
<1>1. /\ old' = old /\ Separator' = Separator /\ source' = source /\ style' = style
      /\ \A n : (WantsBlock(n)' <=> WantsBlock(n)) /\ (WantsParens(n)' <=> WantsParens(n))
      /\ \A n : (WantedSep(n)' <=> WantedSep(n)) /\ (WantedParens(n)' <=> WantedParens(n))
  BY SamePromises
<1>2. \A p : Hits(p)' = Hits(p)
  BY <1>1 DEF Hits
<1>3. \A n : Wrapped(nodes, n)' <=> Wrapped(after, n)
  BY <1>1 DEF Wrapped, KidSet, Parent, Range
<1>4. \A n : Misses(nodes, n)' <=> Misses(after, n)
  <2>1. \A c : Parent(old, c)' = Parent(old, c)
    BY <1>1 DEF Parent, KidSet, Range
  <2> QED
    BY <1>1, <1>3, <2>1 DEF Misses
<1>5. \A p \in 1..3 : Open(nodes, p)' = Open(after, p)
  <2>1. Open(nodes, 1)' = Open(after, 1)
    BY <1>2, <1>3 DEF Open
  <2>2. Open(nodes, 2)' = Open(after, 2)
    BY <1>2, <1>4 DEF Open
  <2>3. Open(nodes, 3)' = Open(after, 3)
    BY <1>1, <1>2 DEF Open
  <2> QED
    BY <2>1, <2>2, <2>3
<1>6. \A f, hits : IsDepth(f, hits)' <=> IsDepth(f, hits)
  BY <1>1 DEF IsDepth, KidSet, Range
<1>7. \A p, count : WithinNesting(p, count)' <=> WithinNesting(p, count)
  BY <1>1, <1>2, <1>6 DEF WithinNesting
<1>8. \A p, open, count : OpenBelow(p, open, count)' <=> OpenBelow(p, open, count)
  BY <1>1, <1>2, <1>6 DEF OpenBelow
<1> QED
  BY <1>5, <1>7, <1>8

\* Before its first round.
LEMMA NoRounds ==
  ASSUME source \in Trees, TreesRooted, NEW p \in 1..3
  PROVE  WithinNesting(p, 0) /\ OpenBelow(p, Open(nodes, p), 0)
<1>1. /\ IsSyntaxTree(source) /\ Rooted(old) /\ source.root \in DOMAIN old
  BY TreesAssumption DEF TreesRooted, old, IsSyntaxTree, IsTree
<1>2. \A n \in Open(nodes, p) : n \in DOMAIN old
  BY OpenIs
<1>3. ASSUME NEW f \in [DOMAIN old -> Nat], IsDepth(f, Hits(p))
      PROVE  0 <= f[source.root] /\ \A n \in Open(nodes, p) : 0 + f[n] <= f[source.root]
  <2>1. \A n \in DOMAIN old : f[n] <= f[source.root] /\ f[n] \in Nat
    BY <1>1, <1>3, RootDeepest
  <2> QED
    BY <1>1, <1>2, <2>1
<1> QED
  BY <1>3 DEF WithinNesting, OpenBelow

LEMMA InitRounds ==
  ASSUME Init, TreesRooted
  PROVE  RInv
<1>1. source \in Trees /\ pass = 1 /\ rounds = [p \in 1..5 |-> 0]
  BY DEF Init, Passes
<1> QED
  BY <1>1, NoRounds DEF RInv, NestedRounds, NoneYet, RangesOnce

LEMMA RoundsFrom ==
  ASSUME UNCHANGED <<source, style>>, NEW after, after = nodes', NEW count, count = rounds',
         \A p \in 1..3 : /\ WithinNesting(p, count[p])
                         /\ pass' = p => OpenBelow(p, Open(after, p), count[p]),
         \A p \in 1..5 : p > pass' => count[p] = 0,
         \A p \in {4, 5} : count[p] <= 1 /\ (p = pass' /\ pc' # "done" => count[p] = 0)
  PROVE  RInv'
<1>1. /\ \A p \in 1..3 : Open(nodes, p)' = Open(after, p)
      /\ \A p, n : WithinNesting(p, n)' <=> WithinNesting(p, n)
      /\ \A p, open, n : OpenBelow(p, open, n)' <=> OpenBelow(p, open, n)
  BY SameOpen
<1>2. \A p \in 1..3 : WithinNesting(p, rounds[p])' <=> WithinNesting(p, count[p])
  BY <1>1
<1>3. \A p \in 1..3 : OpenBelow(p, Open(nodes, p), rounds[p])'
                       <=> OpenBelow(p, Open(after, p), count[p])
  BY <1>1
<1>4. NestedRounds'
  <2>1. \A p \in 1..3 : WithinNesting(p, rounds[p])'
    BY <1>2
  <2>2. \A p \in 1..3 : pass' = p => OpenBelow(p, Open(nodes, p), rounds[p])'
    BY <1>3
  <2> QED
    BY <2>1, <2>2, Zenon DEF NestedRounds
<1>5. NoneYet'
  BY DEF NoneYet
<1>6. RangesOnce'
  BY DEF RangesOnce
<1> QED
  BY <1>4, <1>5, <1>6 DEF RInv

LEMMA NextRounds ==
  ASSUME IInv, EInv, WellParsed, RInv, [Next]_vars
  PROVE  RInv'
<1>1. /\ Shape /\ source \in Trees /\ pass \in 1..5 /\ \A p \in 1..5 : rounds[p] \in Nat
      /\ tree = [nodes |-> tree.nodes, root |-> tree.root]
  BY DEF EInv, IInv, Shape, IsSyntaxTree
<1> DEFINE Within(count) == \A p \in 1..3 : WithinNesting(p, count[p])
<1>2. /\ Within(rounds) /\ \A p \in 1..5 : p > pass => rounds[p] = 0
      /\ \A p \in {4, 5} : rounds[p] <= 1 /\ (p = pass /\ pc # "done" => rounds[p] = 0)
      /\ \A p \in 1..3 : pass = p => OpenBelow(p, Open(nodes, p), rounds[p])
  BY DEF RInv, NestedRounds, NoneYet, RangesOnce
<1>3. PICK after : after = nodes'
  OBVIOUS
<1>4. PICK count : count = rounds'
  OBVIOUS
<1>5. ASSUME UNCHANGED <<source, style, tree, rounds, pass>>, pc' = "done" \/ pc # "done"
      PROVE  RInv'
  <2>1. after = nodes /\ count = rounds
    BY <1>3, <1>4, <1>5 DEF nodes
  <2> QED
    BY <1>2, <1>3, <1>4, <1>5, <2>1, RoundsFrom
<1>6. CASE SkipPass \/ Unchanged
  <2>1. UNCHANGED <<source, style, tree, rounds>> /\ NextPass /\ pc # "done"
    BY <1>6 DEF SkipPass, Unchanged
  <2>2. after = nodes /\ count = rounds
    BY <1>3, <1>4, <2>1 DEF nodes
  <2>3. \/ pass' = pass /\ pc' = "done" /\ pass = 5
        \/ pass' = pass + 1
    BY <1>1, <2>1 DEF NextPass, Passes
  <2>4. \A p \in 1..3 : pass' = p => OpenBelow(p, Open(nodes, p), rounds[p])
    <3> TAKE p \in 1..3
    <3> HAVE pass' = p
    <3>1. p > pass
      BY <1>1, <2>3
    <3>2. rounds[p] = 0
      BY <1>2, <3>1
    <3> QED
      BY <1>1, <3>2, NoRounds DEF WellParsed
  <2>5. \A p \in 1..5 : p > pass' => rounds[p] = 0
    BY <1>1, <1>2, <2>3
  <2>6. \A p \in {4, 5} : rounds[p] <= 1 /\ (p = pass' /\ pc' # "done" => rounds[p] = 0)
    BY <1>1, <1>2, <2>3
  <2> QED
    BY <1>2, <1>3, <1>4, <2>1, <2>2, <2>4, <2>5, <2>6, RoundsFrom
<1>7. CASE StartTransform \/ Visit
  BY <1>5, <1>7 DEF StartTransform, Visit
<1>8. CASE Commit
  <2>1. /\ UNCHANGED <<source, style>> /\ pc = "visit" /\ todo = <<>> /\ changes # {}
        /\ after = Replaced
        /\ count = [rounds EXCEPT ![pass] = IF @ < MaxRounds THEN @ + 1 ELSE @]
        /\ IF Passes[pass] \in Repeated THEN pc' = "start" /\ UNCHANGED pass ELSE NextPass
    BY <1>1, <1>3, <1>4, <1>8 DEF Commit, nodes
  <2>2. /\ count[pass] \in Nat /\ count[pass] <= rounds[pass] + 1
        /\ \A p \in 1..5 : p # pass => count[p] = rounds[p]
    BY <1>1, <2>1, MaxRoundsAssumption DEF Shape
  <2>3. CASE pass \in {4, 5}
    <3>1. NextPass
      BY <2>1, <2>3 DEF Passes, Repeated
    <3>2. \/ pass' = pass /\ pc' = "done" /\ pass = 5
          \/ pass' = pass + 1
      BY <1>1, <3>1 DEF NextPass, Passes
    <3>3. rounds[pass] = 0 /\ count[pass] <= 1
      BY <1>2, <2>1, <2>2, <2>3
    <3>4. Within(count) /\ \A p \in 1..3 : pass' # p
      BY <1>2, <2>2, <2>3, <3>2
    <3>5. \A p \in 1..5 : p > pass' => count[p] = 0
      BY <1>2, <2>2, <2>3, <3>2
    <3>6. \A p \in {4, 5} : count[p] <= 1 /\ (p = pass' /\ pc' # "done" => count[p] = 0)
      BY <1>2, <2>2, <2>3, <3>2, <3>3
    <3> QED
      BY <1>3, <1>4, <2>1, <3>4, <3>5, <3>6, RoundsFrom
  <2>4. CASE pass \in 1..3
    <3>1. pc' = "start" /\ pass' = pass
      BY <2>1, <2>4 DEF Passes, Repeated
    <3>2. ASSUME NEW f \in [DOMAIN old -> Nat], IsDepth(f, Hits(pass))
          PROVE  /\ count[pass] <= f[source.root]
                 /\ \A n \in Open(after, pass) : count[pass] + f[n] <= f[source.root]
      <4>1. /\ rounds[pass] + 1 <= f[source.root]
            /\ \A n \in Open(after, pass) : rounds[pass] + 1 + f[n] <= f[source.root]
        BY <2>1, <2>4, <3>2, RoundCounts
      <4>2. \A n \in Open(after, pass) : n \in DOMAIN old
        BY <2>4, OpenIs
      <4>3. rounds[pass] \in Nat /\ f[source.root] \in Nat
        BY <1>1, BothOf DEF Both, IsSyntaxTree, IsTree, old
      <4> QED
        BY <2>2, <4>1, <4>2, <4>3
    <3>3. WithinNesting(pass, count[pass]) /\ OpenBelow(pass, Open(after, pass), count[pass])
      BY <3>2 DEF WithinNesting, OpenBelow
    <3>4. Within(count)
      BY <1>2, <2>2, <3>3
    <3>5. \A p \in 1..5 : p > pass' => count[p] = 0
      BY <1>1, <1>2, <2>2, <3>1
    <3>6. \A p \in {4, 5} : count[p] <= 1 /\ (p = pass' /\ pc' # "done" => count[p] = 0)
      BY <1>2, <2>2, <2>4, <3>1
    <3>7. \A p \in 1..3 : pass' = p => OpenBelow(p, Open(after, p), count[p])
      BY <3>1, <3>3
    <3> QED
      BY <1>3, <1>4, <2>1, <3>4, <3>5, <3>6, <3>7, RoundsFrom
  <2> QED
    BY <1>1, <2>3, <2>4
<1>9. CASE UNCHANGED vars
  <2>1. /\ UNCHANGED <<source, style, tree, rounds, pass>> /\ pc' = pc
    BY <1>9 DEF vars
  <2>2. after = nodes /\ count = rounds
    BY <1>3, <1>4, <2>1 DEF nodes
  <2> QED
    BY <1>2, <1>3, <1>4, <2>1, <2>2, RoundsFrom
<1> QED
  BY <1>6, <1>7, <1>8, <1>9 DEF Next, Step, Done

-----------------------------------------------------------------------------
(* The nesting of the hits is the depth of the root. *)

\* The first L numbers of g, and zero.
IsSpread(S, g, L) ==
  /\ \A k \in 1..L : g[k] \in Nat
  /\ S = {0} \cup {g[k] : k \in 1..L}

LEMMA LargestOf ==
  ASSUME NEW L \in Nat, NEW g, NEW S, IsSpread(S, g, L)
  PROVE  Max(S) \in Nat /\ \A x \in S : x <= Max(S)
<1>0. (\A k \in 1..L : g[k] \in Nat) /\ S = {0} \cup {g[k] : k \in 1..L}
  BY DEF IsSpread
<1> DEFINE Upto(h) == {0} \cup {g[k] : k \in 1..h}
           T == {h \in Nat : h <= L => \E x \in Upto(h) : \A y \in Upto(h) : x >= y}
<1>1. 0 \in T
  <2>1. Upto(0) = {0}
    OBVIOUS
  <2>2. \E x \in Upto(0) : \A y \in Upto(0) : x >= y
    BY <2>1
  <2> QED
    BY <2>2
<1>2. ASSUME NEW h \in Nat, h \in T
      PROVE  h + 1 \in T
  <2>1. CASE h + 1 > L
    BY <2>1
  <2>2. CASE h + 1 <= L
    <3>1. PICK x \in Upto(h) : \A y \in Upto(h) : x >= y
      BY <1>2, <2>2
    <3>2. Upto(h + 1) = Upto(h) \cup {g[h + 1]}
      <4>1. 1..(h + 1) = (1..h) \cup {h + 1}
        OBVIOUS
      <4> QED
        BY <4>1
    <3>3. g[h + 1] \in Nat /\ Upto(h) \subseteq Nat
      BY <1>0, <2>2
    <3> HIDE DEF Upto
    <3>4. CASE x >= g[h + 1]
      BY <3>1, <3>2, <3>4
    <3>5. CASE ~(x >= g[h + 1])
      <4>1. \A y \in Upto(h + 1) : g[h + 1] >= y
        BY <3>1, <3>2, <3>3, <3>5
      <4> QED
        BY <3>2, <4>1
    <3> QED
      BY <3>4, <3>5
  <2> QED
    BY <2>1, <2>2
<1>3. L \in T
  <2> HIDE DEF T
  <2> QED
    BY <1>1, <1>2, Induction
<1>4. PICK x \in Upto(L) : \A y \in Upto(L) : x >= y
  BY <1>3
<1>5. Max(Upto(L)) \in Upto(L) /\ \A y \in Upto(L) : Max(Upto(L)) >= y
  BY <1>4 DEF Max
<1>6. Upto(L) \subseteq Nat
  BY <1>0
<1> HIDE DEF Upto
<1>7. Max(Upto(L)) \in Nat /\ \A y \in Upto(L) : y <= Max(Upto(L))
  BY <1>5, <1>6
<1> QED
  BY <1>0, <1>7 DEF Upto

\* One more than what lies deepest below node n, if n is a hit itself.
Deeper(f, n, weight) == Max({0} \cup {f[k] : k \in KidSet(old, n)}) + weight[n]

\* A function that counts so counts from the leaves up.
LEMMA DepthFits ==
  ASSUME IsSyntaxTree(source), Rooted(old), NEW weight \in [DOMAIN old -> {0, 1}],
         NEW f, f = [n \in DOMAIN old |-> Deeper(f, n, weight)]
  PROVE  f \in [DOMAIN old -> Nat] /\ IsDepth(f, {n \in DOMAIN old : weight[n] = 1})
<1> DEFINE G == {n \in DOMAIN old : /\ f[n] \in Nat
                                    /\ \A k \in KidSet(old, n) : f[k] + weight[n] <= f[n]
                                    /\ weight[n] <= f[n]}
<1>1. ASSUME NEW n \in DOMAIN old, KidSet(old, n) \cap DOMAIN old \subseteq G
      PROVE  n \in G
  <2>1. Len(old[n].kids) \in Nat /\ DOMAIN old[n].kids = 1..Len(old[n].kids)
    BY OldNode
  <2>2. \A k \in 1..Len(old[n].kids) : old[n].kids[k] \in DOMAIN old
    BY <2>1, OldKid
  <2> DEFINE g == [k \in 1..Len(old[n].kids) |-> f[old[n].kids[k]]]
             below == {f[k] : k \in KidSet(old, n)}
  <2>3. \A k \in 1..Len(old[n].kids) : g[k] \in Nat
    BY <1>1, <2>1, <2>2 DEF KidSet, Range
  <2>4. {0} \cup below = {0} \cup {g[k] : k \in 1..Len(old[n].kids)}
    <3>1. KidSet(old, n) = {old[n].kids[k] : k \in 1..Len(old[n].kids)}
      BY <2>1 DEF KidSet, Range
    <3>2. \A k \in 1..Len(old[n].kids) : g[k] = f[old[n].kids[k]]
      OBVIOUS
    <3> HIDE DEF g
    <3> QED
      BY <3>1, <3>2
  <2> HIDE DEF g, below
  <2>5. /\ Max({0} \cup below) \in Nat
        /\ \A x \in {0} \cup below : x <= Max({0} \cup below)
    <3>1. PICK L \in Nat : L = Len(old[n].kids)
      BY <2>1
    <3>2. PICK S : S = {0} \cup below
      OBVIOUS
    <3>3. PICK h : h = g
      OBVIOUS
    <3>4. IsSpread(S, h, L)
      BY <2>3, <2>4, <3>1, <3>2, <3>3 DEF IsSpread
    <3>5. Max(S) \in Nat /\ \A x \in S : x <= Max(S)
      BY <3>4, LargestOf
    <3> QED
      BY <3>2, <3>5
  <2>6. f[n] = Max({0} \cup below) + weight[n]
    BY DEF Deeper, below
  <2>7. weight[n] \in {0, 1}
    OBVIOUS
  <2>8. \A k \in KidSet(old, n) : f[k] \in below /\ f[k] \in Nat
    BY <1>1, <2>1, <2>2 DEF KidSet, Range, below
  <2>9. \A k \in KidSet(old, n) : f[k] <= Max({0} \cup below)
    BY <2>5, <2>8
  <2>10. PICK top \in Nat : /\ top = Max({0} \cup below)
                            /\ \A k \in KidSet(old, n) : f[k] <= top
    BY <2>5, <2>9
  <2>11. /\ f[n] \in Nat /\ weight[n] <= f[n]
         /\ \A k \in KidSet(old, n) : f[k] + weight[n] <= f[n]
    BY <2>6, <2>7, <2>8, <2>10
  <2> QED
    BY <2>11
<1> HIDE DEF G
<1>2. DOMAIN old \subseteq G
  BY <1>1, UpTheTree
<1>3. \A n \in DOMAIN old :
        /\ f[n] \in Nat /\ weight[n] <= f[n]
        /\ \A k \in KidSet(old, n) : f[k] + weight[n] <= f[n]
  BY <1>2 DEF G
<1>4. \A n \in DOMAIN old : \A k \in KidSet(old, n) : f[k] \in Nat
  <2>1. \A n \in DOMAIN old : KidSet(old, n) \subseteq DOMAIN old
    BY DEF IsSyntaxTree, IsTree, old
  <2> QED
    BY <1>3, <2>1
<1>5. f \in [DOMAIN old -> Nat]
  BY <1>3
<1>6. ASSUME NEW n \in DOMAIN old
      PROVE  /\ \A k \in KidSet(old, n) : f[k] <= f[n]
             /\ weight[n] = 1 => f[n] > 0 /\ \A k \in KidSet(old, n) : f[k] < f[n]
  <2>1. weight[n] \in {0, 1} /\ f[n] \in Nat
    BY <1>3
  <2> QED
    BY <1>3, <1>4, <2>1
<1> QED
  BY <1>5, <1>6 DEF IsDepth

\* There is such a function.
LEMMA DepthExists ==
  ASSUME IsSyntaxTree(source), Rooted(old), NEW weight
  PROVE  \E f : f = [n \in DOMAIN old |-> Deeper(f, n, weight)]
<1>1. PICK bound \in Nat : \E depth \in [DOMAIN old -> 0..bound] :
        \A p \in DOMAIN old : \A k \in KidSet(old, p) : depth[p] < depth[k]
  BY DEF Rooted
<1>2. PICK depth \in [DOMAIN old -> 0..bound] :
        \A p \in DOMAIN old : \A k \in KidSet(old, p) : depth[p] < depth[k]
  BY <1>1
<1>3. \A n \in DOMAIN old : \A k \in KidSet(old, n) : k \in DOMAIN old /\ depth[n] < depth[k]
  BY <1>2 DEF IsSyntaxTree, IsTree, old
<1>4. \A n \in DOMAIN old : depth[n] \in Nat /\ depth[n] <= bound
  OBVIOUS
<1> DEFINE below(f, n) == {f[k] : k \in KidSet(old, n)}
           of(sub, n) == Max({0} \cup sub) + weight[n]
           lower(h) == {n \in DOMAIN old : bound - depth[n] < h}
           T == {h \in Nat : \E f : f = [n \in lower(h) |-> of(below(f, n), n)]}
<1>5. 0 \in T
  <2>1. lower(0) = {}
    BY <1>4
  <2> DEFINE f == [n \in {} |-> {}]
  <2> HIDE DEF of, below, lower
  <2>2. f = [n \in lower(0) |-> of(below(f, n), n)]
    BY <2>1
  <2>3. \E e : e = [n \in lower(0) |-> of(below(e, n), n)]
    BY <2>2
  <2> QED
    BY <2>3
<1>6. ASSUME NEW h \in Nat, h \in T
      PROVE  h + 1 \in T
  <2>1. PICK f : f = [n \in lower(h) |-> of(below(f, n), n)]
    BY <1>6
  <2> DEFINE g == [n \in lower(h + 1) |-> of(below(f, n), n)]
  <2>2. ASSUME NEW n \in lower(h + 1)
        PROVE  below(f, n) = below(g, n)
    <3>1. ASSUME NEW c \in KidSet(old, n)
          PROVE  f[c] = g[c]
      <4>1. /\ c \in DOMAIN old /\ depth[n] < depth[c] /\ n \in DOMAIN old
            /\ bound - depth[n] < h + 1
        BY <1>3, <2>2, <3>1
      <4>2. c \in lower(h) /\ c \in lower(h + 1)
        BY <1>4, <4>1
      <4>3. f[c] = of(below(f, c), c) /\ g[c] = of(below(f, c), c)
        <5> HIDE DEF of, below, lower
        <5> QED
          BY <2>1, <4>2
      <4> HIDE DEF g, of, below
      <4> QED
        BY <4>3
    <3> HIDE DEF g
    <3> QED
      BY <3>1
  <2>3. g = [n \in lower(h + 1) |-> of(below(g, n), n)]
    <3>1. g = [n \in lower(h + 1) |-> of(below(f, n), n)]
      OBVIOUS
    <3> HIDE DEF g, of, below, lower
    <3> QED
      BY <2>2, <3>1
  <2> HIDE DEF g, of, below, lower
  <2>4. \E e : e = [n \in lower(h + 1) |-> of(below(e, n), n)]
    BY <2>3
  <2> QED
    BY <2>4
<1>7. bound + 1 \in T
  <2> HIDE DEF T
  <2> QED
    BY <1>5, <1>6, Induction
<1>8. lower(bound + 1) = DOMAIN old
  BY <1>4
<1>9. \E f : f = [n \in DOMAIN old |-> of(below(f, n), n)]
  <2> HIDE DEF of, below, lower
  <2> QED
    BY <1>7, <1>8
<1> QED
  BY <1>9 DEF Deeper

\* What bounds the rounds of each pass.
NestedHits(p) ==
  CASE p = 1 -> Nesting(WantsBlock)
    [] p = 2 -> Nesting(LAMBDA n : old[n].kind \in style.parens)
    [] p = 3 -> Nesting(LAMBDA n : old[n].kind = "BinaryEvent")

\* The depth that Nesting reads off at the root is one of those.
LEMMA NestingIs ==
  ASSUME IsSyntaxTree(source), Rooted(old), NEW p \in 1..3
  PROVE  \E f \in [DOMAIN old -> Nat] :
           IsDepth(f, Hits(p)) /\ f[source.root] = NestedHits(p)
<1> DEFINE weight == [n \in DOMAIN old |-> IF n \in Hits(p) THEN 1 ELSE 0]
           Within(f, n) == Max({0} \cup {f[k] : k \in KidSet(old, n)})
<1>1. weight \in [DOMAIN old -> {0, 1}]
  OBVIOUS
<1>2. Hits(p) = {n \in DOMAIN old : weight[n] = 1}
  BY OpenIs
<1>3. \E f : f = [n \in DOMAIN old |-> Deeper(f, n, weight)]
  BY DepthExists
<1>4. \A f : f = [n \in DOMAIN old |-> Deeper(f, n, weight)] =>
              f \in [DOMAIN old -> Nat] /\ IsDepth(f, Hits(p))
  <2> HIDE DEF weight
  <2> QED
    BY <1>1, <1>2, DepthFits
<1>5. CASE p = 1
  <2> DEFINE P(f) == f = [n \in DOMAIN old |->
                            Within(f, n) + (IF WantsBlock(n) THEN 1 ELSE 0)]
             depth == CHOOSE f : P(f)
  <2>1. \A f : P(f) <=> f = [n \in DOMAIN old |-> Deeper(f, n, weight)]
    <3>1. \A n \in DOMAIN old : weight[n] = IF WantsBlock(n) THEN 1 ELSE 0
      BY <1>5, OpenIs
    <3> HIDE DEF weight
    <3> QED
      BY <3>1 DEF Deeper
  <2>2. P(depth)
    <3> HIDE DEF P, weight
    <3> QED
      BY <1>3, <2>1
  <2>3. NestedHits(p) = depth[source.root]
    BY <1>5 DEF NestedHits, Nesting
  <2>4. depth \in [DOMAIN old -> Nat] /\ IsDepth(depth, Hits(p))
    <3> HIDE DEF P, weight
    <3> QED
      BY <1>4, <2>1, <2>2
  <2> HIDE DEF depth
  <2> QED
    BY <1>5, <2>3, <2>4
<1>6. CASE p = 2
  <2> DEFINE P(f) == f = [n \in DOMAIN old |->
                            Within(f, n) + (IF old[n].kind \in style.parens THEN 1 ELSE 0)]
             depth == CHOOSE f : P(f)
  <2>1. \A f : P(f) <=> f = [n \in DOMAIN old |-> Deeper(f, n, weight)]
    <3>1. \A n \in DOMAIN old : weight[n] = IF old[n].kind \in style.parens THEN 1 ELSE 0
      BY <1>6, OpenIs
    <3> HIDE DEF weight
    <3> QED
      BY <3>1 DEF Deeper
  <2>2. P(depth)
    <3> HIDE DEF P, weight
    <3> QED
      BY <1>3, <2>1
  <2>3. NestedHits(p) = depth[source.root]
    BY <1>6 DEF NestedHits, Nesting
  <2>4. depth \in [DOMAIN old -> Nat] /\ IsDepth(depth, Hits(p))
    <3> HIDE DEF P, weight
    <3> QED
      BY <1>4, <2>1, <2>2
  <2> HIDE DEF depth
  <2> QED
    BY <1>6, <2>3, <2>4
<1>7. CASE p = 3
  <2> DEFINE P(f) == f = [n \in DOMAIN old |->
                            Within(f, n) + (IF old[n].kind = "BinaryEvent" THEN 1 ELSE 0)]
             depth == CHOOSE f : P(f)
  <2>1. \A f : P(f) <=> f = [n \in DOMAIN old |-> Deeper(f, n, weight)]
    <3>1. \A n \in DOMAIN old : weight[n] = IF old[n].kind = "BinaryEvent" THEN 1 ELSE 0
      BY <1>7, OpenIs
    <3> HIDE DEF weight
    <3> QED
      BY <3>1 DEF Deeper
  <2>2. P(depth)
    <3> HIDE DEF P, weight
    <3> QED
      BY <1>3, <2>1
  <2>3. NestedHits(p) = depth[source.root]
    BY <1>7 DEF NestedHits, Nesting
  <2>4. depth \in [DOMAIN old -> Nat] /\ IsDepth(depth, Hits(p))
    <3> HIDE DEF P, weight
    <3> QED
      BY <1>4, <2>1, <2>2
  <2> HIDE DEF depth
  <2> QED
    BY <1>7, <2>3, <2>4
<1> QED
  BY <1>5, <1>6, <1>7

\* No pass changes the tree more often than the nodes it replaces are nested in the
\* parsed tree, and the ranges are swapped at once: what a round leaves for the next,
\* because the copy that replaces something was made before what is below it had
\* been visited, lies one level deeper (transformUntilConverged).
THEOREM RoundsBoundedAlways == Spec => []RoundsBoundedByNesting
<1>1. Init => IInv /\ EInv /\ RInv
  BY InitInv, InitEnds, InitRounds, ParsedRooted
<1>2. IInv /\ EInv /\ RInv /\ [Next]_vars => IInv' /\ EInv' /\ RInv'
  BY NextInv, NextEnds, NextRounds, AllWellParsed
<1>3. IInv /\ EInv /\ RInv => RoundsBoundedByNesting
  <2> SUFFICES ASSUME IInv, EInv, RInv PROVE RoundsBoundedByNesting
    OBVIOUS
  <2>1. IsSyntaxTree(source) /\ Rooted(old)
    BY TreesAssumption, ParsedRooted DEF TreesRooted, EInv, old
  <2>2. \A p \in 1..3 : WithinNesting(p, rounds[p])
    BY DEF RInv, NestedRounds
  <2>3. rounds[1] <= Nesting(WantsBlock)
    <3>1. rounds[1] <= NestedHits(1)
      BY <2>1, <2>2, NestingIs DEF WithinNesting
    <3> QED
      BY <3>1 DEF NestedHits, Nesting
  <2>4. rounds[2] <= Nesting(LAMBDA n : old[n].kind \in style.parens)
    <3>1. rounds[2] <= NestedHits(2)
      BY <2>1, <2>2, NestingIs DEF WithinNesting
    <3> QED
      BY <3>1 DEF NestedHits, Nesting
  <2>5. rounds[3] <= Nesting(LAMBDA n : old[n].kind = "BinaryEvent")
    <3>1. rounds[3] <= NestedHits(3)
      BY <2>1, <2>2, NestingIs DEF WithinNesting
    <3> QED
      BY <3>1 DEF NestedHits, Nesting
  <2>6. rounds[4] <= 1 /\ rounds[5] <= 1
    BY DEF RInv, RangesOnce
  <2> QED
    BY <2>3, <2>4, <2>5, <2>6 DEF RoundsBoundedByNesting, Nesting
<1> QED
  BY <1>1, <1>2, <1>3, PTL DEF Spec

=============================================================================

---------------------------- MODULE GraphRewrite ----------------------------
(****************************************************************************)
(* The graph pass: regions around a device transfer are found in a captured *)
(* graph (fx_import.import_graph), checked for side effects that their      *)
(* postponement to the tail's place could expose (_safety), and replaced by *)
(* one opaque call (backend._rewrite).                                      *)
(*                                                                          *)
(* A graph is a sequence of calls on tensors, built node by node.  src is   *)
(* the tensor a call applies to and aux a quantisation parameter (0: none). *)
(*   input   a placeholder or attribute                                     *)
(*   view    a layout change that shares storage                            *)
(*   clone   a layout change that copies; move: a copy to the other device; *)
(*   cast    a copy with another element type; deq: a dequantisation        *)
(*   write   an in-place operator whose schema says so                      *)
(*   call    an unknown call, taken to write its argument                   *)
(*   same    an unknown call that returns its argument                      *)
(*   size    a scalar read of metadata                                      *)
(* odd marks a known target that normalisation could not evaluate.  The     *)
(* recipe of a region is RegionRecipes' subject: here its data are opaque.  *)
(****************************************************************************)
EXTENDS Integers, Sequences, FiniteSets, SequencesExt

CONSTANT Kinds,       \* the kinds of call a graph may hold
         MaxNodes     \* bound: nodes of a graph, its inputs included

VARIABLE graph
graphVars == <<graph>>

Node(kind, src, aux, odd) == [kind |-> kind, src |-> src, aux |-> aux, odd |-> odd]
Nodes == graph.nodes
Tensors == {n \in DOMAIN Nodes : Nodes[n].kind # "size"}

\* Node 1 is the tensor graphs work on, node 2 a quantisation parameter.
GraphInit ==
  graph = [at |-> "build", nodes |-> <<Node("input", 0, 0, FALSE), Node("input", 0, 0, FALSE)>>,
           next |-> 1, seen |-> {}, candidates |-> <<>>, excluded |-> {},
           erased |-> {}, placed |-> {}]

(***************************************************************************)
(* The captured graph                                                      *)
(***************************************************************************)
Capture(kind, src, aux, odd) ==
  /\ graph.at = "build" /\ Len(Nodes) < MaxNodes
  /\ kind \in {"view", "clone", "move", "cast"} => src # 2
  /\ aux # 0 => kind = "deq" /\ aux # src
  /\ kind = "deq" => src # 2 /\ aux # 0
  /\ odd => kind = "view"
  /\ graph' = [graph EXCEPT !.nodes = Append(@, Node(kind, src, aux, odd))]

Captured ==
  /\ graph.at = "build"
  /\ \E n \in DOMAIN Nodes : Nodes[n].kind = "move"
  /\ graph' = [graph EXCEPT !.at = "import"]

(***************************************************************************)
(* The vocabulary (compat.fx_kind, graph_mutates, graph_may_alias_inputs)  *)
(***************************************************************************)
fx_kind(n) == CASE Nodes[n].kind \in {"view", "clone"} -> "layout"
                [] Nodes[n].kind \in {"move", "cast"} -> "transfer"
                [] Nodes[n].kind = "deq" -> "typed"
                [] Nodes[n].kind = "size" -> "scalar"
                [] OTHER -> "none"
InputNodes(n) == {Nodes[n].src, Nodes[n].aux} \ {0}
Users(n) == {u \in DOMAIN Nodes : n \in InputNodes(u)}
graph_mutates(n) == Nodes[n].kind = "write"
graph_may_alias_inputs(n) == Nodes[n].kind \in {"view", "write"}
Joins(n) == fx_kind(n) \in {"layout", "transfer", "typed"}
MovesDevice(n) == Nodes[n].kind = "move"

(***************************************************************************)
(* import_graph                                                            *)
(***************************************************************************)
\* The nodes connected to t through tensors by calls that may join a region.
Component(t) ==
  LET adjacent(S) == {n \in DOMAIN Nodes : /\ Joins(n)
                                           /\ \E m \in S : n = Nodes[m].src \/ Nodes[n].src = m}
      within[k \in 0 .. Len(Nodes)] == IF k = 0 THEN {t} ELSE within[k - 1] \cup adjacent(within[k - 1])
  IN  within[Len(Nodes)]

\* The linear region through t, first member first.
Following(n) == {u \in DOMAIN Nodes : Joins(u) /\ Nodes[u].src = n}
Members(t) ==
  LET up[n \in 1 .. t] == IF Joins(Nodes[n].src) THEN Append(up[Nodes[n].src], n) ELSE <<n>>
      down[n \in DOMAIN Nodes] ==
        IF Cardinality(Following(n)) # 1 THEN <<>>
        ELSE LET u == CHOOSE u \in Following(n) : TRUE IN <<u>> \o down[u]
  IN  up[t] \o down[t]

\* Nodes that may share storage with S, in either direction.
Aliases(S) ==
  LET edges == {{n} \cup InputNodes(n) : n \in {m \in DOMAIN Nodes : graph_may_alias_inputs(m)}}
      grown[k \in 0 .. Len(Nodes)] ==
        IF k = 0 THEN S ELSE grown[k - 1] \cup UNION {e \in edges : e \cap grown[k - 1] # {}}
  IN  grown[Len(Nodes)]

\* Defect: only writers that say so are looked at.
HarmlessDeclared(root, members) ==
  \A n \in DOMAIN Nodes :
    n > root /\ n < Last(members) /\ n \notin Range(members) => ~graph_mutates(n)
\* Nothing unknown runs between the root and the tail.
Harmless(root, members) ==
  \A n \in DOMAIN Nodes :
    n > root /\ n < Last(members) /\ n \notin Range(members) /\ Nodes[n].kind # "input"
      => fx_kind(n) # "none" /\ ~Nodes[n].odd

\* No intermediate is used outside the region.
Confined(root, members) ==
  \A k \in DOMAIN Front(members) : Users(members[k]) \subseteq Range(members)

Safety(root, members) ==
  /\ \A n \in DOMAIN Nodes :
       graph_mutates(n) => InputNodes(n) \cap Aliases({root} \cup Range(members)) = {}
  /\ Harmless(root, members) /\ Confined(root, members)

\* _recipe and _parameter, of their data only what the graph decides.
Expressible(members) ==
  /\ \A m \in Range(members) : ~Nodes[m].odd
  /\ \E m \in Range(members) : MovesDevice(m)
  /\ \A m \in Range(members) : Nodes[m].aux # 0 => Nodes[Nodes[m].aux].kind = "input"
  /\ Cardinality({m \in Range(members) : Nodes[m].kind = "deq"}) <= 1

ImportNode ==
  /\ graph.at = "import" /\ graph.next \in DOMAIN Nodes
  /\ LET t == graph.next
         component == Component(t)
         members == Members(t)
         root == Nodes[Head(members)].src
         transfers(S) == {n \in S : fx_kind(n) = "transfer"}
         moves == {n \in component : MovesDevice(n)}
     IN  IF fx_kind(t) # "transfer" \/ t \in graph.seen
         THEN graph' = [graph EXCEPT !.next = @ + 1]
         ELSE IF Cardinality(moves) > 1
         THEN graph' = [graph EXCEPT !.next = @ + 1, !.seen = @ \cup transfers(component),
                                     !.excluded = @ \cup moves]
         ELSE IF Safety(root, members) /\ Expressible(members)
         THEN graph' = [graph EXCEPT !.next = @ + 1, !.seen = @ \cup transfers(Range(members)),
                                     !.candidates = Append(@, [source |-> root, members |-> members])]
         ELSE graph' = [graph EXCEPT !.next = @ + 1, !.seen = @ \cup transfers(Range(members)),
                                     !.excluded = @ \cup {t}]

Imported ==
  /\ graph.at = "import" /\ graph.next \notin DOMAIN Nodes
  /\ graph' = [graph EXCEPT !.at = "rewrite"]

(***************************************************************************)
(* _rewrite: the op takes the tail's place and its uses; the members go    *)
(***************************************************************************)
Surviving == DOMAIN Nodes \ graph.erased
OpNodes == {p.tail : p \in graph.placed}
\* _region_reason, on the graph as rewritten so far.
Replaceable(c) ==
  /\ ({c.source} \cup Range(c.members)) \cap (graph.erased \cup OpNodes) = {}
  /\ \A k \in DOMAIN Front(c.members) :
       Users(c.members[k]) \cap Surviving \subseteq Range(c.members)

\* compiled: compile_recipe did not decline the recipe.
RewriteCandidate(compiled) ==
  /\ graph.at = "rewrite" /\ graph.candidates # <<>>
  /\ LET c == Head(graph.candidates)
     IN  graph' = [graph EXCEPT
           !.candidates = Tail(@),
           !.placed = IF compiled /\ Replaceable(c) THEN @ \cup {[tail |-> Last(c.members), members |-> c.members]} ELSE @,
           !.erased = IF compiled /\ Replaceable(c) THEN @ \cup Range(Front(c.members)) ELSE @]

RewriteDone ==
  /\ graph.at = "rewrite" /\ graph.candidates = <<>>
  /\ graph' = [graph EXCEPT !.at = "done"]

GraphNext ==
  \/ \E kind \in Kinds, src \in Tensors, aux \in {0} \cup Tensors, odd \in BOOLEAN : Capture(kind, src, aux, odd)
  \/ Captured \/ ImportNode \/ Imported
  \/ \E compiled \in BOOLEAN : RewriteCandidate(compiled)
  \/ RewriteDone

(***************************************************************************)
(* What a graph computes (external): storages hold terms over the calls    *)
(* that wrote them; a value is a storage and the views that lead to it.    *)
(***************************************************************************)
Term(n, of) == [by |-> n, of |-> of]
Contents(e, n) == [term |-> e.mem[e.val[n].store], path |-> e.val[n].path]
Arguments(e, n) == IF Nodes[n].aux = 0 THEN <<Contents(e, Nodes[n].src)>>
                   ELSE <<Contents(e, Nodes[n].src), Contents(e, Nodes[n].aux)>>
Execute(e, n) ==
  LET node == Nodes[n]
      from == IF node.src = 0 THEN [store |-> n, path |-> <<>>] ELSE e.val[node.src]
      term == Term(n, IF node.src = 0 THEN <<>> ELSE Arguments(e, n))
      fresh == [store |-> n, path |-> <<>>]
  IN  CASE node.kind \in {"same", "size"} -> [e EXCEPT !.val[n] = from]
        [] node.kind = "view" -> [e EXCEPT !.val[n] = [from EXCEPT !.path = Append(@, n)]]
        [] node.kind \in {"input", "clone", "move", "cast", "deq"} ->
             [e EXCEPT !.mem[n] = term, !.val[n] = fresh]
        [] node.kind = "write" -> [e EXCEPT !.mem[from.store] = term, !.val[n] = from]
        [] node.kind = "call" -> [e EXCEPT !.mem[from.store] = term, !.mem[n] = term, !.val[n] = fresh]
Unset == [mem |-> [n \in DOMAIN Nodes |-> Term(0, <<>>)],
          val |-> [n \in DOMAIN Nodes |-> [store |-> n, path |-> <<>>]]]
RunCalls(order) == FoldLeft(Execute, Unset, order)
Original == RunCalls([n \in DOMAIN Nodes |-> n])
\* An opaque call runs its whole region where the tail was (candidate.original).
PlacedOrder ==
  FlattenSeq([n \in DOMAIN Nodes |->
    IF n \in graph.erased THEN <<>>
    ELSE IF n \in OpNodes THEN (CHOOSE p \in graph.placed : p.tail = n).members
    ELSE <<n>>])

(***************************************************************************)
(* The rewritten graph computes what the captured one does: every tensor   *)
(* that still exists has the same storage, views and content in the end,   *)
(* the inputs that calls wrote included, and no remaining call uses an     *)
(* erased one (fx_import._safety, backend._rewrite's "still used" error).  *)
(***************************************************************************)
RewriteKeepsMeaning ==
  graph.at = "done" =>
    LET before == Original
        after == RunCalls(PlacedOrder)
    IN  \A n \in Surviving :
          /\ after.val[n] = before.val[n] /\ Contents(after, n) = Contents(before, n)
          /\ n \notin OpNodes => InputNodes(n) \cap graph.erased = {}
=============================================================================

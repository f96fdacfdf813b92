------------------------------- MODULE Tarjan -------------------------------
(***************************************************************************)
(* The iterative search for strongly connected components that the         *)
(* dependency resolver runs over the declared dependency graph             *)
(* (plugins/resolver.py, _strongly_connected_components).  Nodes are entry *)
(* ids, ordered as the sorted ids are; the caller sets graph and starts    *)
(* the search with every other variable empty.                             *)
(***************************************************************************)
EXTENDS Naturals, Sequences, FiniteSets, FiniteSetsExt, Functions, TLC

CONSTANT Nodes      \* entry ids as numbers: their order is the sorted order

ASSUME NodesAreIds == Nodes \subseteq Nat /\ IsFiniteSet(Nodes)

VARIABLES graph,        \* the edges, a set of pairs <<from, to>>
          indices,      \* node -> discovery number, on the visited nodes
          lowlink,      \* node -> smallest index reached, same domain
          stack,        \* Tarjan's stack: on_stack is its range
          work,         \* the explicit call stack: [node, todo]
          components    \* the components closed so far

tarjanVars == <<graph, indices, lowlink, stack, work, components>>

NoSearch ==
  /\ indices = <<>>
  /\ lowlink = <<>>
  /\ stack = <<>>
  /\ work = <<>>
  /\ components = {}

Successors(n) == {m \in Nodes : <<n, m>> \in graph}
Visited == DOMAIN indices
OnStack == Range(stack)
Frame == work[Len(work)]
Below == SubSeq(work, 1, Len(work) - 1)

\* A frame on top of the call stack: node n with its unexplored neighbours.
FrameOf(n) == [node |-> n, todo |-> Successors(n)]

\* The next number is n's: len(indices).
Numbered(numbers, n) ==
  [m \in Visited \cup {n} |-> IF m = n THEN Cardinality(Visited) ELSE numbers[m]]

\* A node is numbered when its frame is first looked at; the code does it at
\* the head of the loop, here it happens as the frame is pushed.
Number(n, below) ==
  /\ work' = Append(below, FrameOf(n))
  /\ indices' = Numbered(indices, n)
  /\ lowlink' = Numbered(lowlink, n)
  /\ stack' = Append(stack, n)
  /\ UNCHANGED components

\* The next unvisited root, in sorted order.
StartRoot ==
  /\ work = <<>>
  /\ Visited # Nodes
  /\ Number(Min(Nodes \ Visited), <<>>)

\* The next neighbour of the top frame is unvisited: descend into it.
Descend ==
  /\ work # <<>>
  /\ Frame.todo # {}
  /\ LET m == Min(Frame.todo)
     IN /\ m \notin Visited
        /\ Number(m, Append(Below, [Frame EXCEPT !.todo = @ \ {m}]))

\* The next neighbour was visited: only one still on the stack lowers the
\* node's low link.
Look ==
  /\ work # <<>>
  /\ Frame.todo # {}
  /\ LET m == Min(Frame.todo)
     IN /\ m \in Visited
        /\ work' = Append(Below, [Frame EXCEPT !.todo = @ \ {m}])
        /\ lowlink' = [lowlink EXCEPT ![Frame.node] =
                         IF m \in OnStack THEN Min({@, indices[m]}) ELSE @]
  /\ UNCHANGED <<indices, stack, components>>

\* Mutant of Return: the low link does not flow into the parent frame.
ReturnForgets ==
  /\ work # <<>>
  /\ Frame.todo = {}
  /\ LET n == Frame.node
         at == CHOOSE i \in DOMAIN stack : stack[i] = n
     IN /\ work' = Below
        /\ IF lowlink[n] = indices[n]
           THEN /\ components' = components \cup {Range(SubSeq(stack, at, Len(stack)))}
                /\ stack' = SubSeq(stack, 1, at - 1)
           ELSE UNCHANGED <<components, stack>>
  /\ UNCHANGED <<indices, lowlink>>

\* The frame is exhausted: its low link flows into its parent, and a node
\* whose low link is its own index closes the component above it.
Return ==
  /\ work # <<>>
  /\ Frame.todo = {}
  /\ LET n == Frame.node
         at == CHOOSE i \in DOMAIN stack : stack[i] = n
     IN /\ work' = Below
        /\ lowlink' = IF Below = <<>> THEN lowlink
                      ELSE [lowlink EXCEPT ![Below[Len(Below)].node] =
                              Min({@, lowlink[n]})]
        /\ IF lowlink[n] = indices[n]
           THEN /\ components' = components \cup {Range(SubSeq(stack, at, Len(stack)))}
                /\ stack' = SubSeq(stack, 1, at - 1)
           ELSE UNCHANGED <<components, stack>>
  /\ UNCHANGED indices

SearchDone == work = <<>> /\ Visited = Nodes
SearchStep == StartRoot \/ Descend \/ Look \/ Return
-----------------------------------------------------------------------------
\* b is reachable from a along the edges: every set that holds a and is closed
\* under the edges holds b.
Reaches(edges, a, b) ==
  \A S \in SUBSET Nodes :
    (a \in S /\ \A e \in edges : e[1] \in S => e[2] \in S) => b \in S

\* The component of n: the nodes that reach it and that it reaches.
ComponentOf(n) == {m \in Nodes : Reaches(graph, n, m) /\ Reaches(graph, m, n)}

\* The iterative search of _strongly_connected_components, with its explicit
\* call stack and its per-frame cursor, returns exactly the strongly connected
\* components: a low link lost when a frame returns, or a neighbour of a closed
\* component taken for an open one, would merge or split dependency cycles.
ComponentsExact ==
  SearchDone => components = {ComponentOf(n) : n \in Nodes}
=============================================================================

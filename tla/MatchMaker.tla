------------------------------ MODULE MatchMaker ------------------------------
(***************************************************************************)
(* MatchMaker.kt: the edges of the optimiser's flow graph, kept twice, by  *)
(* source (successors) and by target (predecessors), and the operations    *)
(* that edit both.                                                         *)
(*                                                                         *)
(* An edge is <<from, to, jump>>; an edge that is no jump falls through.   *)
(* Each table is the set of the edges it holds: a key of the maps whose    *)
(* set is empty is removed by the code, so it means the same as no key.    *)
(* age lists the edges of predecessors in the order of their insertion,    *)
(* in which a Kotlin mutableSetOf is iterated.                             *)
(* thrown: a require or an exception has ended the compilation.            *)
(***************************************************************************)
EXTENDS Integers, FiniteSets, SequencesExt

\* A node is <<kind, number>>; NOOPs are made on the way.
NOOP(k) == <<"noop", k>>

EmptyGraph ==
  [successors |-> {}, predecessors |-> {}, age |-> <<>>, noops |-> 0, thrown |-> FALSE]

fallThrough(g, n) == {e[2] : e \in {f \in g.successors : f[1] = n /\ ~f[3]}}
jumpingTo(g, n)   == {e[2] : e \in {f \in g.successors : f[1] = n /\ f[3]}}
successorEdges(g, n) == {e \in g.successors : e[1] = n}

\* What is left of a sequence when only the members of S are kept.
Kept(s, S) ==
  LET kept[n \in 0 .. Len(s)] ==
        IF n = 0 THEN <<>> ELSE IF s[n] \in S THEN Append(kept[n-1], s[n]) ELSE kept[n-1]
  IN  kept[Len(s)]

\* predecessors(node), each once.
predecessorsOf(g, n) ==
  LET into(e)   == e[2] = n
      Add(s, e) == IF e[1] \in Range(s) THEN s ELSE Append(s, e[1])
  IN  FoldLeft(Add, <<>>, SelectSeq(g.age, into))

FallsInto(g, n) == \E e \in g.predecessors : e[2] = n /\ ~e[3]

\* Successors.set requires that from has no such edge yet.
Set(g, from, to, jump) ==
  IF \E e \in g.successors : e[1] = from /\ e[3] = jump
  THEN [g EXCEPT !.thrown = TRUE]
  ELSE [g EXCEPT !.successors = @ \cup {<<from, to, jump>>},
                 !.predecessors = @ \cup {<<from, to, jump>>},
                 !.age = Append(@, <<from, to, jump>>)]

\* A second fall-through into a node goes to a NOOP that jumps there.
connect(g, from, to, jump) ==
  IF ~jump /\ FallsInto(g, to)
  THEN LET dummy == NOOP(g.noops + 1) IN
       Set(Set([g EXCEPT !.noops = @ + 1], from, dummy, FALSE), dummy, to, TRUE)
  ELSE Set(g, from, to, jump)

\* Mutant of removeConnection: the table of predecessors is not updated.
removeConnectionOneEnd(g, from, to, jump) ==
  [g EXCEPT !.successors = @ \ {<<from, to, jump>>}]

\* Successors.remove throws if from has edges and this is not one of them.
removeConnection(g, from, to, jump) ==
  [g EXCEPT !.predecessors = @ \ {<<from, to, jump>>},
            !.age = Kept(@, g.predecessors \ {<<from, to, jump>>}),
            !.successors = @ \ {<<from, to, jump>>},
            !.thrown = @ \/ (successorEdges(g, from) # {} /\ <<from, to, jump>> \notin g.successors)]

\* Mutant of translate: the edge from a to b is left in place.
translateKeepsEdge(g, a, b, c) ==
  connect(removeConnection(g, b, c, c \in jumpingTo(g, b)), a, c, b \in jumpingTo(g, a))

\* Given a -> b -> c, removes b and connects a to c.
translate(g, a, b, c) ==
  LET jumpAB == b \in jumpingTo(g, a)
      jumpBC == c \in jumpingTo(g, b)
      cut    == removeConnection(removeConnection(g, a, b, jumpAB), b, c, jumpBC)
      dummy  == NOOP(g.noops + 1)
  IN  IF b \notin fallThrough(g, a) \cup jumpingTo(g, a) THEN [g EXCEPT !.thrown = TRUE]
      ELSE IF jumpAB THEN connect(cut, a, c, TRUE)
      ELSE IF jumpBC
      THEN connect(connect([cut EXCEPT !.noops = @ + 1], a, dummy, FALSE), dummy, c, TRUE)
      ELSE connect(cut, a, c, FALSE)

\* Every connection of n goes, in both tables.
removeNode(g, n) ==
  LET apart(e) == e[1] # n /\ e[2] # n
  IN  [g EXCEPT !.predecessors = {e \in @ : apart(e)},
                !.age = Kept(@, {e \in g.predecessors : apart(e)}),
                !.successors = {e \in @ : apart(e)}]

-----------------------------------------------------------------------------
(* What repOk, which is commented out, required of the tables. *)

\* Each edge is in both tables.
Mirrored(g) == g.predecessors = g.successors

\* A node has at most one fall-through and one jump out.
OneWayOut(g) == \A e, f \in g.successors : e[1] = f[1] /\ e[3] = f[3] => e = f

\* At most one node falls into a node.
OneFallIn(g) == \A e, f \in g.predecessors : e[2] = f[2] /\ ~e[3] /\ ~f[3] => e = f
=============================================================================

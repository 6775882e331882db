------------------------------ MODULE Iterators ------------------------------
(***************************************************************************)
(* Reading the oracle: oracle::predict_next, oracle::predict_all and       *)
(* oracle::iterator.  An iterator is the stack of grammar nodes on the way *)
(* down from the start rule to the current terminal; here a sequence whose *)
(* head is the top of the stack, and <<>> is oracle::end().                *)
(***************************************************************************)
EXTENDS Predictors

\* oracle::predict_next.
PredictNext(g) == {g.sym[a].s : a \in {p \in g.predictions : ~NT(g.sym[p].s)}}

\* The nodes pushed on top of `below` on the way down from a to a terminal.
Descend(g, a, below) ==
  LET Down[b \in Linked(g)] ==
        IF NT(g.sym[b].s) THEN Down[First(g, g.sym[b].s)] \o <<b>> ELSE <<b>>
  IN  Down[a] \o below

IncrementFaulty(g, it) ==
  LET Step[st \in Seq(Linked(g))] ==
        IF st = <<>> THEN <<>>
        ELSE LET nxt == g.sym[Head(st)].n
             IN  IF IsGuard(g, nxt) THEN Step[Tail(st)] ELSE <<nxt>> \o Tail(st)
  IN  Step[it]

\* operator++: step to the next node of the innermost rule that has one.
Increment(g, it) ==
  LET Step[st \in Seq(Linked(g))] ==
        IF st = <<>> THEN <<>>
        ELSE LET nxt == g.sym[Head(st)].n
             IN  IF IsGuard(g, nxt) THEN Step[Tail(st)]
                                    ELSE Descend(g, nxt, Tail(st))
  IN  Step[it]

\* The values operator* gives from `it` on, until it equals end().
ReadFrom(g, it) ==
  LET Read[st \in Seq(Linked(g))] ==
        IF st = <<>> THEN <<>>
        ELSE <<g.sym[Head(st)].s>> \o Read[Increment(g, st)]
  IN  Read[it]

\* oracle::begin, defined once something was read.
Begin(g, start) == Descend(g, First(g, start), <<>>)

\* build_predictor_stack_from(a), already reversed as predict_all does: the stack
\* of a terminal holds it, and the caller pushes the child it came from again.
PredictorStacksFaulty(g, a) ==
  LET Build[b \in DOMAIN g.sym] ==
        IF ~NT(g.sym[b].s) THEN {<<b>>}
        ELSE UNION {{st \o <<c>> : st \in Build[c]} : c \in NodesOf(g, g.sym[b].s)}
  IN  Build[a]

PredictorStacks(g, a) ==
  LET Build[b \in DOMAIN g.sym] ==
        IF ~NT(g.sym[b].s) THEN {<<b>>}
        ELSE LET kids == {c \in NodesOf(g, g.sym[b].s) : g.sym[c].pred}
             IN  UNION {{st \o <<c>> : st \in Build[c]} : c \in kids}
  IN  Build[a]

PredictAll(g, root) == PredictorStacks(g, root)

==============================================================================

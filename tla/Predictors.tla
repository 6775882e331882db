------------------------------ MODULE Predictors ------------------------------
(***************************************************************************)
(* The prediction side of the oracle: which nodes of the grammar are       *)
(* "predictors", that is, lie on a path from the root to a terminal the    *)
(* oracle expects next, and how a path moves when a value is read.  A      *)
(* predictor node of a rule holds in preds the children the paths go       *)
(* through.  The operators transform the heap of module Symbols.           *)
(***************************************************************************)
EXTENDS Symbols

-----------------------------------------------------------------------------
(* Marking nodes.                                                          *)

\* The two ends of each rule.
LeftEnd(g)  == [r \in DOMAIN g.rule |-> First(g, r)]
RightEnd(g) == [r \in DOMAIN g.rule |-> Last(g, r)]

\* The nodes met from a when each nonterminal is followed to one end of its
\* rule; end is LeftEnd(g) or RightEnd(g).
Spine(g, a, end) ==
  LET Down[b \in DOMAIN g.sym] ==
        {b} \cup (IF NT(g.sym[b].s) THEN Down[end[g.sym[b].s]] ELSE {})
  IN  Down[a]

\* become_predictor_down_left or _right, called on each node of A.
BecomePredictorDown(g, A, end) ==
  LET S == UNION {Spine(g, a, end) : a \in A}
  IN  AddPredictions(
        [g EXCEPT !.sym = [b \in DOMAIN g.sym |->
            IF b \notin S THEN g.sym[b]
            ELSE [g.sym[b] EXCEPT
                    !.pred = TRUE,
                    !.preds = IF NT(g.sym[b].s)
                              THEN @ \cup {end[g.sym[b].s]} ELSE @]]],
        S)

\* become_predictor_up, called on the users of the rule of each node of A: the
\* links <<user, child>> it adds.  It stops at a link that is already there and
\* at the root, which no rule owns.
LinksUp(g, A) ==
  LET Up[c \in DOMAIN g.sym] ==
        IF g.sym[c].owner = Null THEN {}
        ELSE UNION {{<<u, c>>} \cup Up[u] :
                      u \in {v \in g.rule[g.sym[c].owner].users :
                               c \notin g.sym[v].preds}}
  IN  UNION {Up[a] : a \in A}

BecomePredictorUp(g, A) ==
  LET links == LinksUp(g, A)
      tops  == {e[1] : e \in links}
  IN  [g EXCEPT !.sym = [u \in DOMAIN g.sym |->
         IF u \notin tops THEN g.sym[u]
         ELSE [g.sym[u] EXCEPT
                 !.pred = TRUE,
                 !.preds = @ \cup {e[2] : e \in {f \in links : f[1] = u}}]]]

\* oracle::find_new_predictors: every node of a rule that has the value of
\* `last`, except `last` itself, becomes a predictor down its right end and up
\* to the root.
FindNewPredictors(g, last) ==
  LET nodes == UNION {NodesOf(g, r) : r \in DOMAIN g.rule}
      same  == {a \in nodes \ {last} : g.sym[a].s = g.sym[last].s}
  IN  BecomePredictorUp(BecomePredictorDown(g, same, RightEnd(g)), same)

-----------------------------------------------------------------------------
(* Advancing past the value v.                                             *)

\* Does a's predictor path end in its rule, so that the parent has to move on?
AtEnd(g, a) == IsGuard(g, g.sym[a].n)

\* The nodes visited remember the values they will have; what was due is over.
Remember(g, next, due) ==
  [g EXCEPT
     !.sym = [a \in DOMAIN g.sym |->
        IF a \in DOMAIN next
        THEN [g.sym[a] EXCEPT !.upd = TRUE, !.next = next[a]] ELSE g.sym[a]],
     !.predictions = @ \ due]

\* compute_next_predictors, called on `top` with a node of raw value v: for
\* each node it visits, the return value (1 = a path below matched and goes on
\* inside the rule, 2 = a path below reached its end, 3 = both, 0 = neither)
\* and the predictors the node will have.
ComputeNextPredictors(g, top, v) ==
  LET Leaf(a) == g.sym[a].s = v \/ ~NT(g.sym[a].s)
      Ret[a \in DOMAIN g.sym] ==
        LET x == g.sym[a]
            kids(R) == {c \in x.preds : Ret[c] \in R}
            ends == {c \in kids({2, 3}) : AtEnd(g, c)}
            goes == kids({1, 3}) \cup (kids({2, 3}) \ ends)
        IN  IF x.upd THEN x.next.ret
            ELSE IF ~x.pred THEN 0
            ELSE IF Leaf(a) THEN IF x.s = v THEN 2 ELSE 0
            ELSE (IF goes # {} THEN 1 ELSE 0) + (IF ends # {} THEN 2 ELSE 0)
      Visit[a \in DOMAIN g.sym] ==
        IF g.sym[a].upd \/ ~g.sym[a].pred THEN {}
        ELSE {a} \cup (IF Leaf(a) THEN {}
                       ELSE UNION {Visit[c] : c \in g.sym[a].preds})
      NextOf(a) ==
        LET kids(R) == {c \in g.sym[a].preds : ~Leaf(a) /\ Ret[c] \in R}
            stay == kids({1, 3})
            new  == {g.sym[c].n : c \in {d \in kids({2, 3}) : ~AtEnd(g, d)}}
        IN  [ret |-> Ret[a], pred |-> stay \cup new # {},
             stay |-> stay, new |-> new]
      seen == Visit[top]
  IN  Remember(g, [a \in seen |-> NextOf(a)], {a \in seen : Leaf(a)})

ToUpdateFaulty(g, a, c) ==
  {d \in g.sym[a].preds :
     d > c /\ g.sym[d].pred /\ g.sym[d].upd /\ g.sym[d].next.pred}

\* The children update_predictors calls itself on, after child c of a: those
\* that are predictors whose next values are computed; the call returns at once
\* on the others.
ToUpdate(g, a, c) ==
  {d \in g.sym[a].preds : d > c /\ g.sym[d].pred /\ g.sym[d].upd}

\* Node a takes the predictors computed for it.
Turn(g, a, nxt) ==
  [g EXCEPT !.sym[a].pred = nxt.pred,
            !.sym[a].preds = IF nxt.pred THEN nxt.new \cup nxt.stay ELSE {},
            !.sym[a].next = NoNext]

\* What update_predictors does after its loop over the children.
AdoptNext(g, a) ==
  LET nxt == g.sym[a].next
      g1  == Turn(BecomePredictorDown(g, nxt.new, LeftEnd(g)), a, nxt)
  IN  IF nxt.pred \/ g.sym[a].owner = Null THEN g1
      ELSE [g1 EXCEPT !.predictions = @ \ {a}]

==============================================================================

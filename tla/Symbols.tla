------------------------------- MODULE Symbols -------------------------------
(***************************************************************************)
(* The linked grammar of the Sequitur oracle: the nodes of symbols.hpp,    *)
(* the rules of rules.hpp and the digram table of oracle.hpp, as a heap    *)
(* that the member functions transform.  A heap g is a record:             *)
(*                                                                         *)
(*   g.sym     live symbol address -> the fields of that node             *)
(*   g.rule    live rule -> its guard, its counter and its users          *)
(*   g.table   pair of raw values -> the symbol that starts that digram   *)
(*   g.predictions  the predicted terminal nodes (oracle::predictions)    *)
(*   g.brk, g.rbrk  the next address never handed out, per kind           *)
(*   g.free, g.rfree  the addresses given back, most recent first         *)
(*   g.stale   freed address -> the raw value its memory still holds      *)
(*                                                                         *)
(* Addresses are naturals and 0 is the null pointer; a raw value is a      *)
(* terminal or a rule, as in the code, where terminals are the odd words.  *)
(* Reading a node outside DOMAIN g.sym is an access to freed memory, and   *)
(* TLC stops on it: only Oracle's Learn reads g.stale instead.             *)
(***************************************************************************)
EXTENDS Naturals, Sequences, FiniteSets

CONSTANTS Terminal,   \* the values fed to the oracle
          Recycle     \* does the allocator hand freed chunks out again?

ASSUME TerminalAssumption == Terminal \cap Nat = {}
ASSUME RecycleAssumption == Recycle \in BOOLEAN

Null == 0

\* symbols::nt, on a raw value
NT(v) == v \notin Terminal /\ v # Null

\* Definitions whose names end in "Faulty" are no part of the model: each is a
\* slip one could make in the definition after it, which a property must notice.

Put(f, x, v) == [y \in DOMAIN f \cup {x} |-> IF y = x THEN v ELSE f[y]]
Without(f, x) == [y \in DOMAIN f \ {x} |-> f[y]]

-----------------------------------------------------------------------------
(* Reading the grammar.                                                    *)

First(g, r) == g.sym[g.rule[r].guard].n
Last(g, r)  == g.sym[g.rule[r].guard].p

\* A node is the guard of its rule when the rule's first node points back to it.
IsGuard(g, a) == NT(g.sym[a].s) /\ g.sym[First(g, g.sym[a].s)].p = a

\* The nodes in a list: the root points nowhere, and so does a node just made.
Linked(g) == {a \in DOMAIN g.sym : g.sym[a].n # Null}

\* The nodes of rule r from first to last, as every loop over a rule meets them.
Body(g, r) ==
  LET From[a \in Linked(g)] ==
        IF IsGuard(g, a) THEN <<>> ELSE <<a>> \o From[g.sym[a].n]
  IN  From[First(g, r)]

NodesOf(g, r) == LET b == Body(g, r) IN {b[i] : i \in DOMAIN b}

-----------------------------------------------------------------------------
(* The digram table.                                                       *)

Digram(g, a) == <<g.sym[a].s, g.sym[g.sym[a].n].s>>

\* The early returns shared by symbols::delete_digram and symbols::set_digram.
NoDigram(g, a) ==
  IsGuard(g, a) \/ IsGuard(g, g.sym[a].n) \/ g.sym[a].owner = Null

SetDigram(g, a) ==
  IF NoDigram(g, a) THEN g
  ELSE [g EXCEPT !.table = Put(@, Digram(g, a), a)]

DeleteDigramFaulty(g, a) == g

DeleteDigram(g, a) ==
  IF NoDigram(g, a) THEN g
  ELSE LET d == Digram(g, a)
       IN  IF d \in DOMAIN g.table /\ g.table[d] = a
           THEN [g EXCEPT !.table = Without(@, d)]
           ELSE g

-----------------------------------------------------------------------------
(* Linking nodes.                                                          *)

\* Is a the middle of three equal values?
Triple(g, a) ==
  LET x == g.sym[a]
  IN  /\ x.p # Null /\ x.n # Null
      /\ x.s = g.sym[x.p].s /\ x.s = g.sym[x.n].s

Unlink(g, left, right) ==
  LET g1 == DeleteDigram(g, left)
      g2 == IF Triple(g1, right) THEN SetDigram(g1, right) ELSE g1
  IN  IF Triple(g2, left) THEN SetDigram(g2, g2.sym[left].p) ELSE g2

Link(g, left, right) ==
  [g EXCEPT !.sym[right].owner = g.sym[left].owner,
            !.sym[left].n = right,
            !.sym[right].p = left]

Join(g, left, right) ==
  Link(IF g.sym[left].n # Null /\ ~IsGuard(g, left)
       THEN Unlink(g, left, right) ELSE g, left, right)

InsertAfter(g, a, y) == Join(Join(g, y, g.sym[a].n), a, y)

-----------------------------------------------------------------------------
(* Allocation.                                                             *)

NoNext == [ret |-> 0, pred |-> FALSE, stay |-> {}, new |-> {}]

SymbolAddress(g) == IF g.free # <<>> THEN Head(g.free) ELSE g.brk
RuleAddress(g)   == IF g.rfree # <<>> THEN Head(g.rfree) ELSE g.rbrk

TakeSymbol(g) ==
  IF g.free # <<>>
  THEN [g EXCEPT !.free = Tail(@), !.stale = Without(@, Head(g.free))]
  ELSE [g EXCEPT !.brk = @ + 1]

TakeRule(g) ==
  IF g.rfree # <<>> THEN [g EXCEPT !.rfree = Tail(@)]
                    ELSE [g EXCEPT !.rbrk = @ + 1]

NewSymbolFaulty(g, v, o) ==
  LET a  == SymbolAddress(g)
      g1 == [TakeSymbol(g) EXCEPT
               !.sym = Put(@, a, [n |-> Null, p |-> Null, s |-> v, owner |-> o,
                                  pred |-> FALSE, preds |-> {},
                                  upd |-> FALSE, next |-> NoNext])]
  IN  IF NT(v) THEN [g1 EXCEPT !.rule[v].users = @ \cup {a}] ELSE g1

\* new symbols(v, o): the node lands at SymbolAddress(g) and, when its value is
\* a rule, counts as one more user of it.
NewSymbol(g, v, o) ==
  LET a  == SymbolAddress(g)
      g1 == [TakeSymbol(g) EXCEPT
               !.sym = Put(@, a, [n |-> Null, p |-> Null, s |-> v, owner |-> o,
                                  pred |-> FALSE, preds |-> {},
                                  upd |-> FALSE, next |-> NoNext])]
  IN  IF NT(v)
      THEN [g1 EXCEPT !.rule[v].count = @ + 1, !.rule[v].users = @ \cup {a}]
      ELSE g1

\* new rules(this): a guard that points to itself and is no user of the rule.
NewRule(g) ==
  LET r == RuleAddress(g)
      a == SymbolAddress(g)
  IN  [TakeRule(TakeSymbol(g)) EXCEPT
         !.sym = Put(@, a, [n |-> a, p |-> a, s |-> r, owner |-> r,
                            pred |-> FALSE, preds |-> {},
                            upd |-> FALSE, next |-> NoNext]),
         !.rule = Put(@, r, [guard |-> a, count |-> 0, users |-> {}])]

DeuseFaulty(g, a) ==
  LET r == g.sym[a].s
  IN  IF NT(r) THEN [g EXCEPT !.rule[r].count = @ - 1] ELSE g

Deuse(g, a) ==
  LET r == g.sym[a].s
  IN  IF NT(r) THEN [g EXCEPT !.rule[r].count = @ - 1, !.rule[r].users = @ \ {a}]
               ELSE g

FreeSymbol(g, a) ==
  [g EXCEPT !.sym = Without(@, a),
            !.stale = Put(@, a, g.sym[a].s),
            !.free = IF Recycle THEN <<a>> \o @ ELSE @]

\* ~symbols, for a node that was linked: close the gap, forget the digram the
\* node starts, leave the users of its rule, and stop being a prediction.
Destroy(g, a) ==
  LET g1 == Join(g, g.sym[a].p, g.sym[a].n)
      g2 == IF IsGuard(g1, a) THEN g1 ELSE Deuse(DeleteDigram(g1, a), a)
      x  == g2.sym[a]
      g3 == IF x.pred /\ ~NT(x.s) /\ x.owner # Null
            THEN [g2 EXCEPT !.predictions = @ \ {a}] ELSE g2
  IN  FreeSymbol(g3, a)

DestroyRule(g, r) ==
  [Destroy(g, g.rule[r].guard) EXCEPT
     !.rule = Without(@, r),
     !.rfree = IF Recycle THEN <<r>> \o @ ELSE @]

-----------------------------------------------------------------------------
(* Rewriting.                                                              *)

\* Every user of the rule that owns node `from` and holds it among its
\* predictors holds the nodes `to` instead.
MovePredictor(g, from, to) ==
  LET U == {u \in g.rule[g.sym[from].owner].users : from \in g.sym[u].preds}
  IN  [g EXCEPT !.sym = [a \in DOMAIN g.sym |->
         IF a \in U THEN [g.sym[a] EXCEPT !.preds = (@ \ {from}) \cup to]
                    ELSE g.sym[a]]]

\* oracle::add_prediction, on the nodes of A that are terminals.
AddPredictionsFaulty(g, A) == [g EXCEPT !.predictions = @ \cup A]

AddPredictions(g, A) ==
  [g EXCEPT !.predictions = @ \cup {a \in A : ~NT(g.sym[a].s)}]

\* Node a is a predictor, of the nodes kids too.
Mark(g, a, kids) ==
  [g EXCEPT !.sym[a].pred = TRUE, !.sym[a].preds = @ \cup kids]

\* What substitute does for each half of the digram: the new node B takes the
\* place of `old` among the predictors, above its counterpart `twin` in the rule.
InheritPredictor(g, old, B, twin) ==
  IF ~g.sym[old].pred THEN g
  ELSE LET g1 == Mark(MovePredictor(g, old, {B}), B, {twin})
       IN  AddPredictions(Mark(g1, twin, g1.sym[old].preds), {twin})

\* symbols::substitute up to its call of check: the digram at X1 becomes one
\* node B of rule r, which lands at SymbolAddress(g) after X1's predecessor.
Replace(g, X1, r) ==
  LET q  == g.sym[X1].p
      Y1 == g.sym[X1].n
      X2 == First(g, r)
      Y2 == g.sym[X2].n
      B  == SymbolAddress(g)
      g1 == NewSymbol(g, r, g.sym[X1].owner)
      g2 == InheritPredictor(g1, X1, B, X2)
      g3 == InheritPredictor(g2, Y1, B, Y2)
  IN  InsertAfter(Destroy(Destroy(g3, X1), Y1), q, B)

\* expand's loop over the rule: its nodes change owner.
AdoptFaulty(g, body, o) == g

Adopt(g, body, o) ==
  [g EXCEPT !.sym = [b \in DOMAIN g.sym |->
     IF b \in body THEN [g.sym[b] EXCEPT !.owner = o] ELSE g.sym[b]]]

\* symbols::expand: node a is the only user of its rule, whose body takes the
\* place of a.  The value of a is cleared before a is destroyed.
Expand(g, a) ==
  LET r     == g.sym[a].s
      left  == g.sym[a].p
      right == g.sym[a].n
      f     == First(g, r)
      l     == Last(g, r)
      g1 == IF g.sym[a].pred THEN MovePredictor(g, a, g.sym[a].preds) ELSE g
      g2 == Adopt(g1, NodesOf(g1, r), g.sym[a].owner)
      g3 == DestroyRule(DeleteDigram(g2, a), r)
      g4 == Destroy([g3 EXCEPT !.sym[a].s = Null], a)
  IN  SetDigram(Join(Join(g4, left, f), l, right), l)

\* The new rule of symbols::match: a copy of the digram that starts at ss.
AppendCopy(g, r, b) ==
  InsertAfter(NewSymbol(g, g.sym[b].s, r), Last(g, r), SymbolAddress(g))

RuleOfDigramFaulty(g, ss) ==
  LET r == RuleAddress(g)
  IN  AppendCopy(AppendCopy(NewRule(g), r, ss), r, ss)

RuleOfDigram(g, ss) ==
  LET r == RuleAddress(g)
  IN  AppendCopy(AppendCopy(NewRule(g), r, ss), r, g.sym[ss].n)

==============================================================================

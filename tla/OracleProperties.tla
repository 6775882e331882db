--------------------------- MODULE OracleProperties ---------------------------
(***************************************************************************)
(* What makes the oracle correct: the grammar is lossless and tight, the   *)
(* counters, owners and the digram table agree with it after every call,   *)
(* no call in progress holds a freed node, and the predictors answer only  *)
(* with what has been seen.                                                *)
(***************************************************************************)
EXTENDS Oracle, Iterators

Quiet == stack = <<>>

Nodes(h) == UNION {NodesOf(h, r) : r \in DOMAIN h.rule}
Guards(h) == {h.rule[r].guard : r \in DOMAIN h.rule}

\* The string of terminals each rule stands for.
Expansion(h) ==
  LET Exp[r \in DOMAIN h.rule] ==
        LET b == Body(h, r)
            Upto[i \in 0 .. Len(b)] ==
              IF i = 0 THEN <<>>
              ELSE Upto[i - 1] \o (LET v == h.sym[b[i]].s
                                   IN  IF NT(v) THEN Exp[v] ELSE <<v>>)
        IN  Upto[Len(b)]
  IN  Exp

-----------------------------------------------------------------------------
\* Type invariant: the heap's parts have the fields the code gives them and the
\* pointers that no step may leave dangling point to live nodes and rules.
TypeOK ==
  /\ hist \in Seq(Terminal) /\ Len(hist) <= MaxInput
  /\ Root \in DOMAIN g.sym /\ Start \in DOMAIN g.rule
  /\ \A a \in DOMAIN g.sym :
       LET x == g.sym[a]
       IN  /\ a < g.brk
           /\ {x.n, x.p} \subseteq DOMAIN g.sym \cup {Null}
           /\ x.s \in Terminal \cup DOMAIN g.rule
           /\ x.owner \in DOMAIN g.rule \cup {Null}
           /\ x.pred \in BOOLEAN /\ x.upd \in BOOLEAN
  /\ \A r \in DOMAIN g.rule : r < g.rbrk /\ g.rule[r].guard \in DOMAIN g.sym

-----------------------------------------------------------------------------
(* The grammar, on an oracle in any state of a call.                       *)

\* What is left of rule utility: when input returns, every rule but the start
\* rule is used somewhere and has at least two symbols.  (Sequitur wants two uses,
\* but match looks for an underused rule in one place only, see FirstUsedTwice.)
RuleUtility ==
  Quiet => \A r \in DOMAIN g.rule \ {Start} :
             g.rule[r].count >= 1 /\ Len(Body(g, r)) >= 2

\* What match's check for an underused rule achieves: when input returns, a rule
\* that another one starts with is used at least twice.
FirstUsedTwice ==
  Quiet => \A r \in DOMAIN g.rule \ {Start} :
             LET v == g.sym[First(g, r)].s IN NT(v) => g.rule[v].count >= 2

\* Reuse and deuse bookkeeping: after every call, the users of a rule are
\* exactly the nodes (and the root) whose value it is, and count counts them.
UsersExact ==
  \A r \in DOMAIN g.rule :
    /\ g.rule[r].users = {a \in DOMAIN g.sym \ Guards(g) : g.sym[a].s = r}
    /\ g.rule[r].count = Cardinality(g.rule[r].users)

\* Ownership and memory: after every call each live node is the root, a guard or
\* in the body of exactly the rule it names as its owner; nothing is leaked.
OwnersExact ==
  /\ DOMAIN g.sym = {Root} \cup Guards(g) \cup Nodes(g)
  /\ \A r \in DOMAIN g.rule :
       \A a \in NodesOf(g, r) \cup {g.rule[r].guard} : g.sym[a].owner = r

\* The digram table never holds a digram that is gone or misplaced: after every
\* call an entry points to a node of the grammar that starts that digram.
TableSound ==
  \A d \in DOMAIN g.table :
    LET a == g.table[d]
    IN  a \in Nodes(g) /\ ~IsGuard(g, g.sym[a].n) /\ Digram(g, a) = d

\* No call in progress will use a node or a rule that another call freed: check,
\* substitute and the end of match hold live ones only.  (Two exceptions: the last
\* frame of input, see Learn, and predictor links, see LinksLive.)
FramesLive ==
  \A i \in DOMAIN stack :
    LET f == stack[i]
    IN  /\ f.op = "check" => f.at \in DOMAIN g.sym
        /\ f.op = "substitute" => /\ f.at \in Nodes(g)
                                  /\ g.sym[f.at].n \in Nodes(g)
                                  /\ f.by \in DOMAIN g.rule
        /\ f.op = "tidy" => f.by \in DOMAIN g.rule

\* What match replaces is what it puts there: a pending substitute finds at its
\* node the very digram the rule stands for, whatever ran before it.
SubstituteMatches ==
  \A i \in DOMAIN stack :
    stack[i].op = "substitute" =>
      LET a == stack[i].at
          r == stack[i].by
      IN  /\ Digram(g, a) = Digram(g, First(g, r))
          /\ Len(Body(g, r)) = 2

\* The cascade never changes what a rule stands for: a rule that survives a
\* step expands to the same string before and after it, and the start rule to
\* the same string with the value that input was given, if the step is input.
RulesKeepMeaning ==
  [][\A r \in DOMAIN g.rule \cap DOMAIN g'.rule :
        Expansion(g')[r] =
          Expansion(g)[r] \o (IF r = Start
                             THEN SubSeq(hist', Len(hist) + 1, Len(hist'))
                             ELSE <<>>)]_vars

\* Every call of input returns: each step of the cascade decreases this rank in
\* the lexicographic order.  Learn runs once; then each match takes a symbol
\* off the start rule (counted when it is found, and the substitution it leaves
\* pending keeps it so); then the calls left to make; then the nodes left to
\* update.
Frames(op) == {i \in DOMAIN stack : stack[i].op = op}
Pending == {i \in Frames("substitute") : stack[i + 1].op = "tidy"}

Rank ==
  <<Cardinality(Frames("learn")),
    Len(Body(g, Start)) - Cardinality(Pending),
    4 * Cardinality(Frames("substitute")) + Cardinality(Frames("tidy"))
      + Cardinality(Frames("check"))
      + Cardinality({i \in Frames("check") : stack[i].orNext}),
    Cardinality(Frames("update"))
      + 2 * Cardinality({a \in DOMAIN g.sym : g.sym[a].upd})>>

LexLess(x, y) ==
  \E i \in 1 .. 4 : x[i] < y[i] /\ \A j \in 1 .. i - 1 : x[j] = y[j]

CascadeDescends == [][stack # <<>> => LexLess(Rank', Rank)]_vars

-----------------------------------------------------------------------------
(* The predictions.                                                        *)

Contract == INSTANCE OracleContract
              WITH log <- Expansion(g)[Start],
                   busy <- ~Quiet,
                   predicted <- IF Quiet THEN PredictNext(g) ELSE {}

\* The oracle implements its contract: the grammar spells the values read, in
\* order, during the whole of every call, and predict_next answers between
\* calls only with values that have followed the last one.
ContractHolds == Contract!Spec

\* predict_next alone, for the run on an allocator that recycles memory.
PredictionSound == Quiet => PredictNext(g) \subseteq Contract!Followers(hist)

\* The set that predict_next reads and the flags that update_predictors sets
\* never disagree between calls: the predictions are the terminals that are
\* predictors.
PredictionsExact ==
  Quiet => g.predictions = {a \in Nodes(g) : g.sym[a].pred /\ ~NT(g.sym[a].s)}

\* Between calls, predictor links that lead to live nodes lead from a use of a
\* rule to nodes of that rule, no computed value waits to be adopted, and a node
\* that is not a predictor holds no links.
PredictorsLinked ==
  Quiet => \A a \in Nodes(g) \cup {Root} :
             LET x == g.sym[a]
             IN  /\ ~x.upd /\ x.next = NoNext
                 /\ x.preds # {} => x.pred /\ NT(x.s)
                 /\ \A c \in x.preds \cap DOMAIN g.sym :
                      c \in Nodes(g) /\ g.sym[c].owner = x.s

\* What an iterator of predict_all gives, up to end(), has been read: it starts
\* with a value that predict_next answers too, and goes on as the input did, to the
\* end of the innermost rule.  There it goes back to what followed the first
\* value, and reads to the end of the input: both functions that build a stack
\* push the terminal, and the second one of the two is stepped over in its turn.
PredictAllReads ==
  Quiet => \A st \in PredictAll(g, Root) :
    LET rest == ReadFrom(g, <<Head(st)>>)
    IN  \E i \in DOMAIN hist :
          /\ hist[i] \in PredictNext(g)
          /\ rest = SubSeq(hist, i, i + Len(rest) - 1)
          /\ ReadFrom(g, st) = rest \o SubSeq(hist, i + 1, Len(hist))

\* An iterator from begin() to end() gives back what was read, and nothing else.
IteratorReplays ==
  Quiet /\ hist # <<>> => ReadFrom(g, Begin(g, Start)) = hist

-----------------------------------------------------------------------------
(* What the comments and tests say, and the code does not do.              *)

\* symbols.hpp:97: the overlapping pair of a triple is inserted "so that we
\* don't forget about it": every digram of the grammar is in the table.
DigramsRemembered ==
  Quiet => \A a \in Nodes(g) : HasDigram(a) => Found(a)

\* symbols.cpp:133: a node that is replaced "should be erased from all parents
\* that used it as a predictor": between calls, every predictor link leads to a
\* node that is still there.
LinksLive ==
  Quiet => \A a \in DOMAIN g.sym : g.sym[a].preds \subseteq DOMAIN g.sym

==============================================================================

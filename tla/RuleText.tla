------------------------------ MODULE RuleText ------------------------------
(***************************************************************************)
(* The rule language: what dsl/parser.py makes of a source text, and what  *)
(* dsl/compiler.py makes of its rules.  No state.                          *)
(*                                                                         *)
(* A text is a sequence of lines, a line the sequence of the clauses that  *)
(* are written on it, none for a blank line.  A clause is a record         *)
(* [kw, node]: its keyword, and the graph node it is compiled into, which  *)
(* stands for its metric, operator and value, or its function and          *)
(* arguments; no clause is written twice in a text.                        *)
(***************************************************************************)
EXTENDS Naturals, Sequences

CONSTANTS
    Condition,  \* what IF clauses say
    Action,     \* what THEN and CAUSE clauses call
    Broken,     \* conditions with an operator or a value that the parser's
                \* pattern lets through and the compiler has no meaning for
    Quoting     \* actions with a rule among their arguments: add_rule("IF ...")

If(c)    == [kw |-> "IF", node |-> c]
Then(a)  == [kw |-> "THEN", node |-> a]
Cause(a) == [kw |-> "CAUSE", node |-> a]

\* Text that is no clause at all.
Noise == [kw |-> "other", node |-> "none"]

Blank  == <<>>
Dashes == <<[kw |-> "---"]>>

\* What may stand on a line.
Line ==
    {Dashes} \cup Seq([kw : {"IF"}, node : Condition] \cup
                      [kw : {"THEN", "CAUSE"}, node : Action] \cup {Noise})

Separator(line) == line \in {Blank, Dashes}

NodesOn(line) ==
    {line[k].node : k \in {i \in DOMAIN line : line[i].kw \in {"IF", "THEN", "CAUSE"}}}

-----------------------------------------------------------------------------
(* The parser.                                                             *)

\* One more line: it is added to the current block, or it ends one that has begun.
Take(acc, line) ==
    IF ~Separator(line) THEN [acc EXCEPT !.current = Append(@, line)]
    ELSE IF acc.current = <<>> THEN acc
    ELSE [blocks |-> Append(acc.blocks, acc.current), current |-> <<>>]

LinesTaken(text) ==
    LET acc[i \in 0 .. Len(text)] ==
          IF i = 0 THEN [blocks |-> <<>>, current |-> <<>>] ELSE Take(acc[i - 1], text[i])
    IN  acc[Len(text)]

\* _split_rule_blocks that forgets the lines after the last separator.
SplitAtSeparators(text) == LinesTaken(text).blocks

\* _split_rule_blocks
SplitRuleBlocks(text) ==
    LET end == LinesTaken(text)
    IN  IF end.current = <<>> THEN end.blocks ELSE Append(end.blocks, end.current)

\* _normalize_block: a rule on one line is cut at each THEN and CAUSE, those in
\* a quoted rule too, which leaves a piece with no closing parenthesis.
NormalizeBlock(block) ==
    LET line == block[1]
        Piece(clause) == IF clause.kw # "IF" /\ clause.node \in Quoting THEN <<Noise>>
                         ELSE <<clause>>
    IN  IF /\ Len(block) = 1 /\ line[1].kw = "IF"
           /\ \E k \in DOMAIN line : line[k].kw = "THEN"
        THEN [k \in DOMAIN line |-> Piece(line[k])]
        ELSE block

IsCondition(line) == Len(line) = 1 /\ line[1].kw = "IF"

\* The pattern of an action ends at the last parenthesis of the line: further
\* clauses on it are taken for arguments of the first.
IsAction(line) == {line[1].kw, line[Len(line)].kw} \subseteq {"THEN", "CAUSE"}

\* _parse_block accepts the block: the THEN may stand anywhere below the IF.
ParsesBlock(block) ==
    LET lines == NormalizeBlock(block)
    IN  /\ IsCondition(lines[1])
        /\ \A i \in 2 .. Len(lines) : IsAction(lines[i])
        /\ \E i \in 2 .. Len(lines) :
              \A j \in 2 .. Len(lines) : lines[j][1].kw = "THEN" <=> j = i

\* parse() accepts the text; otherwise it raises before it returns a rule.
Parses(text) ==
    LET blocks == SplitRuleBlocks(text)
    IN  \A b \in DOMAIN blocks : ParsesBlock(blocks[b])

\* The RuleAST of a block, as the nodes of its clauses in compilation order: the
\* THEN comes second wherever it stands, the CAUSEs follow as they stand.
RuleAST(block) ==
    LET lines == NormalizeBlock(block)
        then  == CHOOSE i \in DOMAIN lines : lines[i][1].kw = "THEN"
        Place(k) == IF k = 1 \/ k > then THEN k ELSE IF k = 2 THEN then ELSE k - 1
    IN  [k \in DOMAIN lines |-> lines[Place(k)][1].node]

Parsed(text) ==
    LET blocks == SplitRuleBlocks(text)
    IN  [b \in DOMAIN blocks |-> RuleAST(blocks[b])]

-----------------------------------------------------------------------------
(* The compiler.                                                           *)

\* _build_predicate raises before the rule's first node is added; the rules
\* before it stay in the graph that compile() was given.
RulesAdded(rules) ==
    LET Fails(r) == r[1] \in Broken
        bad      == {i \in DOMAIN rules : Fails(rules[i])}
    IN  IF bad = {} THEN rules
        ELSE SubSeq(rules, 1, (CHOOSE i \in bad : \A j \in bad : i <= j) - 1)

Compiles(rules) == RulesAdded(rules) = rules

\* add_node for each clause, add_edge from the IF to the THEN and from there
\* from one CAUSE to the next.
NodesOf(rules) == UNION {{rules[i][k] : k \in DOMAIN rules[i]} : i \in DOMAIN rules}

EdgesOf(rules) ==
    UNION {{<<rules[i][k - 1], rules[i][k]>> : k \in 2 .. Len(rules[i])} :
             i \in DOMAIN rules}

-----------------------------------------------------------------------------
(* The same, read off the text place by place.                             *)

\* Lines i and j belong to one rule: no separator between them.
SameRule(text, i, j) ==
    \A k \in DOMAIN text :
        (i <= k /\ k <= j) \/ (j <= k /\ k <= i) => ~Separator(text[k])

\* Every place of a clause in the text, and those whose clause counts: the
\* first of a line, or any one of a rule that is written on one line.
Written(text) ==
    UNION {{i} \X DOMAIN text[i] : i \in {j \in DOMAIN text : ~Separator(text[j])}}

Places(text) ==
    {p \in Written(text) :
        p[2] = 1 \/ \A j \in DOMAIN text : SameRule(text, p[1], j) => j = p[1]}

At(text, p) == text[p[1]][p[2]]

\* The places of p's rule that come before p.
Above(text, p) ==
    {q \in Places(text) : /\ SameRule(text, p[1], q[1])
                          /\ q[1] < p[1] \/ (q[1] = p[1] /\ q[2] < p[2])}

\* p comes before q in their rule: the IF, the THEN, then the CAUSEs as they stand.
Precedes(text, p, q) ==
    LET a == At(text, p).kw
        b == At(text, q).kw
    IN  \/ a = "IF" /\ b # "IF"
        \/ a = "THEN" /\ b = "CAUSE"
        \/ a = "CAUSE" /\ b = "CAUSE" /\ p \in Above(text, q)

\* p is the cause of q: the one that comes just before it.
CauseOf(text, p, q) ==
    /\ SameRule(text, p[1], q[1]) /\ Precedes(text, p, q)
    /\ \A r \in Places(text) :
          SameRule(text, p[1], r[1]) => ~(Precedes(text, p, r) /\ Precedes(text, r, q))

\* "Supported grammar" (parser.py:4-19): IF, THEN, then the CAUSEs, a line each
\* or all on one line.
Grammatical(text) ==
    \A p \in Written(text) :
        LET kw == At(text, p).kw
        IN  /\ p \in Places(text) /\ kw \in {"IF", "THEN", "CAUSE"}
            /\ kw = "IF" <=> Above(text, p) = {}
            /\ kw = "THEN" <=> \E q \in Above(text, p) : Above(text, p) = {q}
            /\ kw = "IF" => \E q \in Places(text) : Above(text, q) = {p}

=============================================================================

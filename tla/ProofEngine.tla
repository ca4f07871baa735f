----------------------------- MODULE ProofEngine -----------------------------
(***************************************************************************)
(* The proof engine, tools/proof_engine.py, over the graph of CausalGraph: *)
(* after each tick a callback of the loop reads the new entries of the     *)
(* execution history and records, for each node, why it ran.               *)
(*                                                                         *)
(* The graph is not locked meanwhile: other callbacks may edit, trigger    *)
(* and reset it between the tick and the engine's turn, or raise, so that  *)
(* the engine's turn does not come.                                        *)
(***************************************************************************)
EXTENDS CausalGraph, Functions

CONSTANTS
    RecordContexts,  \* CausalGraph(record_contexts=...)
    MaxTicks         \* bound: ticks of the loop

ASSUME EngineConstants == RecordContexts \in BOOLEAN /\ MaxTicks \in Nat

VARIABLES
    tickCount,  \* the loop's tick_count
    due,        \* the callbacks of a tick are running, the engine's not yet
    proofs,     \* _proofs: the nodes with a proof, and the proofs
    certs,      \* _certs: for each effect, the tick given for each cause
    lastLen,    \* _last_history_len
    contexts,   \* the context kept with each entry of the history
    made,       \* of each entry: the tick it was made in, the causes then
    inStep      \* no entry has been missed or will be read twice

engineVars == <<proofs, certs, lastLen>>
loopVars   == <<tickCount, due>>
notes      == <<contexts, made, inStep>>
allVars    == <<vars, loopVars, engineVars, notes>>

Empty == [n \in {} |-> None]

Put(f, n, v) == [m \in DOMAIN f \cup {n} |-> IF m = n THEN v ELSE f[m]]

-----------------------------------------------------------------------------
(* Causal chains.                                                          *)

IsPath(s) ==
    /\ \A i \in DOMAIN s : s[i] \in nodes
    /\ \A i \in 2 .. Len(s) : <<s[i - 1], s[i]>> \in edges

\* The nodes of S and their causes.
Upward(S) == S \cup UNION {Preds(m) : m \in S}

\* The causes of n, near and far.
Ancestors(n) ==
    LET up[S \in SUBSET nodes] == IF Upward(S) = S THEN S ELSE up[Upward(S)]
    IN  up[Preds(n)]

\* Some cause of n is its own cause: the recursion does not end.
CyclicPast(n) == \E m \in Ancestors(n) : m \in Ancestors(m)

\* The paths of k nodes from a root to n.
Chains(n, k) ==
    {s \in [1 .. k -> nodes] : s[k] = n /\ Preds(s[1]) = {} /\ IsPath(s)}

\* _compute_cause_chain that leaves the node itself out.
ChainsAbove(n) ==
    UNION {{s \in [1 .. k -> nodes] : k = 0 \/ (IsPath(s) /\ s[k] \in Preds(n))} :
             k \in 0 .. Cardinality(nodes)}

\* _compute_cause_chain: one of the longest, which one is the sets' business.
LongestChains(n) ==
    LET lengths == {k \in 1 .. Cardinality(nodes) : Chains(n, k) # {}}
    IN  Chains(n, CHOOSE k \in lengths : \A j \in lengths : j <= k)

-----------------------------------------------------------------------------
(* record_tick.                                                            *)

\* The fields of a proof: tick, predecessor_ids, triggered_by, result and
\* cause_chain.
NodeActivationProof ==
    [tick   : 0 .. MaxTicks,
     causes : SUBSET Node,
     by     : UNION {[S -> Result] : S \in SUBSET Node},
     result : Result,
     chain  : Seq(Node)]

\* The context that _build_proof looks the causes up in: the store's snapshot,
\* which holds no results, if none was captured.
ContextOf(i) == IF RecordContexts THEN contexts[i] ELSE EmptyCtx

\* The proof that entry i gives rise to; chain explains its node.
ProofOf(i, chain) ==
    LET n == history[i].node
    IN  [tick   |-> tickCount,
         causes |-> Preds(n),
         by     |-> [p \in IF n \in ConditionNode THEN {}
                           ELSE {q \in Preds(n) : ContextOf(i)[q] # Missing}
                       |-> ContextOf(i)[p]],
         result |-> history[i].result,
         chain  |-> chain]

\* Certificates with the effect's tick for every cause.
CertsOfOneTick(n, known) == [p \in Preds(n) |-> tickCount]

\* One certificate per cause; a cause without a proof is put one tick back.
CertsOf(n, known) ==
    [p \in Preds(n) |->
        IF p \in DOMAIN known THEN known[p].tick
        ELSE IF tickCount = 0 THEN 0 ELSE tickCount - 1]

\* _build_proof for entry k, which stores the node's proof and, if the node has
\* causes, its certificates.
BuildProof(k, chain, known) ==
    LET n == history[k].node
    IN  [proofs |-> Put(known.proofs, n, ProofOf(k, chain[n])),
         certs  |-> IF Preds(n) = {} THEN known.certs
                    ELSE Put(known.certs, n, CertsOf(n, known.proofs))]

\* What is known when entries lastLen + 1 .. last have been dealt with.
Known(chain, last) ==
    LET K[k \in 0 .. last] ==
          IF k <= lastLen THEN [proofs |-> proofs, certs |-> certs]
          ELSE BuildProof(k, chain, K[k - 1])
    IN  K[last]

\* Cyclic ancestry ends the recursion with an error: the entries before the
\* first such node are recorded, the others never will be.
RecordedUpTo ==
    LET bad == {k \in (lastLen + 1) .. Len(history) : CyclicPast(history[k].node)}
    IN  IF bad = {} THEN Len(history) ELSE (CHOOSE k \in bad : \A j \in bad : k <= j) - 1

\* record_tick that stores a node's certificates before it computes its chain.
RecordTickCertsFirst ==
    /\ phase = "idle" /\ due
    /\ due' = FALSE
    /\ lastLen' = Len(history)
    /\ IF lastLen >= Len(history) THEN UNCHANGED <<proofs, certs, inStep>>
       ELSE LET last  == RecordedUpTo
                new   == {history[k].node : k \in (lastLen + 1) .. last}
                paths == [n \in new |-> LongestChains(n)]
            IN  /\ \E chain \in [new -> UNION Range(paths)] :
                      /\ \A n \in new : chain[n] \in paths[n]
                      /\ LET known == Known(chain, last)
                         IN  /\ proofs' = known.proofs
                             /\ certs' = IF last = Len(history) THEN known.certs
                                         ELSE LET n == history[last + 1].node
                                              IN  Put(known.certs, n, CertsOf(n, known.proofs))
                /\ inStep' = (inStep /\ last = Len(history))
    /\ UNCHANGED <<vars, tickCount, contexts, made>>

\* record_tick: the entries beyond the length the history had last time.
RecordTick ==
    /\ phase = "idle" /\ due
    /\ due' = FALSE
    /\ lastLen' = Len(history)
    /\ IF lastLen >= Len(history) THEN UNCHANGED <<proofs, certs, inStep>>
       ELSE LET last  == RecordedUpTo
                new   == {history[k].node : k \in (lastLen + 1) .. last}
                paths == [n \in new |-> LongestChains(n)]
            IN  /\ \E chain \in [new -> UNION Range(paths)] :
                      /\ \A n \in new : chain[n] \in paths[n]
                      /\ LET known == Known(chain, last)
                         IN  proofs' = known.proofs /\ certs' = known.certs
                /\ inStep' = (inStep /\ last = Len(history))
    /\ UNCHANGED <<vars, tickCount, contexts, made>>

\* A callback registered before the engine's raised.
TurnMissed ==
    /\ phase = "idle" /\ due
    /\ due' = FALSE
    /\ inStep' = (inStep /\ lastLen = Len(history))
    /\ UNCHANGED <<vars, tickCount, engineVars, contexts, made>>

\* reset() that leaves the position in the history alone.
EngineResetInPlace ==
    /\ phase = "idle"
    /\ proofs' = Empty /\ certs' = Empty
    /\ inStep' = (history = <<>> \/ (inStep /\ lastLen = 0))
    /\ UNCHANGED <<vars, loopVars, lastLen, contexts, made>>

\* ProofEngine.reset: what the history still holds will be read again.
EngineReset ==
    /\ phase = "idle"
    /\ proofs' = Empty /\ certs' = Empty /\ lastLen' = 0
    /\ inStep' = (history = <<>> \/ (inStep /\ lastLen = 0))
    /\ UNCHANGED <<vars, loopVars, contexts, made>>

-----------------------------------------------------------------------------
(* The graph and the loop.                                                 *)

EngineInit ==
    /\ Init
    /\ tickCount = 0 /\ due = FALSE
    /\ proofs = Empty /\ certs = Empty /\ lastLen = 0
    /\ contexts = <<>> /\ made = <<>> /\ inStep = TRUE

GraphEdit ==
    /\ \/ \E n \in Node : AddNode(n)
       \/ \E e \in Edge : AddEdge(e[1], e[2])
       \/ \E n \in EventNode, v \in Value : Trigger(n, v)
    /\ UNCHANGED <<loopVars, engineVars, notes>>

\* The engine is not told.
GraphReset ==
    /\ Reset
    /\ contexts' = <<>> /\ made' = <<>>
    /\ inStep' = (inStep /\ lastLen = 0)
    /\ UNCHANGED <<loopVars, engineVars>>

LoopTick ==
    /\ ~due /\ tickCount < MaxTicks
    /\ BeginTick
    /\ tickCount' = tickCount + 1
    /\ UNCHANGED <<due, engineVars, notes>>

GraphWave == NextWave /\ UNCHANGED <<loopVars, engineVars, notes>>

\* The entry keeps a copy of the context as it is after the execution.
GraphFire ==
    /\ Fire
    /\ contexts' = Append(contexts, ctx')
    /\ made' = Append(made, [tick |-> tickCount, causes |-> Preds(history'[Len(history')].node)])
    /\ UNCHANGED <<loopVars, engineVars, inStep>>

TickEnds ==
    /\ EndTick
    /\ due' = TRUE
    /\ UNCHANGED <<tickCount, engineVars, notes>>

EngineNext ==
    \/ GraphEdit \/ GraphReset
    \/ LoopTick \/ GraphWave \/ GraphFire \/ TickEnds
    \/ RecordTick \/ TurnMissed \/ EngineReset

EngineSpec == EngineInit /\ [][EngineNext]_allVars

-----------------------------------------------------------------------------
(* The lineage: what ExecutionLineage makes of proofs and certs.           *)

LineageGraph ==
    {e \in nodes \X nodes : e[2] \in DOMAIN certs /\ e[1] \in DOMAIN certs[e[2]]}

\* full_chain: the nodes of the chain that have a proof.
FullChain(n) ==
    LET chain == proofs[n].chain
        kept[k \in 0 .. Len(chain)] ==
          IF k = 0 THEN <<>>
          ELSE IF chain[k] \in DOMAIN proofs THEN Append(kept[k - 1], chain[k])
               ELSE kept[k - 1]
    IN  kept[Len(chain)]

-----------------------------------------------------------------------------
(* Properties.                                                             *)

\* The engine, the loop and the notes keep to their types.
EngineTypeOK ==
    /\ TypeOK
    /\ tickCount \in 0 .. MaxTicks /\ due \in BOOLEAN
    /\ DOMAIN certs \subseteq DOMAIN proofs /\ DOMAIN proofs \subseteq nodes
    /\ proofs \in [DOMAIN proofs -> NodeActivationProof]
    /\ certs \in [DOMAIN certs -> UNION {[C -> 0 .. MaxTicks] : C \in SUBSET nodes}]
    /\ \A n \in DOMAIN proofs : proofs[n].tick >= 1
    /\ lastLen \in 0 .. MaxHistory
    /\ contexts \in Seq([Node -> Result \cup {Missing}])
    /\ made \in Seq([tick : 1 .. MaxTicks, causes : SUBSET nodes])
    /\ Len(contexts) = Len(history) /\ Len(made) = Len(history)
    /\ inStep \in BOOLEAN

\* The engine has had its turn after every tick and no reset came between.
UpToDate == inStep /\ phase = "idle" /\ ~due

\* Entry j is the last before i about p.
LastBefore(p, j, i) ==
    /\ j \in 1 .. (i - 1) /\ history[j].node = p
    /\ \A k \in (j + 1) .. (i - 1) : history[k].node # p

\* "For every node that fires, a NodeActivationProof exists" (MODEL.md:293),
\* with the result and the tick of its last execution, and for no other node.
ProofsMatchHistory ==
    UpToDate =>
        /\ DOMAIN proofs = {history[i].node : i \in DOMAIN history}
        /\ \A n \in DOMAIN proofs : \A i \in DOMAIN history :
              LastAbout(n, i) =>
                 proofs[n].result = history[i].result /\ proofs[n].tick = made[i].tick

\* The certificates of n, if it has any.
CertsAbout(n) == IF n \in DOMAIN certs THEN certs[n] ELSE Empty

\* Entry j is the execution of p that n's certificate for it should give, and
\* that n's proof should quote, n having run last in entry i.
Dates(n, i, p, j) ==
    /\ CertsAbout(n)[p] = made[j].tick
    /\ p \in made[i].causes =>
          /\ history[j].outcome = "done"
          /\ p \in DOMAIN proofs[n].by => proofs[n].by[p] = history[j].result
          /\ RecordContexts /\ n \notin ConditionNode /\ history[j].result # None
                => p \in DOMAIN proofs[n].by

\* What certificates tell (PAPER.md, section 5.3) although causes run again and
\* edges are added before the engine's turn: each cause the execution waited
\* for has one, and its tick is that of the last execution of the cause before
\* the effect's own, which completed with the value the proof quotes; where the
\* edge came late the last execution need not have completed, and if there was
\* none, the tick, one before the effect's, is made up.
CertificatesDateCauses ==
    UpToDate =>
        \A n \in DOMAIN proofs : \A i \in DOMAIN history : LastAbout(n, i) =>
           /\ made[i].causes \subseteq DOMAIN CertsAbout(n)
           /\ \A p \in DOMAIN CertsAbout(n) :
                 \/ \E j \in 1 .. (i - 1) : LastBefore(p, j, i) /\ Dates(n, i, p, j)
                 \/ /\ p \notin made[i].causes /\ \A j \in 1 .. (i - 1) : history[j].node # p
                    /\ CertsAbout(n)[p] = made[i].tick - 1

\* The chain of a proof leads along edges of the graph to the node (soundness
\* 3, PAPER.md:544), for ever, since edges stay; and every node on it has a
\* proof, so that full_chain() has no gap, unless an edge of the chain is
\* younger than the execution it leads to.
ChainsAreProved ==
    /\ \A n \in DOMAIN proofs :
          LET c == proofs[n].chain IN c # <<>> /\ IsPath(c) /\ c[Len(c)] = n
    /\ UpToDate =>
          \A n \in DOMAIN proofs :
             LET c == proofs[n].chain
                 Timely(k) == \E i \in DOMAIN history :
                                 LastAbout(c[k], i) /\ c[k - 1] \in made[i].causes
             IN  (\A k \in 2 .. Len(c) : Timely(k)) => FullChain(n) = c

\* The lineage "is a DAG" (PAPER.md:517), on cyclic graphs as well.
LineageIsADag ==
    \A k \in 2 .. Cardinality(nodes) + 1 : \A s \in [1 .. k -> nodes] :
        (\A i \in 2 .. k : <<s[i - 1], s[i]>> \in LineageGraph) => s[1] # s[k]

=============================================================================

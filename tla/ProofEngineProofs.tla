-------------------------- MODULE ProofEngineProofs --------------------------
(***************************************************************************)
(* Proofs about the proof engine, for every graph, every value a callable  *)
(* may return, with contexts recorded or not, and any number of ticks.     *)
(*                                                                         *)
(* First what record_tick's recursions compute: ancestors, chains, and the *)
(* fold over new history entries.  Then what is true of the proofs and     *)
(* certificates that one fold adds (KnownOK), from notes of the history    *)
(* that every step keeps (Base), and that they are all there is to the     *)
(* history (Reflects).  The invariant PInv joins these.  That the lineage  *)
(* has no cycle is part of KnownOK: a node with a cycle above it ends      *)
(* record_tick before it gets certificates.                                *)
(***************************************************************************)
EXTENDS ProofEngine, CausalGraphProofs, DataInduction

-----------------------------------------------------------------------------
(* Ancestors and chains.                                                   *)

\* The ancestors of a node are its causes and the causes of its ancestors, and
\* no more than any set has that has these.
AncestorsAre(n, A) ==
    /\ A \in SUBSET nodes /\ Preds(n) \subseteq A
    /\ \A m \in A : Preds(m) \subseteq A
    /\ \A B \in SUBSET nodes :
          Preds(n) \subseteq B /\ (\A m \in B : Preds(m) \subseteq B) => A \subseteq B

\* That is what Ancestors computes, whatever cycles there are.
LEMMA AncestorsClose ==
    ASSUME IsFiniteSet(nodes), NEW n
    PROVE  AncestorsAre(n, Ancestors(n))
<1> DEFINE F == [S \in SUBSET nodes |-> Upward(S)]
           Is(f) == f = [S \in SUBSET nodes |->
                           IF Upward(S) = S THEN S ELSE f[Upward(S)]]
           up == CHOOSE f : Is(f)
<1>1. Grows(F, nodes)
  <2>1. \A S \in SUBSET nodes : Upward(S) \in SUBSET nodes /\ S \subseteq Upward(S)
    BY DEF Upward, Preds
  <2>2. \A S, T \in SUBSET nodes : S \subseteq T => Upward(S) \subseteq Upward(T)
    BY DEF Upward
  <2> QED
    BY <2>1, <2>2 DEF Grows
<1>2. \A f : Is(f) <=> Iterates(f, F, nodes)
  BY DEF Iterates
<1>3. \E f : Is(f)
  <2> HIDE DEF Is, F
  <2>1. PICK f : Iterates(f, F, nodes)
    BY <1>1, IterationExists
  <2> QED
    BY <1>2, <2>1
<1>4. Is(up)
  <2> HIDE DEF Is
  <2> QED
    BY <1>3
<1>5. Iterates(up, F, nodes)
  BY <1>2, <1>4
<1>6. Ancestors(n) = up[Preds(n)]
  BY DEF Ancestors
<1> HIDE DEF up
<1>7. Preds(n) \in SUBSET nodes
  BY DEF Preds
<1>8. LeastClosed(F, nodes, Preds(n), up[Preds(n)])
  <2> HIDE DEF F
  <2> QED
    BY <1>1, <1>5, <1>7, IterationCloses
<1>9. \A B \in SUBSET nodes : F[B] = B <=> \A m \in B : Preds(m) \subseteq B
  BY DEF Upward, Preds
<1>10. LeastClosed(F, nodes, Preds(n), Ancestors(n))
  BY <1>6, <1>8
<1> HIDE DEF F
<1>11. Ancestors(n) \in SUBSET nodes /\ F[Ancestors(n)] = Ancestors(n)
  BY <1>10 DEF LeastClosed
<1>12. \A m \in Ancestors(n) : Preds(m) \subseteq Ancestors(n)
  BY <1>9, <1>11
<1>13. Preds(n) \subseteq Ancestors(n)
  BY <1>10 DEF LeastClosed
<1>14. \A B \in SUBSET nodes :
          Preds(n) \subseteq B /\ (\A m \in B : Preds(m) \subseteq B) => Ancestors(n) \subseteq B
  BY <1>9, <1>10 DEF LeastClosed
<1> QED
  BY <1>11, <1>12, <1>13, <1>14 DEF AncestorsAre

\* An ancestor's ancestors are ancestors.
LEMMA AncestorsNest ==
    ASSUME IsFiniteSet(nodes), NEW n, NEW m \in Ancestors(n)
    PROVE  Ancestors(m) \subseteq Ancestors(n)
<1>1. AncestorsAre(n, Ancestors(n)) /\ AncestorsAre(m, Ancestors(m))
  BY AncestorsClose
<1> QED
  BY <1>1 DEF AncestorsAre

\* In a finite set of nodes each of which has a cause in the set, one is its own
\* ancestor.
LEMMA CycleExists ==
    ASSUME IsFiniteSet(nodes), NEW T \in SUBSET nodes, T # {},
           \A x \in T : Preds(x) \cap T # {}
    PROVE  \E x \in T : x \in Ancestors(x)
<1> DEFINE Sets == {Ancestors(x) : x \in T}
           R == StrictSubsetOrdering(nodes)
           S == FiniteSubsetsOf(nodes)
<1>1. IsWellFoundedOn(R, S)
  BY FS_StrictSubsetOrderingWellFounded
<1>2. Sets \subseteq S /\ Sets # {}
  <2>1. \A x \in T : Ancestors(x) \in SUBSET nodes /\ IsFiniteSet(Ancestors(x))
    BY AncestorsClose, FS_Subset DEF AncestorsAre
  <2> QED
    BY <2>1 DEF FiniteSubsetsOf
<1>3. PICK A \in Sets : \A B \in Sets : ~ (<<B, A>> \in R)
  <2> HIDE DEF R, S, Sets
  <2> QED
    BY <1>1, <1>2, WFMin
<1>4. PICK x \in T : A = Ancestors(x)
  OBVIOUS
<1>5. PICK p \in T : p \in Preds(x)
  OBVIOUS
<1>6. AncestorsAre(x, Ancestors(x)) /\ AncestorsAre(p, Ancestors(p))
  BY AncestorsClose
<1>7. p \in Ancestors(x)
  BY <1>5, <1>6 DEF AncestorsAre
<1>8. Ancestors(p) \subseteq Ancestors(x)
  BY <1>7, AncestorsNest
<1>9. ~ (<<Ancestors(p), Ancestors(x)>> \in R)
  BY <1>3, <1>4
<1>10. Ancestors(p) = Ancestors(x)
  BY <1>6, <1>8, <1>9 DEF StrictSubsetOrdering, AncestorsAre
<1> QED
  BY <1>7, <1>10

\* A path of k nodes from a root to m on which no node comes twice, and all but m
\* itself are ancestors of m.
RootPath(s, k, m) ==
    /\ k \in Nat \ {0} /\ s \in [1 .. k -> nodes]
    /\ s[k] = m /\ Preds(s[1]) = {}
    /\ \A i \in 2 .. k : <<s[i - 1], s[i]>> \in edges
    /\ \A i \in 1 .. k : i < k => s[i] \in Ancestors(m)
    /\ \A i, j \in 1 .. k : s[i] = s[j] => i = j

\* A path is made longer by a node at its end.
LEMMA RootPathGrows ==
    ASSUME IsFiniteSet(nodes), NEW m \in nodes, NEW p \in Preds(m), m \notin Ancestors(m),
           NEW s, NEW k, RootPath(s, k, p)
    PROVE  \E t : RootPath(t, k + 1, m)
<1> DEFINE t == [i \in 1 .. (k + 1) |-> IF i = k + 1 THEN m ELSE s[i]]
<1>1. /\ k \in Nat \ {0} /\ s \in [1 .. k -> nodes] /\ s[k] = p /\ Preds(s[1]) = {}
      /\ \A i \in 2 .. k : <<s[i - 1], s[i]>> \in edges
      /\ \A i \in 1 .. k : i < k => s[i] \in Ancestors(p)
      /\ \A i, j \in 1 .. k : s[i] = s[j] => i = j
  BY DEF RootPath
<1>2. p \in Ancestors(m)
  BY AncestorsClose DEF AncestorsAre
<1>3. \A i \in 1 .. k : s[i] \in Ancestors(m)
  <2>1. Ancestors(p) \subseteq Ancestors(m)
    BY <1>2, AncestorsNest
  <2> QED
    BY <1>1, <1>2, <2>1
<1>4. <<p, m>> \in edges
  BY DEF Preds
<1>5. /\ k + 1 \in Nat \ {0} /\ t \in [1 .. (k + 1) -> nodes] /\ t[k + 1] = m
      /\ \A i \in 1 .. k : t[i] = s[i]
  BY <1>1
<1> HIDE DEF t
<1>6. Preds(t[1]) = {}
  BY <1>1, <1>5
<1>7. ASSUME NEW i \in 2 .. (k + 1) PROVE <<t[i - 1], t[i]>> \in edges
  <2>1. CASE i = k + 1
    BY <1>1, <1>4, <1>5, <2>1
  <2>2. CASE i # k + 1
    <3>1. i \in 2 .. k /\ i \in 1 .. k /\ i - 1 \in 1 .. k
      BY <1>1, <2>2
    <3> QED
      BY <1>1, <1>5, <3>1
  <2> QED
    BY <2>1, <2>2
<1>8. \A i \in 1 .. (k + 1) : i < k + 1 => t[i] \in Ancestors(m)
  <2>1. \A i \in 1 .. (k + 1) : i < k + 1 => i \in 1 .. k
    BY <1>1
  <2> QED
    BY <1>3, <1>5, <2>1
<1>9. ASSUME NEW i \in 1 .. (k + 1), NEW j \in 1 .. (k + 1), t[i] = t[j] PROVE i = j
  <2>1. CASE i = k + 1 \/ j = k + 1
    BY <1>1, <1>5, <1>8, <1>9, <2>1
  <2>2. CASE i # k + 1 /\ j # k + 1
    <3>1. i \in 1 .. k /\ j \in 1 .. k
      BY <1>1, <2>2
    <3> QED
      BY <1>1, <1>5, <1>9, <3>1
  <2> QED
    BY <2>1, <2>2
<1>10. RootPath(t, k + 1, m)
  BY <1>5, <1>6, <1>7, <1>8, <1>9 DEF RootPath
<1> QED
  BY <1>10

\* Without a cycle among its ancestors, a node has a path from a root.
LEMMA RootPathExists ==
    ASSUME IsFiniteSet(nodes), NEW n \in nodes, ~CyclicPast(n)
    PROVE  \E k, s : RootPath(s, k, n)
<1> DEFINE Bad == {m \in Ancestors(n) \cup {n} : ~ \E k, s : RootPath(s, k, m)}
           Sets == {Ancestors(x) : x \in Bad}
           R == StrictSubsetOrdering(nodes)
           S == FiniteSubsetsOf(nodes)
<1>1. SUFFICES ASSUME Bad # {} PROVE FALSE
  OBVIOUS
<1>2. IsWellFoundedOn(R, S)
  BY FS_StrictSubsetOrderingWellFounded
<1>3. Sets \subseteq S /\ Sets # {}
  <2>1. \A x \in Bad : Ancestors(x) \in SUBSET nodes /\ IsFiniteSet(Ancestors(x))
    BY AncestorsClose, FS_Subset DEF AncestorsAre
  <2> HIDE DEF Bad
  <2> QED
    BY <1>1, <2>1 DEF FiniteSubsetsOf
<1>4. PICK A \in Sets : \A B \in Sets : ~ (<<B, A>> \in R)
  <2> HIDE DEF R, S, Sets
  <2> QED
    BY <1>2, <1>3, WFMin
<1>5. PICK m \in Bad : A = Ancestors(m)
  OBVIOUS
<1>6. AncestorsAre(n, Ancestors(n)) /\ AncestorsAre(m, Ancestors(m))
  BY AncestorsClose
<1>7. m \in nodes /\ ~ \E k, s : RootPath(s, k, m)
  BY <1>6 DEF AncestorsAre
<1>8. m \notin Ancestors(m) /\ Ancestors(m) \subseteq Ancestors(n)
  BY AncestorsNest DEF CyclicPast
<1>9. CASE Preds(m) = {}
  <2> DEFINE s == [i \in 1 .. 1 |-> m]
  <2>1. RootPath(s, 1, m)
    BY <1>7, <1>9 DEF RootPath
  <2> QED
    BY <1>7, <2>1
<1>10. ASSUME NEW p \in Preds(m) PROVE FALSE
  <2>1. p \in Ancestors(m) /\ p \in Ancestors(n)
    BY <1>6, <1>8 DEF AncestorsAre
  <2>2. p \notin Ancestors(p)
    BY <2>1 DEF CyclicPast
  <2>3. Ancestors(p) \subseteq Ancestors(m) /\ AncestorsAre(m, Ancestors(m))
    BY <1>6, <2>1, AncestorsNest
  <2>4. <<Ancestors(p), Ancestors(m)>> \in R
    BY <2>1, <2>2, <2>3 DEF StrictSubsetOrdering, AncestorsAre
  <2>5. p \notin Bad
    BY <1>4, <1>5, <2>4
  <2>6. PICK k, s : RootPath(s, k, p)
    BY <2>1, <2>5
  <2> QED
    BY <1>7, <1>8, <2>6, RootPathGrows
<1> QED
  BY <1>9, <1>10

\* A chain is a sequence of nodes, along edges, that ends in its node.
ChainFor(c, n) ==
    /\ c \in Seq(nodes) /\ c # <<>> /\ IsPath(c) /\ c[Len(c)] = n

\* Without a cycle among its ancestors, the longest chains of a node are chains.
LEMMA LongestAreChains ==
    ASSUME IsFiniteSet(nodes), NEW n \in nodes, ~CyclicPast(n),
           NEW c \in LongestChains(n)
    PROVE  ChainFor(c, n)
<1> DEFINE lengths == {k \in 1 .. Cardinality(nodes) : Chains(n, k) # {}}
           top == CHOOSE k \in lengths : \A j \in lengths : j <= k
<1>1. PICK k, s : RootPath(s, k, n)
  BY RootPathExists
<1>2. k \in Nat \ {0} /\ s \in [1 .. k -> nodes]
  BY <1>1 DEF RootPath
<1>3. Cardinality(nodes) \in Nat /\ k <= Cardinality(nodes)
  <2>1. Cardinality(nodes) \in Nat
    BY FS_CardinalityType
  <2>2. IsFiniteSet(1 .. k) /\ Cardinality(1 .. k) = k
    BY <1>2, FS_Interval
  <2>3. SUFFICES ASSUME Cardinality(nodes) < k PROVE FALSE
    BY <1>2, <2>1
  <2>4. \E i, j \in 1 .. k : i # j /\ s[i] = s[j]
    BY <1>2, <2>2, <2>3, FS_PigeonHole
  <2> QED
    BY <1>1, <2>4 DEF RootPath
<1>4. s \in Chains(n, k)
  <2>1. DOMAIN s = 1 .. k /\ Len(s) = k
    BY <1>2
  <2> QED
    BY <1>1, <1>2, <2>1 DEF RootPath, Chains, IsPath
<1>5. lengths \subseteq 0 .. Cardinality(nodes) /\ k \in lengths
  BY <1>2, <1>3, <1>4
<1>6. \E j \in lengths : \A i \in lengths : i <= j
  <2> HIDE DEF lengths
  <2> QED
    BY <1>3, <1>5, GreatestNumber
<1>7. top \in lengths
  <2> HIDE DEF lengths
  <2> QED
    BY <1>6
<1>8. c \in Chains(n, top)
  BY DEF LongestChains
<1> HIDE DEF top
<1>9. top \in Nat \ {0} /\ c \in [1 .. top -> nodes] /\ c[top] = n /\ IsPath(c)
  BY <1>3, <1>7, <1>8 DEF Chains
<1>10. c \in Seq(nodes) /\ Len(c) = top
  BY <1>9
<1> QED
  BY <1>9, <1>10 DEF ChainFor

-----------------------------------------------------------------------------
(* One proof.                                                              *)

\* Functions from some of M into V.
Partial(M, V) == UNION {[N -> V] : N \in SUBSET M}

ProofMaps == Partial(nodes, NodeActivationProof)
CertMap   == Partial(nodes, 0 .. MaxTicks)
CertMaps  == Partial(nodes, CertMap)

\* What the engine may know.
KnownSet == [proofs : ProofMaps, certs : CertMaps]

\* Put stores a value.
LEMMA PutFacts ==
    ASSUME NEW M, NEW V, NEW f \in Partial(M, V), NEW n \in M, NEW v \in V
    PROVE  Put(f, n, v) \in Partial(M, V)
<1>1. PICK N \in SUBSET M : f \in [N -> V]
  BY DEF Partial
<1>2. Put(f, n, v) \in [N \cup {n} -> V] /\ N \cup {n} \in SUBSET M
  BY <1>1 DEF Put
<1> QED
  BY <1>2 DEF Partial

\* The last that the history shows of p before entry i is that it completed, and
\* the context of entry i holds what it returned.
CauseNoted(p, i) ==
    \E j \in 1 .. (i - 1) :
        /\ history[j].node = p /\ history[j].outcome = "done"
        /\ \A k \in (j + 1) .. (i - 1) : history[k].node # p
        /\ IF history[j].result = None THEN contexts[i][p] \in {None, Missing}
                                       ELSE contexts[i][p] = history[j].result

\* Of each entry: its causes are causes still, and they are noted.
EntryNoted(i) ==
    /\ made[i].causes \subseteq Preds(history[i].node)
    /\ made[i].tick <= tickCount
    /\ \A p \in made[i].causes : CauseNoted(p, i)

NotesOK == \A i \in DOMAIN history : EntryNoted(i)

\* The engine has its turn between two ticks, after a first one.
LoopOK ==
    /\ IsFiniteSet(nodes)
    /\ Len(history) <= MaxHistory
    /\ due => phase = "idle"
    /\ due \/ phase = "tick" => tickCount >= 1

\* While no entry is missed: what is not recorded yet are entries of this tick.
StepOK ==
    inStep =>
        /\ lastLen <= Len(history)
        /\ phase = "idle" /\ ~due => lastLen = Len(history)
        /\ \A i \in (lastLen + 1) .. Len(history) : made[i].tick = tickCount

\* What holds before and after every step, the engine's own knowledge aside.
Base == IInv /\ EngineTypeOK /\ LoopOK /\ NotesOK /\ StepOK

\* The entries of the history and what is noted of them.
LEMMA EntryFacts ==
    ASSUME Base, NEW i \in DOMAIN history
    PROVE  /\ i \in Nat \ {0} /\ i <= Len(history) /\ Len(history) \in Nat
           /\ DOMAIN history = 1 .. Len(history)
           /\ DOMAIN made = 1 .. Len(history) /\ DOMAIN contexts = 1 .. Len(history)
           /\ history[i].node \in nodes /\ history[i].node \in Node
           /\ history[i].result \in Result
           /\ made[i].tick \in 1 .. MaxTicks /\ made[i].causes \subseteq nodes
           /\ contexts[i] \in [Node -> Result \cup {Missing}]
<1> DEFINE Contexts == [Node -> Result \cup {Missing}]
           Notes == [tick : 1 .. MaxTicks, causes : SUBSET nodes]
<1>1. /\ history \in Seq(EntrySet) /\ Len(contexts) = Len(history) /\ Len(made) = Len(history)
      /\ contexts \in Seq(Contexts) /\ made \in Seq(Notes)
  BY DEF Base, EngineTypeOK, TypeOK, EntrySet
<1>2. /\ Len(history) \in Nat /\ DOMAIN history = 1 .. Len(history)
      /\ DOMAIN made = 1 .. Len(history) /\ DOMAIN contexts = 1 .. Len(history)
  BY <1>1
<1>3. history[i] \in EntrySet /\ contexts[i] \in Contexts /\ made[i] \in Notes
  <2> HIDE DEF Contexts, Notes
  <2> QED
    BY <1>1, <1>2
<1>4. history[i].node \in Node /\ history[i].result \in Result
  BY <1>3 DEF EntrySet
<1>5. history[i].node \in nodes
  BY <1>4 DEF Base, IInv, Unregistered
<1> QED
  BY <1>2, <1>3, <1>4, <1>5

\* A proof has the fields of a proof.
LEMMA ProofTyped ==
    ASSUME Base, due, NEW i \in DOMAIN history, NEW c \in Seq(Node)
    PROVE  /\ ProofOf(i, c) \in NodeActivationProof
           /\ ProofOf(i, c).tick = tickCount /\ ProofOf(i, c).result = history[i].result
           /\ ProofOf(i, c).chain = c
           /\ DOMAIN ProofOf(i, c).by =
                IF history[i].node \in ConditionNode THEN {}
                ELSE {q \in Preds(history[i].node) : ContextOf(i)[q] # Missing}
           /\ \A p \in DOMAIN ProofOf(i, c).by : ProofOf(i, c).by[p] = ContextOf(i)[p]
<1> DEFINE n == history[i].node
           D == IF n \in ConditionNode THEN {}
                ELSE {q \in Preds(n) : ContextOf(i)[q] # Missing}
           b == [p \in D |-> ContextOf(i)[p]]
<1>1. n \in nodes /\ history[i].result \in Result
  BY EntryFacts
<1>2. ContextOf(i) \in [Node -> Result \cup {Missing}]
  BY EntryFacts DEF ContextOf, EmptyCtx
<1>3. nodes \subseteq Node /\ tickCount \in 0 .. MaxTicks
  BY DEF Base, EngineTypeOK, TypeOK
<1>4. Preds(n) \in SUBSET Node /\ D \in SUBSET Node
  BY <1>3 DEF Preds
<1>5. b \in [D -> Result]
  <2>1. ASSUME NEW q \in D PROVE ContextOf(i)[q] \in Result
    BY <1>2, <1>4, <2>1
  <2> QED
    BY <2>1
<1>6. ProofOf(i, c) = [tick |-> tickCount, causes |-> Preds(n), by |-> b,
                       result |-> history[i].result, chain |-> c]
  BY DEF ProofOf
<1>7. DOMAIN b = D /\ \A p \in D : b[p] = ContextOf(i)[p]
  OBVIOUS
<1> HIDE DEF b, D, n
<1>8. b \in UNION {[S -> Result] : S \in SUBSET Node}
  BY <1>4, <1>5
<1>9. ProofOf(i, c) \in NodeActivationProof
  BY <1>1, <1>3, <1>4, <1>6, <1>8 DEF NodeActivationProof
<1> QED
  BY <1>6, <1>7, <1>9 DEF D, n

\* Certificates give ticks.
LEMMA CertsTyped ==
    ASSUME Base, NEW n \in nodes, NEW P \in ProofMaps
    PROVE  /\ CertsOf(n, P) \in CertMap /\ DOMAIN CertsOf(n, P) = Preds(n)
           /\ \A p \in Preds(n) : p \in DOMAIN P => CertsOf(n, P)[p] = P[p].tick
           /\ \A p \in Preds(n) : p \notin DOMAIN P /\ tickCount >= 1
                                    => CertsOf(n, P)[p] = tickCount - 1
<1>1. tickCount \in 0 .. MaxTicks /\ MaxTicks \in Nat
  BY EngineConstants DEF Base, EngineTypeOK
<1>2. \A p \in DOMAIN P : P[p].tick \in 0 .. MaxTicks
  BY DEF ProofMaps, Partial, NodeActivationProof
<1>3. Preds(n) \in SUBSET nodes
  BY DEF Preds
<1>4. CertsOf(n, P) \in [Preds(n) -> 0 .. MaxTicks]
  BY <1>1, <1>2 DEF CertsOf
<1>5. CertsOf(n, P) \in CertMap
  BY <1>3, <1>4 DEF CertMap, Partial
<1> QED
  BY <1>5 DEF CertsOf

\* y is x with proof a of n and, if n has causes, certificates c.
Adds(y, x, n, a, c) ==
    /\ y \in KnownSet
    /\ DOMAIN y.proofs = DOMAIN x.proofs \cup {n}
    /\ y.proofs[n] = a
    /\ \A m \in DOMAIN x.proofs \ {n} : y.proofs[m] = x.proofs[m]
    /\ Preds(n) = {} => y.certs = x.certs
    /\ Preds(n) # {} =>
         /\ DOMAIN y.certs = DOMAIN x.certs \cup {n}
         /\ y.certs[n] = c
         /\ \A m \in DOMAIN x.certs \ {n} : y.certs[m] = x.certs[m]

\* That is what dealing with one entry more does.
LEMMA BuildFacts ==
    ASSUME Base, due, NEW k \in DOMAIN history, NEW chain,
           chain[history[k].node] \in Seq(Node), NEW x \in KnownSet
    PROVE  Adds(BuildProof(k, chain, x), x, history[k].node,
                ProofOf(k, chain[history[k].node]), CertsOf(history[k].node, x.proofs))
<1> DEFINE n == history[k].node
           y == BuildProof(k, chain, x)
           a == ProofOf(k, chain[n])
           c == CertsOf(n, x.proofs)
<1>1. n \in nodes
  BY EntryFacts
<1>2. x.proofs \in ProofMaps /\ x.certs \in CertMaps
  BY DEF KnownSet
<1>3. a \in NodeActivationProof /\ c \in CertMap
  BY <1>1, <1>2, ProofTyped, CertsTyped
<1>4. y = [proofs |-> Put(x.proofs, n, a),
           certs |-> IF Preds(n) = {} THEN x.certs ELSE Put(x.certs, n, c)]
  BY DEF BuildProof
<1> HIDE DEF n, y, a, c
<1>5. /\ Put(x.proofs, n, a) \in ProofMaps
      /\ DOMAIN Put(x.proofs, n, a) = DOMAIN x.proofs \cup {n}
      /\ Put(x.proofs, n, a)[n] = a
      /\ \A m \in DOMAIN x.proofs \ {n} : Put(x.proofs, n, a)[m] = x.proofs[m]
  <2>1. x.proofs \in Partial(nodes, NodeActivationProof)
    BY <1>2 DEF ProofMaps
  <2>2. Put(x.proofs, n, a) \in Partial(nodes, NodeActivationProof)
    BY <1>1, <1>3, <2>1, PutFacts, Zenon
  <2>3. /\ DOMAIN Put(x.proofs, n, a) = DOMAIN x.proofs \cup {n}
        /\ Put(x.proofs, n, a)[n] = a
        /\ \A m \in DOMAIN x.proofs \ {n} : Put(x.proofs, n, a)[m] = x.proofs[m]
    BY DEF Put
  <2> QED
    BY <2>2, <2>3 DEF ProofMaps
<1>6. /\ Put(x.certs, n, c) \in CertMaps
      /\ DOMAIN Put(x.certs, n, c) = DOMAIN x.certs \cup {n}
      /\ Put(x.certs, n, c)[n] = c
      /\ \A m \in DOMAIN x.certs \ {n} : Put(x.certs, n, c)[m] = x.certs[m]
  <2>1. x.certs \in Partial(nodes, CertMap)
    BY <1>2 DEF CertMaps
  <2>2. Put(x.certs, n, c) \in Partial(nodes, CertMap)
    BY <1>1, <1>3, <2>1, PutFacts, Zenon
  <2>3. /\ DOMAIN Put(x.certs, n, c) = DOMAIN x.certs \cup {n}
        /\ Put(x.certs, n, c)[n] = c
        /\ \A m \in DOMAIN x.certs \ {n} : Put(x.certs, n, c)[m] = x.certs[m]
    BY DEF Put
  <2> QED
    BY <2>2, <2>3 DEF CertMaps
<1>7. y \in KnownSet
  BY <1>2, <1>4, <1>5, <1>6 DEF KnownSet
<1>8. /\ DOMAIN y.proofs = DOMAIN x.proofs \cup {n}
      /\ y.proofs[n] = a
      /\ \A m \in DOMAIN x.proofs \ {n} : y.proofs[m] = x.proofs[m]
  BY <1>4, <1>5
<1>9. /\ Preds(n) = {} => y.certs = x.certs
      /\ Preds(n) # {} =>
           /\ DOMAIN y.certs = DOMAIN x.certs \cup {n}
           /\ y.certs[n] = c
           /\ \A m \in DOMAIN x.certs \ {n} : y.certs[m] = x.certs[m]
  BY <1>4, <1>6
<1> QED
  BY <1>7, <1>8, <1>9 DEF Adds, n, y, a, c

\* Known computes what the entries add, one after the other.
Builds(K, chain, last) ==
    /\ K \in [0 .. last -> KnownSet]
    /\ \A k \in 0 .. last :
          K[k] = IF k <= lastLen THEN [proofs |-> proofs, certs |-> certs]
                 ELSE BuildProof(k, chain, K[k - 1])

\* record_tick's fold over the history is the last of a sequence of states,
\* each made from the one before by one entry.
LEMMA KnownBuilds ==
    ASSUME Base, due, NEW last \in 0 .. Len(history), NEW chain,
           \A k \in (lastLen + 1) .. last : chain[history[k].node] \in Seq(Node)
    PROVE  \E K : Builds(K, chain, last) /\ Known(chain, last) = K[last]
<1> DEFINE start == [proofs |-> proofs, certs |-> certs]
           Is(K) == K = [k \in 0 .. last |-> IF k <= lastLen THEN start
                                             ELSE BuildProof(k, chain, K[k - 1])]
           step == [z \in (1 .. last) \X KnownSet |->
                      IF z[1] <= lastLen THEN start ELSE BuildProof(z[1], chain, z[2])]
           known == CHOOSE K : Is(K)
<1>1. /\ lastLen \in Nat /\ Len(history) \in Nat /\ DOMAIN history = 1 .. Len(history)
      /\ last \in Nat
  BY DEF Base, EngineTypeOK, TypeOK
<1>2. start \in KnownSet
  <2>1. DOMAIN proofs \in SUBSET nodes /\ DOMAIN certs \in SUBSET nodes
    BY DEF Base, EngineTypeOK
  <2>2. proofs \in ProofMaps
    BY <2>1 DEF Base, EngineTypeOK, ProofMaps, Partial
  <2>3. certs \in CertMaps
    BY <2>1 DEF Base, EngineTypeOK, CertMaps, CertMap, Partial
  <2> QED
    BY <2>2, <2>3 DEF KnownSet
<1> HIDE DEF start
<1>3. ASSUME NEW i \in 1 .. last, NEW x \in KnownSet
      PROVE  (IF i <= lastLen THEN start ELSE BuildProof(i, chain, x)) \in KnownSet
  <2>1. CASE i <= lastLen
    BY <1>2, <2>1
  <2>2. CASE ~(i <= lastLen)
    <3>1. i \in (lastLen + 1) .. last /\ i \in DOMAIN history
      BY <1>1, <2>2
    <3>2. chain[history[i].node] \in Seq(Node)
      BY <3>1
    <3>3. BuildProof(i, chain, x) \in KnownSet
      BY <3>1, <3>2, BuildFacts DEF Adds
    <3> QED
      BY <2>2, <3>3
  <2> QED
    BY <2>1, <2>2
<1>4. step \in [(1 .. last) \X KnownSet -> KnownSet]
  BY <1>3
<1>5. PICK f : Recursion(f, last, KnownSet, start, step)
  <2> HIDE DEF step
  <2> QED
    BY <1>1, <1>2, <1>4, PrimitiveRecursion
<1>6. ASSUME NEW k \in 0 .. last
      PROVE  f[k] = IF k <= lastLen THEN start ELSE BuildProof(k, chain, f[k - 1])
  <2>1. CASE k = 0
    BY <1>1, <1>5, <2>1 DEF Recursion
  <2>2. CASE k # 0
    <3>1. k \in 1 .. last /\ k - 1 \in 0 .. last
      BY <1>1, <2>2
    <3>2. f[k - 1] \in KnownSet /\ f[k] = step[<<k, f[k - 1]>>]
      BY <1>5, <3>1 DEF Recursion
    <3> QED
      BY <3>1, <3>2
  <2> QED
    BY <2>1, <2>2
<1>7. Is(f)
  <2>1. f = [k \in 0 .. last |-> f[k]]
    BY <1>5 DEF Recursion
  <2> QED
    BY <1>6, <2>1
<1>8. Is(known)
  <2> HIDE DEF Is
  <2> QED
    BY <1>7
<1>9. Known(chain, last) = known[last]
  BY DEF Known, start
<1> HIDE DEF known
<1>10. \A k \in 0 .. last :
          known[k] = IF k <= lastLen THEN start ELSE BuildProof(k, chain, known[k - 1])
  BY <1>8
<1>11. DOMAIN known = 0 .. last /\ known = [k \in 0 .. last |-> known[k]]
  BY <1>8
<1> HIDE DEF Is, step
<1> DEFINE T == {k \in Nat : k <= last => known[k] \in KnownSet}
<1>12. 0 \in T
  BY <1>1, <1>2, <1>10
<1>13. ASSUME NEW k \in Nat, k \in T PROVE k + 1 \in T
  <2> SUFFICES ASSUME k + 1 <= last PROVE known[k + 1] \in KnownSet
    OBVIOUS
  <2>1. k + 1 \in 1 .. last /\ k + 1 \in 0 .. last /\ (k + 1) - 1 = k /\ known[k] \in KnownSet
    BY <1>1, <1>13
  <2> QED
    BY <1>3, <1>10, <2>1
<1>14. \A k \in 0 .. last : known[k] \in KnownSet
  <2>1. Nat \subseteq T
    <3> HIDE DEF T
    <3> QED
      BY <1>12, <1>13, SetInduction
  <2> QED
    BY <1>1, <2>1
<1>15. known \in [0 .. last -> KnownSet]
  BY <1>11, <1>14
<1>16. Builds(known, chain, last)
  BY <1>10, <1>15 DEF Builds, start
<1> QED
  BY <1>9, <1>16

-----------------------------------------------------------------------------
(* What the engine knows.                                                  *)

\* Among any nodes one is not certified to be caused by any of them.
NoCircle(C) ==
    \A T \in SUBSET nodes : T # {} =>
        \E n \in T : \A p \in T : ~ (n \in DOMAIN C /\ p \in DOMAIN C[n])

\* Whatever the history: chains are chains, certificates follow edges and make no
\* circle.
KnownOK(x) ==
    /\ x \in KnownSet
    /\ DOMAIN x.certs \subseteq DOMAIN x.proofs
    /\ \A n \in DOMAIN x.proofs : x.proofs[n].tick >= 1 /\ ChainFor(x.proofs[n].chain, n)
    /\ \A n \in DOMAIN x.certs : DOMAIN x.certs[n] \subseteq Preds(n)
    /\ NoCircle(x.certs)

\* One proof more keeps that, if its node has no cycle among its ancestors.
LEMMA BuildKeeps ==
    ASSUME Base, due, NEW k \in DOMAIN history, NEW chain, NEW x, KnownOK(x),
           ~CyclicPast(history[k].node),
           chain[history[k].node] \in LongestChains(history[k].node)
    PROVE  KnownOK(BuildProof(k, chain, x))
<1> DEFINE n == history[k].node
           y == BuildProof(k, chain, x)
<1>1. /\ n \in nodes /\ IsFiniteSet(nodes) /\ nodes \subseteq Node
      /\ tickCount >= 1
  BY EntryFacts DEF Base, LoopOK, IInv, TypeOK
<1>2. ChainFor(chain[n], n)
  BY <1>1, LongestAreChains
<1>3. chain[n] \in Seq(Node)
  BY <1>1, <1>2 DEF ChainFor
<1>4. /\ x \in KnownSet
      /\ DOMAIN x.certs \subseteq DOMAIN x.proofs
      /\ \A m \in DOMAIN x.proofs : x.proofs[m].tick >= 1 /\ ChainFor(x.proofs[m].chain, m)
      /\ \A m \in DOMAIN x.certs : DOMAIN x.certs[m] \subseteq Preds(m)
      /\ NoCircle(x.certs)
  BY DEF KnownOK
<1>5. /\ y \in KnownSet
      /\ DOMAIN y.proofs = DOMAIN x.proofs \cup {n}
      /\ y.proofs[n] = ProofOf(k, chain[n])
      /\ \A m \in DOMAIN x.proofs \ {n} : y.proofs[m] = x.proofs[m]
      /\ Preds(n) = {} => y.certs = x.certs
      /\ Preds(n) # {} =>
           /\ DOMAIN y.certs = DOMAIN x.certs \cup {n}
           /\ y.certs[n] = CertsOf(n, x.proofs)
           /\ \A m \in DOMAIN x.certs \ {n} : y.certs[m] = x.certs[m]
  <2>1. Adds(y, x, n, ProofOf(k, chain[n]), CertsOf(n, x.proofs))
    BY <1>3, <1>4, BuildFacts
  <2> QED
    BY <2>1 DEF Adds
<1>6. ProofOf(k, chain[n]).tick = tickCount /\ ProofOf(k, chain[n]).chain = chain[n]
  BY <1>3, ProofTyped
<1>7. DOMAIN CertsOf(n, x.proofs) = Preds(n)
  BY DEF CertsOf
<1> HIDE DEF n, y
<1>8. \A m \in DOMAIN y.proofs : y.proofs[m].tick >= 1 /\ ChainFor(y.proofs[m].chain, m)
  BY <1>1, <1>2, <1>4, <1>5, <1>6
<1>9. \A m \in DOMAIN y.certs : DOMAIN y.certs[m] \subseteq Preds(m)
  BY <1>4, <1>5, <1>7
<1>10. DOMAIN y.certs \subseteq DOMAIN y.proofs
  BY <1>4, <1>5
<1>11. NoCircle(y.certs)
  <2> SUFFICES ASSUME NEW T \in SUBSET nodes, T # {},
                      \A m \in T : \E p \in T : m \in DOMAIN y.certs /\ p \in DOMAIN y.certs[m]
               PROVE  FALSE
    BY DEF NoCircle
  <2>1. \A m \in DOMAIN y.certs \ {n} : m \in DOMAIN x.certs /\ y.certs[m] = x.certs[m]
    BY <1>5
  <2>2. CASE n \notin T
    BY <1>4, <2>1, <2>2 DEF NoCircle
  <2>3. CASE n \in T
    <3> DEFINE U == T \cap Ancestors(n)
    <3>1. AncestorsAre(n, Ancestors(n))
      BY <1>1, AncestorsClose
    <3>2. \A m \in T : \E p \in T : p \in Preds(m)
      BY <1>9
    <3>3. U # {} /\ U \in SUBSET nodes
      BY <2>3, <3>1, <3>2 DEF AncestorsAre
    <3>4. \A m \in U : Preds(m) \cap U # {}
      BY <3>1, <3>2 DEF AncestorsAre
    <3>5. \E m \in U : m \in Ancestors(m)
      <4> HIDE DEF U
      <4> QED
        BY <1>1, <3>3, <3>4, CycleExists
    <3> QED
      BY <3>5 DEF CyclicPast, n
  <2> QED
    BY <2>2, <2>3
<1>12. KnownOK(y)
  BY <1>5, <1>8, <1>9, <1>10, <1>11 DEF KnownOK
<1> QED
  BY <1>12 DEF y

\* The certificates of n among x.
CertsIn(x, n) == IF n \in DOMAIN x.certs THEN x.certs[n] ELSE Empty

\* Entry j is the last about p before i, and what x has of the node of entry i
\* gives it for p.
Dated(x, i, p, j) ==
    LET n == history[i].node
    IN  /\ LastBefore(p, j, i)
        /\ CertsIn(x, n)[p] = made[j].tick
        /\ p \in made[i].causes =>
              /\ history[j].outcome = "done"
              /\ p \in DOMAIN x.proofs[n].by => x.proofs[n].by[p] = history[j].result
              /\ RecordContexts /\ n \notin ConditionNode /\ history[j].result # None
                    => p \in DOMAIN x.proofs[n].by

\* There is none, and the tick for p is made up.
Undated(x, i, p) ==
    /\ p \notin made[i].causes /\ \A j \in 1 .. (i - 1) : history[j].node # p
    /\ CertsIn(x, history[i].node)[p] = made[i].tick - 1

\* The proof and the certificates of the node of entry i are about that entry.
Explains(x, i) ==
    LET n == history[i].node
    IN  /\ x.proofs[n].result = history[i].result
        /\ x.proofs[n].tick = made[i].tick
        /\ made[i].causes \subseteq DOMAIN CertsIn(x, n)
        /\ \A p \in DOMAIN CertsIn(x, n) :
              (\E j \in 1 .. (i - 1) : Dated(x, i, p, j)) \/ Undated(x, i, p)

\* There are proofs of the nodes of the first l entries, about the last of each.
Reflects(x, l) ==
    /\ DOMAIN x.proofs = {history[i].node : i \in 1 .. l}
    /\ \A i \in 1 .. l :
          (\A k \in (i + 1) .. l : history[k].node # history[i].node) => Explains(x, i)

\* The proof of entry k is about entry k.
LEMMA BuildExplains ==
    ASSUME Base, due, NEW k \in DOMAIN history, made[k].tick = tickCount, NEW chain,
           chain[history[k].node] \in Seq(Node), NEW x, KnownOK(x), Reflects(x, k - 1)
    PROVE  Explains(BuildProof(k, chain, x), k)
<1> DEFINE n == history[k].node
           y == BuildProof(k, chain, x)
           a == ProofOf(k, chain[n])
<1>0. x \in KnownSet /\ \A m \in DOMAIN x.certs : DOMAIN x.certs[m] \subseteq Preds(m)
  BY DEF KnownOK
<1>1. /\ k \in Nat \ {0} /\ n \in nodes /\ n \in Node
      /\ DOMAIN history = 1 .. Len(history) /\ Len(history) \in Nat /\ k <= Len(history)
      /\ contexts[k] \in [Node -> Result \cup {Missing}] /\ made[k].causes \subseteq nodes
  BY EntryFacts
<1>2. /\ y.proofs[n] = a
      /\ Preds(n) # {} => n \in DOMAIN y.certs /\ y.certs[n] = CertsOf(n, x.proofs)
      /\ Preds(n) = {} => y.certs = x.certs
  <2>1. Adds(y, x, n, a, CertsOf(n, x.proofs))
    BY <1>0, BuildFacts
  <2> QED
    BY <2>1 DEF Adds
<1>3. /\ a.tick = tickCount /\ a.result = history[k].result
      /\ DOMAIN a.by = IF n \in ConditionNode THEN {}
                       ELSE {q \in Preds(n) : ContextOf(k)[q] # Missing}
      /\ \A p \in DOMAIN a.by : a.by[p] = ContextOf(k)[p]
  BY ProofTyped
<1> HIDE DEF y, a
<1>4. /\ DOMAIN CertsIn(y, n) = Preds(n)
      /\ \A p \in Preds(n) :
            /\ p \in DOMAIN x.proofs => CertsIn(y, n)[p] = x.proofs[p].tick
            /\ p \notin DOMAIN x.proofs => CertsIn(y, n)[p] = tickCount - 1
  <2>1. x.proofs \in ProofMaps /\ tickCount >= 1
    BY <1>0 DEF KnownSet, Base, LoopOK
  <2>2. /\ DOMAIN CertsOf(n, x.proofs) = Preds(n)
        /\ \A p \in Preds(n) :
              /\ p \in DOMAIN x.proofs => CertsOf(n, x.proofs)[p] = x.proofs[p].tick
              /\ p \notin DOMAIN x.proofs => CertsOf(n, x.proofs)[p] = tickCount - 1
    BY <1>1, <2>1, CertsTyped
  <2>3. CASE Preds(n) = {}
    BY <1>0, <1>2, <2>3 DEF CertsIn, Empty
  <2>4. CASE Preds(n) # {}
    BY <1>2, <2>2, <2>4 DEF CertsIn
  <2> QED
    BY <2>3, <2>4
<1>5. made[k].causes \subseteq Preds(n) /\ Preds(n) \subseteq Node
  BY <1>1 DEF Base, NotesOK, EntryNoted, IInv, TypeOK, Preds
<1>6. DOMAIN x.proofs = {history[i].node : i \in 1 .. (k - 1)}
  BY DEF Reflects
<1>7. ASSUME NEW p \in Preds(n), p \in DOMAIN x.proofs
      PROVE  \E j \in 1 .. (k - 1) : Dated(y, k, p, j)
  <2> DEFINE About == {h \in 1 .. (k - 1) : history[h].node = p}
  <2>1. PICK j \in About : \A h \in About : h <= j
    <3>1. PICK h \in 1 .. (k - 1) : p = history[h].node
      BY <1>6, <1>7
    <3>2. About # {}
      BY <3>1
    <3>3. About \subseteq 0 .. k
      BY <1>1
    <3> HIDE DEF About
    <3> QED
      BY <1>1, <3>2, <3>3, GreatestNumber
  <2>2. /\ j \in 1 .. (k - 1) /\ history[j].node = p
        /\ \A h \in (j + 1) .. (k - 1) : history[h].node # p
    BY <1>1, <2>1
  <2> HIDE DEF About
  <2>3. LastBefore(p, j, k)
    BY <2>2 DEF LastBefore
  <2>4. CertsIn(y, n)[p] = made[j].tick
    <3>1. Explains(x, j)
      BY <2>2 DEF Reflects
    <3>2. x.proofs[p].tick = made[j].tick
      BY <2>2, <3>1 DEF Explains
    <3> QED
      BY <1>4, <1>7, <3>2
  <2>5. ASSUME p \in made[k].causes
        PROVE  /\ history[j].outcome = "done"
               /\ p \in DOMAIN a.by => a.by[p] = history[j].result
               /\ RecordContexts /\ n \notin ConditionNode /\ history[j].result # None
                     => p \in DOMAIN a.by
    <3>1. PICK h \in 1 .. (k - 1) :
             /\ history[h].node = p /\ history[h].outcome = "done"
             /\ \A i \in (h + 1) .. (k - 1) : history[i].node # p
             /\ IF history[h].result = None THEN contexts[k][p] \in {None, Missing}
                                            ELSE contexts[k][p] = history[h].result
      BY <2>5 DEF Base, NotesOK, EntryNoted, CauseNoted
    <3>2. h = j
      <4>1. ~(h < j) /\ ~(j < h)
        BY <1>1, <2>2, <3>1
      <4> QED
        BY <1>1, <2>2, <4>1
    <3>3. j \in DOMAIN history
      BY <1>1, <2>2
    <3>4. history[j].result \in Result
      BY <3>3, EntryFacts
    <3>5. p \in Node
      BY <1>5, <1>7
    <3>6. ContextOf(k)[p] # Missing => RecordContexts /\ ContextOf(k)[p] = contexts[k][p]
      BY <3>5 DEF ContextOf, EmptyCtx
    <3>7. p \in DOMAIN a.by => a.by[p] = history[j].result
      BY <1>3, <3>1, <3>2, <3>6
    <3>8. RecordContexts /\ n \notin ConditionNode /\ history[j].result # None
             => p \in DOMAIN a.by
      BY <1>3, <1>7, <3>1, <3>2, <3>4, Sentinels DEF ContextOf
    <3> QED
      BY <3>1, <3>2, <3>7, <3>8
  <2>6. Dated(y, k, p, j)
    BY <1>2, <2>3, <2>4, <2>5 DEF Dated
  <2> QED
    BY <2>2, <2>6
<1>8. ASSUME NEW p \in made[k].causes PROVE p \in DOMAIN x.proofs
  <2>1. PICK h \in 1 .. (k - 1) : history[h].node = p
    BY DEF Base, NotesOK, EntryNoted, CauseNoted
  <2> QED
    BY <1>6, <2>1
<1>9. ASSUME NEW p \in Preds(n), p \notin DOMAIN x.proofs PROVE Undated(y, k, p)
  <2>1. p \notin made[k].causes
    BY <1>8, <1>9
  <2>2. \A j \in 1 .. (k - 1) : history[j].node # p
    BY <1>6, <1>9
  <2> QED
    BY <1>4, <1>9, <2>1, <2>2 DEF Undated
<1>10. Explains(y, k)
  BY <1>2, <1>3, <1>4, <1>5, <1>7, <1>9 DEF Explains
<1> QED
  BY <1>10 DEF y

\* With it, the proofs are about the first k entries.
LEMMA BuildReflects ==
    ASSUME Base, due, NEW k \in DOMAIN history, made[k].tick = tickCount, NEW chain,
           chain[history[k].node] \in Seq(Node), NEW x, KnownOK(x), Reflects(x, k - 1)
    PROVE  Reflects(BuildProof(k, chain, x), k)
<1> DEFINE n == history[k].node
           y == BuildProof(k, chain, x)
<1>1. k \in Nat \ {0}
  BY EntryFacts
<1>2. /\ DOMAIN y.proofs = DOMAIN x.proofs \cup {n}
      /\ \A m \in DOMAIN x.proofs \ {n} : y.proofs[m] = x.proofs[m]
      /\ \A m : m # n => CertsIn(y, m) = CertsIn(x, m)
  <2>1. Adds(y, x, n, ProofOf(k, chain[n]), CertsOf(n, x.proofs))
    BY BuildFacts DEF KnownOK
  <2> HIDE DEF y, n
  <2>2. ASSUME NEW m, m # n PROVE CertsIn(y, m) = CertsIn(x, m)
    BY <2>1, <2>2 DEF Adds, CertsIn
  <2> QED
    BY <2>1, <2>2 DEF Adds
<1>3. Explains(y, k)
  BY BuildExplains
<1> HIDE DEF y
<1>4. DOMAIN x.proofs = {history[i].node : i \in 1 .. (k - 1)}
  BY DEF Reflects
<1>5. 1 .. k = 1 .. (k - 1) \cup {k}
  BY <1>1
<1>6. DOMAIN y.proofs = {history[i].node : i \in 1 .. k}
  BY <1>2, <1>4, <1>5
<1>7. ASSUME NEW i \in 1 .. k, \A j \in (i + 1) .. k : history[j].node # history[i].node
      PROVE  Explains(y, i)
  <2>1. CASE i = k
    BY <1>3, <2>1
  <2>2. CASE i # k
    <3>1. i \in 1 .. (k - 1) /\ k \in (i + 1) .. k
          /\ \A j \in (i + 1) .. (k - 1) : j \in (i + 1) .. k
      BY <1>1, <2>2
    <3>2. Explains(x, i) /\ history[i].node # n
      BY <1>7, <3>1 DEF Reflects
    <3>3. history[i].node \in DOMAIN x.proofs \ {n}
      BY <1>4, <3>1, <3>2
    <3>4. /\ y.proofs[history[i].node] = x.proofs[history[i].node]
          /\ CertsIn(y, history[i].node) = CertsIn(x, history[i].node)
      BY <1>2, <3>3
    <3> QED
      BY <3>2, <3>4 DEF Explains, Dated, Undated
  <2> QED
    BY <2>1, <2>2
<1>8. Reflects(y, k)
  BY <1>6, <1>7 DEF Reflects
<1> QED
  BY <1>8 DEF y

\* What the engine knows now.
Holdings == [proofs |-> proofs, certs |-> certs]

\* Entries are dealt with up to the first whose node has a cycle among its
\* ancestors.
LEMMA RecordedFacts ==
    ASSUME Base, lastLen < Len(history)
    PROVE  /\ RecordedUpTo \in lastLen .. Len(history)
           /\ \A k \in (lastLen + 1) .. RecordedUpTo : ~CyclicPast(history[k].node)
<1> DEFINE bad == {k \in (lastLen + 1) .. Len(history) : CyclicPast(history[k].node)}
           first == CHOOSE k \in bad : \A j \in bad : k <= j
<1>1. lastLen \in Nat /\ Len(history) \in Nat
  BY DEF Base, EngineTypeOK, TypeOK
<1>2. RecordedUpTo = IF bad = {} THEN Len(history) ELSE first - 1
  BY DEF RecordedUpTo
<1>3. bad \subseteq (lastLen + 1) .. Len(history)
      /\ \A k \in (lastLen + 1) .. Len(history) : k \notin bad => ~CyclicPast(history[k].node)
  OBVIOUS
<1> HIDE DEF bad
<1>4. CASE bad = {}
  BY <1>1, <1>2, <1>3, <1>4
<1>5. CASE bad # {}
  <2>1. \E k \in bad : \A j \in bad : k <= j
    <3>1. bad \subseteq Nat
      BY <1>1, <1>3
    <3> QED
      BY <1>5, <3>1, LeastNumber
  <2>2. first \in bad /\ \A j \in bad : first <= j
    BY <2>1
  <2> HIDE DEF first
  <2> QED
    BY <1>1, <1>2, <1>3, <1>5, <2>2
<1> QED
  BY <1>4, <1>5

\* Dealing with the new entries keeps what is known right; if none was missed, it
\* is then about all entries dealt with.
LEMMA KnownIsRight ==
    ASSUME Base, due, KnownOK(Holdings), inStep => Reflects(Holdings, lastLen),
           lastLen < Len(history), NEW last, last = RecordedUpTo, NEW chain,
           \A k \in (lastLen + 1) .. last :
              chain[history[k].node] \in LongestChains(history[k].node)
    PROVE  /\ KnownOK(Known(chain, last))
           /\ inStep => Reflects(Known(chain, last), last)
<1>1. /\ lastLen \in Nat /\ Len(history) \in Nat /\ DOMAIN history = 1 .. Len(history)
      /\ nodes \subseteq Node /\ IsFiniteSet(nodes)
  BY DEF Base, EngineTypeOK, TypeOK, LoopOK
<1>2. /\ last \in lastLen .. Len(history)
      /\ \A k \in (lastLen + 1) .. last : ~CyclicPast(history[k].node)
  BY RecordedFacts
<1>3. ASSUME NEW k \in (lastLen + 1) .. last
      PROVE  k \in DOMAIN history /\ chain[history[k].node] \in Seq(Node)
  <2>1. k \in DOMAIN history
    BY <1>1, <1>2
  <2>2. history[k].node \in nodes
    BY <2>1, EntryFacts
  <2>3. chain[history[k].node] \in LongestChains(history[k].node)
    OBVIOUS
  <2>4. ChainFor(chain[history[k].node], history[k].node)
    BY <1>1, <1>2, <2>2, <2>3, LongestAreChains
  <2> QED
    BY <1>1, <2>1, <2>4 DEF ChainFor
<1>4. PICK K : Builds(K, chain, last) /\ Known(chain, last) = K[last]
  <2>1. last \in 0 .. Len(history)
    BY <1>1, <1>2
  <2> QED
    BY <1>3, <2>1, KnownBuilds
<1>5. \A k \in 0 .. last : K[k] = IF k <= lastLen THEN Holdings
                                  ELSE BuildProof(k, chain, K[k - 1])
  BY <1>4 DEF Builds, Holdings
<1> DEFINE Right(k) == KnownOK(K[k]) /\ (inStep => Reflects(K[k], k))
           T == {k \in Nat : k \in lastLen .. last => Right(k)}
<1>6. lastLen \in 0 .. last
  BY <1>1, <1>2
<1>7. K[lastLen] = Holdings
  BY <1>1, <1>5, <1>6
<1>8. Right(lastLen)
  BY <1>7
<1>9. ASSUME NEW k \in Nat, k + 1 \in (lastLen + 1) .. last, Right(k)
      PROVE  Right(k + 1)
  <2>1. /\ k + 1 \in 0 .. last /\ ~(k + 1 <= lastLen) /\ (k + 1) - 1 = k
        /\ k + 1 \in (lastLen + 1) .. Len(history)
    BY <1>1, <1>2, <1>9
  <2>2. K[k + 1] = BuildProof(k + 1, chain, K[k])
    BY <1>5, <2>1
  <2>3. k + 1 \in DOMAIN history /\ chain[history[k + 1].node] \in Seq(Node)
    BY <1>3, <1>9
  <2>4. KnownOK(K[k]) /\ K[k] \in KnownSet
    BY <1>9 DEF KnownOK
  <2>5. /\ ~CyclicPast(history[k + 1].node)
        /\ chain[history[k + 1].node] \in LongestChains(history[k + 1].node)
    BY <1>2, <1>9
  <2> DEFINE i == k + 1
  <2> HIDE DEF i
  <2>6. i \in DOMAIN history /\ KnownOK(BuildProof(i, chain, K[k]))
    BY <2>3, <2>4, <2>5, BuildKeeps DEF i
  <2>7. ASSUME inStep PROVE Reflects(BuildProof(i, chain, K[k]), i)
    <3>1. made[i].tick = tickCount
      BY <2>1, <2>7 DEF Base, StepOK, i
    <3>2. Reflects(K[k], i - 1)
      BY <1>9, <2>1, <2>7 DEF i
    <3> QED
      BY <2>3, <2>4, <2>6, <3>1, <3>2, BuildReflects DEF i
  <2> QED
    BY <2>2, <2>6, <2>7 DEF i
<1> HIDE DEF Right
<1>10. 0 \in T
  BY <1>1, <1>8
<1>11. ASSUME NEW k \in Nat, k \in T PROVE k + 1 \in T
  <2>1. SUFFICES ASSUME k + 1 \in lastLen .. last PROVE Right(k + 1)
    OBVIOUS
  <2>2. CASE k + 1 = lastLen
    BY <1>8, <2>2
  <2>3. CASE k + 1 # lastLen
    <3>1. k + 1 \in (lastLen + 1) .. last /\ k \in lastLen .. last
      BY <1>1, <1>2, <2>1, <2>3
    <3> QED
      BY <1>9, <1>11, <3>1
  <2> QED
    BY <2>2, <2>3
<1>12. Nat \subseteq T
  <2> HIDE DEF T
  <2> QED
    BY <1>10, <1>11, SetInduction
<1>13. Right(last)
  BY <1>1, <1>2, <1>12
<1> QED
  BY <1>4, <1>13 DEF Right

-----------------------------------------------------------------------------
(* What a step keeps.                                                      *)

\* The parts of the type invariant: the loop and the position, the notes, what
\* the engine knows.
LoopTyped ==
    /\ tickCount \in 0 .. MaxTicks /\ due \in BOOLEAN
    /\ lastLen \in 0 .. MaxHistory /\ inStep \in BOOLEAN

NotesTyped ==
    /\ contexts \in Seq([Node -> Result \cup {Missing}])
    /\ made \in Seq([tick : 1 .. MaxTicks, causes : SUBSET nodes])
    /\ Len(contexts) = Len(history) /\ Len(made) = Len(history)

EngineTyped ==
    /\ DOMAIN certs \subseteq DOMAIN proofs /\ DOMAIN proofs \subseteq nodes
    /\ proofs \in [DOMAIN proofs -> NodeActivationProof]
    /\ certs \in [DOMAIN certs -> UNION {[C -> 0 .. MaxTicks] : C \in SUBSET nodes}]
    /\ \A n \in DOMAIN proofs : proofs[n].tick >= 1

\* The type invariant, in parts.
LEMMA TypesJoin == TypeOK /\ LoopTyped /\ NotesTyped /\ EngineTyped <=> EngineTypeOK
  BY DEF LoopTyped, NotesTyped, EngineTyped, EngineTypeOK

\* What is known is typed.
LEMMA HoldingsTyped == KnownOK(Holdings) => EngineTyped
<1> SUFFICES ASSUME KnownOK(Holdings) PROVE EngineTyped
  OBVIOUS
<1>1. Holdings \in KnownSet /\ Holdings.proofs = proofs /\ Holdings.certs = certs
  BY DEF KnownOK, Holdings
<1>2. proofs \in Partial(nodes, NodeActivationProof) /\ certs \in Partial(nodes, CertMap)
  BY <1>1 DEF KnownSet, ProofMaps, CertMaps
<1>3. \A M, V : \A f \in Partial(M, V) : DOMAIN f \subseteq M /\ f \in [DOMAIN f -> V]
  BY DEF Partial
<1>4. DOMAIN proofs \subseteq nodes /\ proofs \in [DOMAIN proofs -> NodeActivationProof]
  BY <1>2, <1>3, Zenon
<1>5. certs \in [DOMAIN certs -> CertMap]
  BY <1>2, <1>3, Zenon
<1>6. CertMap = UNION {[C -> 0 .. MaxTicks] : C \in SUBSET nodes}
  BY DEF CertMap, Partial
<1>7. DOMAIN certs \subseteq DOMAIN proofs /\ \A n \in DOMAIN proofs : proofs[n].tick >= 1
  BY <1>1 DEF KnownOK
<1> QED
  BY <1>4, <1>5, <1>6, <1>7, Zenon DEF EngineTyped

\* Functions from some of M are functions from some of a larger set.
LEMMA PartialGrows ==
    ASSUME NEW M, NEW N, M \subseteq N, NEW V, NEW W, V \subseteq W
    PROVE  Partial(M, V) \subseteq Partial(N, W)
<1> SUFFICES ASSUME NEW f \in Partial(M, V) PROVE f \in Partial(N, W)
  OBVIOUS
<1>1. PICK D \in SUBSET M : f \in [D -> V]
  BY DEF Partial
<1>2. D \in SUBSET N /\ f \in [D -> W]
  BY <1>1
<1> QED
  BY <1>2 DEF Partial

\* The graph only grows.
GraphGrows == nodes \subseteq nodes' /\ edges \subseteq edges'

\* What the engine knows stays right when the graph grows.
LEMMA KnownKept ==
    ASSUME KnownOK(Holdings), UNCHANGED <<proofs, certs>>, GraphGrows
    PROVE  KnownOK(Holdings)'
<1>1. /\ proofs \in ProofMaps /\ certs \in CertMaps
      /\ DOMAIN certs \subseteq DOMAIN proofs
      /\ \A n \in DOMAIN proofs : proofs[n].tick >= 1 /\ ChainFor(proofs[n].chain, n)
      /\ \A n \in DOMAIN certs : DOMAIN certs[n] \subseteq Preds(n)
      /\ NoCircle(certs)
  BY DEF KnownOK, Holdings, KnownSet
<1>2. \A n : Preds(n) \subseteq Preds(n)'
  BY DEF GraphGrows, Preds
<1>3. proofs' \in ProofMaps'
  BY <1>1, PartialGrows DEF ProofMaps, GraphGrows
<1>4. certs' \in CertMaps'
  <2>1. CertMap \subseteq CertMap'
    BY PartialGrows DEF CertMap, GraphGrows
  <2> QED
    BY <1>1, <2>1, PartialGrows DEF CertMaps, GraphGrows
<1>5. Holdings' \in KnownSet'
  BY <1>3, <1>4 DEF Holdings, KnownSet
<1>6. \A n \in DOMAIN proofs' : proofs'[n].tick >= 1 /\ ChainFor(proofs[n].chain, n)'
  <2>1. SUFFICES ASSUME NEW n \in DOMAIN proofs PROVE ChainFor(proofs[n].chain, n)'
    BY <1>1
  <2>2. PICK c : c = proofs[n].chain
    OBVIOUS
  <2>3. c \in Seq(nodes) /\ c # <<>> /\ IsPath(c) /\ c[Len(c)] = n
    BY <1>1, <2>2 DEF ChainFor
  <2>4. c \in Seq(nodes')
    BY <2>3 DEF GraphGrows
  <2>5. /\ \A i \in DOMAIN c : c[i] \in nodes'
        /\ \A i \in 2 .. Len(c) : <<c[i - 1], c[i]>> \in edges'
    BY <2>3 DEF IsPath, GraphGrows
  <2>6. c = (proofs[n].chain)'
    BY <2>2
  <2> QED
    BY <2>3, <2>4, <2>5, <2>6 DEF ChainFor, IsPath
<1>7. \A n \in DOMAIN certs' : DOMAIN certs'[n] \subseteq Preds(n)'
  BY <1>1, <1>2
<1>8. NoCircle(certs)'
  <2> SUFFICES ASSUME NEW T \in SUBSET nodes', T # {}
               PROVE  \E n \in T : \A p \in T : ~ (n \in DOMAIN certs /\ p \in DOMAIN certs[n])
    BY DEF NoCircle
  <2>1. CASE T \subseteq nodes
    BY <1>1, <2>1 DEF NoCircle
  <2>2. ASSUME NEW n \in T, n \notin nodes PROVE n \notin DOMAIN certs
    BY <1>1, <2>2 DEF CertMaps, Partial
  <2> QED
    BY <2>1, <2>2
<1> QED
  BY <1>1, <1>5, <1>6, <1>7, <1>8 DEF KnownOK, Holdings

\* What it shows of the first entries stays true as long as these stay.
LEMMA ReflectsKept ==
    ASSUME Reflects(Holdings, lastLen), UNCHANGED <<proofs, certs, lastLen>>,
           lastLen \in Nat,
           \A i \in 1 .. lastLen : history'[i] = history[i] /\ made'[i] = made[i]
    PROVE  Reflects(Holdings, lastLen)'
<1>1. /\ DOMAIN proofs = {history[i].node : i \in 1 .. lastLen}
      /\ \A i \in 1 .. lastLen :
            (\A k \in (i + 1) .. lastLen : history[k].node # history[i].node)
               => Explains(Holdings, i)
  BY DEF Reflects, Holdings
<1>2. ASSUME NEW i \in 1 .. lastLen, Explains(Holdings, i)
      PROVE  Explains(Holdings, i)'
  <2>1. i \in Nat /\ \A j \in 1 .. (i - 1) : j \in 1 .. lastLen
    OBVIOUS
  <2>2. /\ history'[i] = history[i] /\ made'[i] = made[i]
        /\ \A j \in 1 .. (i - 1) : history'[j] = history[j] /\ made'[j] = made[j]
    BY <2>1
  <2>3. \A n : CertsIn(Holdings, n)' = CertsIn(Holdings, n)
    BY DEF CertsIn, Holdings
  <2>4. ASSUME NEW p, NEW j \in 1 .. (i - 1), Dated(Holdings, i, p, j)
        PROVE  Dated(Holdings, i, p, j)'
    <3>1. LastBefore(p, j, i)'
      BY <2>1, <2>2, <2>4 DEF Dated, LastBefore
    <3> QED
      BY <2>2, <2>3, <2>4, <3>1 DEF Dated, Holdings
  <2>5. ASSUME NEW p, Undated(Holdings, i, p) PROVE Undated(Holdings, i, p)'
    BY <2>2, <2>3, <2>5 DEF Undated
  <2>6. \A p \in DOMAIN CertsIn(Holdings, history[i].node) :
           (\E j \in 1 .. (i - 1) : Dated(Holdings, i, p, j)') \/ Undated(Holdings, i, p)'
    BY <1>2, <2>4, <2>5 DEF Explains
  <2> QED
    BY <1>2, <2>2, <2>3, <2>6 DEF Explains, Holdings
<1>3. DOMAIN proofs' = {history'[i].node : i \in 1 .. lastLen'}
  BY <1>1
<1>4. \A i \in 1 .. lastLen' :
         (\A k \in (i + 1) .. lastLen' : history'[k].node # history'[i].node)
            => Explains(Holdings, i)'
  <2> SUFFICES ASSUME NEW i \in 1 .. lastLen,
                      \A k \in (i + 1) .. lastLen : history'[k].node # history'[i].node
               PROVE  Explains(Holdings, i)'
    OBVIOUS
  <2>1. \A k \in (i + 1) .. lastLen : k \in 1 .. lastLen
    OBVIOUS
  <2>2. \A k \in (i + 1) .. lastLen : history[k].node # history[i].node
    BY <2>1
  <2> QED
    BY <1>1, <1>2, <2>2
<1> QED
  BY <1>3, <1>4 DEF Reflects, Holdings

-----------------------------------------------------------------------------
(* The inductive invariant.                                                *)

\* Base, and what the engine knows: right whatever has happened, and about the
\* entries before its position in the history while no entry is missed.
PInv ==
    /\ Base
    /\ KnownOK(Holdings)
    /\ inStep => Reflects(Holdings, lastLen)

\* A step of the engine's model is a step of the graph's.
LEMMA EngineStepIsStep == [EngineNext]_allVars => [Next]_vars
<1> SUFFICES ASSUME [EngineNext]_allVars PROVE [Next]_vars
  OBVIOUS
<1>1. CASE GraphEdit
  <2>1. CASE \E n \in Node : AddNode(n)
    BY <2>1 DEF Next, Edit
  <2>2. CASE \E e \in Edge : AddEdge(e[1], e[2])
    BY <2>2 DEF Next, Edit
  <2>3. CASE \E n \in EventNode, v \in Value : Trigger(n, v)
    BY <2>3 DEF Next, Edit
  <2> QED
    BY <1>1, <2>1, <2>2, <2>3 DEF GraphEdit
<1>2. CASE GraphReset
  BY <1>2 DEF GraphReset, Next, Edit
<1>3. CASE LoopTick
  BY <1>3 DEF LoopTick, Next
<1>4. CASE GraphWave \/ GraphFire \/ TickEnds
  BY <1>4 DEF GraphWave, GraphFire, TickEnds, Next, TickStep
<1>5. CASE RecordTick \/ TurnMissed \/ EngineReset \/ UNCHANGED allVars
  BY <1>5 DEF RecordTick, TurnMissed, EngineReset, allVars
<1> QED
  BY <1>1, <1>2, <1>3, <1>4, <1>5 DEF EngineNext

\* The history and its notes stay while the graph grows.
NotesStay == GraphGrows /\ UNCHANGED <<history, contexts, made>>

\* Notes of the history stay true when the graph only grows.
LEMMA NotesKept ==
    ASSUME Base, NotesStay, tickCount' \in Nat, tickCount <= tickCount'
    PROVE  NotesTyped' /\ NotesOK'
<1> DEFINE Notes == [tick : 1 .. MaxTicks, causes : SUBSET nodes]
           Contexts == [Node -> Result \cup {Missing}]
<1>1. /\ contexts \in Seq(Contexts) /\ made \in Seq(Notes)
      /\ Len(contexts) = Len(history) /\ Len(made) = Len(history)
  BY DEF Base, EngineTypeOK
<1>2. made \in Seq(Notes')
  <2>1. Notes \subseteq Notes'
    BY DEF NotesStay, GraphGrows
  <2> HIDE DEF Notes
  <2> QED
    BY <1>1, <2>1
<1>3. NotesTyped'
  BY <1>1, <1>2 DEF NotesTyped, NotesStay
<1>4. \A n : Preds(n) \subseteq Preds(n)'
  BY DEF NotesStay, GraphGrows, Preds
<1>5. NotesOK'
  <2>1. /\ history' = history /\ contexts' = contexts /\ made' = made
    BY DEF NotesStay
  <2>2. \A i \in DOMAIN history :
           made[i].tick <= tickCount'
    <3> TAKE i \in DOMAIN history
    <3>1. made[i].tick \in 1 .. MaxTicks
      BY EntryFacts
    <3>2. made[i].tick <= tickCount
      BY DEF Base, NotesOK, EntryNoted
    <3>3. tickCount \in Nat
      BY DEF Base, EngineTypeOK
    <3> QED
      BY <3>1, <3>2, <3>3
  <2>3. \A i \in DOMAIN history : made[i].causes \subseteq Preds(history[i].node)'
    BY <1>4, <2>1 DEF Base, NotesOK, EntryNoted
  <2>4. \A p : \A i \in DOMAIN history : CauseNoted(p, i)' <=> CauseNoted(p, i)
    BY <2>1 DEF CauseNoted
  <2>5. \A i \in DOMAIN history : \A p \in made[i].causes : CauseNoted(p, i)
    BY DEF Base, NotesOK, EntryNoted
  <2> QED
    BY <2>1, <2>2, <2>3, <2>4, <2>5 DEF NotesOK, EntryNoted
<1> QED
  BY <1>3, <1>5

\* What the history shows last of a cause of a node about to run.
LEMMA CauseShown ==
    ASSUME IInv, NEW n \in wave, NEW p \in Preds(n)
    PROVE  \E j \in DOMAIN history :
              /\ history[j].node = p /\ history[j].outcome = "done"
              /\ \A k \in DOMAIN history : history[k].node = p => k <= j
              /\ IF history[j].result = None THEN ctx[p] \in {None, Missing}
                                             ELSE ctx[p] = history[j].result
<1> DEFINE About == {k \in DOMAIN history : history[k].node = p}
<1>1. /\ history \in Seq(EntrySet) /\ Len(history) \in Nat
      /\ DOMAIN history = 1 .. Len(history) /\ p \in nodes
  BY DEF IInv, TypeOK, EntrySet, Preds
<1>2. PICK h \in DOMAIN history : history[h].node = p /\ history[h].outcome = "done"
  BY DEF IInv, WaveReady, Completed
<1>3. PICK j \in About : \A k \in About : k <= j
  <2>1. About \subseteq 0 .. Len(history) /\ About # {}
    BY <1>1, <1>2
  <2> HIDE DEF About
  <2> QED
    BY <1>1, <2>1, GreatestNumber
<1>4. j \in DOMAIN history /\ history[j].node = p /\ h <= j
  BY <1>2, <1>3
<1>5. history[j].outcome \in {"done", "false", "error"}
  <2>1. history[j] \in EntrySet
    BY <1>1, <1>4
  <2> QED
    BY <2>1 DEF EntrySet
<1>6. history[j].outcome = "done"
  <2>1. CASE p \in EventNode
    BY <1>4, <1>5, <2>1, NodeKinds DEF IInv, OutcomeKinds
  <2>2. CASE p \notin EventNode
    <3>1. h < j => history[h].outcome = "false"
      BY <1>2, <1>4, <2>2 DEF IInv, FireOnce
    <3>2. h = j
      BY <1>1, <1>2, <1>4, <3>1
    <3> QED
      BY <1>2, <3>2
  <2> QED
    BY <2>1, <2>2
<1>7. LastAbout(p, j)
  BY <1>3, <1>4 DEF LastAbout
<1>8. AccountsFor(history[j], p)
  BY <1>1, <1>4, <1>7 DEF IInv, HistoryExplainsNodes
<1>9. result[p] = history[j].result
  BY <1>6, <1>8 DEF AccountsFor
<1>10. IF result[p] = None THEN ctx[p] \in {None, Missing} ELSE ctx[p] = result[p]
  BY DEF IInv, ConsumersSeeCauses
<1>11. \A k \in DOMAIN history : history[k].node = p => k <= j
  BY <1>3
<1> QED
  BY <1>4, <1>6, <1>9, <1>10, <1>11

\* The entry of a node that is executed is noted as NotesOK says.
LEMMA FireNotes ==
    ASSUME Base, GraphFire
    PROVE  /\ NotesTyped' /\ NotesOK' /\ Len(history') <= MaxHistory
           /\ Len(history') = Len(history) + 1
           /\ \A i \in DOMAIN history : history'[i] = history[i] /\ made'[i] = made[i]
           /\ made'[Len(history) + 1].tick = tickCount
<1>0. PICK L : L = Len(history) + 1
  OBVIOUS
<1> DEFINE Notes == [tick : 1 .. MaxTicks, causes : SUBSET nodes]
           Contexts == [Node -> Result \cup {Missing}]
<1>1. Fire /\ nodes' = nodes /\ edges' = edges /\ tickCount' = tickCount
  <2>1. Fire /\ UNCHANGED loopVars
    BY DEF GraphFire
  <2>2. TypeOK
    BY DEF Base, EngineTypeOK
  <2>3. UNCHANGED graphVars
    BY <2>1, <2>2, FireExecutes DEF Executes, Attempt
  <2> QED
    BY <2>1, <2>3 DEF loopVars, graphVars
<1>2. PICK n \in Node, outcome \in {"done", "false", "error"}, v \in Result,
           st \in {"PENDING", "DONE", "FAILED"}, r \in Result :
           Executes(n, outcome, v, st, r)
  BY <1>1, FireExecutes DEF Base, EngineTypeOK
<1>3. /\ phase = "tick" /\ n \in wave /\ Len(history) < MaxHistory
      /\ history' = Append(history, Entry(n, outcome, v))
      /\ ctx' = IF outcome = "error" THEN ctx ELSE [ctx EXCEPT ![n] = v]
  BY <1>2 DEF Executes, Attempt
<1>4. /\ Len(history) \in Nat /\ DOMAIN history = 1 .. Len(history)
      /\ Len(history') = L /\ DOMAIN history' = 1 .. L
      /\ \A i \in DOMAIN history : history'[i] = history[i]
      /\ history'[L].node = n
  BY <1>0, <1>3, HistoryGrows DEF Base, EngineTypeOK
<1>5. ctx \in Contexts /\ ctx' \in Contexts
  BY <1>3 DEF Base, EngineTypeOK, TypeOK
<1>6. \A p \in Preds(n) : ctx'[p] = ctx[p]
  <2>1. n \notin Preds(n)
    BY <1>3 DEF Base, IInv, WaveReady
  <2>2. Preds(n) \subseteq Node
    BY DEF Preds, Base, IInv, TypeOK
  <2> QED
    BY <1>3, <1>5, <2>1, <2>2
<1>7. [tick |-> tickCount, causes |-> Preds(n)] \in Notes
  <2>1. tickCount \in 1 .. MaxTicks
    BY <1>3, EngineConstants DEF Base, LoopOK, EngineTypeOK
  <2> QED
    BY <2>1 DEF Preds
<1>8. /\ contexts' = Append(contexts, ctx')
      /\ made' = Append(made, [tick |-> tickCount, causes |-> Preds(n)])
  BY <1>4 DEF GraphFire
<1>9. /\ contexts \in Seq(Contexts) /\ made \in Seq(Notes)
      /\ Len(contexts) = Len(history) /\ Len(made) = Len(history)
  BY DEF Base, EngineTypeOK
<1> HIDE DEF Contexts, Notes
<1>10. /\ contexts' \in Seq(Contexts) /\ Len(contexts') = L
       /\ \A i \in DOMAIN history : contexts'[i] = contexts[i]
       /\ contexts'[L] = ctx'
  BY <1>0, <1>4, <1>5, <1>8, <1>9, AppendFacts
<1>11. /\ made' \in Seq(Notes) /\ Len(made') = L
       /\ \A i \in DOMAIN history : made'[i] = made[i]
       /\ made'[L] = [tick |-> tickCount, causes |-> Preds(n)]
  BY <1>0, <1>4, <1>7, <1>8, <1>9, AppendFacts
<1>12. NotesTyped'
  <2>1. Notes' = Notes /\ Contexts' = Contexts
    BY <1>1 DEF Notes, Contexts
  <2>2. contexts' \in Seq(Contexts') /\ made' \in Seq(Notes')
    BY <1>10, <1>11, <2>1
  <2> QED
    BY <1>4, <1>10, <1>11, <2>2 DEF NotesTyped, Notes, Contexts
<1>13. \A m : Preds(m)' = Preds(m)
  BY <1>1 DEF Preds
<1>14. \A p : \A i \in DOMAIN history : CauseNoted(p, i) => CauseNoted(p, i)'
  <2>1. \A i \in DOMAIN history : i \in Nat /\ \A j \in 1 .. (i - 1) : j \in DOMAIN history
    BY <1>4
  <2>2. ASSUME NEW p, NEW i \in DOMAIN history, CauseNoted(p, i) PROVE CauseNoted(p, i)'
    <3>1. contexts'[i] = contexts[i]
      BY <1>10
    <3>2. \A j \in 1 .. (i - 1) : history'[j] = history[j]
      BY <1>4, <2>1
    <3>3. \A j \in 1 .. (i - 1) : \A k \in (j + 1) .. (i - 1) : history'[k] = history[k]
      BY <1>4, <2>1
    <3> QED
      BY <2>2, <3>1, <3>2, <3>3 DEF CauseNoted
  <2> QED
    BY <2>2
<1>15. ASSUME NEW p \in Preds(n) PROVE CauseNoted(p, L)'
  <2>1. PICK j \in DOMAIN history :
              /\ history[j].node = p /\ history[j].outcome = "done"
              /\ \A k \in DOMAIN history : history[k].node = p => k <= j
              /\ IF history[j].result = None THEN ctx[p] \in {None, Missing}
                                             ELSE ctx[p] = history[j].result
    BY <1>3, CauseShown DEF Base
  <2>2. j \in 1 .. (L - 1) /\ history'[j] = history[j]
    BY <1>0, <1>4
  <2>3. \A k \in (j + 1) .. (L - 1) : history'[k].node # p
    BY <1>0, <1>4, <2>1
  <2>4. contexts'[L][p] = ctx[p]
    BY <1>6, <1>10
  <2>5. IF history'[j].result = None THEN contexts'[L][p] \in {None, Missing}
                                      ELSE contexts'[L][p] = history'[j].result
    BY <2>1, <2>2, <2>4
  <2>6. history'[j].node = p /\ history'[j].outcome = "done"
    BY <2>1, <2>2
  <2> QED
    BY <2>2, <2>3, <2>5, <2>6 DEF CauseNoted
<1>16. \A i \in DOMAIN history' : i \in DOMAIN history \/ i = L
  BY <1>0, <1>4
<1>17. ASSUME NEW i \in DOMAIN history' PROVE EntryNoted(i)'
  <2>1. CASE i \in DOMAIN history
    <3>1. EntryNoted(i) /\ made'[i] = made[i] /\ history'[i] = history[i]
      BY <1>4, <1>11, <2>1 DEF Base, NotesOK
    <3>2. \A p \in made[i].causes : CauseNoted(p, i)'
      BY <1>14, <2>1, <3>1 DEF EntryNoted
    <3>3. Preds(history[i].node)' = Preds(history[i].node)
      BY <1>1, <3>1 DEF Preds
    <3> QED
      BY <1>1, <3>1, <3>2, <3>3 DEF EntryNoted
  <2>2. CASE i = L
    <3>1. made'[i].causes = Preds(n) /\ made'[i].tick = tickCount /\ history'[i].node = n
      BY <1>4, <1>11, <2>2
    <3>2. tickCount <= tickCount'
      BY <1>1 DEF Base, EngineTypeOK
    <3>3. Preds(history[i].node)' = Preds(n)
      BY <1>1, <3>1 DEF Preds
    <3> QED
      BY <1>15, <2>2, <3>1, <3>2, <3>3 DEF EntryNoted
  <2> QED
    BY <1>16, <2>1, <2>2
<1>18. NotesOK'
  BY <1>17 DEF NotesOK
<1>19. Len(history') <= MaxHistory
  BY <1>0, <1>3, <1>4, MaxHistoryNat
<1> QED
  BY <1>0, <1>4, <1>11, <1>12, <1>18, <1>19

\* Steps that leave the history and its notes alone, and the engine's knowledge.
LEMMA QuietStep ==
    ASSUME PInv, NotesStay, IsFiniteSet(nodes'), UNCHANGED engineVars,
           tickCount' \in Nat, tickCount <= tickCount', inStep' => inStep
    PROVE  /\ NotesTyped' /\ NotesOK'
           /\ KnownOK(Holdings)'
           /\ inStep' => Reflects(Holdings, lastLen)'
           /\ Len(history') <= MaxHistory
<1>1. /\ Base /\ KnownOK(Holdings)
      /\ inStep => Reflects(Holdings, lastLen)
      /\ GraphGrows /\ history' = history /\ made' = made
      /\ proofs' = proofs /\ certs' = certs /\ lastLen' = lastLen
  BY DEF PInv, NotesStay, engineVars
<1>2. NotesTyped' /\ NotesOK'
  BY <1>1, NotesKept
<1>3. KnownOK(Holdings)'
  BY <1>1, KnownKept
<1>4. inStep' => Reflects(Holdings, lastLen)'
  <2>1. lastLen \in Nat
    BY <1>1 DEF Base, EngineTypeOK
  <2> QED
    BY <1>1, <2>1, ReflectsKept
<1>5. Len(history') <= MaxHistory
  BY <1>1 DEF Base, LoopOK
<1> QED
  BY <1>2, <1>3, <1>4, <1>5

\* What is left to show of a step.
Pieces ==
    /\ LoopTyped /\ NotesTyped
    /\ LoopOK /\ NotesOK /\ StepOK
    /\ KnownOK(Holdings)
    /\ inStep => Reflects(Holdings, lastLen)

\* The parts make up the invariant.
LEMMA PiecesJoin == IInv /\ Pieces => PInv
<1> SUFFICES ASSUME IInv, Pieces PROVE PInv
  OBVIOUS
<1>1. EngineTyped
  BY HoldingsTyped DEF Pieces
<1>2. EngineTypeOK
  BY <1>1, TypesJoin DEF Pieces, IInv
<1> QED
  BY <1>2 DEF Pieces, PInv, Base

\* Edits of the graph and the waves of a tick.
LEMMA EditPieces == PInv /\ (GraphEdit \/ GraphWave \/ UNCHANGED allVars) => Pieces'
<1> SUFFICES ASSUME PInv, GraphEdit \/ GraphWave \/ UNCHANGED allVars PROVE Pieces'
  OBVIOUS
<1> USE DEF graphVars, eventVars, tickVars
<1>1. /\ UNCHANGED <<loopVars, engineVars, notes>>
      /\ UNCHANGED history /\ GraphGrows /\ UNCHANGED phase /\ IsFiniteSet(nodes')
  <2>1. IsFiniteSet(nodes)
    BY DEF PInv, Base, LoopOK
  <2>2. CASE GraphEdit
    <3>1. ASSUME NEW n \in Node, AddNode(n)
          PROVE  UNCHANGED history /\ GraphGrows /\ UNCHANGED phase /\ IsFiniteSet(nodes')
      <4>1. IsFiniteSet(nodes \cup {n})
        BY <2>1, FS_AddElement
      <4> QED
        BY <3>1, <4>1 DEF AddNode, GraphGrows
    <3>2. ASSUME NEW e \in Edge, AddEdge(e[1], e[2])
          PROVE  UNCHANGED history /\ GraphGrows /\ UNCHANGED phase /\ IsFiniteSet(nodes')
      BY <2>1, <3>2 DEF AddEdge, GraphGrows
    <3>3. ASSUME NEW n \in EventNode, NEW v \in Value, Trigger(n, v)
          PROVE  UNCHANGED history /\ GraphGrows /\ UNCHANGED phase /\ IsFiniteSet(nodes')
      BY <2>1, <3>3 DEF Trigger, GraphGrows
    <3>4. UNCHANGED <<loopVars, engineVars, notes>>
      BY <2>2 DEF GraphEdit
    <3>5. \/ \E n \in Node : AddNode(n)
          \/ \E e \in Edge : AddEdge(e[1], e[2])
          \/ \E n \in EventNode, v \in Value : Trigger(n, v)
      BY <2>2 DEF GraphEdit
    <3> QED
      BY <3>1, <3>2, <3>3, <3>4, <3>5
  <2>3. CASE GraphWave
    BY <2>1, <2>3 DEF GraphWave, NextWave, GraphGrows
  <2>4. CASE UNCHANGED allVars
    BY <2>1, <2>4 DEF allVars, vars, GraphGrows
  <2> QED
    BY <2>2, <2>3, <2>4
<1>2. /\ tickCount' = tickCount /\ due' = due /\ inStep' = inStep
      /\ lastLen' = lastLen /\ made' = made /\ contexts' = contexts
      /\ history' = history /\ phase' = phase
  BY <1>1 DEF loopVars, engineVars, notes
<1>3. LoopTyped /\ LoopOK /\ StepOK /\ tickCount \in Nat
  BY DEF PInv, Base, EngineTypeOK, LoopTyped
<1>4. /\ NotesTyped' /\ NotesOK' /\ KnownOK(Holdings)'
      /\ inStep' => Reflects(Holdings, lastLen)'
  BY <1>1, <1>2, <1>3, QuietStep DEF NotesStay
<1>5. LoopTyped' /\ LoopOK' /\ StepOK'
  BY <1>1, <1>2, <1>3 DEF LoopTyped, LoopOK, StepOK
<1> QED
  BY <1>4, <1>5 DEF Pieces

\* A tick begins or ends, or the engine misses its turn.
LEMMA TurnPieces == PInv /\ (LoopTick \/ TickEnds \/ TurnMissed) => Pieces'
<1> SUFFICES ASSUME PInv, LoopTick \/ TickEnds \/ TurnMissed PROVE Pieces'
  OBVIOUS
<1> USE DEF graphVars, eventVars, tickVars
<1>1. /\ LoopTyped /\ LoopOK /\ StepOK /\ tickCount \in Nat /\ Len(history) \in Nat
      /\ \A i \in DOMAIN history : i <= Len(history)
  BY DEF PInv, Base, EngineTypeOK, LoopTyped, TypeOK
<1>2. /\ UNCHANGED engineVars /\ NotesStay /\ nodes' = nodes
      /\ inStep' => inStep
      /\ tickCount' \in 0 .. MaxTicks /\ tickCount <= tickCount'
  <2>1. CASE LoopTick
    BY <1>1, <2>1, EngineConstants
       DEF LoopTick, BeginTick, engineVars, notes, NotesStay, GraphGrows, LoopTyped
  <2>2. CASE TickEnds
    BY <1>1, <2>2 DEF TickEnds, EndTick, engineVars, notes, NotesStay, GraphGrows, LoopTyped
  <2>3. CASE TurnMissed
    BY <1>1, <2>3 DEF TurnMissed, vars, NotesStay, GraphGrows, LoopTyped
  <2> QED
    BY <2>1, <2>2, <2>3
<1>3. /\ NotesTyped' /\ NotesOK' /\ KnownOK(Holdings)'
      /\ inStep' => Reflects(Holdings, lastLen)'
      /\ Len(history') <= MaxHistory
  <2>1. IsFiniteSet(nodes') /\ tickCount' \in Nat
    BY <1>1, <1>2 DEF LoopOK
  <2> QED
    BY <1>2, <2>1, QuietStep
<1>4. lastLen' = lastLen /\ history' = history /\ made' = made
  BY <1>2 DEF engineVars, NotesStay
<1>5. LoopTyped' /\ LoopOK' /\ StepOK'
  <2>1. CASE LoopTick
    BY <1>1, <1>2, <1>4, <2>1
       DEF LoopTick, BeginTick, notes, LoopTyped, LoopOK, StepOK
  <2>2. CASE TickEnds
    BY <1>1, <1>2, <1>4, <2>2
       DEF TickEnds, EndTick, notes, LoopTyped, LoopOK, StepOK
  <2>3. CASE TurnMissed
    BY <1>1, <1>2, <1>4, <2>3 DEF TurnMissed, vars, LoopTyped, LoopOK, StepOK
  <2> QED
    BY <2>1, <2>2, <2>3
<1> QED
  BY <1>3, <1>5 DEF Pieces

\* A node is executed.
LEMMA FirePieces == PInv /\ GraphFire => Pieces'
<1> SUFFICES ASSUME PInv, GraphFire PROVE Pieces'
  OBVIOUS
<1>1. /\ Base /\ LoopTyped /\ LoopOK /\ StepOK /\ TypeOK
      /\ tickCount \in Nat /\ Len(history) \in Nat /\ lastLen \in Nat
      /\ DOMAIN history = 1 .. Len(history)
  BY DEF PInv, Base, EngineTypeOK, LoopTyped, TypeOK
<1>2. /\ NotesTyped' /\ NotesOK' /\ Len(history') <= MaxHistory
      /\ Len(history') = Len(history) + 1
      /\ \A i \in DOMAIN history : history'[i] = history[i] /\ made'[i] = made[i]
      /\ made'[Len(history) + 1].tick = tickCount
  BY <1>1, FireNotes
<1>3. /\ Fire
      /\ tickCount' = tickCount /\ due' = due /\ inStep' = inStep
      /\ proofs' = proofs /\ certs' = certs /\ lastLen' = lastLen
  BY DEF GraphFire, loopVars, engineVars
<1>4. nodes' = nodes /\ edges' = edges /\ phase = "tick" /\ phase' = "tick"
  BY <1>1, <1>3, FireExecutes DEF Executes, Attempt, graphVars
<1>5. KnownOK(Holdings)'
  BY <1>3, <1>4, KnownKept DEF PInv, GraphGrows
<1>6. inStep' => Reflects(Holdings, lastLen)'
  <2> SUFFICES ASSUME inStep PROVE Reflects(Holdings, lastLen)'
    BY <1>3
  <2>1. \A i \in 1 .. lastLen : i \in DOMAIN history
    BY <1>1 DEF StepOK
  <2> QED
    BY <1>1, <1>2, <1>3, <2>1, ReflectsKept DEF PInv
<1>7. StepOK'
  BY <1>1, <1>2, <1>3, <1>4 DEF StepOK
<1>8. LoopTyped' /\ LoopOK'
  BY <1>1, <1>2, <1>3, <1>4 DEF LoopTyped, LoopOK
<1> QED
  BY <1>2, <1>5, <1>6, <1>7, <1>8 DEF Pieces

\* The graph is reset; the engine is not told.
LEMMA ResetPieces == PInv /\ GraphReset => Pieces'
<1> SUFFICES ASSUME PInv, GraphReset PROVE Pieces'
  OBVIOUS
<1>1. /\ LoopTyped /\ LoopOK /\ StepOK /\ TypeOK /\ tickCount \in Nat
  BY DEF PInv, Base, EngineTypeOK, LoopTyped
<1>2. /\ nodes' = nodes /\ edges' = edges /\ phase = "idle" /\ phase' = "idle"
      /\ history' = <<>> /\ contexts' = <<>> /\ made' = <<>>
      /\ inStep' = (inStep /\ lastLen = 0)
      /\ tickCount' = tickCount /\ due' = due
      /\ proofs' = proofs /\ certs' = certs /\ lastLen' = lastLen
  BY DEF GraphReset, Reset, loopVars, engineVars, graphVars, tickVars
<1>3. Len(history') = 0 /\ DOMAIN history' = {} /\ DOMAIN made' = {}
  BY <1>2
<1>4. NotesTyped' /\ NotesOK'
  BY <1>2, <1>3 DEF NotesTyped, NotesOK
<1>5. KnownOK(Holdings)'
  BY <1>2, KnownKept DEF PInv, GraphGrows
<1>6. inStep' => inStep /\ lastLen = 0
  BY <1>2
<1>7. inStep' => Reflects(Holdings, lastLen)'
  <2> SUFFICES ASSUME inStep, lastLen = 0 PROVE Reflects(Holdings, lastLen)'
    BY <1>6
  <2>1. Reflects(Holdings, lastLen)
    BY DEF PInv
  <2>2. \A i \in 1 .. lastLen : history'[i] = history[i] /\ made'[i] = made[i]
    OBVIOUS
  <2> QED
    BY <1>2, <2>1, <2>2, ReflectsKept
<1>8. LoopTyped' /\ LoopOK' /\ StepOK'
  <2>1. inStep' \in BOOLEAN
    BY <1>1, <1>2 DEF LoopTyped
  <2>2. LoopTyped' /\ LoopOK'
    BY <1>1, <1>2, <1>3, <2>1, MaxHistoryNat DEF LoopTyped, LoopOK
  <2>3. StepOK'
    BY <1>2, <1>3, <1>6 DEF StepOK
  <2> QED
    BY <2>2, <2>3
<1> QED
  BY <1>4, <1>5, <1>7, <1>8 DEF Pieces

\* An engine that knows nothing.
LEMMA NothingKnown ==
    /\ KnownOK([proofs |-> Empty, certs |-> Empty])
    /\ Reflects([proofs |-> Empty, certs |-> Empty], 0)
<1> DEFINE x == [proofs |-> Empty, certs |-> Empty]
<1>1. x.proofs = Empty /\ x.certs = Empty /\ DOMAIN Empty = {}
  BY DEF Empty
<1>2. \A M, V : Empty \in Partial(M, V)
  <2>1. Empty \in [{} -> {}]
    BY DEF Empty
  <2>2. \A V : Empty \in [{} -> V]
    BY <2>1
  <2> QED
    BY <2>2 DEF Partial
<1>3. x \in KnownSet
  BY <1>2 DEF KnownSet, ProofMaps, CertMaps
<1> HIDE DEF x
<1>4. KnownOK(x)
  BY <1>1, <1>3 DEF KnownOK, NoCircle
<1>5. Reflects(x, 0)
  BY <1>1 DEF Reflects
<1> QED
  BY <1>4, <1>5 DEF x

\* The engine is reset.
LEMMA EngineResetPieces == PInv /\ EngineReset => Pieces'
<1> SUFFICES ASSUME PInv, EngineReset PROVE Pieces'
  OBVIOUS
<1>1. /\ Base /\ LoopTyped /\ LoopOK /\ StepOK /\ TypeOK /\ tickCount \in Nat
  BY DEF PInv, Base, EngineTypeOK, LoopTyped
<1>2. /\ proofs' = Empty /\ certs' = Empty /\ lastLen' = 0
      /\ tickCount' = tickCount /\ due' = due /\ phase' = phase /\ phase = "idle"
      /\ NotesStay /\ nodes' = nodes /\ history' = history /\ made' = made
      /\ inStep' = (history = <<>> \/ (inStep /\ lastLen = 0))
  BY DEF EngineReset, vars, loopVars, NotesStay, GraphGrows
<1>3. NotesTyped' /\ NotesOK'
  BY <1>1, <1>2, NotesKept
<1>4. KnownOK(Holdings)' /\ Reflects(Holdings, lastLen)'
  <2>1. (KnownOK([proofs |-> Empty, certs |-> Empty])
           /\ Reflects([proofs |-> Empty, certs |-> Empty], 0))'
    BY NothingKnown, PTL
  <2>2. Holdings' = [proofs |-> Empty, certs |-> Empty]
    BY <1>2 DEF Holdings
  <2> QED
    BY <1>2, <2>1, <2>2
<1>5. inStep' => history = <<>> \/ (inStep /\ lastLen = 0)
  BY <1>2
<1>6. StepOK'
  <2> SUFFICES ASSUME inStep' PROVE StepOK'
    BY DEF StepOK
  <2>1. CASE history = <<>>
    BY <1>2, <2>1 DEF StepOK
  <2>2. CASE inStep /\ lastLen = 0
    BY <1>1, <1>2, <2>2 DEF StepOK
  <2> QED
    BY <1>5, <2>1, <2>2
<1>7. LoopTyped' /\ LoopOK'
  <2>1. inStep' \in BOOLEAN
    BY <1>1, <1>2 DEF LoopTyped
  <2> QED
    BY <1>1, <1>2, <2>1, MaxHistoryNat DEF LoopTyped, LoopOK
<1> QED
  BY <1>3, <1>4, <1>6, <1>7 DEF Pieces

\* The engine has its turn: what it knows afterwards is right and, if no entry was
\* missed, about the whole history.
LEMMA RecordKnows ==
    ASSUME PInv, RecordTick
    PROVE  /\ KnownOK(Holdings)'
           /\ inStep' => inStep /\ Reflects(Holdings, lastLen)'
           /\ inStep' \in BOOLEAN
<1>1. /\ Base /\ LoopTyped /\ LoopOK /\ StepOK /\ TypeOK
      /\ lastLen \in Nat /\ Len(history) \in Nat
      /\ KnownOK(Holdings)
      /\ inStep => Reflects(Holdings, lastLen)
  BY DEF PInv, Base, EngineTypeOK, LoopTyped, TypeOK
<1>2. /\ due /\ lastLen' = Len(history)
      /\ nodes' = nodes /\ edges' = edges /\ history' = history /\ made' = made
  BY DEF RecordTick, vars
<1>3. CASE lastLen >= Len(history)
  <2>1. proofs' = proofs /\ certs' = certs /\ inStep' = inStep
    BY <1>3 DEF RecordTick
  <2>2. KnownOK(Holdings)'
    BY <1>1, <1>2, <2>1, KnownKept DEF GraphGrows
  <2>3. ASSUME inStep PROVE Reflects(Holdings, lastLen)'
    <3>1. lastLen' = lastLen
      BY <1>1, <1>2, <1>3, <2>3 DEF StepOK
    <3> QED
      BY <1>1, <1>2, <2>1, <2>3, <3>1, ReflectsKept
  <2> QED
    BY <1>1, <2>1, <2>2, <2>3 DEF LoopTyped
<1>4. CASE ~(lastLen >= Len(history))
  <2>1. PICK last : last = RecordedUpTo
    OBVIOUS
  <2> DEFINE new == {history[k].node : k \in (lastLen + 1) .. last}
             paths == [n \in new |-> LongestChains(n)]
  <2>2. /\ \E chain \in [new -> UNION Range(paths)] :
              /\ \A n \in new : chain[n] \in paths[n]
              /\ proofs' = Known(chain, last).proofs /\ certs' = Known(chain, last).certs
        /\ inStep' = (inStep /\ last = Len(history))
    BY <1>4, <2>1 DEF RecordTick
  <2>3. PICK chain :
              /\ \A n \in new : chain[n] \in paths[n]
              /\ proofs' = Known(chain, last).proofs /\ certs' = Known(chain, last).certs
    BY <2>2
  <2>4. \A k \in (lastLen + 1) .. last :
           chain[history[k].node] \in LongestChains(history[k].node)
    BY <2>3
  <2>5. lastLen < Len(history)
    BY <1>1, <1>4
  <2>6. PICK x : x = Known(chain, last)
    OBVIOUS
  <2> HIDE DEF new, paths
  <2>7. /\ KnownOK(x)
        /\ inStep => Reflects(x, last)
    BY <1>1, <1>2, <2>1, <2>4, <2>5, <2>6, KnownIsRight
  <2>8. Holdings' = x
    <3>1. x \in [proofs : ProofMaps, certs : CertMaps]
      BY <2>7 DEF KnownOK, KnownSet
    <3> QED
      BY <2>3, <2>6, <3>1 DEF Holdings
  <2>9. KnownOK(x)'
    BY <1>2, <2>7 DEF KnownOK, KnownSet, ProofMaps, CertMaps, CertMap, ChainFor, IsPath,
                      NoCircle, Preds
  <2>10. inStep' => inStep /\ last = lastLen'
    BY <1>2, <2>2
  <2>11. ASSUME inStep' PROVE Reflects(x, last)'
    BY <1>2, <2>7, <2>10, <2>11 DEF Reflects, Explains, Dated, Undated, LastBefore,
                                     CertsIn
  <2>12. inStep' \in BOOLEAN
    BY <1>1, <2>2 DEF LoopTyped
  <2> QED
    BY <2>8, <2>9, <2>10, <2>11, <2>12
<1> QED
  BY <1>3, <1>4

\* The engine has its turn.
LEMMA RecordPieces == PInv /\ RecordTick => Pieces'
<1> SUFFICES ASSUME PInv, RecordTick PROVE Pieces'
  OBVIOUS
<1>1. /\ Base /\ LoopTyped /\ LoopOK /\ TypeOK /\ tickCount \in Nat
      /\ Len(history) \in Nat
  BY DEF PInv, Base, EngineTypeOK, LoopTyped, TypeOK
<1>2. /\ phase = "idle" /\ phase' = phase /\ due' = FALSE /\ lastLen' = Len(history)
      /\ nodes' = nodes /\ history' = history /\ made' = made /\ tickCount' = tickCount
      /\ NotesStay
  BY DEF RecordTick, vars, NotesStay, GraphGrows
<1>3. /\ KnownOK(Holdings)'
      /\ inStep' => inStep /\ Reflects(Holdings, lastLen)'
      /\ inStep' \in BOOLEAN
  BY RecordKnows
<1>4. NotesTyped' /\ NotesOK'
  BY <1>1, <1>2, NotesKept
<1>5. LoopTyped' /\ LoopOK' /\ StepOK'
  <2>1. Len(history) \in 0 .. MaxHistory
    BY <1>1, MaxHistoryNat DEF LoopOK
  <2>2. LoopTyped'
    BY <1>1, <1>2, <1>3, <2>1 DEF LoopTyped
  <2>3. LoopOK'
    BY <1>1, <1>2 DEF LoopOK
  <2>4. StepOK'
    BY <1>1, <1>2 DEF StepOK
  <2> QED
    BY <2>2, <2>3, <2>4
<1> QED
  BY <1>3, <1>4, <1>5 DEF Pieces

\* The invariant is inductive.
LEMMA PInvStep == PInv /\ [EngineNext]_allVars => PInv'
<1> SUFFICES ASSUME PInv, [EngineNext]_allVars PROVE PInv'
  OBVIOUS
<1>1. IInv'
  BY EngineStepIsStep, IInvStep DEF PInv, Base
<1>2. Pieces'
  BY EditPieces, TurnPieces, FirePieces, ResetPieces, EngineResetPieces, RecordPieces
     DEF EngineNext
<1>3. (IInv /\ Pieces => PInv)'
  BY PiecesJoin, PTL
<1> QED
  BY <1>1, <1>2, <1>3

\* The invariant holds in every behaviour.
LEMMA PInvHolds == EngineSpec => []PInv
<1>1. EngineInit => PInv
  <2> SUFFICES ASSUME EngineInit PROVE PInv
    OBVIOUS
  <2>1. IInv
    BY InvariantStarts DEF EngineInit
  <2>2. /\ nodes = {} /\ history = <<>> /\ contexts = <<>> /\ made = <<>>
        /\ tickCount = 0 /\ due = FALSE /\ phase = "idle"
        /\ proofs = Empty /\ certs = Empty /\ lastLen = 0 /\ inStep = TRUE
        /\ Len(history) = 0 /\ DOMAIN history = {}
    BY DEF EngineInit, Init
  <2>3. LoopTyped /\ NotesTyped /\ NotesOK /\ StepOK
    <3>1. LoopTyped
      <4>1. due \in BOOLEAN /\ inStep \in BOOLEAN
        BY <2>2
      <4>2. MaxTicks \in Nat
        BY EngineConstants
      <4>3. tickCount \in 0 .. MaxTicks /\ lastLen \in 0 .. MaxHistory
        BY <2>2, <4>2, MaxHistoryNat
      <4> QED
        BY <4>1, <4>3 DEF LoopTyped
    <3>2. NotesTyped /\ NotesOK
      BY <2>2 DEF NotesTyped, NotesOK
    <3>3. StepOK
      BY <2>2 DEF StepOK
    <3> QED
      BY <3>1, <3>2, <3>3
  <2>4. LoopOK
    BY <2>2, MaxHistoryNat, FS_EmptySet DEF LoopOK
  <2>5. KnownOK(Holdings) /\ Reflects(Holdings, lastLen)
    BY <2>2, NothingKnown DEF Holdings
  <2> QED
    BY <2>1, <2>3, <2>4, <2>5, PiecesJoin DEF Pieces
<1> QED
  BY <1>1, PInvStep, PTL DEF EngineSpec

-----------------------------------------------------------------------------
(* The theorems.                                                           *)

\* Proofs, certificates, the notes and the loop keep to their types: a proof has a
\* tick of the loop, its causes are nodes, its chain is a sequence of nodes.
THEOREM EngineTypes == EngineSpec => []EngineTypeOK
<1>1. PInv => EngineTypeOK
  BY DEF PInv, Base
<1> QED
  BY <1>1, PInvHolds, PTL

\* When the engine is up to date it knows the whole history.
LEMMA UpToDateReflects ==
    ASSUME PInv, UpToDate
    PROVE  /\ lastLen = Len(history) /\ Reflects(Holdings, Len(history))
           /\ Len(history) \in Nat /\ DOMAIN history = 1 .. Len(history)
<1>1. Len(history) \in Nat /\ DOMAIN history = 1 .. Len(history)
  BY DEF PInv, Base, IInv, TypeOK
<1>2. lastLen = Len(history)
  BY DEF PInv, Base, StepOK, UpToDate
<1> QED
  BY <1>1, <1>2 DEF PInv, UpToDate

\* Then the last entry about a node is what its proof is about.
LEMMA LastExplained ==
    ASSUME PInv, UpToDate, NEW n, NEW i \in DOMAIN history, LastAbout(n, i)
    PROVE  Explains(Holdings, i) /\ history[i].node = n
<1>1. /\ Reflects(Holdings, Len(history))
      /\ Len(history) \in Nat /\ DOMAIN history = 1 .. Len(history)
  BY UpToDateReflects
<1>2. history[i].node = n
  BY DEF LastAbout
<1>3. \A k \in (i + 1) .. Len(history) : history[k].node # history[i].node
  BY <1>1, <1>2 DEF LastAbout
<1>4. i \in 1 .. Len(history)
  BY <1>1
<1> QED
  BY <1>1, <1>2, <1>3, <1>4 DEF Reflects

\* For every node that fires a proof exists, of its last execution, and for no
\* other node: in every run in which the engine had its turn after each tick and
\* no reset came in between, however the graph was edited meanwhile.
THEOREM ProofsAreOfHistory == EngineSpec => []ProofsMatchHistory
<1>1. PInv => ProofsMatchHistory
  <2> SUFFICES ASSUME PInv, UpToDate
               PROVE  /\ DOMAIN proofs = {history[i].node : i \in DOMAIN history}
                      /\ \A n \in DOMAIN proofs : \A i \in DOMAIN history :
                            LastAbout(n, i) =>
                               proofs[n].result = history[i].result /\ proofs[n].tick = made[i].tick
    BY DEF ProofsMatchHistory
  <2>1. DOMAIN proofs = {history[i].node : i \in DOMAIN history}
    BY UpToDateReflects DEF Reflects, Holdings
  <2>2. ASSUME NEW n \in DOMAIN proofs, NEW i \in DOMAIN history, LastAbout(n, i)
        PROVE  proofs[n].result = history[i].result /\ proofs[n].tick = made[i].tick
    BY <2>2, LastExplained DEF Explains, Holdings
  <2> QED
    BY <2>1, <2>2
<1> QED
  BY <1>1, PInvHolds, PTL

\* Each cause that an execution waited for has a certificate, and every certificate
\* gives the tick of the last execution of the cause before the effect's own, with
\* the value the proof quotes if it was waited for; where an edge from a node that
\* had not run came late, the tick is made up.
THEOREM CertificatesHold == EngineSpec => []CertificatesDateCauses
<1>1. PInv => CertificatesDateCauses
  <2> SUFFICES ASSUME PInv, UpToDate,
                      NEW n \in DOMAIN proofs, NEW i \in DOMAIN history, LastAbout(n, i)
               PROVE  /\ made[i].causes \subseteq DOMAIN CertsAbout(n)
                      /\ \A p \in DOMAIN CertsAbout(n) :
                            \/ \E j \in 1 .. (i - 1) : LastBefore(p, j, i) /\ Dates(n, i, p, j)
                            \/ /\ p \notin made[i].causes
                               /\ \A j \in 1 .. (i - 1) : history[j].node # p
                               /\ CertsAbout(n)[p] = made[i].tick - 1
    BY DEF CertificatesDateCauses
  <2>1. Explains(Holdings, i) /\ history[i].node = n
    BY LastExplained
  <2>2. CertsAbout(n) = CertsIn(Holdings, n)
    BY DEF CertsAbout, CertsIn, Holdings
  <2>3. ASSUME NEW p, NEW j \in 1 .. (i - 1), Dated(Holdings, i, p, j)
        PROVE  LastBefore(p, j, i) /\ Dates(n, i, p, j)
    BY <2>1, <2>2, <2>3 DEF Dated, Dates, Holdings
  <2>4. ASSUME NEW p, Undated(Holdings, i, p)
        PROVE  /\ p \notin made[i].causes /\ \A j \in 1 .. (i - 1) : history[j].node # p
               /\ CertsAbout(n)[p] = made[i].tick - 1
    BY <2>1, <2>2, <2>4 DEF Undated
  <2> QED
    BY <2>1, <2>2, <2>3, <2>4 DEF Explains
<1> QED
  BY <1>1, PInvHolds, PTL

\* A chain all of whose nodes have a proof is its own full chain.
LEMMA FullWhenProved ==
    ASSUME NEW n, NEW c, c = proofs[n].chain, c \in Seq(nodes),
           \A k \in 1 .. Len(c) : c[k] \in DOMAIN proofs
    PROVE  FullChain(n) = c
<1> DEFINE Step(k, s) == IF c[k] \in DOMAIN proofs THEN Append(s, c[k]) ELSE s
           Is(f) == f = [k \in 0 .. Len(c) |->
                           IF k = 0 THEN <<>>
                           ELSE IF c[k] \in DOMAIN proofs THEN Append(f[k - 1], c[k])
                                ELSE f[k - 1]]
           step == [z \in (1 .. Len(c)) \X Seq(nodes) |-> Step(z[1], z[2])]
           kept == CHOOSE f : Is(f)
<1>1. Len(c) \in Nat /\ DOMAIN c = 1 .. Len(c) /\ \A k \in 1 .. Len(c) : c[k] \in nodes
  OBVIOUS
<1>2. step \in [(1 .. Len(c)) \X Seq(nodes) -> Seq(nodes)]
  BY <1>1
<1>3. PICK f : Recursion(f, Len(c), Seq(nodes), <<>>, step)
  <2>1. <<>> \in Seq(nodes)
    OBVIOUS
  <2> HIDE DEF step
  <2> QED
    BY <1>1, <1>2, <2>1, PrimitiveRecursion
<1>4. ASSUME NEW k \in 1 .. Len(c) PROVE f[k] = Step(k, f[k - 1])
  <2>1. k - 1 \in 0 .. Len(c)
    BY <1>1
  <2>2. f[k - 1] \in Seq(nodes) /\ f[k] = step[<<k, f[k - 1]>>]
    BY <1>3, <2>1 DEF Recursion
  <2> QED
    BY <2>2
<1>5. Is(f)
  <2>1. f = [k \in 0 .. Len(c) |-> f[k]] /\ f[0] = <<>>
    BY <1>3 DEF Recursion
  <2>2. \A k \in 0 .. Len(c) : k # 0 => k \in 1 .. Len(c)
    BY <1>1
  <2> QED
    BY <1>4, <2>1, <2>2
<1>6. Is(kept)
  <2> HIDE DEF Is
  <2> QED
    BY <1>5
<1>7. FullChain(n) = kept[Len(c)]
  BY DEF FullChain
<1> HIDE DEF kept
<1>8. kept[0] = <<>> /\ \A k \in 1 .. Len(c) : kept[k] = Append(kept[k - 1], c[k])
  <2>1. \A k \in 1 .. Len(c) : k \in 0 .. Len(c) /\ k # 0
    BY <1>1
  <2>2. \A k \in 0 .. Len(c) :
           kept[k] = IF k = 0 THEN <<>>
                     ELSE IF c[k] \in DOMAIN proofs THEN Append(kept[k - 1], c[k])
                          ELSE kept[k - 1]
    BY <1>6
  <2>3. 0 \in 0 .. Len(c)
    BY <1>1
  <2> HIDE DEF Is
  <2> QED
    BY <2>1, <2>2, <2>3
<1> HIDE DEF Is, step
<1> DEFINE Copied(s, k) == s \in Seq(nodes) /\ Len(s) = k /\ \A i \in 1 .. k : s[i] = c[i]
           T == {k \in Nat : k <= Len(c) => Copied(kept[k], k)}
<1>9. 0 \in T
  <2>1. <<>> \in Seq(nodes) /\ Len(<<>>) = 0 /\ 1 .. 0 = {}
    OBVIOUS
  <2>2. Copied(kept[0], 0)
    BY <1>8, <2>1
  <2> HIDE DEF Copied
  <2> QED
    BY <2>2
<1>10. ASSUME NEW k \in Nat, k \in T PROVE k + 1 \in T
  <2> SUFFICES ASSUME k + 1 <= Len(c) PROVE Copied(kept[k + 1], k + 1)
    OBVIOUS
  <2>1. k + 1 \in 1 .. Len(c) /\ (k + 1) - 1 = k /\ Copied(kept[k], k)
    BY <1>1, <1>10
  <2>2. kept[k + 1] = Append(kept[k], c[k + 1])
    BY <1>8, <2>1
  <2>3. c[k + 1] \in nodes
    BY <1>1, <2>1
  <2> QED
    BY <2>1, <2>2, <2>3, AppendFacts
<1>11. Nat \subseteq T
  <2> HIDE DEF T
  <2> QED
    BY <1>9, <1>10, SetInduction
<1>12. Copied(kept[Len(c)], Len(c))
  BY <1>1, <1>11
<1>13. kept[Len(c)] = c
  <2>1. PICK s : s = kept[Len(c)]
    OBVIOUS
  <2> QED
    BY <1>12, <2>1
<1> QED
  BY <1>7, <1>13

\* The chain of a proof leads along edges to its node, and full_chain() has no gap
\* in it unless an edge of it is younger than the execution it leads to.
THEOREM ChainsComplete == EngineSpec => []ChainsAreProved
<1>1. PInv => ChainsAreProved
  <2> SUFFICES ASSUME PInv PROVE ChainsAreProved
    OBVIOUS
  <2>1. ASSUME NEW n \in DOMAIN proofs PROVE ChainFor(proofs[n].chain, n)
    BY DEF PInv, KnownOK, Holdings
  <2>2. ASSUME UpToDate, NEW n \in DOMAIN proofs, NEW c, c = proofs[n].chain,
               \A k \in 2 .. Len(c) : \E i \in DOMAIN history :
                  LastAbout(c[k], i) /\ c[k - 1] \in made[i].causes
        PROVE  FullChain(n) = c
    <3>1. c \in Seq(nodes) /\ c # <<>> /\ c[Len(c)] = n /\ Len(c) \in Nat
      BY <2>1, <2>2 DEF ChainFor
    <3>2. ASSUME NEW k \in 1 .. Len(c) PROVE c[k] \in DOMAIN proofs
      <4>1. CASE k = Len(c)
        BY <3>1, <4>1
      <4>2. CASE k # Len(c)
        <5>1. k + 1 \in 2 .. Len(c) /\ (k + 1) - 1 = k
          BY <3>1, <4>2
        <5>2. PICK i \in DOMAIN history : LastAbout(c[k + 1], i) /\ c[k] \in made[i].causes
          BY <2>2, <5>1
        <5>3. CauseNoted(c[k], i)
          BY <5>2 DEF PInv, Base, NotesOK, EntryNoted
        <5>4. DOMAIN proofs = {history[j].node : j \in 1 .. Len(history)}
              /\ DOMAIN history = 1 .. Len(history) /\ Len(history) \in Nat
          BY <2>2, UpToDateReflects DEF Reflects, Holdings
        <5> QED
          BY <5>2, <5>3, <5>4 DEF CauseNoted
      <4> QED
        BY <4>1, <4>2
    <3> QED
      BY <2>2, <3>1, <3>2, FullWhenProved
  <2> QED
    BY <2>1, <2>2 DEF ChainsAreProved, ChainFor
<1> QED
  BY <1>1, PInvHolds, PTL

\* The lineage is a DAG, on cyclic graphs as well, and whatever edges are added
\* and however often the engine is reset or misses its turn.
THEOREM LineageHasNoCycle == EngineSpec => []LineageIsADag
<1>1. PInv => LineageIsADag
  <2> SUFFICES ASSUME PInv,
                      NEW k \in 2 .. Cardinality(nodes) + 1, NEW s \in [1 .. k -> nodes],
                      \A i \in 2 .. k : <<s[i - 1], s[i]>> \in LineageGraph,
                      s[1] = s[k]
               PROVE  FALSE
    BY DEF LineageIsADag
  <2> DEFINE T == {s[i] : i \in 2 .. k}
  <2>1. k \in Nat /\ k >= 2
    <3>1. Cardinality(nodes) \in Nat
      BY FS_CardinalityType DEF PInv, Base, LoopOK
    <3> QED
      BY <3>1
  <2>2. T \in SUBSET nodes /\ T # {} /\ s[k] \in T
    BY <2>1
  <2>3. NoCircle(certs)
    BY DEF PInv, KnownOK, Holdings
  <2>4. PICK n \in T : \A p \in T : ~ (n \in DOMAIN certs /\ p \in DOMAIN certs[n])
    <3> HIDE DEF T
    <3> QED
      BY <2>2, <2>3 DEF NoCircle
  <2>5. PICK i \in 2 .. k : n = s[i]
    OBVIOUS
  <2>6. s[i - 1] \in T
    <3>1. CASE i = 2
      BY <2>1, <2>2, <3>1
    <3>2. CASE i # 2
      <4>1. i - 1 \in 2 .. k
        BY <2>1, <3>2
      <4> QED
        BY <4>1
    <3> QED
      BY <3>1, <3>2
  <2>7. n \in DOMAIN certs /\ s[i - 1] \in DOMAIN certs[n]
    BY <2>5 DEF LineageGraph
  <2> QED
    BY <2>4, <2>6, <2>7
<1> QED
  BY <1>1, PInvHolds, PTL

=============================================================================

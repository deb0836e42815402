----------------------------- MODULE Succession -----------------------------
(***************************************************************************)
(* Stage 5's proof graph for one hostname: S is the set of predecessor ->  *)
(* successor pairs of its valid, unexcluded successor statements.          *)
(* Documents are naturals, in byte order.                                  *)
(***************************************************************************)
EXTENDS Integers, FiniteSets, Sequences, SequencesExt

SuccessorsOf(S, doc) == {e[2] : e \in {x \in S : x[1] = doc}}

\* One predecessor with competing successors: traversal stops there.
SuccessionForks(S) ==
    {[predecessor |-> doc, successors |-> SuccessorsOf(S, doc)] :
        doc \in {e[1] : e \in {x \in S : \E y \in S : y[1] = x[1] /\ y # x}}}

\* The one successor of a document that is no fork point; none otherwise.
OnlyHop(S, doc) ==
    {d \in SuccessorsOf(S, doc) : SuccessorsOf(S, doc) = {d}}

\* One hop further, unless traversal stops here: at a fork, a document without
\* successor, or one already on the chain.
Extended(S, chain) ==
    LET fresh == OnlyHop(S, Last(chain)) \ ToSet(chain)
    IN  IF fresh = {} THEN chain ELSE Append(chain, CHOOSE d \in fresh : TRUE)

\* ProofGraph::chain_from. No chain has more hops than there are pairs.
ChainFrom(S, start) ==
    LET upTo[n \in 0..Cardinality(S)] ==
            IF n = 0 THEN <<start>> ELSE Extended(S, upTo[n - 1])
    IN  upTo[Cardinality(S)]

\* ProofGraph::proves, as the set of pairs it holds for.
ProofPairs(S) ==
    UNION {{a} \X (ToSet(ChainFrom(S, a)) \ {a}) : a \in {e[1] : e \in S}}
=============================================================================

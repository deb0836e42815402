------------------------------ MODULE Folding ------------------------------
(***************************************************************************)
(* A loop over a list, as a fold: what holds before it and is kept by      *)
(* every turn holds after it. The turn of the loop and the invariant are   *)
(* parameters, so that an INSTANCE makes the lemma one about a given loop. *)
(***************************************************************************)
EXTENDS Integers, Sequences, WellFoundedInduction, TLAPS

CONSTANTS
    Step(_, _, _),     \* the loop's fixed inputs, what it has so far, the next element
    Holds(_, _, _, _)  \* the inputs, the list, how many elements are done, what it has

Greatest(S) == CHOOSE x \in S : \A y \in S : x >= y

\* The function that a fold over the indices D of seq, from the left, evaluates.
Runs(p, base, seq, D, run) ==
    run = [s \in SUBSET D |->
              IF s = {} THEN base ELSE Step(p, run[s \ {Greatest(s)}], seq[Greatest(s)])]

Run(p, base, seq) == CHOOSE run : Runs(p, base, seq, DOMAIN seq, run)

\* The greatest of a set of indices is the one that is.
LEMMA GreatestIs ==
    ASSUME NEW n \in Nat, NEW S \in SUBSET (1..n), n \in S
    PROVE  Greatest(S) = n
<1>1. \A x \in S : (\A y \in S : x >= y) <=> x = n
  OBVIOUS
<1> QED  BY <1>1 DEF Greatest

\* The fold over the first m elements is a function, built from the one over m - 1.
LEMMA RunExtends ==
    ASSUME NEW p, NEW base, NEW m \in Nat \ {0}, NEW seq, NEW f,
           Runs(p, base, seq, 1..(m-1), f)
    PROVE  \E g : Runs(p, base, seq, 1..m, g)
<1> DEFINE g == [s \in SUBSET (1..m) |-> IF m \in s THEN Step(p, f[s \ {m}], seq[m]) ELSE f[s]]
           turn(s) == IF s = {} THEN base ELSE Step(p, g[s \ {Greatest(s)}], seq[Greatest(s)])
<1>1. ASSUME NEW s \in SUBSET (1..m), m \notin s
      PROVE  s \in SUBSET (1..(m-1)) /\ g[s] = f[s]
  <2>1. \A x \in s : x \in 1..(m-1)
    BY <1>1
  <2> QED  BY <1>1, <2>1
<1>2. ASSUME NEW s \in SUBSET (1..m), m \in s
      PROVE  g[s] = turn(s)
  <2>1. Greatest(s) = m
    BY <1>2, GreatestIs
  <2>2. s \ {m} \in SUBSET (1..m) /\ m \notin s \ {m}
    OBVIOUS
  <2>3. g[s \ {m}] = f[s \ {m}]
    BY <1>1, <2>2
  <2>4. g[s] = Step(p, f[s \ {m}], seq[m])
    BY <1>2
  <2> HIDE DEF g
  <2> QED  BY <1>2, <2>1, <2>3, <2>4
<1>3. ASSUME NEW s \in SUBSET (1..m), m \notin s
      PROVE  g[s] = turn(s)
  <2>0. f[s] = IF s = {} THEN base ELSE Step(p, f[s \ {Greatest(s)}], seq[Greatest(s)])
    BY <1>1, <1>3 DEF Runs
  <2>1. s \ {Greatest(s)} \in SUBSET (1..m) /\ m \notin s \ {Greatest(s)}
    BY <1>3
  <2>2. g[s \ {Greatest(s)}] = f[s \ {Greatest(s)}]
    BY <1>1, <2>1
  <2>3. g[s] = f[s] /\ s \in SUBSET (1..(m-1))
    BY <1>1, <1>3
  <2> HIDE DEF g
  <2> QED  BY <2>0, <2>2, <2>3
<1>4. g = [s \in SUBSET (1..m) |-> turn(s)]
  <2>1. \A s \in SUBSET (1..m) : g[s] = turn(s)
    BY <1>2, <1>3
  <2>2. g = [s \in SUBSET (1..m) |-> g[s]]
    OBVIOUS
  <2> HIDE DEF g
  <2> QED  BY <2>1, <2>2
<1> HIDE DEF g
<1> QED  BY <1>4 DEF Runs

\* The function exists, so the one chosen is one.
LEMMA RunExists ==
    ASSUME NEW p, NEW base, NEW n \in Nat, NEW seq, DOMAIN seq = 1..n
    PROVE  Runs(p, base, seq, DOMAIN seq, Run(p, base, seq))
<1> DEFINE Built(m) == \E f : Runs(p, base, seq, 1..m, f)
           Bad == {m \in Nat : ~Built(m)}
<1>1. Built(0)
  <2> DEFINE f == [s \in SUBSET (1..0) |-> base]
  <2>1. \A s \in SUBSET (1..0) : s = {}
    OBVIOUS
  <2>2. Runs(p, base, seq, 1..0, f)
    BY <2>1 DEF Runs
  <2> HIDE DEF f
  <2> QED  BY <2>2
<1>2. ASSUME NEW m \in Nat \ {0}, Built(m-1)
      PROVE  Built(m)
  BY <1>2, RunExtends
<1> HIDE DEF Built
<1>3. Bad = {}
  <2> SUFFICES ASSUME Bad # {}  PROVE FALSE
    OBVIOUS
  <2>1. PICK m \in Bad : \A k \in Bad : ~(<<k, m>> \in OpToRel(<, Nat))
    BY NatLessThanWellFounded, WFMin
  <2>2. \A k \in Bad : ~(k < m)
    BY <2>1 DEF OpToRel
  <2>3. m \in Nat \ {0} /\ m - 1 \in Nat /\ m - 1 < m
    BY <1>1
  <2> QED  BY <1>2, <2>2, <2>3
<1>4. Built(n)
  BY <1>3
<1>5. \E f : Runs(p, base, seq, DOMAIN seq, f)
  BY <1>4 DEF Built
<1> QED  BY <1>5 DEF Run

\* Induction over the loop: an invariant of its turns holds at its end.
LEMMA Kept ==
    ASSUME NEW p, NEW base, NEW n \in Nat, NEW seq, DOMAIN seq = 1..n,
           Holds(p, seq, 0, base),
           \A k \in 1..n : \A acc :
              Holds(p, seq, k - 1, acc) => Holds(p, seq, k, Step(p, acc, seq[k]))
    PROVE  Holds(p, seq, n, Run(p, base, seq)[DOMAIN seq])
<1> DEFINE run == Run(p, base, seq)
           Bad == {m \in 0..n : ~Holds(p, seq, m, run[1..m])}
<1>1. Runs(p, base, seq, DOMAIN seq, run)
  BY RunExists
<1> HIDE DEF run
<1>2. run[1..0] = base
  <2>1. 1..0 = {} /\ {} \in SUBSET DOMAIN seq
    OBVIOUS
  <2> QED  BY <1>1, <2>1 DEF Runs
<1>3. ASSUME NEW m \in 1..n
      PROVE  run[1..m] = Step(p, run[1..(m-1)], seq[m])
  <2>1. m \in 1..m /\ 1..m # {} /\ 1..m \in SUBSET DOMAIN seq /\ (1..m) \ {m} = 1..(m-1)
    OBVIOUS
  <2>0. Greatest(1..m) = m
    BY <2>1, GreatestIs
  <2>2. run[1..m] = Step(p, run[(1..m) \ {Greatest(1..m)}], seq[Greatest(1..m)])
    BY <1>1, <2>1 DEF Runs
  <2> QED  BY <2>0, <2>1, <2>2
<1>4. Bad = {}
  <2> SUFFICES ASSUME Bad # {}  PROVE FALSE
    OBVIOUS
  <2>0. Bad \subseteq Nat
    OBVIOUS
  <2>1. PICK m \in Bad : \A k \in Bad : ~(<<k, m>> \in OpToRel(<, Nat))
    BY <2>0, NatLessThanWellFounded, WFMin
  <2>2. \A k \in Bad : ~(k < m)
    BY <2>0, <2>1 DEF OpToRel
  <2>3. m # 0
    BY <1>2
  <2>4. m \in 1..n /\ m - 1 \in 0..n /\ m - 1 < m
    BY <2>3
  <2>5. Holds(p, seq, m - 1, run[1..(m-1)])
    BY <2>2, <2>4
  <2> QED  BY <1>3, <2>4, <2>5
<1>5. Holds(p, seq, n, run[1..n])
  BY <1>4
<1> QED  BY <1>5 DEF run
=============================================================================

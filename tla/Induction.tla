----------------------------- MODULE Induction -----------------------------
(***************************************************************************)
(* Induction over the turns of a loop, without operators as parameters: a  *)
(* property of the turns is the set of those that have it.                 *)
(***************************************************************************)
EXTENDS Integers, Sequences, FiniteSets, WellFoundedInduction, NaturalsInduction, TLAPS

\* A set of natural numbers has a least member.
THEOREM Least ==
    ASSUME NEW T \in SUBSET Nat, T # {}
    PROVE  \E m \in T : \A n \in T : m <= n
<1>1. IsWellFoundedOn(OpToRel(<, Nat), Nat)
  BY NatLessThanWellFounded
<1>2. \E m \in T : \A n \in T : <<n, m>> \notin OpToRel(<, Nat)
  BY <1>1, WFMin
<1>3. \A m, n \in Nat : <<n, m>> \notin OpToRel(<, Nat) => m <= n
  BY DEF OpToRel
<1> QED
  BY <1>2, <1>3

\* What holds before the first turn and is kept by every turn holds after each.
THEOREM UpTo ==
    ASSUME NEW n \in Nat, NEW T, 0 \in T, \A i \in 1..n : i - 1 \in T => i \in T
    PROVE  \A i \in 0..n : i \in T
<1> DEFINE Bad == {i \in 0..n : i \notin T}
<1>1. SUFFICES ASSUME Bad # {} PROVE FALSE
  OBVIOUS
<1>2. PICK m \in Bad : \A i \in Bad : m <= i
  <2>1. Bad \in SUBSET Nat
    OBVIOUS
  <2> HIDE DEF Bad
  <2> QED
    BY <1>1, <2>1, Least
<1>3. m \in 1..n
  OBVIOUS
<1>4. m - 1 \in 0..n /\ ~(m <= m - 1)
  BY <1>3
<1>5. m - 1 \in T
  BY <1>2, <1>4
<1> QED
  BY <1>2, <1>3, <1>5

\* f[i] is the value after i turns of a loop over values in S.
IsLoop(f, n, S, base, step) ==
    /\ f \in [0..n -> S]
    /\ f[0] = base
    /\ \A i \in 1..n : f[i] = step[i][f[i - 1]]

\* The values between the turns of a loop exist.
THEOREM LoopExists ==
    ASSUME NEW S, NEW n \in Nat, NEW base \in S, NEW step \in [1..n -> [S -> S]]
    PROVE  \E f : IsLoop(f, n, S, base, step)
<1> DEFINE Good(k, f) == f[0] = base /\ \A i \in 1..k : f[i] = step[i][f[i - 1]]
           T == {k \in 0..n : \E f \in [0..k -> S] : Good(k, f)}
<1>1. 0 \in T
  <2> DEFINE f == [i \in 0..0 |-> base]
  <2>1. f \in [0..0 -> S] /\ Good(0, f)
    OBVIOUS
  <2> HIDE DEF Good, f
  <2> QED
    BY <2>1
<1>2. ASSUME NEW k \in 1..n, k - 1 \in T PROVE k \in T
  <2>1. PICK f \in [0..(k - 1) -> S] : Good(k - 1, f)
    BY <1>2
  <2> DEFINE g == [i \in 0..k |-> IF i = k THEN step[k][f[k - 1]] ELSE f[i]]
  <2>2. step[k][f[k - 1]] \in S
    OBVIOUS
  <2>3. g \in [0..k -> S]
    BY <2>2
  <2>4. \A i \in 1..k : i - 1 \in 0..(k - 1) /\ g[i - 1] = f[i - 1]
    OBVIOUS
  <2>5. Good(k, g)
    BY <2>1, <2>4
  <2>6. k \in 0..n
    OBVIOUS
  <2> HIDE DEF Good, g
  <2> QED
    BY <2>3, <2>5, <2>6
<1>3. n \in T
  <2> HIDE DEF T
  <2>1. n \in 0..n
    OBVIOUS
  <2> QED
    BY <1>1, <1>2, <2>1, UpTo
<1> QED
  BY <1>3 DEF IsLoop

-----------------------------------------------------------------------------
(* While loops: from p in D the loop goes on to next[p], until it is in Stop *)

\* What the loop meets from p on.
Reached(p, next, D) ==
    {q \in D : \A S \in SUBSET D : p \in S /\ (\A r \in S : next[r] \in S) => q \in S}

\* Where it stops, and where it has passed.
Member(S) == CHOOSE q : q \in S
Exit(p, next, Stop, D) == Member(Reached(p, next, D) \cap Stop)
Passed(p, next, Stop, D) == Reached(p, next, D) \ Stop

\* What is met from p on is p, and what is met from the place after p on.
THEOREM ReachedUnrolls ==
    ASSUME NEW D, NEW next \in [D -> D], NEW p \in D
    PROVE  /\ Reached(p, next, D) = {p} \cup Reached(next[p], next, D)
           /\ next[p] = p => Reached(p, next, D) = {p}
<1> DEFINE n == next[p]
           Rest == Reached(n, next, D)
<1>1. n \in D
  OBVIOUS
<1> HIDE DEF n
<1>2. n \in Rest
  BY <1>1 DEF Reached
<1>3. \A r \in Rest : next[r] \in Rest
  <2> SUFFICES ASSUME NEW r \in Rest PROVE next[r] \in Rest
    OBVIOUS
  <2>1. r \in D /\ next[r] \in D
    BY DEF Reached
  <2> QED
    BY <2>1 DEF Reached
<1>4. {p} \cup Rest \subseteq Reached(p, next, D)
  BY DEF Reached, n
<1>5. Reached(p, next, D) \subseteq {p} \cup Rest
  <2> DEFINE S == {p} \cup Rest
  <2>1. S \in SUBSET D /\ p \in S
    BY DEF Reached
  <2>2. \A r \in S : next[r] \in S
    BY <1>2, <1>3 DEF n
  <2> HIDE DEF S
  <2>3. Reached(p, next, D) \subseteq S
    BY <2>1, <2>2 DEF Reached
  <2> QED
    BY <2>3 DEF S
<1>6. n = p => Reached(p, next, D) = {p}
  <2> SUFFICES ASSUME n = p PROVE Reached(p, next, D) \subseteq {p}
    BY <1>4
  <2>1. {p} \in SUBSET D /\ \A r \in {p} : next[r] \in {p}
    BY DEF n
  <2> QED
    BY <2>1 DEF Reached
<1> QED
  BY <1>4, <1>5, <1>6 DEF n

\* Before it stops, a loop ends where it ends from the next place on.
THEOREM LoopUnrolls ==
    ASSUME NEW D, NEW next \in [D -> D], NEW Stop \in SUBSET D,
           \A q \in Stop : next[q] = q, NEW p \in D
    PROVE  /\ p \in Stop => /\ Exit(p, next, Stop, D) = p
                            /\ Passed(p, next, Stop, D) = {}
           /\ p \notin Stop =>
                /\ Exit(p, next, Stop, D) = Exit(next[p], next, Stop, D)
                /\ Passed(p, next, Stop, D) = {p} \cup Passed(next[p], next, Stop, D)
<1> DEFINE R == Reached(p, next, D)
           Rest == Reached(next[p], next, D)
<1>1. R = {p} \cup Rest /\ (next[p] = p => R = {p})
  BY ReachedUnrolls
<1> HIDE DEF R, Rest
<1>2. ASSUME p \in Stop
      PROVE  Exit(p, next, Stop, D) = p /\ Passed(p, next, Stop, D) = {}
  <2>1. R \cap Stop = {p} /\ R \ Stop = {}
    BY <1>1, <1>2
  <2>2. Member({p}) = p
    BY DEF Member
  <2> QED
    BY <2>1, <2>2 DEF Exit, Passed, R
<1>3. ASSUME p \notin Stop
      PROVE  /\ Exit(p, next, Stop, D) = Exit(next[p], next, Stop, D)
             /\ Passed(p, next, Stop, D) = {p} \cup Passed(next[p], next, Stop, D)
  <2>1. R \cap Stop = Rest \cap Stop /\ R \ Stop = {p} \cup (Rest \ Stop)
    BY <1>1, <1>3
  <2> QED
    BY <2>1 DEF Exit, Passed, R, Rest
<1> QED
  BY <1>2, <1>3
=============================================================================

----------------------------- MODULE Iteration -----------------------------
(***************************************************************************)
(* A loop over 1 .. n that starts from base: step[<<v, i>>] is the value   *)
(* after the i-th turn when v was the value before it.  The lemmas say     *)
(* what a proof needs to know of such a loop, and give the induction they  *)
(* rest on as a fact about sets of numbers.                                *)
(***************************************************************************)
EXTENDS Integers, TLAPS, WellFoundedInduction

Steps(step, base, n) ==
    LET f[i \in 0 .. n] == IF i = 0 THEN base ELSE step[<<f[i - 1], i>>]
    IN  f[n]

(* A set that holds 0 and the successor of each of its numbers holds every *)
(* number; otherwise the least number outside it would have a predecessor  *)
(* outside it.                                                             *)
LEMMA NatInduct ==
    ASSUME NEW S, 0 \in S, \A n \in S : n + 1 \in S
    PROVE  Nat \subseteq S
  <1> DEFINE R == {ss \in Nat \X Nat : ss[1] < ss[2]}
             T == Nat \ S
  <1>1. IsWellFoundedOn(OpToRel(<,Nat), Nat)
    BY NatLessThanWellFounded
  <1>2. IsWellFoundedOn(R, Nat)
    BY <1>1 DEF OpToRel
  <1>3. ASSUME T # {} PROVE FALSE
    <2>1. PICK x \in T : \A y \in T : ~ (<<y, x>> \in R)
      <3> T \subseteq Nat
        OBVIOUS
      <3> HIDE DEF R, T
      <3> QED
        BY <1>2, <1>3, WFMin
    <2>2. x - 1 \in T
      BY <2>1
    <2>3. <<x - 1, x>> \in R
      <3> DEFINE ss == <<x - 1, x>>
      <3>1. ss[1] < ss[2] /\ ss \in Nat \X Nat
        BY <2>1, <2>2
      <3> QED
        BY <3>1
    <2> QED
      BY <2>1, <2>2, <2>3
  <1> QED
    BY <1>3

(* Each of the turns 1 .. n takes V to V. *)
TurnsIn(step, V, n) == \A v \in V : \A i \in 1 .. n : step[<<v, i>>] \in V

(* The turns 1 .. n of two loops do the same to every value in V. *)
SameTurns(s, t, V, n) ==
    \A v \in V : \A i \in 1 .. n : s[<<v, i>>] = t[<<v, i>>]

(* The values of a loop, from the first to the last. *)
IsRun(f, step, base, n) ==
    f = [i \in 0 .. n |-> IF i = 0 THEN base ELSE step[<<f[i - 1], i>>]]

(* Every value of a run but the first comes from the one before it. *)
LEMMA RunValues ==
    ASSUME NEW f, NEW step, NEW base, NEW n \in Nat, IsRun(f, step, base, n)
    PROVE  /\ f[0] = base
           /\ \A i \in 1 .. n : f[i] = step[<<f[i - 1], i>>]
           /\ DOMAIN f = 0 .. n
  <1> DEFINE h == [i \in 0 .. n |-> IF i = 0 THEN base ELSE step[<<f[i - 1], i>>]]
  <1>1. /\ h[0] = base
        /\ \A i \in 1 .. n : h[i] = step[<<f[i - 1], i>>]
        /\ DOMAIN h = 0 .. n
    OBVIOUS
  <1>2. f = h
    BY DEF IsRun
  <1> HIDE DEF h
  <1>3. /\ f[0] = h[0]
        /\ \A i : f[i] = h[i]
        /\ DOMAIN f = DOMAIN h
    BY <1>2
  <1> QED
    BY <1>1, <1>3

(* A loop whose turns stay in V has a run in V. *)
LEMMA RunExists ==
    ASSUME NEW V, NEW N \in Nat, NEW base \in V, NEW step,
           TurnsIn(step, V, N)
    PROVE  \A n \in 0 .. N : \E f \in [0 .. n -> V] : IsRun(f, step, base, n)
  <1> DEFINE S == {n \in Nat : n <= N => \E f \in [0 .. n -> V] : IsRun(f, step, base, n)}
  <1>1. 0 \in S
    <2> DEFINE f == [i \in 0 .. 0 |-> base]
    <2>1. f \in [0 .. 0 -> V]
      OBVIOUS
    <2>2. IsRun(f, step, base, 0)
      BY DEF IsRun
    <2> QED
      BY <2>1, <2>2
  <1>2. ASSUME NEW n \in S PROVE n + 1 \in S
    <2>1. n \in Nat
      OBVIOUS
    <2>2. ASSUME n + 1 <= N
          PROVE  \E f \in [0 .. n + 1 -> V] : IsRun(f, step, base, n + 1)
      <3>1. PICK f \in [0 .. n -> V] : IsRun(f, step, base, n)
        BY <2>1, <2>2
      <3> DEFINE last == step[<<f[n], n + 1>>]
                 g == [i \in 0 .. n + 1 |-> IF i = n + 1 THEN last ELSE f[i]]
      <3>2. last \in V
        BY <2>1, <2>2, <3>1 DEF TurnsIn
      <3>3. g \in [0 .. n + 1 -> V]
        BY <2>1, <3>1, <3>2
      <3>4. f[0] = base /\ \A i \in 1 .. n : f[i] = step[<<f[i - 1], i>>]
        BY <2>1, <3>1, RunValues
      <3>5. \A i \in 0 .. n + 1 :
                g[i] = IF i = 0 THEN base ELSE step[<<g[i - 1], i>>]
        <4> SUFFICES ASSUME NEW i \in 0 .. n + 1
                     PROVE  g[i] = IF i = 0 THEN base ELSE step[<<g[i - 1], i>>]
          OBVIOUS
        <4>1. CASE i = 0
          BY <2>1, <3>4, <4>1
        <4>2. CASE i \in 1 .. n
          <5>1. g[i] = f[i] /\ g[i - 1] = f[i - 1]
            BY <2>1, <4>2
          <5> QED
            BY <2>1, <3>4, <4>2, <5>1
        <4>3. CASE i = n + 1
          <5>1. g[i] = last /\ g[i - 1] = f[n] /\ i # 0
            BY <2>1, <4>3
          <5> QED
            BY <4>3, <5>1
        <4> QED
          BY <2>1, <4>1, <4>2, <4>3
      <3> HIDE DEF g
      <3>6. g = [i \in 0 .. n + 1 |-> IF i = 0 THEN base ELSE step[<<g[i - 1], i>>]]
        BY <3>3, <3>5
      <3>7. IsRun(g, step, base, n + 1)
        BY <3>6 DEF IsRun
      <3> QED
        BY <3>3, <3>7
    <2> QED
      BY <2>1, <2>2
  <1>3. Nat \subseteq S
    <2> HIDE DEF S
    <2> QED
      BY <1>1, <1>2, NatInduct
  <1> QED
    BY <1>3

(* Two runs of loops with the same turns agree, up to the shorter's end. *)
LEMMA RunsAgree ==
    ASSUME NEW V, NEW n \in Nat, NEW base, NEW s, NEW t, NEW f, NEW g,
           NEW m \in Nat, n <= m, f \in [0 .. n -> V],
           IsRun(f, s, base, n), IsRun(g, t, base, m),
           SameTurns(s, t, V, n)
    PROVE  \A i \in 0 .. n : f[i] = g[i]
  <1> DEFINE S == {i \in Nat : i <= n => f[i] = g[i]}
  <1>0. /\ f[0] = base /\ \A i \in 1 .. n : f[i] = s[<<f[i - 1], i>>]
        /\ g[0] = base /\ \A i \in 1 .. m : g[i] = t[<<g[i - 1], i>>]
    BY RunValues
  <1>1. 0 \in S
    BY <1>0
  <1>2. ASSUME NEW i \in S PROVE i + 1 \in S
    <2>1. i \in Nat /\ (i <= n => f[i] = g[i])
      OBVIOUS
    <2>2. ASSUME i + 1 <= n PROVE f[i + 1] = g[i + 1]
      <3>1. f[i] \in V /\ f[i] = g[i] /\ i + 1 \in 1 .. n /\ i + 1 \in 1 .. m
        BY <2>1, <2>2
      <3>2. f[i + 1] = s[<<f[i], i + 1>>] /\ g[i + 1] = t[<<g[i], i + 1>>]
        BY <2>1, <3>1, <1>0
      <3> QED
        BY <3>1, <3>2 DEF SameTurns
    <2> QED
      BY <2>1, <2>2
  <1>3. Nat \subseteq S
    <2> HIDE DEF S
    <2> QED
      BY <1>1, <1>2, NatInduct
  <1> QED
    BY <1>3

(* Steps is the last value of a run. *)
EndsRun(step, base, V, n) ==
    \E f \in [0 .. n -> V] :
        IsRun(f, step, base, n) /\ Steps(step, base, n) = f[n]

(* So it is for every loop whose turns stay in V. *)
LEMMA StepsEndsRun ==
    ASSUME NEW V, NEW N \in Nat, NEW base \in V, NEW step,
           TurnsIn(step, V, N), NEW n \in 0 .. N
    PROVE  EndsRun(step, base, V, n)
  <1> DEFINE c == CHOOSE f : IsRun(f, step, base, n)
  <1>1. PICK f \in [0 .. n -> V] : IsRun(f, step, base, n)
    BY RunExists
  <1>2. IsRun(c, step, base, n)
    BY <1>1
  <1>3. Steps(step, base, n) = c[n]
    BY DEF Steps, IsRun
  <1> HIDE DEF c
  <1>4. \A i \in 0 .. n : f[i] = c[i]
    <2>1. SameTurns(step, step, V, n)
      BY DEF SameTurns
    <2> QED
      BY <1>1, <1>2, <2>1, RunsAgree
  <1> QED
    BY <1>1, <1>3, <1>4 DEF EndsRun

(* A loop that takes no turn returns its base. *)
LEMMA StepsZero ==
    ASSUME NEW V, NEW N \in Nat, NEW base \in V, NEW step, TurnsIn(step, V, N)
    PROVE  Steps(step, base, 0) = base
  <1>1. PICK f \in [0 .. 0 -> V] :
           IsRun(f, step, base, 0) /\ Steps(step, base, 0) = f[0]
    BY StepsEndsRun DEF EndsRun
  <1> QED
    BY <1>1, RunValues

(* A loop whose turns stay in V returns a value in V. *)
LEMMA StepsType ==
    ASSUME NEW V, NEW N \in Nat, NEW base \in V, NEW step,
           TurnsIn(step, V, N), NEW n \in 0 .. N
    PROVE  Steps(step, base, n) \in V
  BY StepsEndsRun DEF EndsRun

(* The last turn starts from what the loop without it returns. *)
TakesTurn(step, base, n) ==
    Steps(step, base, n) = step[<<Steps(step, base, n - 1), n>>]

(* So does every turn of a loop whose turns stay in V. *)
LEMMA StepsNext ==
    ASSUME NEW V, NEW N \in Nat, NEW base \in V, NEW step,
           TurnsIn(step, V, N), NEW n \in 1 .. N
    PROVE  TakesTurn(step, base, n)
  <1>0. EndsRun(step, base, V, n) /\ EndsRun(step, base, V, n - 1)
    BY StepsEndsRun
  <1>1. PICK f \in [0 .. n -> V] :
           IsRun(f, step, base, n) /\ Steps(step, base, n) = f[n]
    BY <1>0 DEF EndsRun
  <1>2. PICK g \in [0 .. n - 1 -> V] :
           IsRun(g, step, base, n - 1) /\ Steps(step, base, n - 1) = g[n - 1]
    BY <1>0 DEF EndsRun
  <1>3. f[n] = step[<<f[n - 1], n>>]
    BY <1>1, RunValues
  <1>4. \A i \in 0 .. n - 1 : g[i] = f[i]
    <2>1. SameTurns(step, step, V, n - 1)
      BY DEF SameTurns
    <2>2. n \in Nat /\ n - 1 \in Nat /\ n - 1 <= n
      OBVIOUS
    <2> QED
      BY <1>1, <1>2, <2>1, <2>2, RunsAgree
  <1> QED
    BY <1>1, <1>2, <1>3, <1>4 DEF TakesTurn

(* Loops with the same turns have the same result. *)
LEMMA StepsAgree ==
    ASSUME NEW V, NEW N \in Nat, NEW base \in V, NEW s, NEW t,
           TurnsIn(s, V, N), SameTurns(s, t, V, N)
    PROVE  Steps(s, base, N) = Steps(t, base, N)
  <1>0. TurnsIn(t, V, N) /\ N \in 0 .. N
    BY DEF TurnsIn, SameTurns
  <1>1. EndsRun(s, base, V, N) /\ EndsRun(t, base, V, N)
    BY <1>0, StepsEndsRun
  <1>2. PICK f \in [0 .. N -> V] : IsRun(f, s, base, N) /\ Steps(s, base, N) = f[N]
    BY <1>1 DEF EndsRun
  <1>3. PICK g \in [0 .. N -> V] : IsRun(g, t, base, N) /\ Steps(t, base, N) = g[N]
    BY <1>1 DEF EndsRun
  <1>4. \A i \in 0 .. N : f[i] = g[i]
    BY <1>2, <1>3, RunsAgree
  <1> QED
    BY <1>0, <1>2, <1>3, <1>4
=============================================================================

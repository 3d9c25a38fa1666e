----------------------------- MODULE PartsProofs -----------------------------
(***************************************************************************)
(* What the machines of module Parts promise, for every value of the       *)
(* constants that the assumptions there allow: one inductive invariant for *)
(* each, every step of the machine, and nothing at a step of another.      *)
(*                                                                         *)
(* The sums of the CPU shares and the doubled delays are recursive; what   *)
(* is shown of them is shown of the smallest counterexample.               *)
(***************************************************************************)
EXTENDS Parts, TLAPS, WellFoundedInduction, FiniteSetTheorems, SequenceTheorems

-----------------------------------------------------------------------------
(* Sums over finite sets: the definition by choice, and what follows from it. *)

\* A set of numbers has a smallest one: what stands for induction here.
LEMMA Smallest == ASSUME NEW T \in SUBSET Nat, T # {} PROVE \E n \in T : \A m \in T : n <= m
<1>1. \E R : IsWellFoundedOn(R, Nat) /\ \A x, y \in Nat : x < y => <<x, y>> \in R
  <2> DEFINE R == OpToRel(<, Nat)
  <2>1. IsWellFoundedOn(R, Nat) BY NatLessThanWellFounded
  <2>2. \A x, y \in Nat : x < y => <<x, y>> \in R BY DEF OpToRel
  <2> HIDE DEF R
  <2> QED BY <2>1, <2>2
<1>2. PICK R : IsWellFoundedOn(R, Nat) /\ \A x, y \in Nat : x < y => <<x, y>> \in R BY <1>1
<1>0. T \subseteq Nat OBVIOUS
<1>0a. IsWellFoundedOn(R, Nat) BY <1>2
<1>3a. \E n \in T : \A m \in T : ~ (<<m, n>> \in R) BY <1>0, <1>0a, WFMin
<1>3. PICK n \in T : \A m \in T : ~ (<<m, n>> \in R) BY <1>3a
<1>4. \A m \in T : ~ (m < n) BY <1>2, <1>3
<1> QED BY <1>4, <1>3

\* Partial sums of f, taken in the order in which elements are chosen.
First(s) == CHOOSE x \in s : TRUE
Sums(g, f, S, n) ==
    g \in [SUBSET S -> Int] /\
    \A s \in SUBSET S : Cardinality(s) <= n => g[s] = IF s = {} THEN 0 ELSE f[First(s)] + g[s \ {First(s)}]

\* A finite set without one of its elements has one element less.
LEMMA SmallerSet == ASSUME NEW S, IsFiniteSet(S), NEW x \in S
                    PROVE IsFiniteSet(S \ {x}) /\ Cardinality(S) \in Nat /\ Cardinality(S \ {x}) = Cardinality(S) - 1 /\ Cardinality(S) >= 1
<1>1. Cardinality(S \ {x}) = Cardinality(S) - 1 /\ IsFiniteSet(S \ {x}) BY FS_RemoveElement
<1>2. Cardinality(S) \in Nat /\ Cardinality(S \ {x}) \in Nat BY <1>1, FS_CardinalityType
<1> QED BY <1>1, <1>2

\* There is a function that gives the sums over the subsets of up to n elements.
LEMMA SumsExist == ASSUME NEW S, IsFiniteSet(S), NEW f, \A x \in S : f[x] \in Int, NEW n \in Nat
                   PROVE \E g : Sums(g, f, S, n)
<1> DEFINE T == {m \in Nat : ~ \E g : Sums(g, f, S, m)}
<1>0. \A s \in SUBSET S : s # {} => First(s) \in s BY DEF First
<1>c. \A s \in SUBSET S : IsFiniteSet(s) /\ Cardinality(s) \in Nat BY FS_Subset, FS_CardinalityType
<1>r. \A s \in SUBSET S, x \in S : x \in s => Cardinality(s \ {x}) = Cardinality(s) - 1 BY <1>c, SmallerSet
<1>1. SUFFICES T = {} OBVIOUS
<1>2. SUFFICES ASSUME T # {} PROVE FALSE OBVIOUS
<1>3. T \in SUBSET Nat OBVIOUS
<1>4. PICK m \in T : \A k \in T : m <= k BY <1>2, <1>3, Smallest
<1>5. m \in Nat /\ ~ \E g : Sums(g, f, S, m) OBVIOUS
<1>6. CASE m = 0
  <2> DEFINE g == [s \in SUBSET S |-> 0]
  <2>1. \A s \in SUBSET S : Cardinality(s) <= 0 => s = {} BY <1>c, FS_EmptySet
  <2>2. Sums(g, f, S, 0) BY <2>1 DEF Sums
  <2> QED BY <1>5, <1>6, <2>2
<1>7. CASE m # 0
  <2>1. m - 1 \in Nat /\ m - 1 \notin T BY <1>4, <1>5, <1>7
  <2>2. PICK g : Sums(g, f, S, m - 1) BY <2>1
  <2>3. g \in [SUBSET S -> Int] BY <2>2 DEF Sums
  <2> DEFINE h == [s \in SUBSET S |-> IF s = {} THEN 0 ELSE f[First(s)] + g[s \ {First(s)}]]
  <2>4. h \in [SUBSET S -> Int] BY <1>0, <2>3
  <2>5. \A s \in SUBSET S : Cardinality(s) <= m => h[s] = IF s = {} THEN 0 ELSE f[First(s)] + h[s \ {First(s)}]
    <3>1. SUFFICES ASSUME NEW s \in SUBSET S, Cardinality(s) <= m, s # {}
                   PROVE h[s] = f[First(s)] + h[s \ {First(s)}]
      OBVIOUS
    <3>2. PICK t : t = s \ {First(s)} OBVIOUS
    <3>3. t \in SUBSET S /\ Cardinality(t) = Cardinality(s) - 1 BY <1>0, <1>r, <3>1, <3>2
    <3>4. Cardinality(t) <= m - 1 BY <1>c, <1>5, <3>1, <3>3
    <3>5. g[t] = IF t = {} THEN 0 ELSE f[First(t)] + g[t \ {First(t)}] BY <2>2, <3>3, <3>4 DEF Sums
    <3>6. h[t] = g[t] BY <3>3, <3>5
    <3>7. h[s] = f[First(s)] + g[t] BY <3>1, <3>2
    <3> QED BY <3>2, <3>6, <3>7
  <2>6. Sums(h, f, S, m) BY <2>4, <2>5 DEF Sums
  <2> QED BY <1>5, <2>6
<1> QED BY <1>6, <1>7

\* The whole recursion of SumFunctionOnSet, over the subsets of S.
Whole(g, f, S) == g = [s \in SUBSET S |-> IF s = {} THEN 0 ELSE f[First(s)] + g[s \ {First(s)}]]

\* The recursion that SumFunctionOnSet is written as has one solution.
LEMMA WholeIsOne == ASSUME NEW S, IsFiniteSet(S), NEW f, NEW g, NEW h, Whole(g, f, S), Whole(h, f, S) PROVE g = h
<1>0. \A s \in SUBSET S : s # {} => First(s) \in s BY DEF First
<1>c. \A s \in SUBSET S : IsFiniteSet(s) /\ Cardinality(s) \in Nat BY FS_Subset, FS_CardinalityType
<1>r. \A s \in SUBSET S, x \in S : x \in s => Cardinality(s \ {x}) = Cardinality(s) - 1 BY <1>c, SmallerSet
<1>g. /\ DOMAIN g = SUBSET S /\ DOMAIN h = SUBSET S
      /\ \A s \in SUBSET S : g[s] = IF s = {} THEN 0 ELSE f[First(s)] + g[s \ {First(s)}]
      /\ \A s \in SUBSET S : h[s] = IF s = {} THEN 0 ELSE f[First(s)] + h[s \ {First(s)}]
      /\ g = [s \in SUBSET S |-> g[s]] /\ h = [s \in SUBSET S |-> h[s]]
  BY DEF Whole
<1> DEFINE T == {n \in Nat : \E s \in SUBSET S : Cardinality(s) = n /\ g[s] # h[s]}
<1>1. T = {}
  <2>1. SUFFICES ASSUME T # {} PROVE FALSE OBVIOUS
  <2>2. T \in SUBSET Nat OBVIOUS
  <2>3. PICK m \in T : \A k \in T : m <= k BY <2>1, <2>2, Smallest
  <2>4. PICK s \in SUBSET S : Cardinality(s) = m /\ g[s] # h[s] OBVIOUS
  <2>5. s # {} BY <1>g, <2>4
  <2>6. PICK t \in SUBSET S : t = s \ {First(s)} OBVIOUS
  <2>7. Cardinality(t) = m - 1 /\ Cardinality(t) \in Nat /\ m \in Nat BY <1>0, <1>c, <1>r, <2>4, <2>5, <2>6
  <2>8. m - 1 \notin T BY <2>3, <2>7
  <2>9. g[t] = h[t] BY <2>7, <2>8
  <2> QED BY <1>g, <2>4, <2>5, <2>6, <2>9
<1>2. \A s \in SUBSET S : g[s] = h[s] BY <1>1, <1>c
<1> QED BY <1>g, <1>2

\* SumFunctionOnSet gives what a solution of its recursion gives.
LEMMA SumIsWhole == ASSUME NEW S, NEW f, IsFiniteSet(S), NEW g, Whole(g, f, S) PROVE Cpu!SumFunctionOnSet(f, S) = g[S]
<1> DEFINE iter == CHOOSE h : h = [s \in SUBSET S |-> IF s = {} THEN 0 ELSE f[First(s)] + h[s \ {First(s)}]]
<1>2. Whole(iter, f, S) BY DEF Whole
<1>3. Cpu!SumFunctionOnSet(f, S) = iter[S] BY DEF Cpu!SumFunctionOnSet, Cpu!FoldFunctionOnSet, Cpu!MapThenFoldSet, First
<1> HIDE DEF iter
<1> QED BY <1>2, <1>3, WholeIsOne

\* The sums over the subsets of a finite set are what the choosing recursion says.
LEMMA SumOfSubsets == ASSUME NEW S, IsFiniteSet(S), NEW f, \A x \in S : f[x] \in Int
                    PROVE \A s \in SUBSET S :
                             /\ Cpu!SumFunctionOnSet(f, s) \in Int
                             /\ s = {} => Cpu!SumFunctionOnSet(f, s) = 0
                             /\ s # {} => Cpu!SumFunctionOnSet(f, s) = f[First(s)] + Cpu!SumFunctionOnSet(f, s \ {First(s)})
<1>1. PICK g : Sums(g, f, S, Cardinality(S)) BY SumsExist, FS_CardinalityType
<1>2. \A s \in SUBSET S : Cardinality(s) <= Cardinality(S) /\ IsFiniteSet(s) BY FS_Subset
<1>3. g \in [SUBSET S -> Int] /\ \A s \in SUBSET S : g[s] = IF s = {} THEN 0 ELSE f[First(s)] + g[s \ {First(s)}]
   BY <1>1, <1>2 DEF Sums
<1>4. \A s \in SUBSET S : s # {} => s \ {First(s)} \in SUBSET s OBVIOUS
<1>5. \A s \in SUBSET S : Whole([t \in SUBSET s |-> g[t]], f, s)
  <2>1. SUFFICES ASSUME NEW s \in SUBSET S PROVE Whole([t \in SUBSET s |-> g[t]], f, s) OBVIOUS
  <2>2. SUBSET s \subseteq SUBSET S OBVIOUS
  <2>3. \A t \in SUBSET s : t \ {First(t)} \in SUBSET s OBVIOUS
  <2> QED BY <1>3, <2>2, <2>3 DEF Whole
<1>6. \A s \in SUBSET S : Cpu!SumFunctionOnSet(f, s) = g[s]
  <2>1. SUFFICES ASSUME NEW s \in SUBSET S PROVE Cpu!SumFunctionOnSet(f, s) = g[s] OBVIOUS
  <2>2. Cpu!SumFunctionOnSet(f, s) = [t \in SUBSET s |-> g[t]][s] BY <1>2, <1>5, SumIsWhole
  <2> QED BY <2>2
<1> QED BY <1>3, <1>4, <1>6

\* Any element can be the one that is taken out of a sum.
LEMMA SumWithout == ASSUME NEW S, IsFiniteSet(S), NEW f, \A x \in S : f[x] \in Int
                    PROVE \A s \in SUBSET S, x \in S : x \in s => Cpu!SumFunctionOnSet(f, s) = f[x] + Cpu!SumFunctionOnSet(f, s \ {x})
<1> DEFINE Sum(s) == Cpu!SumFunctionOnSet(f, s)
<1>1. \A s \in SUBSET S : /\ Sum(s) \in Int
                          /\ s # {} => Sum(s) = f[First(s)] + Sum(s \ {First(s)})
  BY SumOfSubsets
<1> HIDE DEF Sum
<1>0. \A s \in SUBSET S : s # {} => First(s) \in s BY DEF First
<1>c. \A s \in SUBSET S : IsFiniteSet(s) /\ Cardinality(s) \in Nat BY FS_Subset, FS_CardinalityType
<1>r. \A s \in SUBSET S, x \in S : x \in s => Cardinality(s \ {x}) = Cardinality(s) - 1 BY <1>c, SmallerSet
<1> DEFINE T == {n \in Nat : \E s \in SUBSET S : Cardinality(s) = n /\ \E x \in s : Sum(s) # f[x] + Sum(s \ {x})}
<1>2. T = {}
  <2>1. SUFFICES ASSUME T # {} PROVE FALSE OBVIOUS
  <2>2. T \in SUBSET Nat OBVIOUS
  <2>3. PICK m \in T : \A k \in T : m <= k BY <2>1, <2>2, Smallest
  <2>4. PICK s \in SUBSET S : Cardinality(s) = m /\ \E x \in s : Sum(s) # f[x] + Sum(s \ {x}) OBVIOUS
  <2>5. PICK x \in s : Sum(s) # f[x] + Sum(s \ {x}) BY <2>4
  <2>6. PICK y \in s : y = First(s) BY <1>0
  <2>7. Sum(s) = f[y] + Sum(s \ {y}) BY <1>1, <2>6
  <2>8. x # y BY <2>5, <2>7
  <2>9. PICK t \in SUBSET S : t = s \ {y} OBVIOUS
  <2>10. PICK u \in SUBSET S : u = s \ {x} OBVIOUS
  <2>11. x \in t /\ y \in u /\ t \ {x} = u \ {y} BY <2>8, <2>9, <2>10
  <2>12. m \in Nat /\ Cardinality(t) = m - 1 /\ Cardinality(u) = m - 1 /\ Cardinality(t) \in Nat BY <1>c, <1>r, <2>4, <2>9, <2>10
  <2>13. m - 1 \notin T /\ m - 1 \in Nat BY <2>3, <2>12
  <2>14. Sum(t) = f[x] + Sum(t \ {x}) BY <2>11, <2>12, <2>13
  <2>15. Sum(u) = f[y] + Sum(u \ {y}) BY <2>11, <2>12, <2>13
  <2>v. PICK v \in SUBSET S : v = t \ {x} /\ v = u \ {y} BY <2>11
  <2>16. Sum(v) \in Int /\ f[x] \in Int /\ f[y] \in Int /\ Sum(t) \in Int /\ Sum(u) \in Int
    BY <1>1
  <2>17. Sum(s) = f[y] + Sum(t) /\ Sum(s) # f[x] + Sum(u) BY <2>5, <2>7, <2>9, <2>10
  <2> HIDE DEF T
  <2>18. Sum(t) = f[x] + Sum(v) /\ Sum(u) = f[y] + Sum(v) BY <2>14, <2>15, <2>v
  <2> QED BY <2>16, <2>17, <2>18
<1>3. \A s \in SUBSET S, x \in S : x \in s => Sum(s) = f[x] + Sum(s \ {x}) BY <1>2, <1>c
<1> QED BY <1>3 DEF Sum

\* Sums compare as their terms do.
LEMMA SumsCompare == ASSUME NEW S, IsFiniteSet(S), NEW f, NEW h, \A x \in S : f[x] \in Int /\ h[x] \in Int
                     PROVE /\ (\A x \in S : f[x] <= h[x]) => Cpu!SumFunctionOnSet(f, S) <= Cpu!SumFunctionOnSet(h, S)
                           /\ (\A x \in S : f[x] = h[x]) => Cpu!SumFunctionOnSet(f, S) = Cpu!SumFunctionOnSet(h, S)
<1> DEFINE F(s) == Cpu!SumFunctionOnSet(f, s)
           H(s) == Cpu!SumFunctionOnSet(h, s)
<1>1. \A s \in SUBSET S : F(s) \in Int /\ (s = {} => F(s) = 0) /\ H(s) \in Int /\ (s = {} => H(s) = 0) BY SumOfSubsets
<1>2. \A s \in SUBSET S, x \in S : x \in s => F(s) = f[x] + F(s \ {x}) BY SumWithout
<1>2h. \A s \in SUBSET S, x \in S : x \in s => H(s) = h[x] + H(s \ {x}) BY SumWithout
<1> HIDE DEF F, H
<1>c. \A s \in SUBSET S : IsFiniteSet(s) /\ Cardinality(s) \in Nat BY FS_Subset, FS_CardinalityType
<1>r. \A s \in SUBSET S, x \in S : x \in s => Cardinality(s \ {x}) = Cardinality(s) - 1 BY <1>c, SmallerSet
<1> DEFINE Good(s) == /\ (\A x \in S : f[x] <= h[x]) => F(s) <= H(s)
                      /\ (\A x \in S : f[x] = h[x]) => F(s) = H(s)
<1> DEFINE T == {n \in Nat : \E s \in SUBSET S : Cardinality(s) = n /\ ~Good(s)}
<1>3. T = {}
  <2>1. SUFFICES ASSUME T # {} PROVE FALSE OBVIOUS
  <2>2. T \in SUBSET Nat OBVIOUS
  <2>3. PICK m \in T : \A k \in T : m <= k BY <2>1, <2>2, Smallest
  <2>4. PICK s \in SUBSET S : Cardinality(s) = m /\ ~Good(s) OBVIOUS
  <2>5. s # {} BY <1>1, <2>4
  <2>6. PICK x \in S : x \in s BY <2>5
  <2>7. PICK t \in SUBSET S : t = s \ {x} OBVIOUS
  <2>8. m \in Nat /\ Cardinality(t) = m - 1 /\ Cardinality(t) \in Nat BY <1>c, <1>r, <2>4, <2>6, <2>7
  <2>9. m - 1 \notin T /\ m - 1 \in Nat BY <2>3, <2>8
  <2>10. Good(t) BY <2>8, <2>9
  <2>11. F(s) = f[x] + F(t) /\ H(s) = h[x] + H(t) /\ F(t) \in Int /\ H(t) \in Int /\ f[x] \in Int /\ h[x] \in Int
     BY <1>1, <1>2, <1>2h, <2>6, <2>7
  <2> HIDE DEF T
  <2> QED BY <2>4, <2>6, <2>10, <2>11
<1>4. Good(S) BY <1>3, <1>c
<1> QED BY <1>4 DEF F, H

\* Two sets without a common element have their sums added.
LEMMA SumOfUnion == ASSUME NEW S, IsFiniteSet(S), NEW f, \A x \in S : f[x] \in Int
                    PROVE \A a, b \in SUBSET S : a \cap b = {} =>
                              Cpu!SumFunctionOnSet(f, a \cup b) = Cpu!SumFunctionOnSet(f, a) + Cpu!SumFunctionOnSet(f, b)
<1> DEFINE F(s) == Cpu!SumFunctionOnSet(f, s)
<1>1. \A s \in SUBSET S : F(s) \in Int /\ (s = {} => F(s) = 0) BY SumOfSubsets
<1>2. \A s \in SUBSET S, x \in S : x \in s => F(s) = f[x] + F(s \ {x}) BY SumWithout
<1> HIDE DEF F
<1>c. \A s \in SUBSET S : IsFiniteSet(s) /\ Cardinality(s) \in Nat BY FS_Subset, FS_CardinalityType
<1>r. \A s \in SUBSET S, x \in S : x \in s => Cardinality(s \ {x}) = Cardinality(s) - 1 BY <1>c, SmallerSet
<1> DEFINE Good(b) == \A a \in SUBSET S : a \cap b = {} => F(a \cup b) = F(a) + F(b)
<1> DEFINE T == {n \in Nat : \E s \in SUBSET S : Cardinality(s) = n /\ ~Good(s)}
<1>3. T = {}
  <2>1. SUFFICES ASSUME T # {} PROVE FALSE OBVIOUS
  <2>2. T \in SUBSET Nat OBVIOUS
  <2>3. PICK m \in T : \A k \in T : m <= k BY <2>1, <2>2, Smallest
  <2>4. PICK b \in SUBSET S : Cardinality(b) = m /\ ~Good(b) OBVIOUS
  <2>5. b # {}
    <3>1. SUFFICES ASSUME b = {} PROVE Good(b) BY <2>4
    <3>2. \A a \in SUBSET S : a \cup b = a BY <3>1
    <3> QED BY <1>1, <3>1, <3>2
  <2>6. PICK x \in S : x \in b BY <2>5
  <2>7. PICK t \in SUBSET S : t = b \ {x} OBVIOUS
  <2>8. m \in Nat /\ Cardinality(t) = m - 1 /\ Cardinality(t) \in Nat BY <1>c, <1>r, <2>4, <2>6, <2>7
  <2>9. m - 1 \notin T /\ m - 1 \in Nat BY <2>3, <2>8
  <2>10. Good(t) BY <2>8, <2>9
  <2>11. Good(b)
    <3>1. SUFFICES ASSUME NEW a \in SUBSET S, a \cap b = {} PROVE F(a \cup b) = F(a) + F(b) OBVIOUS
    <3>2. a \cap t = {} /\ (a \cup b) \ {x} = a \cup t /\ a \cup b \in SUBSET S /\ x \in a \cup b /\ a \cup t \in SUBSET S
       BY <2>6, <2>7, <3>1
    <3>3. F(a \cup t) = F(a) + F(t) BY <2>10, <3>2
    <3>4. F(a \cup b) = f[x] + F(a \cup t) BY <1>2, <3>2
    <3>5. F(b) = f[x] + F(t) BY <1>2, <2>6, <2>7
    <3>6. F(a) \in Int /\ F(t) \in Int /\ f[x] \in Int /\ F(a \cup t) \in Int BY <1>1, <3>2
    <3> HIDE DEF T, Good
    <3> QED BY <3>3, <3>4, <3>5, <3>6
  <2> QED BY <2>4, <2>11
<1>4. \A b \in SUBSET S : Good(b) BY <1>3, <1>c
<1> QED BY <1>4 DEF F

-----------------------------------------------------------------------------
(* The control socket (ControlPlane). *)

\* What the variables of the plane hold; a client's line has a number that no line after it has.
Byte == [line : Nat \ {0}, end : BOOLEAN, silent : BOOLEAN]
Client == [state : {"off", "on", "half", "deaf", "gone"}, line : Nat \ {0}, size : Nat,
           typed : Nat, clients : Nat]
Listener == [does : {"accept", "head", "read", "write", "send", "wait", "ended"},
             got : Seq(Byte), line : Nat, answer : Int]
Told == [line : Nat \ {0}, about : Int]
PlaneTypes ==
    /\ client \in Client /\ bytes \in Seq(Byte) /\ listener \in Listener
    /\ channel \in Seq(Nat) /\ executed \in Seq(Nat)
    /\ plane \in {"up", "joining", "dropped"}
    /\ past \subseteq Nat /\ torn \subseteq Nat /\ abandoned \subseteq Nat
    /\ told \in Seq(Told)
    /\ client.state = "off" => listener.does \in {"accept", "ended"}
    /\ listener.does \in {"send", "wait", "write"} => listener.line # 0

\* The listener holds the first bytes of a line, or answers for one that is too long, or is
\* at a whole one; a line is begun once its first byte is read; Spent: no command of line n
\* or of a later one has been sent, carried out or answered.
Holding(l) == l.does = "read" /\ l.got # <<>>
HeldLine(l) == l.got[1].line
Doomed == listener.does = "write" /\ listener.answer = Plane!TooLarge
Busy == listener.does \in {"send", "wait", "write"} /\ ~Doomed
Begun(t, l, n) == n \in t \/ (Holding(l) /\ HeldLine(l) = n)
Opens(s, n) == \E j \in 1..Len(s) : ~s[j].end /\ s[j].line = n
Over(s, n) == \A i \in 1..Len(s) : s[i] < n
OverTold(t, n) == \A i \in 1..Len(t) : t[i].line < n
Spent(e, c, t, n) == Over(e, n) /\ Over(c, n) /\ OverTold(t, n)
Done(e, n) == \E j \in 1..Len(e) : e[j] = n

\* The stream is the lines in order, each without a gap, up to the one that is being typed.
NonePending == (client.state # "on" => client.size = 0) /\ (client.state = "off" => bytes = <<>>)
Within(s, c) == \A i \in 1..Len(s) : s[i].line <= c.line /\ (s[i].end \/ c.size = 0 => s[i].line < c.line)
InOrder(s) == \A i, j \in 1..Len(s) : i < j => s[i].line <= s[j].line /\ (s[i].end => s[i].line < s[j].line)
Joint(s) == \A i \in 1..Len(s) : i + 1 \in 1..Len(s) /\ ~s[i].end => s[i + 1].line = s[i].line
StreamOrdered ==
  /\ NonePending
  /\ Within(bytes, client)
  /\ InOrder(bytes) /\ Joint(bytes)
  /\ client.state = "on" /\ bytes # <<>> /\ ~bytes[Len(bytes)].end => bytes[Len(bytes)].line = client.line

\* The line in hand goes on with the first byte of the stream.
HeldOrdered ==
  Holding(listener) =>
    /\ HeldLine(listener) <= client.line /\ (client.size = 0 => HeldLine(listener) < client.line)
    /\ bytes # <<>> => bytes[1].line = HeldLine(listener)
    /\ client.state = "on" /\ bytes = <<>> => HeldLine(listener) = client.line

\* What is left of a line has its beginning before it, unless the line is given up.
LinesBegun ==
  ~Doomed =>
    /\ \A i \in 1..Len(bytes) : bytes[i].end /\ ~bytes[i].silent => Begun(torn, listener, bytes[i].line) \/ Opens(bytes, bytes[i].line)
    /\ client.size # 0 => Begun(torn, listener, client.line) \/ Opens(bytes, client.line)

\* Whatever is still to be read is later than all that has been sent, carried out or told.
SpentFirst ==
  /\ Spent(executed, channel, told, client.line)
  /\ \A i \in 1..Len(bytes) : Spent(executed, channel, told, bytes[i].line)
  /\ Holding(listener) => Spent(executed, channel, told, HeldLine(listener))

\* The channel goes on where the worker is.
CarriedOut ==
  /\ Plane!Increasing(executed) /\ Plane!Increasing(channel)
  /\ \A i \in 1..Len(executed), j \in 1..Len(channel) : executed[i] < channel[j]

\* The line that the listener is at lies between what was told and what is to be read.
ToldLines == {told[i].line : i \in 1..Len(told)}
BusyLine ==
  Busy => /\ listener.line < client.line
          /\ \A i \in 1..Len(bytes) : listener.line < bytes[i].line
          /\ \A i \in 1..Len(told) : told[i].line < listener.line
          /\ listener.does = "send" => Over(executed, listener.line) /\ Over(channel, listener.line)
          /\ listener.does = "write" => listener.answer \in {Plane!TimedOut, Plane!Invalid}
                                        \/ (listener.answer = listener.line /\ Done(executed, listener.line))

\* The answers given, and the lines that still wait for theirs.
Answered ==
  /\ \A i, j \in 1..Len(told) : i < j => told[i].line < told[j].line
  /\ \A i \in 1..Len(told) : told[i].about \in {Plane!TimedOut, Plane!Invalid}
                            \/ (told[i].about = told[i].line /\ Done(executed, told[i].line))
  /\ Busy => past \ torn \subseteq ToldLines \cup {listener.line}
  /\ listener.does \in {"head", "read"} => past \ torn \subseteq ToldLines
  /\ listener.does \in {"accept", "ended"} => past = {} /\ told = <<>>

\* All but the newest command of the channel have been given up.
Bounded ==
  /\ Len(channel) <= Depth
  /\ \A i \in 1..Len(channel) : channel[i] \in abandoned \/ (listener.does = "wait" /\ channel[i] = listener.line)
PlaneInv == /\ StreamOrdered /\ HeldOrdered /\ LinesBegun /\ SpentFirst /\ CarriedOut /\ BusyLine /\ Answered /\ Bounded

USE DEF Plane!TimedOut, Plane!Invalid, Plane!TooLarge

\* What is a number in the state of the plane.
LEMMA PlaneNumbers == ASSUME PlaneTypes PROVE
      /\ client.line \in Nat /\ client.size \in Nat
      /\ Len(bytes) \in Nat /\ \A i \in 1..Len(bytes) : bytes[i].line \in Nat
      /\ listener.line \in Nat /\ listener.answer \in Int
      /\ listener.got # <<>> => HeldLine(listener) \in Nat /\ listener.got[1] \in Byte
      /\ Len(channel) \in Nat /\ \A i \in 1..Len(channel) : channel[i] \in Nat
      /\ Len(executed) \in Nat /\ \A i \in 1..Len(executed) : executed[i] \in Nat
      /\ Len(told) \in Nat /\ \A i \in 1..Len(told) : told[i].line \in Nat /\ told[i].about \in Int
<1>0. /\ client \in Client /\ bytes \in Seq(Byte) /\ listener \in Listener
      /\ channel \in Seq(Nat) /\ executed \in Seq(Nat)
      /\ told \in Seq(Told)
      BY DEF PlaneTypes
<1>1. client.line \in Nat /\ client.size \in Nat BY <1>0 DEF Client
<1>2. listener.line \in Nat /\ listener.answer \in Int /\ listener.got \in Seq(Byte) BY <1>0 DEF Listener
<1>3. \A b \in Byte : b.line \in Nat BY DEF Byte
<1>4. listener.got # <<>> => HeldLine(listener) \in Nat /\ listener.got[1] \in Byte BY <1>2, <1>3 DEF HeldLine
<1>5. Len(bytes) \in Nat /\ \A i \in 1..Len(bytes) : bytes[i].line \in Nat BY <1>0, <1>3
<1>6. \A b \in Told : b.line \in Nat /\ b.about \in Int BY DEF Told
<1>7. Len(told) \in Nat /\ \A i \in 1..Len(told) : told[i].line \in Nat /\ told[i].about \in Int BY <1>0, <1>6
<1> QED BY <1>0, <1>1, <1>2, <1>4, <1>5, <1>7

\* Nothing that only the threads' variables say changes when they stand still.
LEMMA ThreadsStand == ASSUME PlaneInv, UNCHANGED Plane!threads PROVE (CarriedOut /\ Answered /\ Bounded)'
<1>1. UNCHANGED <<listener, channel, executed, past, torn, abandoned, told>> BY DEF Plane!threads
<1>2. CarriedOut' BY <1>1 DEF PlaneInv, CarriedOut, Plane!Increasing
<1>3. Answered' BY <1>1 DEF PlaneInv, Answered, Busy, Doomed, ToldLines, Done
<1>4. Bounded' BY <1>1 DEF PlaneInv, Bounded
<1> QED BY <1>2, <1>3, <1>4

\* A client connects to a plane that has nothing of the one before.
LEMMA ConnectHolds == ASSUME PlaneTypes, PlaneInv, Plane!Connect PROVE PlaneInv'
<1>0. client.line \in Nat /\ client.size \in Nat BY PlaneNumbers
<1>1. client' = [client EXCEPT !.state = "on", !.clients = @ + 1] /\ client.state = "off"
      BY DEF Plane!Connect
<1>2. client'.line = client.line /\ client'.size = client.size /\ client \in Client BY <1>1 DEF PlaneTypes, Client
<1>3. UNCHANGED <<bytes, Plane!threads>> BY DEF Plane!Connect
<1>4. client.size = 0 /\ bytes = <<>> BY <1>1, <1>2 DEF PlaneInv, StreamOrdered, NonePending
<1>5. StreamOrdered' BY <1>2, <1>3, <1>4 DEF StreamOrdered, NonePending, Within, InOrder, Joint
<1>6. ~Holding(listener) BY <1>1 DEF Holding, PlaneTypes
<1>7. HeldOrdered' BY <1>3, <1>6 DEF HeldOrdered, Holding, Plane!threads
<1>8. LinesBegun' BY <1>2, <1>3, <1>4 DEF PlaneInv, LinesBegun, Plane!threads, Begun, Opens, Holding, HeldLine, Doomed
<1>9. SpentFirst' BY <1>2, <1>3 DEF PlaneInv, SpentFirst, Plane!threads, Spent, Over, OverTold, Holding, HeldLine
<1>10. BusyLine' BY <1>2, <1>3 DEF PlaneInv, BusyLine, Plane!threads, Busy, Doomed, Over, Done
<1>11. (CarriedOut /\ Answered /\ Bounded)' BY <1>3, ThreadsStand
<1> QED BY <1>5, <1>7, <1>8, <1>9, <1>10, <1>11 DEF PlaneInv

\* A byte of a line goes to the end of the stream.
LEMMA TypeHolds == ASSUME PlaneTypes, PlaneInv, NEW end \in BOOLEAN, NEW silent \in BOOLEAN, Plane!Type(end, silent) PROVE PlaneInv'
<1>0. client.line \in Nat /\ client.size \in Nat BY PlaneNumbers
<1>b. Len(bytes) \in Nat /\ \A i \in 1..Len(bytes) : bytes[i].line \in Nat BY PlaneNumbers
<1>1. client' = [client EXCEPT !.typed = @ + 1, !.size = IF end THEN 0 ELSE @ + 1,
                                !.line = IF end THEN @ + 1 ELSE @] /\ client.state = "on"
      BY DEF Plane!Type
<1>c. client \in Client BY DEF PlaneTypes
<1>2. /\ client'.line = IF end THEN client.line + 1 ELSE client.line
      /\ client'.size = IF end THEN 0 ELSE client.size + 1
      /\ client'.state = "on"
      BY <1>1, <1>c DEF Client
<1>3. UNCHANGED Plane!threads BY DEF Plane!Type
<1>4. PICK byte : byte = [line |-> client.line, end |-> end, silent |-> silent] OBVIOUS
<1>5. /\ byte.line = client.line /\ byte.end = end /\ (byte.end /\ ~byte.silent => client.size # 0)
  BY <1>4 DEF Plane!Type
<1>6. bytes' = Append(bytes, byte) /\ bytes \in Seq(Byte) BY <1>4 DEF Plane!Type, PlaneTypes
<1>7. /\ Len(bytes') = Len(bytes) + 1 /\ bytes' # <<>> /\ bytes'[Len(bytes) + 1] = byte
      /\ \A i \in 1..Len(bytes) : bytes'[i] = bytes[i]
   BY <1>6
<1>8. \A i \in 1..Len(bytes') : i = Len(bytes) + 1 \/ i \in 1..Len(bytes) BY <1>7, <1>b
<1>9. StreamOrdered'
  <2>1. Within(bytes', client') BY <1>0, <1>b, <1>2, <1>5, <1>7, <1>8 DEF PlaneInv, StreamOrdered, Within
  <2>2. InOrder(bytes') BY <1>0, <1>b, <1>2, <1>5, <1>7, <1>8 DEF PlaneInv, StreamOrdered, InOrder, Within
  <2>3. Joint(bytes')
    <3>1. \A i \in 1..Len(bytes) : i + 1 \in 1..Len(bytes) /\ ~bytes[i].end => bytes[i + 1].line = bytes[i].line
       BY DEF PlaneInv, StreamOrdered, Joint
    <3>2. bytes # <<>> /\ ~bytes[Len(bytes)].end => bytes[Len(bytes)].line = client.line
       BY <1>1 DEF PlaneInv, StreamOrdered
    <3>3. \A i \in 1..Len(bytes') : i + 1 \in 1..Len(bytes') => (i \in 1..Len(bytes) /\ (i = Len(bytes) \/ i + 1 \in 1..Len(bytes)))
       BY <1>7, <1>b
    <3>4. Len(bytes) \in 1..Len(bytes) => bytes # <<>> BY <1>6
    <3> QED BY <3>1, <3>2, <3>3, <3>4, <1>5, <1>7, <1>b DEF Joint
  <2>4. ~bytes'[Len(bytes')].end => bytes'[Len(bytes')].line = client'.line BY <1>2, <1>5, <1>7
  <2>5. NonePending' BY <1>2 DEF NonePending
  <2> QED BY <2>1, <2>2, <2>3, <2>4, <2>5 DEF StreamOrdered
<1>10. Holding(listener') = Holding(listener) /\ HeldLine(listener') = HeldLine(listener) /\ Doomed' = Doomed /\ torn' = torn BY <1>3 DEF Holding, HeldLine, Doomed, Plane!threads
<1>h. Holding(listener) => HeldLine(listener) \in Nat BY PlaneNumbers DEF Holding
<1>11. HeldOrdered'
  <2> SUFFICES ASSUME Holding(listener) PROVE HeldOrdered' BY <1>10 DEF HeldOrdered
  <2>1. HeldLine(listener) <= client.line /\ (client.size = 0 => HeldLine(listener) < client.line) BY DEF PlaneInv, HeldOrdered
  <2>2. HeldLine(listener) <= client'.line /\ (client'.size = 0 => HeldLine(listener) < client'.line)
     BY <2>1, <1>0, <1>2, <1>h
  <2>3. bytes'[1].line = HeldLine(listener)
    <3>1. CASE bytes = <<>> BY <3>1, <1>1, <1>7, <1>5 DEF PlaneInv, HeldOrdered
    <3>2. CASE bytes # <<>>
      <4>1. 1 \in 1..Len(bytes) BY <3>2, <1>6
      <4> QED BY <3>2, <4>1, <1>7 DEF PlaneInv, HeldOrdered
    <3> QED BY <3>1, <3>2
  <2> QED BY <1>10, <2>2, <2>3, <1>7 DEF HeldOrdered
<1>12. LinesBegun'
  <2> SUFFICES ASSUME ~Doomed PROVE LinesBegun' BY <1>10 DEF LinesBegun
  <2>0. \A n : Begun(torn', listener', n) <=> Begun(torn, listener, n) BY <1>10 DEF Begun
  <2>1. \A n : Opens(bytes, n) => Opens(bytes', n) BY <1>7, <1>8, <1>b DEF Opens
  <2>2. \A i \in 1..Len(bytes) : bytes[i].end /\ ~bytes[i].silent => Begun(torn, listener, bytes[i].line) \/ Opens(bytes, bytes[i].line)
    BY DEF PlaneInv, LinesBegun
  <2>3. client.size # 0 => Begun(torn, listener, client.line) \/ Opens(bytes, client.line) BY DEF PlaneInv, LinesBegun
  <2>4. \A i \in 1..Len(bytes') : bytes'[i].end /\ ~bytes'[i].silent => Begun(torn', listener', bytes'[i].line) \/ Opens(bytes', bytes'[i].line)
    BY <2>0, <2>1, <2>2, <2>3, <1>5, <1>7, <1>8
  <2>5. ~end => Opens(bytes', client.line) BY <1>5, <1>7, <1>b DEF Opens
  <2>6. client'.size # 0 => Begun(torn', listener', client'.line) \/ Opens(bytes', client'.line) BY <1>2, <2>5
  <2> QED BY <2>4, <2>6, <1>10 DEF LinesBegun
<1>13. SpentFirst'
  <2>1. \A n \in Nat : Spent(executed, channel, told, n) => Spent(executed', channel', told', n) /\ Spent(executed', channel', told', n + 1)
    BY PlaneNumbers, <1>3 DEF Plane!threads, Spent, Over, OverTold
  <2>2. Spent(executed', channel', told', client'.line) /\ Spent(executed', channel', told', client.line) BY <1>0, <1>2, <2>1 DEF PlaneInv, SpentFirst
  <2>3. \A i \in 1..Len(bytes') : Spent(executed', channel', told', bytes'[i].line) BY <1>5, <1>7, <1>8, <1>b, <2>1, <2>2 DEF PlaneInv, SpentFirst
  <2>4. Holding(listener) => Spent(executed', channel', told', HeldLine(listener)) BY <2>1, <1>h DEF PlaneInv, SpentFirst
  <2> QED BY <1>10, <2>2, <2>3, <2>4 DEF SpentFirst
<1>14. BusyLine'
  <2> SUFFICES ASSUME Busy PROVE BusyLine' BY <1>3 DEF BusyLine, Busy, Doomed, Plane!threads
  <2>1. listener.line < client.line /\ \A i \in 1..Len(bytes) : listener.line < bytes[i].line BY DEF PlaneInv, BusyLine
  <2>2. listener.line \in Nat BY PlaneNumbers
  <2>3. listener.line < client'.line /\ \A i \in 1..Len(bytes') : listener.line < bytes'[i].line
      BY <2>1, <2>2, <1>0, <1>2, <1>5, <1>7, <1>8
  <2> QED BY <2>3, <1>3 DEF PlaneInv, BusyLine, Plane!threads, Busy, Doomed, Over, Done
<1>15. (CarriedOut /\ Answered /\ Bounded)' BY <1>3, ThreadsStand
<1> QED BY <1>9, <1>11, <1>12, <1>13, <1>14, <1>15 DEF PlaneInv

\* What is over before a line is over before a later one.
LEMMA SpentLater == ASSUME PlaneTypes, NEW m \in Nat, NEW n \in Nat, m <= n, Spent(executed, channel, told, m)
                    PROVE Spent(executed, channel, told, n)
BY PlaneNumbers DEF Spent, Over, OverTold

\* A client that closes a direction leaves the line it was at.
LEMMA TurnsHolds == ASSUME PlaneTypes, PlaneInv, NEW from, NEW to \in {"half", "deaf", "gone"},
                           from \subseteq {"on", "half", "deaf"}, Plane!Turns(from, to) PROVE PlaneInv'
<1>0. client.line \in Nat /\ client.size \in Nat BY PlaneNumbers
<1>b. Len(bytes) \in Nat /\ \A i \in 1..Len(bytes) : bytes[i].line \in Nat BY PlaneNumbers
<1>1. client' = [client EXCEPT !.state = to, !.size = 0, !.line = IF client.size = 0 THEN @ ELSE @ + 1]
      /\ client.state \in from
      BY DEF Plane!Turns
<1>c. client \in Client BY DEF PlaneTypes
<1>2. /\ client'.line = (IF client.size = 0 THEN client.line ELSE client.line + 1)
      /\ client'.size = 0 /\ client'.state \notin {"on", "off"}
      BY <1>1, <1>c DEF Client
<1>3. UNCHANGED <<bytes, Plane!threads>> BY DEF Plane!Turns
<1>4. client.line <= client'.line /\ client'.line \in Nat BY <1>0, <1>2
<1>5. StreamOrdered'
  <2>1. Within(bytes', client') BY <1>0, <1>b, <1>2, <1>3 DEF PlaneInv, StreamOrdered, Within
  <2>2. InOrder(bytes') /\ Joint(bytes') BY <1>3 DEF PlaneInv, StreamOrdered
  <2> QED BY <2>1, <2>2, <1>2 DEF StreamOrdered, NonePending
<1>6. listener' = listener /\ Doomed' = Doomed BY <1>3 DEF Doomed, Plane!threads
<1>h. Holding(listener) => HeldLine(listener) \in Nat BY PlaneNumbers DEF Holding
<1>7. HeldOrdered' BY <1>0, <1>2, <1>3, <1>6, <1>h DEF PlaneInv, HeldOrdered
<1>8. LinesBegun' BY <1>2, <1>3 DEF PlaneInv, LinesBegun, Plane!threads, Doomed
<1>9. SpentFirst' BY <1>0, <1>3, <1>4, SpentLater DEF PlaneInv, SpentFirst, Plane!threads
<1>10. BusyLine'
  <2>1. listener.line \in Nat BY PlaneNumbers
  <2> QED BY <2>1, <1>0, <1>3, <1>4 DEF PlaneInv, BusyLine, Plane!threads, Busy, Doomed
<1>11. (CarriedOut /\ Answered /\ Bounded)' BY <1>3, ThreadsStand
<1> QED BY <1>5, <1>7, <1>8, <1>9, <1>10, <1>11 DEF PlaneInv

\* The listener that gives a client up forgets its lines and its answers.
LEMMA ClosesHolds == ASSUME PlaneTypes, PlaneInv, Plane!Closes, listener.does \in {"head", "read", "write"},
                            UNCHANGED <<channel, plane, executed, torn, abandoned>> PROVE PlaneInv'
<1>0. client.line \in Nat /\ client.size \in Nat BY PlaneNumbers
<1>1. client' = [client EXCEPT !.state = "off", !.size = 0, !.line = IF client.size = 0 THEN @ ELSE @ + 1]
      BY DEF Plane!Closes
<1>c. client \in Client /\ listener \in Listener BY DEF PlaneTypes
<1>2. /\ client'.line = (IF client.size = 0 THEN client.line ELSE client.line + 1)
      /\ client'.size = 0 /\ client'.state = "off"
      BY <1>1, <1>c DEF Client
<1>3. bytes' = <<>> /\ past' = {} /\ told' = <<>> BY DEF Plane!Closes
<1>4. client.line <= client'.line /\ client'.line \in Nat BY <1>0, <1>2
<1>5. Len(bytes') = 0 /\ Len(told') = 0 BY <1>3
<1>6. listener'.does = "accept" BY <1>c DEF Plane!Closes, Listener
<1>7. ~Holding(listener') /\ ~Busy' /\ ~Doomed' BY <1>6 DEF Holding, Busy, Doomed
<1>8. StreamOrdered' BY <1>2, <1>3, <1>5 DEF StreamOrdered, NonePending, Within, InOrder, Joint
<1>9. HeldOrdered' /\ BusyLine' BY <1>7 DEF HeldOrdered, BusyLine
<1>10. LinesBegun' BY <1>2, <1>5 DEF LinesBegun
<1>11. SpentFirst'
  <2>1. Spent(executed, channel, told, client'.line) BY <1>0, <1>4, SpentLater DEF PlaneInv, SpentFirst
  <2>2. Spent(executed', channel', told', client'.line) BY <2>1, <1>5 DEF Spent, OverTold
  <2> QED BY <2>2, <1>5, <1>7 DEF SpentFirst
<1>12. CarriedOut' BY DEF PlaneInv, CarriedOut, Plane!Increasing
<1>13. Answered' BY <1>3, <1>5, <1>6, <1>7 DEF Answered
<1>14. Bounded' BY DEF PlaneInv, Bounded
<1> QED BY <1>8, <1>9, <1>10, <1>11, <1>12, <1>13, <1>14 DEF PlaneInv

\* Without a line in hand or a doomed one, the stream is as ordered as it was.
LEMMA NothingHeld == ASSUME PlaneInv, UNCHANGED <<client, bytes, torn>>, ~Doomed, ~Holding(listener), ~Holding(listener')
                     PROVE StreamOrdered' /\ HeldOrdered' /\ LinesBegun'
<1>1. StreamOrdered' BY DEF PlaneInv, StreamOrdered, NonePending
<1>2. HeldOrdered' BY DEF HeldOrdered
<1>3. \A n : Begun(torn, listener, n) => Begun(torn', listener', n) BY DEF Begun
<1>4. LinesBegun' BY <1>3 DEF PlaneInv, LinesBegun
<1> QED BY <1>1, <1>2, <1>4

\* accept, or the end of the listener's loop.
LEMMA AcceptHolds == ASSUME PlaneTypes, PlaneInv, Plane!Accept PROVE PlaneInv'
<1>l. listener \in Listener BY DEF PlaneTypes
<1>1. listener.does = "accept" /\ UNCHANGED <<client, bytes, channel, plane, executed, past, torn, abandoned, told>>
  BY DEF Plane!Accept
<1>2. listener'.does \in {"ended", "head"} BY <1>l DEF Plane!Accept, Listener
<1>3. ~Doomed /\ ~Doomed' /\ ~Busy' /\ ~Holding(listener) /\ ~Holding(listener') BY <1>1, <1>2 DEF Doomed, Busy, Holding
<1>4. StreamOrdered' /\ HeldOrdered' /\ LinesBegun' BY <1>1, <1>3, NothingHeld
<1>5. SpentFirst' BY <1>1, <1>3 DEF PlaneInv, SpentFirst
<1>6. CarriedOut' BY <1>1 DEF PlaneInv, CarriedOut, Plane!Increasing
<1>7. BusyLine' BY <1>3 DEF BusyLine
<1>8. past = {} /\ told = <<>> BY <1>1 DEF PlaneInv, Answered
<1>9. Len(told') = 0 /\ past' = {} /\ told' = <<>> BY <1>1, <1>8
<1>10. Answered' BY <1>9 DEF Answered
<1>11. Bounded' BY <1>1 DEF PlaneInv, Bounded
<1> QED BY <1>4, <1>5, <1>6, <1>7, <1>10, <1>11 DEF PlaneInv

\* The head of the loop: the flag is looked at, and the next line begun.
LEMMA ReadOnHolds == ASSUME PlaneTypes, PlaneInv, Plane!ReadOn PROVE PlaneInv'
<1>l. listener \in Listener BY DEF PlaneTypes
<1>1. listener.does = "head" /\ UNCHANGED <<channel, plane, executed, torn, abandoned>> BY DEF Plane!ReadOn
<1>2. CASE plane # "up" BY <1>1, <1>2, ClosesHolds DEF Plane!ReadOn
<1>3. CASE plane = "up"
  <2>1. listener' = [listener EXCEPT !.does = "read", !.got = <<>>] /\ UNCHANGED <<client, bytes, past, told>>
     BY <1>3 DEF Plane!ReadOn
  <2>2. listener'.does = "read" /\ listener'.got = <<>> BY <1>l, <2>1 DEF Listener
  <2>3. ~Doomed /\ ~Doomed' /\ ~Busy' /\ ~Holding(listener) /\ ~Holding(listener') BY <1>1, <2>2 DEF Doomed, Busy, Holding
  <2>4. StreamOrdered' /\ HeldOrdered' /\ LinesBegun' BY <1>1, <2>1, <2>3, NothingHeld
  <2>5. SpentFirst' BY <1>1, <2>1, <2>3 DEF PlaneInv, SpentFirst
  <2>6. CarriedOut' BY <1>1 DEF PlaneInv, CarriedOut, Plane!Increasing
  <2>7. BusyLine' BY <2>3 DEF BusyLine
  <2>8. Answered' BY <1>1, <2>1, <2>2, <2>3 DEF PlaneInv, Answered, ToldLines, Done
  <2>9. Bounded' BY <1>1 DEF PlaneInv, Bounded
  <2> QED BY <2>4, <2>5, <2>6, <2>7, <2>8, <2>9 DEF PlaneInv
<1> QED BY <1>2, <1>3

\* Elements and length of the tail of a sequence.
LEMMA TailOf == ASSUME NEW S, NEW s \in Seq(S), s # <<>>
                PROVE /\ 1 \in 1..Len(s) /\ Head(s) = s[1] /\ Tail(s) \in Seq(S)
                      /\ Len(s) \in Nat /\ Len(Tail(s)) = Len(s) - 1 /\ Len(Tail(s)) \in Nat
                      /\ \A i \in 1..Len(Tail(s)) : i + 1 \in 1..Len(s) /\ Tail(s)[i] = s[i + 1]
                      /\ \A i \in 1..Len(s) : i # 1 => i - 1 \in 1..Len(Tail(s)) /\ s[i] = Tail(s)[i - 1]
                      /\ Tail(s) # <<>> => 1 \in 1..Len(Tail(s)) /\ Len(Tail(s)) \in 1..Len(Tail(s))
<1>1. 1 \in 1..Len(s) /\ Head(s) = s[1] /\ Tail(s) \in Seq(S) /\ Len(s) \in Nat /\ Len(Tail(s)) = Len(s) - 1 /\ Len(Tail(s)) \in Nat
  OBVIOUS
<1>2. \A i \in 1..Len(Tail(s)) : i + 1 \in 1..Len(s) /\ Tail(s)[i] = s[i + 1] OBVIOUS
<1>3. \A i \in 1..Len(s) : i # 1 => i - 1 \in 1..Len(Tail(s)) BY <1>1
<1>4. \A i \in 1..Len(s) : i # 1 => s[i] = Tail(s)[i - 1] BY <1>1, <1>2, <1>3
<1>5. Tail(s) # <<>> => 1 \in 1..Len(Tail(s)) /\ Len(Tail(s)) \in 1..Len(Tail(s)) OBVIOUS
<1> QED BY <1>1, <1>2, <1>3, <1>4, <1>5

\* Elements and length of a sequence with one more element.
LEMMA AppendOf == ASSUME NEW S, NEW s \in Seq(S), NEW e \in S
                  PROVE /\ Len(s) \in Nat /\ Len(Append(s, e)) = Len(s) + 1
                        /\ \A i \in 1..Len(s) : Append(s, e)[i] = s[i]
                        /\ Append(s, e)[Len(s) + 1] = e
                        /\ \A i \in 1..Len(Append(s, e)) : i \in 1..Len(s) \/ i = Len(s) + 1
                        /\ \A i \in 1..Len(s) : i \in 1..Len(Append(s, e)) /\ i < Len(s) + 1
                        /\ Len(s) + 1 \in 1..Len(Append(s, e))
OBVIOUS

\* A byte is read: it goes to the line in hand, or ends it.
LEMMA ReadByteHolds == ASSUME PlaneTypes, PlaneInv, NEW sense \in Plane!Senses, Plane!ReadByte(sense) PROVE PlaneInv'
<1>l. listener \in Listener /\ listener.got \in Seq(Byte) BY DEF PlaneTypes, Listener
<1>0. client.line \in Nat /\ client.size \in Nat BY PlaneNumbers
<1>b. Len(bytes) \in Nat /\ \A i \in 1..Len(bytes) : bytes[i].line \in Nat BY PlaneNumbers
<1>1. listener.does = "read" /\ bytes # <<>> /\ UNCHANGED <<client, channel, plane, executed, torn, abandoned, told>>
  BY DEF Plane!ReadByte
<1>2. PICK byte : byte = Head(bytes) OBVIOUS
<1>3. bytes \in Seq(Byte) /\ bytes' = Tail(bytes) BY DEF PlaneTypes, Plane!ReadByte
<1>4. /\ 1 \in 1..Len(bytes) /\ byte = bytes[1] /\ Len(bytes') = Len(bytes) - 1 /\ Len(bytes') \in Nat
      /\ \A i \in 1..Len(bytes') : i + 1 \in 1..Len(bytes) /\ bytes'[i] = bytes[i + 1]
      /\ \A i \in 1..Len(bytes) : i # 1 => i - 1 \in 1..Len(bytes') /\ bytes[i] = bytes'[i - 1]
      /\ bytes' # <<>> => 1 \in 1..Len(bytes') /\ Len(bytes') \in 1..Len(bytes')
  BY <1>1, <1>2, <1>3, TailOf
<1>5. byte.line \in Nat /\ byte \in Byte BY <1>b, <1>3, <1>4
<1>6. StreamOrdered'
  <2>1. Within(bytes', client') BY <1>1, <1>4 DEF PlaneInv, StreamOrdered, Within
  <2>2. InOrder(bytes')
    <3>1. \A i, j \in 1..Len(bytes') : i < j => i + 1 < j + 1 OBVIOUS
    <3> QED BY <3>1, <1>4 DEF PlaneInv, StreamOrdered, InOrder
  <2>3. Joint(bytes')
    <3>1. \A i \in 1..Len(bytes') : i + 1 \in 1..Len(bytes') => /\ i + 1 \in 1..Len(bytes) /\ (i + 1) + 1 \in 1..Len(bytes)
                                                       /\ bytes'[i] = bytes[i + 1] /\ bytes'[i + 1] = bytes[(i + 1) + 1]
       BY <1>4
    <3> QED BY <3>1 DEF PlaneInv, StreamOrdered, Joint
  <2>4. NonePending' BY <1>0, <1>1, <1>4 DEF PlaneInv, StreamOrdered, NonePending
  <2>5. client'.state = "on" /\ bytes' # <<>> /\ ~bytes'[Len(bytes')].end => bytes'[Len(bytes')].line = client'.line
    <3>1. bytes' # <<>> => bytes'[Len(bytes')] = bytes[Len(bytes)] BY <1>4, <1>b
    <3> QED BY <3>1, <1>1 DEF PlaneInv, StreamOrdered
  <2> QED BY <2>1, <2>2, <2>3, <2>4, <2>5 DEF StreamOrdered
<1>7. CarriedOut' BY <1>1 DEF PlaneInv, CarriedOut, Plane!Increasing
<1>8. Bounded' BY <1>1 DEF PlaneInv, Bounded
<1>9. ~Doomed /\ past \ torn \subseteq ToldLines BY <1>1 DEF Doomed, PlaneInv, Answered
<1>10. Spent(executed, channel, told, byte.line) /\ Spent(executed, channel, told, client.line)
      /\ \A i \in 1..Len(bytes') : Spent(executed, channel, told, bytes'[i].line)
  BY <1>4 DEF PlaneInv, SpentFirst
<1>11. byte.line <= client.line /\ (byte.end \/ client.size = 0 => byte.line < client.line)
  BY <1>4 DEF PlaneInv, StreamOrdered, Within
<1>12. \A i \in 1..Len(bytes) : i # 1 => byte.line <= bytes[i].line /\ (byte.end => byte.line < bytes[i].line)
  BY <1>4, <1>b DEF PlaneInv, StreamOrdered, InOrder
<1>13. /\ \A i, j \in 1..Len(told) : i < j => told[i].line < told[j].line
       /\ \A i \in 1..Len(told) : told[i].about \in {0, -1} \/ (told[i].about = told[i].line /\ Done(executed, told[i].line))
  BY DEF PlaneInv, Answered
<1>14. CASE Len(listener.got) = Limit
  <2>1. listener' = [listener EXCEPT !.does = "write", !.line = byte.line, !.answer = -2]
    BY <1>2, <1>14 DEF Plane!ReadByte
  <2>2. listener'.does = "write" /\ listener'.answer = -2 BY <1>l, <2>1 DEF Listener
  <2>3. Doomed' /\ ~Busy' /\ ~Holding(listener') BY <2>2 DEF Doomed, Busy, Holding
  <2>4. HeldOrdered' /\ LinesBegun' /\ BusyLine' BY <2>3 DEF HeldOrdered, LinesBegun, BusyLine
  <2>5. SpentFirst' BY <2>3, <1>1, <1>10 DEF SpentFirst
  <2>6. Answered' BY <2>2, <2>3, <1>1, <1>13 DEF Answered
  <2> QED BY <2>4, <2>5, <2>6, <1>6, <1>7, <1>8 DEF PlaneInv
<1>15. CASE Len(listener.got) # Limit /\ byte.end
  <2>1. Plane!Complete(byte.line, sense) /\ (byte.line \notin torn => (sense = "nothing" <=> byte.silent))
    BY <1>2, <1>15 DEF Plane!ReadByte
  <2>2. listener' = [listener EXCEPT
        !.line = byte.line, !.answer = -1,
        !.does = IF listener.got = <<>> \/ sense = "nothing" THEN "head"
                 ELSE IF sense = "command" THEN "send" ELSE "write"] BY <2>1 DEF Plane!Complete
  <2>3. /\ listener'.line = byte.line /\ listener'.answer = -1
        /\ listener'.does \in {"head", "send", "write"}
        /\ (listener'.does = "head" <=> listener.got = <<>> \/ sense = "nothing")
     BY <1>l, <2>2 DEF Listener
  <2>4. ~Doomed' /\ ~Holding(listener') BY <2>3 DEF Doomed, Holding
  <2>5. HeldOrdered' BY <2>4 DEF HeldOrdered
  <2>6. SpentFirst' BY <2>4, <1>1, <1>10 DEF SpentFirst
  <2>7. BusyLine'
    <3>1. \A i \in 1..Len(bytes') : byte.line < bytes'[i].line BY <1>4, <1>12, <1>15, <1>b
    <3>2. Over(executed', byte.line) /\ Over(channel', byte.line) /\ \A i \in 1..Len(told') : told'[i].line < byte.line
      BY <1>1, <1>10 DEF Spent, OverTold
    <3> QED BY <3>1, <3>2, <2>3, <1>1, <1>11, <1>15 DEF BusyLine
  <2>8. \A n : Opens(bytes, n) => Opens(bytes', n) BY <1>4, <1>15 DEF Opens
  <2>9. \A n : n > byte.line /\ Begun(torn, listener, n) => Begun(torn', listener', n)
    BY <1>1, <1>4, <1>5 DEF PlaneInv, HeldOrdered, Begun
  <2>10. LinesBegun'
    <3>1. \A i \in 1..Len(bytes) : bytes[i].end /\ ~bytes[i].silent => Begun(torn, listener, bytes[i].line) \/ Opens(bytes, bytes[i].line)
       BY <1>9 DEF PlaneInv, LinesBegun
    <3>2. client.size # 0 => Begun(torn, listener, client.line) \/ Opens(bytes, client.line)
       BY <1>9 DEF PlaneInv, LinesBegun
    <3>3. \A i \in 1..Len(bytes') : bytes'[i].end /\ ~bytes'[i].silent => Begun(torn', listener', bytes'[i].line) \/ Opens(bytes', bytes'[i].line)
       <4>1. SUFFICES ASSUME NEW i \in 1..Len(bytes'), bytes'[i].end /\ ~bytes'[i].silent
                      PROVE Begun(torn', listener', bytes'[i].line) \/ Opens(bytes', bytes'[i].line) OBVIOUS
       <4>2. i + 1 \in 1..Len(bytes) /\ bytes'[i] = bytes[i + 1] /\ i + 1 # 1 BY <1>4
       <4>3. byte.line < bytes'[i].line BY <4>2, <1>12, <1>15
       <4>4. bytes'[i].line > byte.line BY <4>2, <4>3, <1>5, <1>b
       <4> QED BY <4>1, <4>2, <4>4, <3>1, <2>8, <2>9
    <3>4. client.size # 0 => Begun(torn', listener', client.line) \/ Opens(bytes', client.line)
       <4>1. client.line > byte.line BY <1>0, <1>5, <1>11, <1>15
       <4> QED BY <4>1, <3>2, <2>8, <2>9
    <3> QED BY <3>3, <3>4, <1>1 DEF LinesBegun
  <2>11. Answered'
    <3>1. past' = (IF byte.end /\ ~byte.silent THEN past \cup {byte.line} ELSE past) BY <1>2 DEF Plane!ReadByte
    <3>2. Busy' => past' \ torn' \subseteq ToldLines' \cup {listener'.line}
       BY <3>1, <2>3, <1>1, <1>9 DEF ToldLines
    <3>3. listener.got = <<>> /\ ~byte.silent => byte.line \in torn
      <4>1. ~Opens(bytes, byte.line)
         <5>1. SUFFICES ASSUME NEW j \in 1..Len(bytes), ~bytes[j].end, bytes[j].line = byte.line PROVE FALSE BY DEF Opens
         <5>2. j # 1 BY <5>1, <1>4, <1>15
         <5> QED BY <5>1, <5>2, <1>5, <1>12, <1>15
      <4>2. ~byte.silent => Begun(torn, listener, byte.line) \/ Opens(bytes, byte.line)
        BY <1>4, <1>9, <1>15 DEF PlaneInv, LinesBegun
      <4> QED BY <4>1, <4>2 DEF Begun, Holding
    <3>a. sense = "nothing" /\ ~byte.silent => byte.line \in torn BY <2>1
    <3>4. listener'.does = "head" => past' \ torn' \subseteq ToldLines'
       BY <3>1, <3>3, <3>a, <2>3, <1>1, <1>9 DEF ToldLines
    <3> QED BY <3>2, <3>4, <2>3, <1>1, <1>13 DEF Answered
  <2> QED BY <2>5, <2>6, <2>7, <2>10, <2>11, <1>6, <1>7, <1>8 DEF PlaneInv
<1>16. CASE Len(listener.got) # Limit /\ ~byte.end
  <2>1. listener' = [listener EXCEPT !.got = Append(listener.got, byte)] BY <1>2, <1>16 DEF Plane!ReadByte
  <2>2. listener'.does = "read" /\ listener'.got = Append(listener.got, byte) BY <1>l, <1>1, <2>1 DEF Listener
  <2>3. Append(listener.got, byte) # <<>> /\ Append(listener.got, byte)[1] = IF listener.got = <<>> THEN byte ELSE listener.got[1]
    <3>0. /\ Len(listener.got) \in Nat /\ Len(Append(listener.got, byte)) = Len(listener.got) + 1
          /\ \A i \in 1..Len(listener.got) : Append(listener.got, byte)[i] = listener.got[i]
          /\ Append(listener.got, byte)[Len(listener.got) + 1] = byte
       BY <1>l, <1>5, AppendOf
    <3>1. Append(listener.got, byte) # <<>>
      <4>1. Len(Append(listener.got, byte)) # 0 BY <3>0
      <4> QED BY <4>1
    <3>2. CASE listener.got = <<>> BY <3>0, <3>1, <3>2
    <3>3. CASE listener.got # <<>>
      <4>1. 1 \in 1..Len(listener.got) BY <3>3, <1>l
      <4> QED BY <3>0, <3>1, <3>3, <4>1
    <3> QED BY <3>2, <3>3
  <2>4. Holding(listener') /\ ~Busy' /\ ~Doomed' BY <2>2, <2>3 DEF Holding, Busy, Doomed
  <2>5. Holding(listener) => HeldLine(listener) = byte.line BY <1>1, <1>4 DEF PlaneInv, HeldOrdered
  <2>6. HeldLine(listener') = byte.line BY <2>2, <2>3, <2>5, <1>1 DEF Holding, HeldLine
  <2>7. HeldOrdered'
    <3>1. bytes' # <<>> => bytes'[1].line = byte.line
      <4>1. bytes' # <<>> => 1 + 1 \in 1..Len(bytes) /\ bytes'[1] = bytes[1 + 1] BY <1>4
      <4> QED BY <4>1, <1>4, <1>16 DEF PlaneInv, StreamOrdered, Joint
    <3>2. client'.state = "on" /\ bytes' = <<>> => byte.line = client'.line
      <4>1. bytes' = <<>> => Len(bytes) = 1 BY <1>4, <1>b
      <4> QED BY <4>1, <1>1, <1>4, <1>16 DEF PlaneInv, StreamOrdered
    <3> QED BY <3>1, <3>2, <2>6, <1>1, <1>11 DEF HeldOrdered
  <2>8. SpentFirst' BY <2>6, <1>1, <1>10 DEF SpentFirst
  <2>9. BusyLine' BY <2>4 DEF BusyLine
  <2>10. \A n : Begun(torn, listener, n) \/ Opens(bytes, n) => Begun(torn', listener', n) \/ Opens(bytes', n)
    <3>1. \A n : Begun(torn, listener, n) => Begun(torn', listener', n) BY <2>4, <2>5, <2>6, <1>1 DEF Begun
    <3>2. \A n : Opens(bytes, n) => n = byte.line \/ Opens(bytes', n) BY <1>4 DEF Opens
    <3>3. Begun(torn', listener', byte.line) BY <2>4, <2>6 DEF Begun
    <3> QED BY <3>1, <3>2, <3>3
  <2>11. LinesBegun'
    <3>1. \A i \in 1..Len(bytes) : bytes[i].end /\ ~bytes[i].silent => Begun(torn, listener, bytes[i].line) \/ Opens(bytes, bytes[i].line)
       BY <1>9 DEF PlaneInv, LinesBegun
    <3>2. client.size # 0 => Begun(torn, listener, client.line) \/ Opens(bytes, client.line)
       BY <1>9 DEF PlaneInv, LinesBegun
    <3>3. \A i \in 1..Len(bytes') : bytes'[i].end /\ ~bytes'[i].silent => Begun(torn', listener', bytes'[i].line) \/ Opens(bytes', bytes'[i].line)
       BY <3>1, <2>10, <1>4
    <3> QED BY <3>2, <3>3, <2>10, <1>1 DEF LinesBegun
  <2>12. Answered'
    <3>1. past' = past BY <1>2, <1>16 DEF Plane!ReadByte
    <3> QED BY <3>1, <2>2, <2>4, <1>1, <1>9, <1>13 DEF Answered, ToldLines
  <2> QED BY <2>7, <2>8, <2>9, <2>11, <2>12, <1>6, <1>7, <1>8 DEF PlaneInv
<1> QED BY <1>14, <1>15, <1>16

\* A read that times out gives the line in hand up, or looks at the flag again.
LEMMA ReadTimesOutHolds == ASSUME PlaneTypes, PlaneInv, Plane!ReadTimesOut PROVE PlaneInv'
<1>l. listener \in Listener BY DEF PlaneTypes
<1>0. Len(bytes) = 0 BY DEF Plane!ReadTimesOut
<1>1. listener.does = "read" /\ bytes = <<>> /\ client.state \in {"on", "deaf"}
      /\ UNCHANGED <<client, bytes, channel, plane, executed, past, abandoned, told>>
  BY DEF Plane!ReadTimesOut
<1>2. listener'.does = "head" BY <1>l DEF Plane!ReadTimesOut, Listener
<1>3. torn' = IF listener.got = <<>> THEN torn ELSE torn \cup {HeldLine(listener)} BY DEF Plane!ReadTimesOut, HeldLine
<1>4. ~Doomed /\ ~Doomed' /\ ~Busy' /\ ~Holding(listener') BY <1>1, <1>2 DEF Doomed, Busy, Holding
<1>5. StreamOrdered' BY <1>1 DEF PlaneInv, StreamOrdered, NonePending
<1>6. HeldOrdered' BY <1>4 DEF HeldOrdered
<1>7. LinesBegun'
  <2>1. \A n : Begun(torn, listener, n) => Begun(torn', listener', n) BY <1>3 DEF Begun, Holding
  <2> QED BY <2>1, <1>0, <1>1, <1>4 DEF PlaneInv, LinesBegun, Opens
<1>8. SpentFirst' BY <1>1, <1>4 DEF PlaneInv, SpentFirst
<1>9. CarriedOut' BY <1>1 DEF PlaneInv, CarriedOut, Plane!Increasing
<1>10. BusyLine' BY <1>4 DEF BusyLine
<1>11. Answered' BY <1>1, <1>2, <1>3, <1>4 DEF PlaneInv, Answered, ToldLines
<1>12. Bounded' BY <1>1 DEF PlaneInv, Bounded
<1> QED BY <1>5, <1>6, <1>7, <1>8, <1>9, <1>10, <1>11, <1>12 DEF PlaneInv

\* The end of the stream ends the line in hand too.
LEMMA EndOfStreamHolds == ASSUME PlaneTypes, PlaneInv, NEW sense, Plane!EndOfStream(sense) PROVE PlaneInv'
<1>l. listener \in Listener BY DEF PlaneTypes
<1>0. client.line \in Nat /\ client.size \in Nat BY PlaneNumbers
<1>1. listener.does = "read" /\ bytes = <<>> /\ client.state \in {"half", "gone"}
      /\ UNCHANGED <<channel, plane, executed, torn, abandoned>>
  BY DEF Plane!EndOfStream
<1>2. CASE listener.got = <<>> BY <1>1, <1>2, ClosesHolds DEF Plane!EndOfStream
<1>3. CASE listener.got # <<>>
  <2>1. Plane!Complete(listener.got[1].line, sense) /\ UNCHANGED <<client, bytes, past, told>>
    BY <1>3 DEF Plane!EndOfStream
  <2>2. listener' = [listener EXCEPT
        !.line = listener.got[1].line, !.answer = -1,
        !.does = IF listener.got = <<>> \/ sense = "nothing" THEN "head"
                 ELSE IF sense = "command" THEN "send" ELSE "write"] BY <2>1 DEF Plane!Complete
  <2>3. /\ listener'.line = HeldLine(listener) /\ listener'.answer = -1
        /\ listener'.does \in {"head", "send", "write"}
     BY <1>l, <1>3, <2>2 DEF Listener, HeldLine
  <2>4. ~Doomed' /\ ~Holding(listener') BY <2>3 DEF Doomed, Holding
  <2>h. Holding(listener) /\ Len(bytes) = 0 BY <1>1, <1>3 DEF Holding
  <2>5. client.size = 0 BY <1>1 DEF PlaneInv, StreamOrdered, NonePending
  <2>6. HeldLine(listener) < client.line BY <2>5, <2>h DEF PlaneInv, HeldOrdered
  <2>7. StreamOrdered' BY <1>1, <2>1 DEF PlaneInv, StreamOrdered, NonePending
  <2>8. HeldOrdered' BY <2>4 DEF HeldOrdered
  <2>9. LinesBegun' BY <1>1, <2>1, <2>5, <2>h DEF LinesBegun
  <2>10. SpentFirst' BY <1>1, <2>1, <2>4 DEF PlaneInv, SpentFirst
  <2>11. CarriedOut' BY <1>1 DEF PlaneInv, CarriedOut, Plane!Increasing
  <2>12. BusyLine'
    <3>1. Spent(executed, channel, told, HeldLine(listener)) BY <2>h DEF PlaneInv, SpentFirst
    <3> QED BY <3>1, <2>1, <2>3, <2>6, <2>h, <1>1 DEF BusyLine, Spent, OverTold
  <2>13. Answered' BY <1>1, <2>1, <2>3 DEF PlaneInv, Answered, ToldLines
  <2>14. Bounded' BY <1>1 DEF PlaneInv, Bounded
  <2> QED BY <2>7, <2>8, <2>9, <2>10, <2>11, <2>12, <2>13, <2>14 DEF PlaneInv
<1> QED BY <1>2, <1>3

\* An answer is written, or the client is gone.
LEMMA WriteHolds == ASSUME PlaneTypes, PlaneInv, Plane!Write PROVE PlaneInv'
<1>l. listener \in Listener BY DEF PlaneTypes
<1>0. listener.line \in Nat BY PlaneNumbers
<1>1. listener.does = "write" /\ UNCHANGED <<channel, plane, executed, torn, abandoned>>
  BY DEF Plane!Write
<1>2. CASE client.state = "gone" \/ listener.answer = -2 BY <1>1, <1>2, ClosesHolds DEF Plane!Write
<1>3. CASE ~(client.state = "gone" \/ listener.answer = -2)
  <2>1. PICK entry : entry = [line |-> listener.line, about |-> listener.answer] OBVIOUS
  <2>2. entry.line = listener.line /\ entry.about = listener.answer BY <2>1
  <2>3. told' = Append(told, entry) /\ listener' = [listener EXCEPT !.does = "head"] /\ UNCHANGED <<client, bytes, past>>
    BY <1>3, <2>1 DEF Plane!Write
  <2>4. listener'.does = "head" BY <1>l, <2>3 DEF Listener
  <2>5. ~Doomed /\ Busy /\ ~Doomed' /\ ~Busy' /\ ~Holding(listener) /\ ~Holding(listener')
     BY <1>1, <1>3, <2>4 DEF Doomed, Busy, Holding
  <2>6. StreamOrdered' /\ HeldOrdered' /\ LinesBegun' BY <1>1, <2>3, <2>5, NothingHeld
  <2>a. told \in Seq(Told) /\ entry \in Told
     <3>1. listener.line # 0 /\ told \in Seq(Told) BY <1>1 DEF PlaneTypes
     <3>2. listener.line \in Nat \ {0} /\ listener.answer \in Int BY <3>1, PlaneNumbers
     <3> QED BY <2>1, <3>1, <3>2 DEF Told
  <2>b. /\ Len(told) \in Nat /\ Len(told') = Len(told) + 1
        /\ \A i \in 1..Len(told) : told'[i] = told[i]
        /\ told'[Len(told) + 1] = entry
        /\ \A i \in 1..Len(told') : i \in 1..Len(told) \/ i = Len(told) + 1
        /\ Len(told) + 1 \in 1..Len(told') /\ \A i \in 1..Len(told) : i \in 1..Len(told')
    BY <2>3, <2>a, AppendOf
  <2>7. /\ listener.line < client.line
        /\ \A i \in 1..Len(bytes) : listener.line < bytes[i].line
        /\ \A i \in 1..Len(told) : told[i].line < listener.line
        /\ listener.answer \in {0, -1} \/ (listener.answer = listener.line /\ Done(executed, listener.line))
        BY <1>1, <2>5 DEF PlaneInv, BusyLine
  <2>8. SpentFirst'
    <3>1. \A n : listener.line < n /\ Spent(executed, channel, told, n) => Spent(executed', channel', told', n)
      BY <1>1, <2>b, <2>2 DEF Spent, OverTold
    <3> QED BY <3>1, <2>3, <2>5, <2>7 DEF PlaneInv, SpentFirst
  <2>9. CarriedOut' BY <1>1 DEF PlaneInv, CarriedOut, Plane!Increasing
  <2>10. BusyLine' BY <2>5 DEF BusyLine
  <2>11. Answered'
    <3>1. \A i, j \in 1..Len(told) : i < j => told[i].line < told[j].line BY DEF PlaneInv, Answered
    <3>2. \A i, j \in 1..Len(told') : i < j => told'[i].line < told'[j].line
      BY <3>1, <2>2, <2>7, <2>b
    <3>3. \A i \in 1..Len(told) : told[i].about \in {0, -1} \/ (told[i].about = told[i].line /\ Done(executed, told[i].line))
      BY DEF PlaneInv, Answered
    <3>4. \A i \in 1..Len(told') : told'[i].about \in {0, -1} \/ (told'[i].about = told'[i].line /\ Done(executed', told'[i].line))
      BY <3>3, <2>2, <2>7, <2>b, <1>1
    <3>5. past' \ torn' \subseteq ToldLines'
      <4>1. past \ torn \subseteq ToldLines \cup {listener.line} BY <2>5 DEF PlaneInv, Answered
      <4>2. ToldLines \subseteq ToldLines' BY <2>b DEF ToldLines
      <4>3. listener.line \in ToldLines' BY <2>b, <2>2 DEF ToldLines
      <4> QED BY <4>1, <4>2, <4>3, <1>1, <2>3
    <3> QED BY <3>2, <3>4, <3>5, <2>4, <2>5 DEF Answered
  <2>12. Bounded' BY <1>1 DEF PlaneInv, Bounded
  <2> QED BY <2>6, <2>8, <2>9, <2>10, <2>11, <2>12 DEF PlaneInv
<1> QED BY <1>2, <1>3

\* A command is put into the channel of the worker.
LEMMA SendHolds == ASSUME PlaneTypes, PlaneInv, PlaneAssumption, Plane!Send PROVE PlaneInv'
<1>l. listener \in Listener BY DEF PlaneTypes
<1>0. listener.line \in Nat BY PlaneNumbers
<1>1. listener.does = "send" /\ Len(channel) < Depth /\ channel' = Append(channel, listener.line)
      /\ UNCHANGED <<client, bytes, plane, executed, past, torn, abandoned, told>>
  BY DEF Plane!Send
<1>2. listener'.does = "wait" /\ listener'.line = listener.line BY <1>l DEF Plane!Send, Listener
<1>3. ~Doomed /\ Busy /\ ~Doomed' /\ Busy' /\ ~Holding(listener) /\ ~Holding(listener')
     BY <1>1, <1>2 DEF Doomed, Busy, Holding
<1>4. StreamOrdered' /\ HeldOrdered' /\ LinesBegun' BY <1>1, <1>3, NothingHeld
<1>5. channel \in Seq(Nat) BY DEF PlaneTypes
<1>b. /\ Len(channel) \in Nat /\ Len(channel') = Len(channel) + 1
      /\ \A i \in 1..Len(channel) : channel'[i] = channel[i]
      /\ channel'[Len(channel) + 1] = listener.line
      /\ \A i \in 1..Len(channel') : i \in 1..Len(channel) \/ i = Len(channel) + 1
    BY <1>0, <1>1, <1>5, AppendOf
<1>6. /\ listener.line < client.line
      /\ \A i \in 1..Len(bytes) : listener.line < bytes[i].line
      /\ \A i \in 1..Len(told) : told[i].line < listener.line
      /\ Over(executed, listener.line) /\ Over(channel, listener.line)
        BY <1>1, <1>3 DEF PlaneInv, BusyLine
<1>7. SpentFirst'
  <2>1. \A n : listener.line < n /\ Spent(executed, channel, told, n) => Spent(executed', channel', told', n)
      BY <1>1, <1>b DEF Spent, Over
  <2> QED BY <2>1, <1>1, <1>3, <1>6 DEF PlaneInv, SpentFirst
<1>8. CarriedOut'
  <2>1. Plane!Increasing(executed') BY <1>1 DEF PlaneInv, CarriedOut
  <2>2. Plane!Increasing(channel') BY <1>6, <1>b DEF PlaneInv, CarriedOut, Plane!Increasing, Over
  <2>3. \A i \in 1..Len(executed'), j \in 1..Len(channel') : executed'[i] < channel'[j]
     BY <1>1, <1>6, <1>b DEF PlaneInv, CarriedOut, Over
  <2> QED BY <2>1, <2>2, <2>3 DEF CarriedOut
<1>9. BusyLine' BY <1>1, <1>2, <1>6 DEF BusyLine
<1>10. Answered' BY <1>1, <1>2, <1>3 DEF PlaneInv, Answered, ToldLines
<1>11. Bounded'
  <2>1. Len(channel') <= Depth BY <1>1, <1>b DEF PlaneAssumption
  <2>2. \A i \in 1..Len(channel) : channel[i] \in abandoned BY <1>1 DEF PlaneInv, Bounded
  <2> QED BY <2>1, <2>2, <1>1, <1>2, <1>b DEF Bounded
<1> QED BY <1>4, <1>7, <1>8, <1>9, <1>10, <1>11 DEF PlaneInv

\* A command that the worker does not answer in time is left in the channel.
LEMMA WorkerSilentHolds == ASSUME PlaneTypes, PlaneInv, Plane!WorkerSilent PROVE PlaneInv'
<1>l. listener \in Listener BY DEF PlaneTypes
<1>1. listener.does = "wait" /\ abandoned' = abandoned \cup {listener.line}
      /\ UNCHANGED <<client, bytes, channel, plane, executed, past, torn, told>>
  BY DEF Plane!WorkerSilent
<1>2. listener'.does = "write" /\ listener'.line = listener.line /\ listener'.answer = 0
  BY <1>l DEF Plane!WorkerSilent, Plane!Answers, Listener
<1>3. ~Doomed /\ Busy /\ ~Doomed' /\ Busy' /\ ~Holding(listener) /\ ~Holding(listener')
     BY <1>1, <1>2 DEF Doomed, Busy, Holding
<1>4. StreamOrdered' /\ HeldOrdered' /\ LinesBegun' BY <1>1, <1>3, NothingHeld
<1>5. SpentFirst' BY <1>1, <1>3 DEF PlaneInv, SpentFirst
<1>6. CarriedOut' BY <1>1 DEF PlaneInv, CarriedOut, Plane!Increasing
<1>7. BusyLine' BY <1>1, <1>2, <1>3 DEF PlaneInv, BusyLine
<1>8. Answered' BY <1>1, <1>2, <1>3 DEF PlaneInv, Answered, ToldLines
<1>9. Bounded' BY <1>1, <1>2 DEF PlaneInv, Bounded
<1> QED BY <1>4, <1>5, <1>6, <1>7, <1>8, <1>9 DEF PlaneInv

\* The worker takes the oldest command and answers it, if anyone waits.
LEMMA ServeHolds == ASSUME PlaneTypes, PlaneInv, Plane!Serve PROVE PlaneInv'
<1>l. listener \in Listener BY DEF PlaneTypes
<1>1. /\ channel # <<>> /\ channel' = Tail(channel) /\ executed' = Append(executed, Head(channel))
      /\ UNCHANGED <<client, bytes, plane, past, torn, abandoned, told>>
  BY DEF Plane!Serve
<1>2. channel \in Seq(Nat) /\ executed \in Seq(Nat) BY DEF PlaneTypes
<1>3. PICK line : line = Head(channel) OBVIOUS
<1>4. /\ 1 \in 1..Len(channel) /\ line = channel[1] /\ line \in Nat
      /\ Len(channel) \in Nat /\ Len(channel') = Len(channel) - 1
      /\ \A i \in 1..Len(channel') : i + 1 \in 1..Len(channel) /\ channel'[i] = channel[i + 1]
  BY <1>1, <1>2, <1>3, TailOf
<1>5. /\ Len(executed) \in Nat /\ Len(executed') = Len(executed) + 1
      /\ \A i \in 1..Len(executed) : executed'[i] = executed[i] /\ i \in 1..Len(executed')
      /\ executed'[Len(executed) + 1] = line /\ Len(executed) + 1 \in 1..Len(executed')
      /\ \A i \in 1..Len(executed') : i \in 1..Len(executed) \/ i = Len(executed) + 1
  BY <1>1, <1>2, <1>3, <1>4, AppendOf
<1>6. \/ /\ listener.does = "wait" /\ listener.line = line
         /\ listener'.does = "write" /\ listener'.answer = line /\ listener'.line = line
      \/ ~(listener.does = "wait" /\ listener.line = line) /\ listener' = listener
  <2>1. CASE listener.does = "wait" /\ listener.line = line
    <3>1. listener' = [listener EXCEPT !.does = "write", !.answer = line] BY <1>3, <2>1 DEF Plane!Serve, Plane!Answers
    <3> QED BY <2>1, <1>l, <3>1 DEF Listener
  <2>2. CASE ~(listener.does = "wait" /\ listener.line = line)
    <3>1. listener' = listener BY <1>3, <2>2 DEF Plane!Serve
    <3> QED BY <2>2, <3>1
  <2> QED BY <2>1, <2>2
<1>7. /\ Holding(listener) => Holding(listener') /\ HeldLine(listener') = HeldLine(listener)
      /\ Holding(listener') => Holding(listener) /\ HeldLine(listener') = HeldLine(listener)
      /\ (Doomed' <=> Doomed) /\ (Busy' <=> Busy) /\ listener'.line = listener.line
  BY <1>4, <1>6 DEF Holding, HeldLine, Doomed, Busy
<1>8. StreamOrdered' BY <1>1 DEF PlaneInv, StreamOrdered, NonePending
<1>9. HeldOrdered' BY <1>1, <1>7 DEF PlaneInv, HeldOrdered
<1>10. LinesBegun'
  <2>1. \A n : Begun(torn, listener, n) => Begun(torn', listener', n) BY <1>1, <1>7 DEF Begun
  <2> QED BY <2>1, <1>1, <1>7 DEF PlaneInv, LinesBegun
<1>11. SpentFirst'
  <2>1. \A n : Spent(executed, channel, told, n) => Spent(executed', channel', told', n) BY <1>1, <1>4, <1>5 DEF Spent, Over
  <2> QED BY <2>1, <1>1, <1>7 DEF PlaneInv, SpentFirst
<1>12. CarriedOut'
  <2>1. \A i, j \in 1..Len(executed) : i < j => executed[i] < executed[j] BY DEF PlaneInv, CarriedOut, Plane!Increasing
  <2>2. \A i, j \in 1..Len(channel) : i < j => channel[i] < channel[j] BY DEF PlaneInv, CarriedOut, Plane!Increasing
  <2>3. \A i \in 1..Len(executed), j \in 1..Len(channel) : executed[i] < channel[j] BY DEF PlaneInv, CarriedOut
  <2>4. Plane!Increasing(executed') BY <2>1, <2>3, <1>4, <1>5 DEF Plane!Increasing
  <2>5. Plane!Increasing(channel')
    <3>1. \A i, j \in 1..Len(channel') : i < j => i + 1 < j + 1 OBVIOUS
    <3> QED BY <3>1, <2>2, <1>4 DEF Plane!Increasing
  <2>6. \A i \in 1..Len(executed'), j \in 1..Len(channel') : executed'[i] < channel'[j]
    <3>1. \A j \in 1..Len(channel') : line < channel'[j]
      <4>1. \A j \in 1..Len(channel') : 1 < j + 1 OBVIOUS
      <4> QED BY <4>1, <2>2, <1>4
    <3>2. \A i \in 1..Len(executed), j \in 1..Len(channel') : executed[i] < channel'[j] BY <2>3, <1>4
    <3> QED BY <3>1, <3>2, <1>5
  <2> QED BY <2>4, <2>5, <2>6 DEF CarriedOut
<1>13. \A n : Done(executed, n) => Done(executed', n) BY <1>5 DEF Done
<1>14. Done(executed', line) BY <1>5 DEF Done
<1>15. BusyLine'
  <2>1. Busy => /\ listener.line < client.line
                /\ \A i \in 1..Len(bytes) : listener.line < bytes[i].line
                /\ \A i \in 1..Len(told) : told[i].line < listener.line
    BY DEF PlaneInv, BusyLine
  <2>2. Busy' /\ listener'.does = "write" => listener'.answer \in {0, -1}
                                        \/ (listener'.answer = listener'.line /\ Done(executed', listener'.line))
    BY <1>6, <1>7, <1>13, <1>14 DEF PlaneInv, BusyLine
  <2>3. Busy' /\ listener'.does = "send" => Over(executed', listener'.line) /\ Over(channel', listener'.line)
    <3>1. Busy /\ listener.does = "send" => Over(executed, listener.line) /\ Over(channel, listener.line)
       BY DEF PlaneInv, BusyLine
    <3>2. \A n : Over(executed, n) /\ Over(channel, n) => Over(executed', n) /\ Over(channel', n) BY <1>4, <1>5 DEF Over
    <3> QED BY <3>1, <3>2, <1>6, <1>7
  <2>4. Busy' => /\ listener'.line < client'.line
                 /\ \A i \in 1..Len(bytes') : listener'.line < bytes'[i].line
                 /\ \A i \in 1..Len(told') : told'[i].line < listener'.line
     BY <2>1, <1>1, <1>7
  <2> QED BY <2>2, <2>3, <2>4 DEF BusyLine
<1>16. Answered'
  <2>1. /\ \A i, j \in 1..Len(told) : i < j => told[i].line < told[j].line
        /\ \A i \in 1..Len(told) : told[i].about \in {0, -1} \/ (told[i].about = told[i].line /\ Done(executed, told[i].line))
        /\ Busy => past \ torn \subseteq ToldLines \cup {listener.line}
        /\ listener.does \in {"head", "read"} => past \ torn \subseteq ToldLines
        /\ listener.does \in {"accept", "ended"} => past = {} /\ told = <<>>
    BY DEF PlaneInv, Answered
  <2>2. ToldLines' = ToldLines BY <1>1 DEF ToldLines
  <2>3. /\ listener'.does \in {"head", "read"} => listener.does \in {"head", "read"}
        /\ listener'.does \in {"accept", "ended"} => listener.does \in {"accept", "ended"}
    BY <1>6
  <2> QED BY <2>1, <2>2, <2>3, <1>1, <1>7, <1>13 DEF Answered
<1>17. Bounded'
  <2>1. /\ Len(channel) <= Depth
        /\ \A i \in 1..Len(channel) : channel[i] \in abandoned \/ (listener.does = "wait" /\ channel[i] = listener.line)
    BY DEF PlaneInv, Bounded
  <2>2. Len(channel') <= Depth BY <2>1, <1>4, PlaneAssumption
  <2>3. \A j \in 1..Len(channel') : line # channel'[j]
    <3>1. \A i, j \in 1..Len(channel) : i < j => channel[i] < channel[j] BY DEF PlaneInv, CarriedOut, Plane!Increasing
    <3>2. \A j \in 1..Len(channel') : 1 < j + 1 OBVIOUS
    <3> QED BY <3>1, <3>2, <1>4
  <2> QED BY <2>1, <2>2, <2>3, <1>1, <1>4, <1>6 DEF Bounded
<1> QED BY <1>8, <1>9, <1>10, <1>11, <1>12, <1>15, <1>16, <1>17 DEF PlaneInv

\* The plane is dropped: the flag, then the join.
LEMMA DropHolds == ASSUME PlaneTypes, PlaneInv, Plane!StartsDrop \/ Plane!Joined PROVE PlaneInv'
<1>1. UNCHANGED <<client, bytes, listener, executed, past, torn, abandoned, told>> BY DEF Plane!StartsDrop, Plane!Joined
<1>2. channel' = channel \/ (channel' = <<>> /\ listener.does = "ended") BY DEF Plane!StartsDrop, Plane!Joined
<1>3. StreamOrdered' /\ HeldOrdered' BY <1>1 DEF PlaneInv, StreamOrdered, HeldOrdered, NonePending
<1>4. LinesBegun' BY <1>1 DEF PlaneInv, LinesBegun, Doomed
<1>5. Answered' BY <1>1 DEF PlaneInv, Answered, Busy, Doomed, ToldLines
<1>6. CASE channel' = channel
  <2>1. SpentFirst' BY <1>1, <1>6 DEF PlaneInv, SpentFirst
  <2>2. CarriedOut' BY <1>1, <1>6 DEF PlaneInv, CarriedOut, Plane!Increasing
  <2>3. BusyLine' BY <1>1, <1>6 DEF PlaneInv, BusyLine, Busy, Doomed
  <2>4. Bounded' BY <1>1, <1>6 DEF PlaneInv, Bounded
  <2> QED BY <1>3, <1>4, <1>5, <2>1, <2>2, <2>3, <2>4 DEF PlaneInv
<1>7. CASE channel' = <<>> /\ listener.does = "ended"
  <2>0. Len(channel') = 0 BY <1>7
  <2>1. SpentFirst'
     <3>1. \A n : Spent(executed, channel, told, n) => Spent(executed', channel', told', n) BY <1>1, <2>0 DEF Spent, Over
     <3> QED BY <3>1, <1>1 DEF PlaneInv, SpentFirst
  <2>2. CarriedOut' BY <1>1, <2>0 DEF PlaneInv, CarriedOut, Plane!Increasing
  <2>3. BusyLine' BY <1>1, <1>7 DEF BusyLine, Busy
  <2>4. Bounded' BY <1>1, <2>0, PlaneAssumption DEF Bounded
  <2> QED BY <1>3, <1>4, <1>5, <2>1, <2>2, <2>3, <2>4 DEF PlaneInv
<1> QED BY <1>2, <1>6, <1>7

\* Types, step by step.
LEMMA PlaneTyped == ASSUME PlaneTypes, Plane!Next PROVE PlaneTypes'
<1>0. /\ client \in Client /\ bytes \in Seq(Byte) /\ listener \in Listener
      /\ channel \in Seq(Nat) /\ executed \in Seq(Nat)
      /\ plane \in {"up", "joining", "dropped"}
      /\ past \subseteq Nat /\ torn \subseteq Nat /\ abandoned \subseteq Nat
      /\ told \in Seq(Told)
      /\ client.state = "off" => listener.does \in {"accept", "ended"}
      /\ listener.does \in {"send", "wait", "write"} => listener.line # 0
      BY DEF PlaneTypes
<1>f. /\ client.line \in Nat \ {0} /\ client.line + 1 \in Nat \ {0} /\ client.size \in Nat
      /\ client.size + 1 \in Nat /\ client.typed + 1 \in Nat /\ client.clients + 1 \in Nat
  <2>1. client.line \in Nat \ {0} /\ client.size \in Nat /\ client.typed \in Nat /\ client.clients \in Nat
      BY <1>0 DEF Client
  <2> QED BY <2>1
<1>c. client \in Client BY <1>0
<1>l. listener \in Listener BY <1>0
<1>e. <<>> \in Seq(Byte) OBVIOUS
<1>1. CASE Plane!Connect
  <2>1. client' = [client EXCEPT !.state = "on", !.clients = @ + 1]
      BY <1>1 DEF Plane!Connect
  <2>2. client' \in Client /\ client'.state # "off" BY <1>c, <1>f, <2>1 DEF Client
  <2>3. UNCHANGED <<bytes, Plane!threads>> BY <1>1 DEF Plane!Connect
  <2> QED BY <1>0, <2>2, <2>3 DEF Plane!threads, PlaneTypes
<1>2. ASSUME NEW end \in BOOLEAN, NEW silent \in BOOLEAN, Plane!Type(end, silent) PROVE PlaneTypes'
  <2>1. client' = [client EXCEPT !.typed = @ + 1, !.size = IF end THEN 0 ELSE @ + 1,
                                !.line = IF end THEN @ + 1 ELSE @]
      BY <1>2 DEF Plane!Type
  <2>2. client' \in Client /\ client'.state = client.state BY <1>c, <1>f, <2>1 DEF Client
  <2>3. bytes' \in Seq(Byte)
    <3>1. [line |-> client.line, end |-> end, silent |-> silent] \in Byte
        BY <1>f, <1>2 DEF Byte
    <3> QED BY <1>0, <1>2, <3>1 DEF Plane!Type
  <2>4. UNCHANGED Plane!threads BY <1>2 DEF Plane!Type
  <2> QED BY <1>0, <2>2, <2>3, <2>4 DEF Plane!threads, PlaneTypes
<1>3. ASSUME NEW from, NEW to \in {"half", "deaf", "gone"}, from \subseteq {"on", "half", "deaf"}, Plane!Turns(from, to) PROVE PlaneTypes'
  <2>1. client' = [client EXCEPT !.state = to, !.size = 0, !.line = IF client.size = 0 THEN @ ELSE @ + 1]
      /\ client.state # "off"
      BY <1>3 DEF Plane!Turns
  <2>2. client' \in Client /\ client'.state # "off" BY <1>c, <1>f, <2>1 DEF Client
  <2>3. UNCHANGED <<bytes, Plane!threads>> BY <1>3 DEF Plane!Turns
  <2> QED BY <1>0, <2>1, <2>2, <2>3 DEF Plane!threads, PlaneTypes
<1>4. CASE Plane!Accept
  <2>1. listener' \in Listener /\ listener'.does \in {"ended", "head"} /\ (listener'.does = "head" => client.state # "off")
      BY <1>l, <1>4 DEF Plane!Accept, Listener
  <2>2. UNCHANGED <<client, bytes, channel, plane, executed, past, torn, abandoned, told>> BY <1>4 DEF Plane!Accept
  <2> QED BY <1>0, <2>1, <2>2 DEF PlaneTypes
<1>5. ASSUME Plane!Closes, UNCHANGED <<channel, plane, executed, torn, abandoned>> PROVE PlaneTypes'
  <2>0. listener' = [listener EXCEPT !.does = "accept", !.got = <<>>] BY <1>5 DEF Plane!Closes
  <2>1. listener' \in Listener /\ listener'.does = "accept"
      BY <1>l, <1>e, <2>0 DEF Listener
  <2>2. client' \in Client BY <1>c, <1>f, <1>5 DEF Plane!Closes, Client
  <2>3. bytes' = <<>> /\ past' = {} /\ told' = <<>> BY <1>5 DEF Plane!Closes
  <2> QED BY <1>0, <1>5, <2>1, <2>2, <2>3 DEF PlaneTypes
<1>6. CASE Plane!ReadOn
  <2>1. CASE plane # "up" BY <1>5, <1>6, <2>1 DEF Plane!ReadOn
  <2>2. CASE plane = "up"
    <3>1. listener' = [listener EXCEPT !.does = "read", !.got = <<>>] /\ listener.does = "head" BY <1>6, <2>2 DEF Plane!ReadOn
    <3>2. listener' \in Listener /\ listener'.does = "read" BY <1>l, <1>e, <3>1 DEF Listener
    <3>3. UNCHANGED <<client, bytes, channel, plane, executed, past, torn, abandoned, told>> BY <1>6, <2>2 DEF Plane!ReadOn
    <3> QED BY <1>0, <3>1, <3>2, <3>3 DEF PlaneTypes
  <2> QED BY <2>1, <2>2
<1>7. ASSUME NEW byte \in Byte, NEW sense, Plane!Complete(byte.line, sense)
      PROVE listener' \in Listener /\ listener'.line = byte.line /\ listener'.line # 0 /\ listener'.does \in {"head", "send", "write"}
  <2>1. byte.line \in Nat \ {0} BY DEF Byte
  <2>2. listener' = [listener EXCEPT !.line = byte.line, !.answer = -1,
        !.does = IF listener.got = <<>> \/ sense = "nothing" THEN "head"
                 ELSE IF sense = "command" THEN "send" ELSE "write"] BY <1>7 DEF Plane!Complete
  <2>3. PICK does \in {"head", "send", "write"} : listener' = [listener EXCEPT !.line = byte.line, !.answer = -1, !.does = does]
    BY <2>2
  <2>4. -1 \in Int /\ byte.line \in Nat BY <2>1
  <2> QED BY <1>l, <2>1, <2>3, <2>4 DEF Listener
<1>8. ASSUME NEW sense, Plane!ReadByte(sense) PROVE PlaneTypes'
  <2>1. PICK byte : byte = Head(bytes) OBVIOUS
  <2>0. bytes # <<>> /\ bytes' = Tail(bytes) BY <1>8 DEF Plane!ReadByte
  <2>0a. bytes \in Seq(Byte) BY <1>0
  <2>0b. byte \in Byte /\ bytes' \in Seq(Byte) BY <2>0, <2>0a, <2>1
  <2>0c. byte.line \in Nat \ {0} BY <2>0b DEF Byte
  <2>2. byte \in Byte /\ byte.line \in Nat \ {0} /\ bytes' = Tail(bytes) /\ bytes' \in Seq(Byte)
    BY <2>0, <2>0b, <2>0c
  <2>3. listener.got \in Seq(Byte) BY <1>l DEF Listener
  <2>4. listener' \in Listener /\ (listener'.does \in {"send", "wait", "write"} => listener'.line # 0)
    <3>1. CASE Len(listener.got) = Limit
      <4>1. listener' = [listener EXCEPT !.does = "write", !.line = byte.line, !.answer = -2]
         BY <1>8, <2>1, <3>1 DEF Plane!ReadByte
      <4>2. -2 \in Int /\ byte.line \in Nat /\ byte.line # 0 BY <2>2
      <4> QED BY <1>l, <4>1, <4>2 DEF Listener
    <3>2. CASE Len(listener.got) # Limit /\ byte.end
      <4>1. Plane!Complete(byte.line, sense)
         BY <1>8, <2>1, <3>2 DEF Plane!ReadByte
      <4> QED BY <1>7, <2>2, <4>1
    <3>3. CASE Len(listener.got) # Limit /\ ~byte.end
      <4>1. listener' = [listener EXCEPT !.got = Append(@, byte)] /\ listener.does = "read"
         BY <1>8, <2>1, <3>3 DEF Plane!ReadByte
      <4>2. Append(listener.got, byte) \in Seq(Byte) BY <2>2, <2>3
      <4> QED BY <1>l, <4>1, <4>2 DEF Listener
    <3> QED BY <3>1, <3>2, <3>3
  <2>5. listener.does = "read" /\ client.state # "off" BY <1>0, <1>8 DEF Plane!ReadByte
  <2>6. past' \subseteq Nat /\ UNCHANGED <<client, channel, plane, executed, torn, abandoned, told>>
     BY <1>0, <1>8, <2>1, <2>2 DEF Plane!ReadByte
  <2> QED BY <1>0, <2>2, <2>4, <2>5, <2>6 DEF PlaneTypes
<1>9. CASE Plane!ReadTimesOut
  <2>1. listener.got \in Seq(Byte) BY <1>l DEF Listener
  <2>2a. listener.got # <<>> => listener.got[1] \in Byte BY <2>1
  <2>2. listener.got # <<>> => listener.got[1].line \in Nat BY <2>2a DEF Byte
  <2>3. listener' \in Listener /\ listener'.does = "head" BY <1>l, <1>9 DEF Plane!ReadTimesOut, Listener
  <2>4. torn' \subseteq Nat /\ UNCHANGED <<client, bytes, channel, plane, executed, past, abandoned, told>>
     /\ client.state # "off"
     BY <1>0, <1>9, <2>2 DEF Plane!ReadTimesOut
  <2> QED BY <1>0, <2>3, <2>4 DEF PlaneTypes
<1>10. ASSUME NEW sense, Plane!EndOfStream(sense) PROVE PlaneTypes'
  <2>1. CASE listener.got = <<>>
     BY <1>5, <1>10, <2>1 DEF Plane!EndOfStream
  <2>2. CASE listener.got # <<>>
    <3>1. listener.got \in Seq(Byte) BY <1>l DEF Listener
    <3>2. listener.got[1] \in Byte BY <2>2, <3>1
    <3>3. Plane!Complete(listener.got[1].line, sense) /\ client.state # "off"
       /\ UNCHANGED <<client, bytes, channel, plane, executed, past, torn, abandoned, told>>
       BY <1>10, <2>2 DEF Plane!EndOfStream
    <3>4. listener' \in Listener /\ listener'.line # 0 BY <1>7, <3>2, <3>3
    <3> QED BY <1>0, <3>3, <3>4 DEF PlaneTypes
  <2> QED BY <2>1, <2>2
<1>11. CASE Plane!Write
  <2>1. CASE client.state = "gone" \/ listener.answer = -2
     BY <1>5, <1>11, <2>1 DEF Plane!Write
  <2>2. CASE ~(client.state = "gone" \/ listener.answer = -2)
    <3>1. told' = Append(told, [line |-> listener.line, about |-> listener.answer]) /\ listener.line # 0
          /\ listener' = [listener EXCEPT !.does = "head"] /\ client.state # "off"
          /\ UNCHANGED <<client, bytes, channel, plane, executed, past, torn, abandoned>>
          BY <1>0, <1>11, <2>2 DEF Plane!Write
    <3>2. listener.line \in Nat /\ listener.answer \in Int BY <1>l DEF Listener
    <3>3. [line |-> listener.line, about |-> listener.answer] \in Told BY <3>1, <3>2 DEF Told
    <3>4. told' \in Seq(Told) BY <1>0, <3>1, <3>3
    <3>5. listener' \in Listener /\ listener'.does = "head" BY <1>l, <3>1 DEF Listener
    <3> QED BY <1>0, <3>1, <3>4, <3>5 DEF PlaneTypes
  <2> QED BY <2>1, <2>2
<1>12. CASE Plane!Send
  <2>1. listener' \in Listener /\ listener'.does = "wait" /\ listener'.line = listener.line
     BY <1>l, <1>12 DEF Plane!Send, Listener
  <2>2. listener.line \in Nat BY <1>l DEF Listener
  <2>3. channel' \in Seq(Nat) /\ UNCHANGED <<client, bytes, plane, executed, past, torn, abandoned, told>>
     /\ listener.does = "send"
     BY <1>0, <1>12, <2>2 DEF Plane!Send
  <2> QED BY <1>0, <2>1, <2>3 DEF PlaneTypes
<1>13. CASE Plane!WorkerSilent
  <2>0. listener' = [listener EXCEPT !.does = "write", !.answer = 0] BY <1>13 DEF Plane!WorkerSilent, Plane!Answers
  <2>1. listener' \in Listener /\ listener'.does = "write" /\ listener'.line = listener.line
     <3>1. 0 \in Int OBVIOUS
     <3> QED BY <1>l, <2>0, <3>1 DEF Listener
  <2>2. listener.line \in Nat BY <1>l DEF Listener
  <2>3. abandoned' \subseteq Nat /\ UNCHANGED <<client, bytes, channel, plane, executed, past, torn, told>>
     /\ listener.does = "wait"
     BY <1>0, <1>13, <2>2 DEF Plane!WorkerSilent
  <2> QED BY <1>0, <2>1, <2>3 DEF PlaneTypes
<1>14. CASE Plane!Serve
  <2>1. Head(channel) \in Nat /\ channel' \in Seq(Nat) /\ executed' \in Seq(Nat)
     /\ UNCHANGED <<client, bytes, plane, past, torn, abandoned, told>>
     BY <1>0, <1>14 DEF Plane!Serve
  <2>2. listener' = listener \/ (listener' = [listener EXCEPT !.does = "write", !.answer = Head(channel)]
        /\ listener.does = "wait")
     BY <1>14 DEF Plane!Serve, Plane!Answers
  <2>3. CASE UNCHANGED listener
     BY <1>0, <2>1, <2>3 DEF PlaneTypes
  <2>4. CASE listener' = [listener EXCEPT !.does = "write", !.answer = Head(channel)] /\ listener.does = "wait"
    <3>1. Head(channel) \in Int BY <2>1
    <3>2. listener' \in Listener /\ listener'.does = "write" /\ listener'.line = listener.line
       BY <1>l, <2>4, <3>1 DEF Listener
    <3> QED BY <1>0, <2>1, <2>4, <3>2 DEF PlaneTypes
  <2> QED BY <2>2, <2>3, <2>4
<1>15. CASE Plane!StartsDrop \/ Plane!Joined
  <2>1. channel' \in Seq(Nat) /\ plane' \in {"up", "joining", "dropped"}
     /\ UNCHANGED <<client, bytes, listener, executed, past, torn, abandoned, told>>
    <3>1. <<>> \in Seq(Nat) OBVIOUS
    <3>2. CASE Plane!StartsDrop BY <1>0, <3>2 DEF Plane!StartsDrop
    <3>3. CASE Plane!Joined BY <1>0, <3>1, <3>3 DEF Plane!Joined
    <3> QED BY <1>15, <3>2, <3>3
  <2> QED BY <1>0, <2>1 DEF PlaneTypes
<1> QED BY <1>1, <1>2, <1>3, <1>4, <1>6, <1>8, <1>9, <1>10, <1>11, <1>12, <1>13, <1>14, <1>15 DEF Plane!Next

\* The plane that was just made.
LEMMA PlaneBegins == ASSUME Init, PlaneAssumption PROVE PlaneTypes /\ PlaneInv
<1>1. /\ client = [state |-> "off", line |-> 1, size |-> 0, typed |-> 0, clients |-> 0]
      /\ bytes = <<>>
      /\ listener = [does |-> "accept", got |-> <<>>, line |-> 0, answer |-> -1]
      /\ channel = <<>> /\ plane = "up" /\ executed = <<>>
      /\ past = {} /\ torn = {} /\ abandoned = {} /\ told = <<>>
  BY DEF Init, AllBegin, Plane!Init
<1>2. /\ client.state = "off" /\ client.line = 1 /\ client.size = 0 /\ listener.does = "accept"
      /\ Len(bytes) = 0 /\ Len(channel) = 0 /\ Len(executed) = 0 /\ Len(told) = 0
  BY <1>1
<1>3. PlaneTypes
  <2>1. client \in Client
    <3>1. 1 \in Nat \ {0} /\ 0 \in Nat OBVIOUS
    <3> QED BY <3>1, <1>1 DEF Client
  <2>2. listener \in Listener
    <3>1. <<>> \in Seq(Byte) /\ 0 \in Nat /\ -1 \in Int OBVIOUS
    <3> QED BY <3>1, <1>1 DEF Listener
  <2>3. bytes \in Seq(Byte) /\ channel \in Seq(Nat) /\ executed \in Seq(Nat) /\ told \in Seq(Told) BY <1>1
  <2> QED BY <2>1, <2>2, <2>3, <1>1, <1>2 DEF PlaneTypes
<1>4. ~Holding(listener) /\ ~Busy BY <1>2 DEF Holding, Busy
<1>5. StreamOrdered BY <1>1, <1>2 DEF StreamOrdered, NonePending, Within, InOrder, Joint
<1>6. HeldOrdered /\ BusyLine BY <1>4 DEF HeldOrdered, BusyLine
<1>7. LinesBegun BY <1>2 DEF LinesBegun
<1>8. SpentFirst BY <1>2, <1>4 DEF SpentFirst, Spent, Over, OverTold
<1>9. CarriedOut BY <1>2 DEF CarriedOut, Plane!Increasing
<1>10. Answered BY <1>1, <1>2, <1>4 DEF Answered
<1>11. Bounded BY <1>2, PlaneAssumption DEF Bounded
<1> QED BY <1>3, <1>5, <1>6, <1>7, <1>8, <1>9, <1>10, <1>11 DEF PlaneInv

\* A step of another machine.
LEMMA PlaneStands == ASSUME PlaneTypes, PlaneInv, UNCHANGED planeVars PROVE PlaneTypes' /\ PlaneInv'
<1>1. UNCHANGED <<client, bytes, listener, channel, plane, executed, past, torn, abandoned, told>> BY DEF planeVars
<1>2. PlaneTypes' BY <1>1 DEF PlaneTypes
<1>3. (StreamOrdered /\ HeldOrdered /\ SpentFirst)' BY <1>1 DEF PlaneInv, StreamOrdered, NonePending, HeldOrdered, SpentFirst
<1>4. (LinesBegun /\ BusyLine)' BY <1>1 DEF PlaneInv, LinesBegun, BusyLine, Busy, Doomed
<1>5. (CarriedOut /\ Answered /\ Bounded)' BY <1>1, ThreadsStand DEF Plane!threads
<1> QED BY <1>2, <1>3, <1>4, <1>5 DEF PlaneInv

\* The invariant says what the clients are promised.
LEMMA PlaneAnswers == ASSUME PlaneTypes, PlaneInv PROVE Plane!ControlPlaneHolds
<1>1. Answered /\ Bounded /\ CarriedOut BY DEF PlaneInv
<1>2. Plane!AnswersItsOwnLine
  <2>1. \A i, j \in 1..Len(told) : i < j => told[i].line < told[j].line BY <1>1 DEF Answered
  <2>2. Len(told) \in Nat /\ Len([i \in 1..Len(told) |-> told[i].line]) = Len(told) BY PlaneNumbers
  <2>3. \A i \in 1..Len(told) : [k \in 1..Len(told) |-> told[k].line][i] = told[i].line OBVIOUS
  <2>4. Plane!Increasing([i \in 1..Len(told) |-> told[i].line]) BY <2>1, <2>2, <2>3 DEF Plane!Increasing
  <2>5. \A i \in 1..Len(told) : told[i].about \in {0, -1} \/ told[i].about = told[i].line BY <1>1 DEF Answered
  <2> QED BY <2>4, <2>5 DEF Plane!AnswersItsOwnLine
<1>3. Plane!EveryLineAnswered BY <1>1 DEF Answered, ToldLines, Plane!EveryLineAnswered
<1>4. Plane!InOrderAndOnce
  <2>1. \A i \in 1..Len(told) : told[i].about \in {0, -1} \/ Done(executed, told[i].line) BY <1>1 DEF Answered
  <2>2. told \in Seq(Told) BY DEF PlaneTypes
  <2>3. \A i \in 1..Len(told) : told[i].line \in Nat \ {0}
     <3>1. \A i \in 1..Len(told) : told[i] \in Told BY <2>2
     <3> QED BY <3>1 DEF Told
  <2>4. \A i \in 1..Len(told) : told[i].about = told[i].line => Done(executed, told[i].line) BY <2>1, <2>3
  <2> QED BY <1>1, <2>4 DEF CarriedOut, Done, Plane!InOrderAndOnce
<1>5. Plane!DropWaitsOnlyThen
  <2>1. client.state = "off" => listener.does \in {"accept", "ended"} BY DEF PlaneTypes
  <2>2. Len(channel) \in Nat /\ Depth \in Nat BY PlaneNumbers, PlaneAssumption DEF PlaneAssumption
  <2>3. listener.does = "send" /\ Len(channel) >= Depth => Len(channel) = Depth /\ \A i \in 1..Depth : channel[i] \in abandoned
     BY <1>1, <2>2 DEF Bounded
  <2> QED BY <2>1, <2>3 DEF Plane!DropWaitsOnlyThen, Plane!Stuck
<1> QED BY <1>2, <1>3, <1>4, <1>5 DEF Plane!ControlPlaneHolds

\* Every step of the listener, the client and the worker.
LEMMA PlaneSteps == ASSUME PlaneTypes, PlaneInv, Next \/ UNCHANGED vars PROVE PlaneTypes' /\ PlaneInv'
<1>1. CASE Plane!Next
  <2>1. PlaneTypes' BY <1>1, PlaneTyped
  <2>2. ASSUME NEW end \in BOOLEAN, NEW silent \in BOOLEAN, Plane!Type(end, silent) PROVE PlaneInv' BY <2>2, TypeHolds
  <2>3. ASSUME NEW sense \in Plane!Senses, Plane!ReadByte(sense) \/ Plane!EndOfStream(sense) PROVE PlaneInv'
    BY <2>3, ReadByteHolds, EndOfStreamHolds
  <2>4. CASE Plane!Turns({"on"}, "half") BY <2>1, <2>4, TurnsHolds
  <2>5. CASE Plane!Turns({"on"}, "deaf") BY <2>1, <2>5, TurnsHolds
  <2>6. CASE Plane!Turns({"on", "half", "deaf"}, "gone") BY <2>1, <2>6, TurnsHolds
  <2>7. CASE Plane!Connect \/ Plane!Accept \/ Plane!ReadOn
    BY <2>1, <2>7, ConnectHolds, AcceptHolds, ReadOnHolds
  <2>8. CASE Plane!ReadTimesOut \/ Plane!Write \/ Plane!Send \/ Plane!WorkerSilent
    BY <2>1, <2>8, ReadTimesOutHolds, WriteHolds, SendHolds, WorkerSilentHolds, PlaneAssumption
  <2>9. CASE Plane!Serve \/ Plane!StartsDrop \/ Plane!Joined BY <2>1, <2>9, ServeHolds, DropHolds
  <2> QED BY <1>1, <2>1, <2>2, <2>3, <2>4, <2>5, <2>6, <2>7, <2>8, <2>9 DEF Plane!Next
<1>2. CASE UNCHANGED planeVars BY <1>2, PlaneStands
<1>3. Plane!Next \/ UNCHANGED planeVars BY DEF Next, vars
<1> QED BY <1>1, <1>2, <1>3

-----------------------------------------------------------------------------
(* The daemon's search for a camera (AutoInput). *)

\* The first delay, which a longest delay below it cuts off.
Least == Daemon!Smaller(BaseDelay, MaxDelay)

\* Functions that satisfy the equations of Doubled on the numbers below n.
Doubles(f, n) == DOMAIN f = Nat /\ \A m \in 0..n : f[m] = IF m = 0 THEN Least ELSE 2 * f[m - 1]

\* Up to any number there is a function that doubles.
LEMMA DoublesTo == ASSUME NEW n \in Nat PROVE \E f : Doubles(f, n)
<1> DEFINE T == {m \in Nat : ~ \E f : Doubles(f, m)}
<1>1. SUFFICES T = {} OBVIOUS
<1>2. SUFFICES ASSUME T # {} PROVE FALSE OBVIOUS
<1>3. T \in SUBSET Nat OBVIOUS
<1>4. PICK m \in T : \A k \in T : m <= k BY <1>2, <1>3, Smallest
<1>5. m \in Nat /\ ~ \E f : Doubles(f, m) OBVIOUS
<1>6. CASE m = 0
  <2>1. Doubles([k \in Nat |-> Least], 0) BY DEF Doubles
  <2> QED BY <1>5, <1>6, <2>1
<1>7. CASE m # 0
  <2>1. m - 1 \in Nat /\ m - 1 \notin T BY <1>4, <1>5, <1>7
  <2>2. PICK f : Doubles(f, m - 1) BY <2>1
  <2>3. Doubles([f EXCEPT ![m] = 2 * f[m - 1]], m) BY <1>5, <1>7, <2>2 DEF Doubles
  <2> QED BY <1>5, <2>3
<1> QED BY <1>6, <1>7

\* Two functions that double are one as far as they do.
LEMMA DoublesAgree == ASSUME NEW f, NEW g, NEW n \in Nat, Doubles(f, n), Doubles(g, n)
                      PROVE \A k \in 0..n : f[k] = g[k]
<1> DEFINE T == {k \in Nat : k <= n /\ f[k] # g[k]}
<1>1. SUFFICES T = {} OBVIOUS
<1>2. SUFFICES ASSUME T # {} PROVE FALSE OBVIOUS
<1>3. T \in SUBSET Nat OBVIOUS
<1>4. PICK m \in T : \A k \in T : m <= k BY <1>2, <1>3, Smallest
<1>5. m \in Nat /\ m <= n /\ f[m] # g[m] OBVIOUS
<1>6. m # 0 BY <1>5 DEF Doubles
<1>7. m - 1 \in Nat /\ m - 1 \notin T /\ m - 1 <= n BY <1>4, <1>5, <1>6
<1>8. f[m - 1] = g[m - 1] BY <1>7
<1>9. m \in 0..n BY <1>5
<1>10. f[m] = 2 * f[m - 1] /\ g[m] = 2 * g[m - 1] BY <1>6, <1>9 DEF Doubles
<1> QED BY <1>5, <1>8, <1>10

\* The delay after n failures is twice the one after n - 1.
LEMMA DoubledTwice == ASSUME NEW n \in Nat
     PROVE Daemon!Doubled[n] = IF n = 0 THEN Least ELSE 2 * Daemon!Doubled[n - 1]
<1> DEFINE upTo(k) == CHOOSE f : Doubles(f, k)
           whole == [k \in Nat |-> upTo(k)[k]]
<1>1. \A k \in Nat : Doubles(upTo(k), k) BY DoublesTo
<1>2. \A k \in Nat : k # 0 => Doubles(upTo(k), k - 1)
  <2>1. SUFFICES ASSUME NEW k \in Nat, k # 0 PROVE Doubles(upTo(k), k - 1) OBVIOUS
  <2>2. Doubles(upTo(k), k) BY <1>1
  <2> HIDE DEF upTo
  <2> QED BY <2>1, <2>2 DEF Doubles
<1>3. \A k \in Nat : k # 0 => upTo(k)[k - 1] = upTo(k - 1)[k - 1]
  <2>1. SUFFICES ASSUME NEW k \in Nat, k # 0 PROVE upTo(k)[k - 1] = upTo(k - 1)[k - 1] OBVIOUS
  <2>2. k - 1 \in Nat /\ k - 1 \in 0..(k - 1) BY <2>1
  <2>3. Doubles(upTo(k), k - 1) /\ Doubles(upTo(k - 1), k - 1) BY <1>1, <1>2, <2>1, <2>2
  <2> HIDE DEF upTo
  <2> QED BY <2>2, <2>3, DoublesAgree
<1>4. \A k \in Nat : upTo(k)[k] = IF k = 0 THEN Least ELSE 2 * upTo(k)[k - 1]
  <2>1. SUFFICES ASSUME NEW k \in Nat PROVE upTo(k)[k] = IF k = 0 THEN Least ELSE 2 * upTo(k)[k - 1] OBVIOUS
  <2>2. Doubles(upTo(k), k) /\ k \in 0..k BY <1>1
  <2> HIDE DEF upTo
  <2> QED BY <2>2 DEF Doubles
<1> HIDE DEF upTo
<1>5. \A k \in Nat : k # 0 => k - 1 \in Nat OBVIOUS
<1>6. \A k \in Nat : whole[k] = IF k = 0 THEN Least ELSE 2 * whole[k - 1] BY <1>3, <1>4, <1>5
<1>7. whole = [k \in Nat |-> IF k = 0 THEN Least ELSE 2 * whole[k - 1]] BY <1>6
<1> HIDE DEF whole
<1>8. Daemon!Doubled = [k \in Nat |-> IF k = 0 THEN Least ELSE 2 * Daemon!Doubled[k - 1]]
   BY <1>7 DEF Daemon!Doubled, Least
<1> QED BY <1>8

\* The shortest delay is one, and no delay is longer than the longest.
LEMMA LeastIsPositive == Least \in Nat \ {0} /\ Least <= MaxDelay /\ MaxDelay \in Nat \ {0}
BY DaemonAssumption DEF DaemonAssumption, Least, Daemon!Smaller

\* No delay is shorter than the first.
LEMMA DoubledGrows == ASSUME NEW n \in Nat PROVE Daemon!Doubled[n] \in Nat /\ Daemon!Doubled[n] >= Least
<1> DEFINE T == {m \in Nat : ~ (Daemon!Doubled[m] \in Nat /\ Daemon!Doubled[m] >= Least)}
<1>1. SUFFICES T = {} OBVIOUS
<1>2. SUFFICES ASSUME T # {} PROVE FALSE OBVIOUS
<1>3. T \in SUBSET Nat OBVIOUS
<1>4. PICK m \in T : \A k \in T : m <= k BY <1>2, <1>3, Smallest
<1>5. m \in Nat /\ ~ (Daemon!Doubled[m] \in Nat /\ Daemon!Doubled[m] >= Least) OBVIOUS
<1>6. Daemon!Doubled[m] = IF m = 0 THEN Least ELSE 2 * Daemon!Doubled[m - 1] BY <1>5, DoubledTwice
<1>7. m # 0 BY <1>5, <1>6, LeastIsPositive
<1>8. m - 1 \in Nat /\ m - 1 \notin T BY <1>4, <1>5, <1>7
<1>9. Daemon!Doubled[m - 1] \in Nat /\ Daemon!Doubled[m - 1] >= Least BY <1>8
<1> QED BY <1>5, <1>6, <1>7, <1>9, LeastIsPositive

\* What the marks and the ghosts of the daemon hold.
Marks == [since : Nat, rebuilds : Nat, invisible : Int, epoch : Int]
Seen == [dark : Int, total : Int, returns : Nat, row : Nat, failed : Int, unheard : BOOLEAN]
DaemonTypes ==
    /\ step \in {"looking", "starting", "acquiring", "opened", "serving", "waiting", "ended"}
    /\ now \in Nat /\ began \in Nat /\ until \in Int /\ backoff \in Nat
    /\ stop \in BOOLEAN /\ going \in BOOLEAN
    /\ marks \in Marks /\ seen \in Seen

\* The marks say when the outage began, if there is one, and how long there was none.
Outages(m, s, t, at_) ==
    /\ m.rebuilds = s.returns
    /\ m.epoch = -1 \/ m.epoch \in 0..t
    /\ s.dark # -1 => m.epoch # -1 /\ s.dark \in m.epoch..t
                      /\ m.since = Daemon!Larger(s.dark - m.epoch, 1)
    /\ s.dark = -1 => m.since = 0
    /\ \/ m.invisible = s.total
       \/ /\ m.invisible = s.total - 1
          /\ m.epoch # -1 /\ m.epoch < t /\ (s.dark # -1 => m.epoch < s.dark)
    /\ at_ \in {"acquiring", "opened", "serving"} => s.dark = -1

\* The delay grows from the first, and every failure is followed by one.
Delays ==
    /\ Daemon!DelayCountsFailures
    /\ seen.row # 0 => backoff >= Least /\ backoff <= MaxDelay
Waits ==
    /\ step = "looking" => now - seen.failed >= Least
    /\ step = "waiting" => until - seen.failed >= Least
    /\ step = "starting" => began - seen.failed >= Least

\* A signal is answered by the run that is there, or was missed before there was one.
Hears == step \in {"opened", "serving"} /\ stop => seen.unheard \/ (step = "serving" /\ ~going)
DaemonInv == DaemonTypes /\ Outages(marks, seen, now, step) /\ Delays /\ Waits /\ Hears

\* What is a number in the marks and in what was seen.
LEMMA DaemonFields == ASSUME DaemonTypes
     PROVE /\ now \in Nat /\ began \in Nat /\ until \in Int /\ backoff \in Nat
           /\ marks \in Marks /\ seen \in Seen
           /\ marks.since \in Nat /\ marks.rebuilds \in Nat /\ marks.invisible \in Int /\ marks.epoch \in Int
           /\ seen.dark \in Int /\ seen.total \in Int /\ seen.returns \in Nat /\ seen.row \in Nat
           /\ seen.failed \in Int /\ seen.unheard \in BOOLEAN
<1>1. marks \in Marks /\ seen \in Seen BY DEF DaemonTypes
<1>2. marks.since \in Nat /\ marks.rebuilds \in Nat /\ marks.invisible \in Int /\ marks.epoch \in Int BY <1>1 DEF Marks
<1>3. seen.dark \in Int /\ seen.total \in Int /\ seen.returns \in Nat /\ seen.row \in Nat
           /\ seen.failed \in Int /\ seen.unheard \in BOOLEAN BY <1>1 DEF Seen
<1> QED BY <1>1, <1>2, <1>3 DEF DaemonTypes

\* mark_output_down: an outage begins at the first mark of it.
LEMMA GoesDark == ASSUME DaemonTypes, Outages(marks, seen, now, step), seen.dark = -1, marks' = Daemon!MarkDown, now' = now,
                         seen'.dark = now, seen'.total = seen.total, seen'.returns = seen.returns, step' \in {"waiting", "ended"}
                  PROVE marks' \in Marks /\ Outages(marks', seen', now', step')
<1>1. PICK epoch : epoch = Daemon!Epoch OBVIOUS
<1>2. epoch \in 0..now /\ epoch # -1 /\ (marks.epoch # -1 => epoch = marks.epoch)
  BY <1>1, DaemonFields DEF Daemon!Epoch, Outages
<1>3. marks.since = 0 BY DEF Outages
<1>4. PICK since : since = Daemon!Larger(now - epoch, 1) OBVIOUS
<1>5. since \in Nat BY <1>2, <1>4, DaemonFields DEF Daemon!Larger
<1>6. marks' = [marks EXCEPT !.since = since, !.epoch = epoch]
  BY <1>1, <1>3, <1>4 DEF Daemon!MarkDown, Daemon!Elapsed
<1>7. epoch \in Int BY <1>2
<1>8. marks \in Marks BY DEF DaemonTypes
<1>9. /\ marks' \in Marks /\ marks'.since = since /\ marks'.epoch = epoch
      /\ marks'.rebuilds = marks.rebuilds /\ marks'.invisible = marks.invisible
  BY <1>5, <1>6, <1>7, <1>8 DEF Marks
<1>10. Outages(marks', seen', now', step')
  <2>1. marks'.rebuilds = seen'.returns BY <1>9 DEF Outages
  <2>2. marks'.epoch \in 0..now' BY <1>2, <1>9
  <2>3. marks'.epoch # -1 /\ seen'.dark \in marks'.epoch..now' /\ marks'.since = Daemon!Larger(seen'.dark - marks'.epoch, 1)
     BY <1>2, <1>4, <1>9, DaemonFields
  <2>4. seen'.dark # -1 BY DaemonFields
  <2>5. \/ marks'.invisible = seen'.total
        \/ /\ marks'.invisible = seen'.total - 1
           /\ marks'.epoch # -1 /\ marks'.epoch < now' /\ marks'.epoch < seen'.dark
    BY <1>2, <1>9, DaemonFields DEF Outages
  <2> QED BY <2>1, <2>2, <2>3, <2>4, <2>5 DEF Outages
<1> QED BY <1>9, <1>10

\* mark_output_live: the time of the outage is added, once.
LEMMA ComesBack == ASSUME DaemonTypes, Outages(marks, seen, now, step), Daemon!OutputStarts
                   PROVE marks' \in Marks /\ seen' \in Seen /\ Outages(marks', seen', now', step')
                         /\ seen'.row = seen.row /\ seen'.failed = seen.failed /\ seen'.unheard = seen.unheard
<1>1. step' = "acquiring" /\ now' = now /\ marks' = Daemon!MarkLive BY DEF Daemon!OutputStarts
<1>2. marks \in Marks /\ seen \in Seen BY DEF DaemonTypes
<1>3. CASE seen.dark = -1
  <2>1. marks.since = 0 BY <1>3 DEF Outages
  <2>2. marks' = marks /\ seen' = seen BY <1>1, <1>3, <2>1 DEF Daemon!OutputStarts, Daemon!MarkLive
  <2> QED BY <1>1, <1>2, <1>3, <2>2 DEF Outages
<1>4. CASE seen.dark # -1
  <2>1. /\ marks.epoch # -1 /\ seen.dark \in marks.epoch..now /\ marks.epoch \in 0..now
        /\ marks.since = Daemon!Larger(seen.dark - marks.epoch, 1)
    BY <1>4 DEF Outages
  <2>2. marks.since # 0 BY <2>1, DaemonFields DEF Daemon!Larger
  <2>3. PICK lost : lost = Daemon!Larger((now - marks.epoch) - marks.since, 0) OBVIOUS
  <2>4. lost \in Nat BY <2>3, DaemonFields DEF Daemon!Larger
  <2>5. marks' = [since |-> 0, rebuilds |-> marks.rebuilds + 1, epoch |-> marks.epoch, invisible |-> marks.invisible + lost]
    BY <1>1, <2>1, <2>2, <2>3 DEF Daemon!MarkLive, Daemon!Elapsed, Daemon!Epoch
  <2>6. /\ 0 \in Nat /\ marks.rebuilds + 1 \in Nat /\ marks.invisible + lost \in Int /\ marks.epoch \in Int
     BY <2>4, DaemonFields
  <2>7. /\ marks' \in Marks /\ marks'.since = 0 /\ marks'.rebuilds = marks.rebuilds + 1 /\ marks'.epoch = marks.epoch
        /\ marks'.invisible = marks.invisible + lost
    BY <2>5, <2>6 DEF Marks
  <2>8. seen' = [seen EXCEPT !.dark = -1, !.total = @ + (now - seen.dark), !.returns = @ + 1]
    BY <1>4 DEF Daemon!OutputStarts
  <2>9. -1 \in Int /\ seen.total + (now - seen.dark) \in Int /\ seen.returns + 1 \in Nat BY DaemonFields
  <2>10. /\ seen' \in Seen /\ seen'.dark = -1 /\ seen'.total = seen.total + (now - seen.dark) /\ seen'.returns = seen.returns + 1
         /\ seen'.row = seen.row /\ seen'.failed = seen.failed /\ seen'.unheard = seen.unheard
    BY <1>2, <2>8, <2>9 DEF Seen
  <2>11. \/ lost = now - seen.dark
         \/ lost = (now - seen.dark) - 1 /\ marks.epoch = seen.dark /\ marks.epoch < now
    BY <2>1, <2>3, DaemonFields DEF Daemon!Larger
  <2>12. \/ marks.invisible = seen.total
         \/ /\ marks.invisible = seen.total - 1
            /\ marks.epoch # -1 /\ marks.epoch < now /\ marks.epoch < seen.dark
    BY <1>4 DEF Outages
  <2>13. \/ marks'.invisible = seen'.total
         \/ /\ marks'.invisible = seen'.total - 1
            /\ marks'.epoch # -1 /\ marks'.epoch < now'
    BY <1>1, <2>1, <2>7, <2>10, <2>11, <2>12, DaemonFields
  <2>14. Outages(marks', seen', now', step') BY <1>1, <2>1, <2>7, <2>10, <2>13 DEF Outages
  <2> QED BY <2>7, <2>10, <2>14
<1> QED BY <1>3, <1>4

\* An error of a run: the delay grows, and the wait with it.
LEMMA Surfaces == ASSUME DaemonTypes, Delays, NEW error, NEW happened \in Seen, happened.row = seen.row, Daemon!Surface(error, happened)
                  PROVE /\ seen' \in Seen /\ seen'.dark = happened.dark /\ seen'.total = happened.total
                        /\ seen'.returns = happened.returns /\ seen'.unheard = happened.unheard
                        /\ step' \in {"waiting", "ended"} /\ backoff' \in Nat /\ until' \in Int
                        /\ Delays' /\ (step' = "waiting" => until' - seen'.failed >= Least)
<1>1. CASE ~Daemon!IsTransient(error)
  <2>1. step' = "ended" /\ seen' = happened /\ UNCHANGED <<backoff, until>> BY <1>1 DEF Daemon!Surface
  <2>2. Delays' BY <2>1 DEF Delays, Daemon!DelayCountsFailures
  <2> QED BY <2>1, <2>2 DEF DaemonTypes
<1>2. CASE Daemon!IsTransient(error)
  <2>1. PICK delay : delay = Daemon!NextBackoff(backoff, now - began) OBVIOUS
  <2>2. PICK row : row = IF now - began >= MaxDelay * Daemon!ResetFactor THEN 1 ELSE happened.row + 1 OBVIOUS
  <2>3. /\ step' = "waiting" /\ backoff' = delay /\ until' = now + delay
        /\ seen' = [happened EXCEPT !.failed = now, !.row = row]
    BY <1>2, <2>1, <2>2 DEF Daemon!Surface
  <2>4. row \in Nat \ {0} /\ row - 1 \in Nat BY <2>2, DaemonFields
  <2>5. now \in Int /\ row \in Nat BY <2>4, DaemonFields
  <2>6. /\ seen' \in Seen /\ seen'.dark = happened.dark /\ seen'.total = happened.total
        /\ seen'.returns = happened.returns /\ seen'.unheard = happened.unheard
        /\ seen'.failed = now /\ seen'.row = row
    BY <2>3, <2>5 DEF Seen
  <2>7. backoff \in Nat /\ seen.row \in Nat /\ (seen.row # 0 => seen.row - 1 \in Nat) BY DaemonFields
  <2>8. /\ backoff = IF seen.row = 0 THEN 0 ELSE Daemon!Smaller(Daemon!Doubled[seen.row - 1], MaxDelay)
        /\ seen.row # 0 => backoff >= Least /\ backoff <= MaxDelay
     BY DEF Delays, Daemon!DelayCountsFailures
  <2>9. delay \in Nat /\ delay >= Least /\ delay <= MaxDelay /\ delay = Daemon!Smaller(Daemon!Doubled[row - 1], MaxDelay)
    <3>1. CASE now - began >= MaxDelay * Daemon!ResetFactor \/ backoff = 0
      <4>1. delay = Least BY <2>1, <3>1 DEF Daemon!NextBackoff, Least
      <4>2. row = 1
        <5>1. CASE now - began >= MaxDelay * Daemon!ResetFactor BY <2>2, <5>1
        <5>2. CASE backoff = 0
          <6>1. seen.row = 0 BY <2>7, <2>8, <5>2, LeastIsPositive
          <6> QED BY <2>2, <6>1
        <5> QED BY <3>1, <5>1, <5>2
      <4>3. Daemon!Doubled[row - 1] = Least BY <4>2, DoubledTwice
      <4>4. Daemon!Smaller(Least, MaxDelay) = Least BY LeastIsPositive DEF Daemon!Smaller
      <4> QED BY <4>1, <4>3, <4>4, LeastIsPositive
    <3>2. CASE ~(now - began >= MaxDelay * Daemon!ResetFactor \/ backoff = 0)
      <4>1. delay = Daemon!Smaller(2 * backoff, MaxDelay) BY <2>1, <3>2 DEF Daemon!NextBackoff
      <4>2. seen.row # 0 BY <2>8, <3>2
      <4>3. row = seen.row + 1 BY <2>2, <3>2
      <4>4. seen.row \in Nat /\ row - 1 = seen.row BY <4>3, DaemonFields
      <4>5. Daemon!Doubled[row - 1] = 2 * Daemon!Doubled[seen.row - 1] BY <4>2, <4>4, DoubledTwice
      <4>6. Daemon!Doubled[seen.row - 1] \in Nat BY <2>7, <4>2, DoubledGrows
      <4>7. backoff = Daemon!Smaller(Daemon!Doubled[seen.row - 1], MaxDelay) BY <2>8, <4>2
      <4>8. backoff >= Least BY <2>8, <4>2
      <4> QED BY <4>1, <4>5, <4>6, <4>7, <4>8, <2>7, LeastIsPositive DEF Daemon!Smaller
    <3> QED BY <3>1, <3>2
  <2>10. Delays' BY <2>3, <2>4, <2>6, <2>9 DEF Delays, Daemon!DelayCountsFailures
  <2>11. until' \in Int /\ until' - seen'.failed >= Least BY <2>3, <2>6, <2>9, DaemonFields
  <2> QED BY <2>3, <2>6, <2>9, <2>10, <2>11
<1> QED BY <1>1, <1>2

\* Every step of run_auto, of a run and of the signal.
LEMMA DaemonSteps == ASSUME DaemonInv, Daemon!Next PROVE DaemonInv'
<1>0. DaemonTypes /\ Outages(marks, seen, now, step) /\ Delays /\ Waits /\ Hears BY DEF DaemonInv
<1>f. marks \in Marks /\ seen \in Seen /\ now \in Nat /\ began \in Nat /\ until \in Int /\ backoff \in Nat
      /\ seen.failed \in Int /\ seen.row \in Nat
   BY <1>0, DaemonFields
<1>d. \A d \in {Daemon!Dark} : d \in Seen /\ d.dark = now /\ d.total = seen.total /\ d.returns = seen.returns
                       /\ d.row = seen.row /\ d.failed = seen.failed /\ d.unheard = seen.unheard
  <2>1. now \in Int BY <1>f
  <2> QED BY <1>f, <2>1 DEF Daemon!Dark, Seen
<1>1. ASSUME NEW found \in BOOLEAN, Daemon!Look(found) PROVE DaemonInv'
  <2>1. step = "looking" /\ UNCHANGED <<now, stop, going, marks>> BY <1>1 DEF Daemon!Look
  <2>2. CASE stop
    <3>1. step' = "ended" /\ UNCHANGED <<began, backoff, until, seen>> BY <1>1, <2>2 DEF Daemon!Look
    <3>2. DaemonTypes' BY <1>0, <2>1, <3>1 DEF DaemonTypes
    <3>3. Outages(marks', seen', now', step') BY <1>0, <2>1, <3>1 DEF Outages
    <3>4. Delays' BY <1>0, <3>1 DEF Delays, Daemon!DelayCountsFailures
    <3>5. Waits' /\ Hears' BY <3>1 DEF Waits, Hears
    <3> QED BY <3>2, <3>3, <3>4, <3>5 DEF DaemonInv
  <2>3. CASE ~stop /\ found
    <3>1. step' = "starting" /\ began' = now /\ UNCHANGED <<backoff, until, seen>> BY <1>1, <2>3 DEF Daemon!Look
    <3>2. DaemonTypes' BY <1>0, <2>1, <3>1 DEF DaemonTypes
    <3>3. Outages(marks', seen', now', step') BY <1>0, <2>1, <3>1 DEF Outages
    <3>4. Delays' BY <1>0, <3>1 DEF Delays, Daemon!DelayCountsFailures
    <3>5. Waits' /\ Hears' BY <1>0, <2>1, <3>1 DEF Waits, Hears
    <3> QED BY <3>2, <3>3, <3>4, <3>5 DEF DaemonInv
  <2>4. CASE ~stop /\ ~found
    <3>1. step' = "waiting" /\ backoff' = 0 /\ until' = now + Interval /\ began' = began
          /\ seen' = [seen EXCEPT !.row = 0]
      BY <1>1, <2>4 DEF Daemon!Look
    <3>2. 0 \in Nat OBVIOUS
    <3>3. seen' \in Seen /\ seen'.row = 0 /\ seen'.dark = seen.dark /\ seen'.total = seen.total
          /\ seen'.returns = seen.returns /\ seen'.failed = seen.failed
      BY <1>f, <3>1, <3>2 DEF Seen
    <3>4. until' \in Int /\ until' >= now BY <1>f, <3>1, DaemonAssumption DEF DaemonAssumption
    <3>5. DaemonTypes' BY <1>0, <2>1, <3>1, <3>2, <3>3, <3>4 DEF DaemonTypes
    <3>6. Outages(marks', seen', now', step') BY <1>0, <2>1, <3>1, <3>3 DEF Outages
    <3>7. Delays' BY <3>1, <3>3 DEF Delays, Daemon!DelayCountsFailures
    <3>8. until' - seen'.failed >= Least
      <4>1. now - seen.failed >= Least BY <1>0, <2>1 DEF Waits
      <4> QED BY <4>1, <3>3, <3>4, <1>f, LeastIsPositive
    <3>9. Waits' /\ Hears' BY <3>1, <3>8 DEF Waits, Hears
    <3> QED BY <3>5, <3>6, <3>7, <3>9 DEF DaemonInv
  <2> QED BY <2>2, <2>3, <2>4, <1>0 DEF DaemonTypes
<1>2. ASSUME NEW error, Daemon!StartFails(error) PROVE DaemonInv'
  <2>1. step = "starting" /\ Daemon!Surface(error, seen) /\ UNCHANGED <<now, stop, going, began, marks>>
    BY <1>2 DEF Daemon!StartFails
  <2>2. /\ seen' \in Seen /\ seen'.dark = seen.dark /\ seen'.total = seen.total
        /\ seen'.returns = seen.returns
        /\ step' \in {"waiting", "ended"} /\ backoff' \in Nat /\ until' \in Int
        /\ Delays' /\ (step' = "waiting" => until' - seen'.failed >= Least)
    BY <1>0, <1>f, <2>1, Surfaces
  <2>3. DaemonTypes' BY <1>0, <2>1, <2>2 DEF DaemonTypes
  <2>4. Outages(marks', seen', now', step') BY <1>0, <2>1, <2>2 DEF Outages
  <2>5. Waits' /\ Hears' BY <2>2 DEF Waits, Hears
  <2> QED BY <2>2, <2>3, <2>4, <2>5 DEF DaemonInv
<1>3. CASE Daemon!OutputStarts
  <2>1. step' = "acquiring" /\ UNCHANGED <<now, stop, going, began, backoff, until>> BY <1>3 DEF Daemon!OutputStarts
  <2>2. marks' \in Marks /\ seen' \in Seen /\ Outages(marks', seen', now', step')
        /\ seen'.row = seen.row /\ seen'.failed = seen.failed
    BY <1>0, <1>3, ComesBack
  <2>3. DaemonTypes' BY <1>0, <2>1, <2>2 DEF DaemonTypes
  <2>4. Delays' BY <1>0, <2>1, <2>2 DEF Delays, Daemon!DelayCountsFailures
  <2>5. Waits' /\ Hears' BY <2>1 DEF Waits, Hears
  <2> QED BY <2>2, <2>3, <2>4, <2>5 DEF DaemonInv
<1>4. ASSUME NEW error, step \in {"acquiring", "serving"}, marks' = Daemon!MarkDown, Daemon!Surface(error, Daemon!Dark),
             UNCHANGED <<now, stop, began>>, going' \in BOOLEAN
      PROVE DaemonInv'
  <2>1. PICK d \in Seen : d = Daemon!Dark BY <1>d
  <2>2. d.dark = now /\ d.total = seen.total /\ d.returns = seen.returns /\ d.row = seen.row BY <1>d, <2>1
  <2>3. /\ seen' \in Seen /\ seen'.dark = d.dark /\ seen'.total = d.total
        /\ seen'.returns = d.returns
        /\ step' \in {"waiting", "ended"} /\ backoff' \in Nat /\ until' \in Int
        /\ Delays' /\ (step' = "waiting" => until' - seen'.failed >= Least)
    BY <1>0, <1>4, <2>1, <2>2, Surfaces
  <2>4. seen.dark = -1 BY <1>0, <1>4 DEF Outages
  <2>5. marks' \in Marks /\ Outages(marks', seen', now', step') BY <1>0, <1>4, <2>2, <2>3, <2>4, GoesDark
  <2>6. DaemonTypes' BY <1>0, <1>4, <2>3, <2>5 DEF DaemonTypes
  <2>7. Waits' /\ Hears' BY <2>3 DEF Waits, Hears
  <2> QED BY <2>3, <2>5, <2>6, <2>7 DEF DaemonInv
<1>5. ASSUME NEW error, Daemon!AcquireFails(error) PROVE DaemonInv'
  <2>1. going' \in BOOLEAN BY <1>0, <1>5 DEF DaemonTypes, Daemon!AcquireFails
  <2> QED BY <2>1, <1>4, <1>5 DEF Daemon!AcquireFails
<1>6. ASSUME NEW error, Daemon!RunFails(error) PROVE DaemonInv'
  <2>1. going' \in BOOLEAN BY <1>6 DEF Daemon!RunFails
  <2> QED BY <2>1, <1>4, <1>6 DEF Daemon!RunFails
<1>7. CASE Daemon!AcquireStops \/ Daemon!RunStops
  <2>1. step \in {"acquiring", "serving"} /\ marks' = Daemon!MarkDown /\ seen' = Daemon!Dark /\ step' = "ended"
        /\ UNCHANGED <<now, stop, going, began, backoff, until>>
    BY <1>7 DEF Daemon!AcquireStops, Daemon!RunStops
  <2>2. seen' \in Seen /\ seen'.dark = now /\ seen'.total = seen.total /\ seen'.returns = seen.returns /\ seen'.row = seen.row
    BY <1>d, <2>1
  <2>4. seen.dark = -1 BY <1>0, <2>1 DEF Outages
  <2>5. marks' \in Marks /\ Outages(marks', seen', now', step') BY <1>0, <2>1, <2>2, <2>4, GoesDark
  <2>6. DaemonTypes' BY <1>0, <2>1, <2>2, <2>5 DEF DaemonTypes
  <2>7. Delays' BY <1>0, <2>1, <2>2 DEF Delays, Daemon!DelayCountsFailures
  <2>8. Waits' /\ Hears' BY <2>1 DEF Waits, Hears
  <2> QED BY <2>5, <2>6, <2>7, <2>8 DEF DaemonInv
<1>8. CASE Daemon!AcquireOpens \/ Daemon!RegisterToken \/ Daemon!WaitEnds
  <2>1. UNCHANGED <<now, stop, began, backoff, until, marks, seen>>
    BY <1>8 DEF Daemon!AcquireOpens, Daemon!RegisterToken, Daemon!WaitEnds
  <2>2. \/ step = "acquiring" /\ step' = "opened" /\ ~stop /\ going' = going
        \/ step = "opened" /\ step' = "serving" /\ going' = TRUE
        \/ step = "waiting" /\ (step' = "ended" \/ (step' = "looking" /\ now >= until)) /\ going' = going
    <3>1. CASE Daemon!AcquireOpens BY <3>1 DEF Daemon!AcquireOpens
    <3>2. CASE Daemon!RegisterToken BY <3>2 DEF Daemon!RegisterToken
    <3>3. CASE Daemon!WaitEnds
      <4>1. step = "waiting" /\ (stop \/ now >= until) /\ step' = (IF stop THEN "ended" ELSE "looking") /\ going' = going
        BY <3>3 DEF Daemon!WaitEnds
      <4> QED BY <4>1
    <3> QED BY <1>8, <3>1, <3>2, <3>3
  <2>3. DaemonTypes' BY <1>0, <2>1, <2>2 DEF DaemonTypes
  <2>4. Outages(marks', seen', now', step') BY <1>0, <2>1, <2>2 DEF Outages
  <2>5. Delays' BY <1>0, <2>1 DEF Delays, Daemon!DelayCountsFailures
  <2>6. Waits'
    <3>1. step' = "looking" => now' - seen'.failed >= Least
      BY <1>0, <1>f, <2>1, <2>2, LeastIsPositive DEF Waits
    <3> QED BY <3>1, <2>2 DEF Waits
  <2>7. Hears' BY <1>0, <2>1, <2>2 DEF Hears
  <2> QED BY <2>3, <2>4, <2>5, <2>6, <2>7 DEF DaemonInv
<1>9. CASE Daemon!CtrlC
  <2>1. PICK unheard : unheard = (step = "opened" \/ (seen.unheard /\ step # "serving")) OBVIOUS
  <2>2. unheard \in BOOLEAN BY <2>1
  <2>3. stop' = TRUE /\ going' = FALSE /\ seen' = [seen EXCEPT !.unheard = unheard]
        /\ UNCHANGED <<step, now, began, backoff, until, marks>>
    BY <1>9, <2>1 DEF Daemon!CtrlC
  <2>4. /\ seen' \in Seen /\ seen'.row = seen.row /\ seen'.dark = seen.dark /\ seen'.total = seen.total
        /\ seen'.returns = seen.returns /\ seen'.failed = seen.failed /\ seen'.unheard = unheard
      BY <1>f, <2>2, <2>3 DEF Seen
  <2>5. DaemonTypes' BY <1>0, <2>3, <2>4 DEF DaemonTypes
  <2>6. Outages(marks', seen', now', step') BY <1>0, <2>3, <2>4 DEF Outages
  <2>7. Delays' BY <1>0, <2>3, <2>4 DEF Delays, Daemon!DelayCountsFailures
  <2>8. Waits' BY <1>0, <2>3, <2>4 DEF Waits
  <2>9. Hears' BY <2>1, <2>3, <2>4 DEF Hears
  <2> QED BY <2>5, <2>6, <2>7, <2>8, <2>9 DEF DaemonInv
<1>10. CASE Daemon!Tick
  <2>1. now' = now + 1 /\ step # "looking" /\ UNCHANGED <<step, stop, going, began, backoff, until, marks, seen>>
    BY <1>10 DEF Daemon!Tick
  <2>2. now' \in Nat BY <1>f, <2>1
  <2>3. DaemonTypes' BY <1>0, <2>1, <2>2 DEF DaemonTypes
  <2>4. Outages(marks', seen', now', step')
    <3>1. \A m \in Int : m \in 0..now => m \in 0..(now + 1) BY <1>f
    <3>2. marks.epoch \in Int /\ seen.dark \in Int BY <1>0, DaemonFields
    <3> QED BY <1>0, <1>f, <2>1, <3>1, <3>2 DEF Outages
  <2>5. Delays' BY <1>0, <2>1 DEF Delays, Daemon!DelayCountsFailures
  <2>6. Waits' /\ Hears' BY <1>0, <2>1 DEF Waits, Hears
  <2> QED BY <2>3, <2>4, <2>5, <2>6 DEF DaemonInv
<1> QED BY <1>1, <1>2, <1>3, <1>5, <1>6, <1>7, <1>8, <1>9, <1>10 DEF Daemon!Next

\* The daemon that was just started.
LEMMA DaemonBegins == ASSUME Init PROVE DaemonInv
<1>1. /\ step = "looking" /\ now = 0 /\ stop = FALSE /\ going = FALSE /\ began = 0 /\ backoff = 0 /\ until = 0
      /\ marks = [since |-> 0, rebuilds |-> 0, invisible |-> 0, epoch |-> -1]
      /\ seen = [dark |-> -1, total |-> 0, returns |-> 0, row |-> 0, failed |-> -MaxDelay, unheard |-> FALSE]
  BY DEF Init, AllBegin, Daemon!Init
<1>2. 0 \in Nat /\ 0 \in Int /\ -1 \in Int /\ -MaxDelay \in Int /\ 0 - (-MaxDelay) = MaxDelay /\ Least <= MaxDelay BY LeastIsPositive
<1>3. marks \in Marks /\ seen \in Seen BY <1>1, <1>2 DEF Marks, Seen
<1>4. DaemonTypes
  <2>1. step = "looking" /\ now = 0 /\ stop = FALSE /\ going = FALSE /\ began = 0 /\ backoff = 0 /\ until = 0 BY <1>1
  <2>2. now \in Nat /\ began \in Nat /\ until \in Int /\ backoff \in Nat BY <2>1
  <2>3. stop \in BOOLEAN /\ going \in BOOLEAN BY <2>1
  <2>4. step \in {"looking", "starting", "acquiring", "opened", "serving", "waiting", "ended"} BY <2>1
  <2> QED BY <1>3, <2>2, <2>3, <2>4 DEF DaemonTypes
<1>5. Outages(marks, seen, now, step) BY <1>1 DEF Outages
<1>6. Delays BY <1>1 DEF Delays, Daemon!DelayCountsFailures
<1>7. Waits /\ Hears BY <1>1, <1>2 DEF Waits, Hears
<1> QED BY <1>4, <1>5, <1>6, <1>7 DEF DaemonInv

\* A step of another machine.
LEMMA DaemonStands == ASSUME DaemonInv, UNCHANGED daemonVars PROVE DaemonInv'
<1>1. UNCHANGED <<step, now, stop, going, began, backoff, until, marks, seen>> BY DEF daemonVars
<1> QED BY <1>1 DEF DaemonInv, DaemonTypes, Outages, Delays, Waits, Hears, Daemon!DelayCountsFailures

\* The invariant says what is promised of the daemon.
LEMMA DaemonTells == ASSUME DaemonInv PROVE Daemon!AutoInputHolds
<1>1. DaemonTypes /\ Outages(marks, seen, now, step) /\ Delays /\ Waits /\ Hears BY DEF DaemonInv
<1>2. Daemon!OutagesAreCountedOnce
  <2>1. seen.dark # -1 => marks.since # 0 BY <1>1, DaemonFields DEF Outages, Daemon!Larger
  <2> QED BY <1>1, <2>1 DEF Outages, Daemon!OutagesAreCountedOnce
<1>3. Daemon!DelayCountsFailures BY <1>1 DEF Delays
<1>4. Daemon!NoTightLoop BY <1>1 DEF Waits, Daemon!NoTightLoop, Least
<1>5. Daemon!CtrlCIsHeard BY <1>1 DEF Hears, Daemon!CtrlCIsHeard
<1> QED BY <1>2, <1>3, <1>4, <1>5 DEF Daemon!AutoInputHolds

-----------------------------------------------------------------------------
(* The reporter (Reporter). *)

\* What the counters, the reporter and its log hold; no baseline is ahead of its counter.
CounterNames == Report!Gauges \cup Report!Levels \cup Report!Totals
Readings == [CounterNames -> Int]
Due == [tick : Int, out : Int, dropped : Int, line : Readings, at : Int, on : BOOLEAN]
Log == [frames : Int, drops : Int, ticked : Readings, ticks : Nat]
ReportInv ==
    /\ counters \in Readings /\ slotDrops \in Int /\ clock \in Int /\ due \in Due /\ log \in Log
    /\ counters["frames_out"] >= due.out /\ counters["frames_dropped"] >= due.dropped
    /\ Report!ReporterHolds

\* What is a number in the reporter's due times and in its log.
LEMMA ReportFields == ASSUME ReportInv
   PROVE /\ counters \in Readings /\ slotDrops \in Int /\ clock \in Int /\ due \in Due /\ log \in Log
         /\ due.tick \in Int /\ due.out \in Int /\ due.dropped \in Int /\ due.line \in Readings /\ due.at \in Int
         /\ log.frames \in Int /\ log.drops \in Int /\ log.ticks \in Nat
<1>1. due \in Due /\ log \in Log BY DEF ReportInv
<1>2. due.tick \in Int /\ due.out \in Int /\ due.dropped \in Int /\ due.line \in Readings /\ due.at \in Int BY <1>1 DEF Due
<1>3. log.frames \in Int /\ log.drops \in Int /\ log.ticks \in Nat BY <1>1 DEF Log
<1> QED BY <1>1, <1>2, <1>3 DEF ReportInv

\* The counters that the reporter works with are there.
LEMMA NamesOfCounters ==
    /\ "frames_out" \in CounterNames /\ "frames_dropped" \in CounterNames
    /\ "consumer_status" \in CounterNames /\ "consumer_transitions_total" \in CounterNames
    /\ "consumer_resync_total" \in CounterNames /\ "consumer_last_external_event_age_secs" \in CounterNames
    /\ Bumped \subseteq CounterNames /\ "frames_dropped" \notin Bumped
BY BumpedAssumption DEF BumpedAssumption, CounterNames, Report!Gauges, Report!Totals

\* What the other threads do takes nothing off the totals the reporter keeps.
LEMMA CountersGrow == ASSUME ReportInv, counters' \in Readings, slotDrops' \in Int, clock' = clock, due' = due, log' = log,
                             counters'["frames_out"] >= counters["frames_out"],
                             counters'["frames_dropped"] >= counters["frames_dropped"],
                             counters'["frames_dropped"] <= slotDrops'
                      PROVE ReportInv'
<1>1. counters["frames_out"] \in Int /\ counters["frames_dropped"] \in Int
      /\ counters'["frames_out"] \in Int /\ counters'["frames_dropped"] \in Int
   BY NamesOfCounters DEF ReportInv, Readings
<1>2. counters["frames_out"] >= due.out /\ counters["frames_dropped"] >= due.dropped /\ Report!ReporterHolds BY DEF ReportInv
<1>3. counters'["frames_out"] >= due.out /\ counters'["frames_dropped"] >= due.dropped BY <1>1, <1>2, ReportFields
<1>4. Report!ReporterHolds' BY <1>2 DEF Report!ReporterHolds, Report!LinesAddUp, Report!LastLineIsTrue, Report!HeartbeatIsKept,
        Report!DropsCountedOnce, Report!Ticked
<1> QED BY <1>3, <1>4, ReportFields DEF ReportInv

\* A total that is added to.
LEMMA Adds == ASSUME NEW c \in Readings, NEW n \in CounterNames, NEW d, d = Report!AddTo(c, n, 1)
     PROVE d \in Readings /\ \A m \in CounterNames : d[m] = IF m = n THEN c[m] + 1 ELSE c[m]
BY DEF Report!AddTo, Readings

\* A gauge that is set.
LEMMA Measures == ASSUME NEW c \in Readings, NEW n \in CounterNames, NEW v \in Int, NEW d, d = Report!Measure(c, n, v)
     PROVE d \in Readings /\ \A m \in CounterNames : d[m] = IF m = n THEN v ELSE c[m]
BY DEF Report!Measure, Readings

\* The reporter's tick: what is due is written, and the baselines are moved.
LEMMA SleepHolds == ASSUME ReportInv, NEW late \in 0..1, Report!Sleep(late) PROVE ReportInv'
<1>f. /\ counters \in Readings /\ slotDrops \in Int /\ clock \in Int /\ due \in Due /\ log \in Log
      /\ due.tick \in Int /\ due.out \in Int /\ due.dropped \in Int /\ due.line \in Readings /\ due.at \in Int
      /\ log.frames \in Int /\ log.drops \in Int /\ log.ticks \in Nat
   BY ReportFields
<1>n. counters["frames_out"] \in Int /\ counters["frames_dropped"] \in Int BY <1>f, NamesOfCounters DEF Readings
<1>i. counters["frames_out"] >= due.out /\ counters["frames_dropped"] >= due.dropped /\ Report!ReporterHolds BY DEF ReportInv
<1>1. PICK time : time = clock + Report!SleepFor OBVIOUS
<1>2. PICK frames : frames = Report!Positive(counters["frames_out"] - due.out) OBVIOUS
<1>3. PICK drops : drops = Report!Positive(counters["frames_dropped"] - due.dropped) OBVIOUS
<1>4. PICK emits \in BOOLEAN : emits <=> due.line = Report!NoLine \/ Report!Emits(due.line, counters, frames, drops, time - due.at)
  <2>1. (due.line = Report!NoLine \/ Report!Emits(due.line, counters, frames, drops, time - due.at)) \in BOOLEAN OBVIOUS
  <2> QED BY <2>1
<1>5. Report!SleepFor \in Int BY <1>f, ReporterAssumption DEF Report!SleepFor, Report!Positive, ReporterAssumption
<1>6. time \in Int /\ time + late \in Int BY <1>1, <1>5, <1>f
<1>7. frames = counters["frames_out"] - due.out /\ drops = counters["frames_dropped"] - due.dropped
      /\ frames \in Int /\ drops \in Int
  BY <1>2, <1>3, <1>i, <1>n, <1>f DEF Report!Positive
<1>8. UNCHANGED <<counters, slotDrops, bumps>> /\ clock' = time + late BY <1>1 DEF Report!Sleep
<1>9. CASE time - due.tick < ReportEvery
  <2>1. due' = due /\ log' = log BY <1>1, <1>9 DEF Report!Sleep
  <2>2. Report!DropsCountedOnce BY <1>i DEF Report!ReporterHolds
  <2>3. Report!ReporterHolds' BY <1>8, <1>i, <2>1 DEF Report!ReporterHolds, Report!LinesAddUp, Report!LastLineIsTrue, Report!HeartbeatIsKept,
        Report!DropsCountedOnce, Report!Ticked
  <2> QED BY <1>6, <1>8, <1>f, <1>i, <2>1, <2>3 DEF ReportInv
<1>10. CASE ~(time - due.tick < ReportEvery)
  <2>1. due' = [due EXCEPT !.tick = time, !.out = counters["frames_out"], !.dropped = counters["frames_dropped"],
                           !.line = IF emits THEN counters ELSE @, !.at = IF emits THEN time ELSE @]
    BY <1>1, <1>2, <1>3, <1>4, <1>10 DEF Report!Sleep
  <2>2. log' = [frames |-> log.frames + (IF emits THEN frames ELSE 0), drops |-> log.drops + (IF emits THEN drops ELSE 0),
                ticked |-> counters, ticks |-> log.ticks + 1]
    BY <1>1, <1>2, <1>3, <1>4, <1>10 DEF Report!Sleep
  <2>3. PICK line \in Readings : line = IF emits THEN counters ELSE due.line BY <1>f
  <2>4. PICK at1 \in Int : at1 = IF emits THEN time ELSE due.at BY <1>f, <1>6
  <2>5. due' = [due EXCEPT !.tick = time, !.out = counters["frames_out"], !.dropped = counters["frames_dropped"],
                           !.line = line, !.at = at1]
    BY <1>f, <2>1, <2>3, <2>4 DEF Due
  <2>6. /\ due' \in Due /\ due'.tick = time /\ due'.out = counters["frames_out"] /\ due'.dropped = counters["frames_dropped"]
        /\ due'.line = line /\ due'.at = at1
    BY <1>f, <1>n, <1>6, <2>5 DEF Due
  <2>7. PICK more \in Int : more = log.frames + (IF emits THEN frames ELSE 0) BY <1>f, <1>7
  <2>8. PICK lost \in Int : lost = log.drops + (IF emits THEN drops ELSE 0) BY <1>f, <1>7
  <2>9. log.ticks + 1 \in Nat BY <1>f
  <2>10. log' = [frames |-> more, drops |-> lost, ticked |-> counters, ticks |-> log.ticks + 1] BY <2>2, <2>7, <2>8
  <2>11. log' \in Log /\ log'.frames = more /\ log'.drops = lost /\ log'.ticked = counters /\ log'.ticks = log.ticks + 1
    BY <1>f, <2>9, <2>10 DEF Log
  <2>12. log.frames = due.out /\ log.drops = due.dropped BY <1>i DEF Report!ReporterHolds, Report!LinesAddUp
  <2>13. ~emits => /\ frames = 0 /\ drops = 0 /\ ~(time - due.at >= Heartbeat)
                   /\ Report!SameLine(due.line, counters) /\ (Report!Silent(counters) => Report!Silent(due.line))
    BY <1>4 DEF Report!Emits, Report!CrossedSilence
  <2>14. Report!LinesAddUp' BY <1>n, <1>7, <2>6, <2>7, <2>8, <2>11, <2>12, <2>13, <1>f DEF Report!LinesAddUp
  <2>15. Report!SameLine(counters, counters) BY DEF Report!SameLine
  <2>16. Report!SameLine(line, counters) /\ (Report!Silent(counters) => Report!Silent(line)) BY <2>3, <2>13, <2>15
  <2>17. Report!LastLineIsTrue' BY <2>6, <2>11, <2>16 DEF Report!LastLineIsTrue
  <2>18. time - at1 < Heartbeat BY <2>4, <2>13, <1>6, <1>f, ReporterAssumption DEF ReporterAssumption
  <2>19. Report!HeartbeatIsKept' BY <2>6, <2>18 DEF Report!HeartbeatIsKept
  <2>20. Report!DropsCountedOnce' BY <1>8, <1>i DEF Report!ReporterHolds, Report!DropsCountedOnce
  <2>21. Report!ReporterHolds' BY <2>14, <2>17, <2>19, <2>20 DEF Report!ReporterHolds
  <2>22. counters'["frames_out"] >= due'.out /\ counters'["frames_dropped"] >= due'.dropped BY <1>8, <1>n, <2>6
  <2> QED BY <1>6, <1>8, <1>f, <2>6, <2>11, <2>21, <2>22 DEF ReportInv
<1> QED BY <1>9, <1>10

\* Every step of the reporter and of the threads that count.
LEMMA ReporterSteps == ASSUME ReportInv, Report!Next PROVE ReportInv'
<1>f. /\ counters \in Readings /\ slotDrops \in Int /\ clock \in Int /\ due \in Due /\ log \in Log
   BY ReportFields
<1>n. counters["frames_out"] \in Int /\ counters["frames_dropped"] \in Int BY <1>f, NamesOfCounters DEF Readings
<1>d. counters["frames_dropped"] <= slotDrops BY DEF ReportInv, Report!ReporterHolds, Report!DropsCountedOnce
<1>1. CASE Report!Bump
  <2>1. PICK total \in Bumped : counters' = Report!AddTo(counters, total, 1) /\ UNCHANGED <<slotDrops, clock, due, log>>
    BY <1>1 DEF Report!Bump, Report!Counted
  <2>2. total \in CounterNames /\ total # "frames_dropped" BY NamesOfCounters
  <2>3. counters' \in Readings /\ \A m \in CounterNames : counters'[m] = IF m = total THEN counters[m] + 1 ELSE counters[m]
    BY <1>f, <2>1, <2>2, Adds
  <2>4. counters'["frames_out"] >= counters["frames_out"] /\ counters'["frames_dropped"] = counters["frames_dropped"]
    BY <1>n, <2>2, <2>3, NamesOfCounters
  <2>5. counters'["frames_dropped"] >= counters["frames_dropped"] BY <1>n, <2>4
  <2> QED BY <1>f, <1>d, <2>1, <2>3, <2>4, <2>5, CountersGrow
<1>2. CASE Report!SlotDrops
  <2>1. slotDrops' = slotDrops + 1 /\ UNCHANGED <<counters, clock, due, log>> BY <1>2 DEF Report!SlotDrops
  <2>2. slotDrops' \in Int /\ counters'["frames_dropped"] <= slotDrops' BY <1>f, <1>n, <1>d, <2>1
  <2>3. counters'["frames_out"] >= counters["frames_out"] /\ counters'["frames_dropped"] >= counters["frames_dropped"] BY <1>n, <2>1
  <2> QED BY <1>f, <2>1, <2>2, <2>3, CountersGrow
<1>3. CASE Report!WorkerSyncs
  <2>1. counters' = Report!SyncDropped(counters, slotDrops) /\ UNCHANGED <<slotDrops, clock, due, log>> BY <1>3 DEF Report!WorkerSyncs
  <2>2. counters' \in Readings /\ counters'["frames_out"] = counters["frames_out"]
        /\ counters'["frames_dropped"] \in {counters["frames_dropped"], slotDrops}
        /\ (counters'["frames_dropped"] = slotDrops \/ counters'["frames_dropped"] = counters["frames_dropped"])
        /\ counters'["frames_dropped"] >= counters["frames_dropped"]
    BY <1>f, <1>n, <2>1, NamesOfCounters DEF Report!SyncDropped, Readings
  <2>3. counters'["frames_dropped"] <= slotDrops' /\ counters'["frames_out"] >= counters["frames_out"] BY <1>f, <1>n, <1>d, <2>1, <2>2
  <2> QED BY <1>f, <2>1, <2>2, <2>3, CountersGrow
<1>4. ASSUME NEW n \in CounterNames, NEW g \in CounterNames, NEW v \in Int,
             n \notin {"frames_out", "frames_dropped"}, g \notin {"frames_out", "frames_dropped"},
             \/ counters' = Report!AddTo(Report!Measure(counters, g, v), n, 1)
             \/ counters' = Report!Measure(Report!AddTo(counters, n, 1), g, v),
             UNCHANGED <<slotDrops, clock, due, log>>
      PROVE ReportInv'
  <2>1. counters' \in Readings /\ counters'["frames_out"] = counters["frames_out"]
        /\ counters'["frames_dropped"] = counters["frames_dropped"]
    <3>1. CASE counters' = Report!AddTo(Report!Measure(counters, g, v), n, 1)
      <4>1. PICK d : d = Report!Measure(counters, g, v) OBVIOUS
      <4>2. d \in Readings /\ \A m \in CounterNames : d[m] = IF m = g THEN v ELSE counters[m] BY <1>f, <4>1, Measures
      <4>3. counters' \in Readings /\ \A m \in CounterNames : counters'[m] = IF m = n THEN d[m] + 1 ELSE d[m] BY <3>1, <4>1, <4>2, Adds
      <4> QED BY <1>4, <4>2, <4>3, NamesOfCounters
    <3>2. CASE counters' = Report!Measure(Report!AddTo(counters, n, 1), g, v)
      <4>1. PICK d : d = Report!AddTo(counters, n, 1) OBVIOUS
      <4>2. d \in Readings /\ \A m \in CounterNames : d[m] = IF m = n THEN counters[m] + 1 ELSE counters[m] BY <1>f, <4>1, Adds
      <4>3. counters' \in Readings /\ \A m \in CounterNames : counters'[m] = IF m = g THEN v ELSE d[m]
        <5>1. counters' = Report!Measure(d, g, v) BY <3>2, <4>1
        <5> QED BY <4>2, <5>1, Measures
      <4> QED BY <1>4, <4>2, <4>3, NamesOfCounters
    <3> QED BY <1>4, <3>1, <3>2
  <2>2. counters'["frames_out"] >= counters["frames_out"] /\ counters'["frames_dropped"] >= counters["frames_dropped"]
        /\ counters'["frames_dropped"] <= slotDrops'
    BY <1>n, <1>d, <1>4, <2>1
  <2> QED BY <1>f, <1>4, <2>1, <2>2, CountersGrow
<1>5. CASE Report!ConsumerMoves
  <2>1. PICK status \in 0..1 : counters' = Report!SetConsumerStatus(counters, status) /\ UNCHANGED <<slotDrops, clock, due, log>>
    BY <1>5 DEF Report!ConsumerMoves, Report!Counted
  <2>2. counters' = Report!AddTo(Report!Measure(counters, "consumer_status", status), "consumer_transitions_total", 1)
    BY <2>1 DEF Report!SetConsumerStatus
  <2>3. status \in Int OBVIOUS
  <2> QED BY <1>4, <1>f, <2>1, <2>2, <2>3, NamesOfCounters
<1>6. CASE Report!Resyncs
  <2>1. PICK age \in {0, AlertAge - 1, AlertAge, AlertAge + 1, Report!Unset} :
            counters' = Report!Measure(Report!AddTo(counters, "consumer_resync_total", 1), "consumer_last_external_event_age_secs", age)
            /\ UNCHANGED <<slotDrops, clock, due, log>>
    BY <1>6 DEF Report!Resyncs, Report!Counted
  <2>2. age \in Int BY ReporterAssumption DEF ReporterAssumption, Report!Unset
  <2> QED BY <1>4, <1>f, <2>1, <2>2, NamesOfCounters
<1>7. CASE Report!ReporterStops
  <2>1. due' = [due EXCEPT !.on = FALSE] /\ UNCHANGED <<counters, slotDrops, clock, log>> BY <1>7 DEF Report!ReporterStops
  <2>2. /\ due' \in Due /\ due'.tick = due.tick /\ due'.out = due.out /\ due'.dropped = due.dropped
        /\ due'.line = due.line /\ due'.at = due.at
    BY <1>f, <2>1 DEF Due
  <2>3. counters["frames_out"] >= due.out /\ counters["frames_dropped"] >= due.dropped /\ Report!ReporterHolds BY DEF ReportInv
  <2>4. Report!ReporterHolds' BY <2>1, <2>2, <2>3 DEF Report!ReporterHolds, Report!LinesAddUp, Report!LastLineIsTrue,
        Report!HeartbeatIsKept, Report!DropsCountedOnce, Report!Ticked
  <2> QED BY <1>f, <2>1, <2>2, <2>3, <2>4 DEF ReportInv
<1>8. ASSUME NEW late \in 0..1, Report!Sleep(late) PROVE ReportInv' BY <1>8, SleepHolds
<1> QED BY <1>1, <1>2, <1>3, <1>5, <1>6, <1>7, <1>8 DEF Report!Next

\* The reporter that was just started.
LEMMA ReporterBegins == ASSUME Init PROVE ReportInv
<1>1. /\ counters = Report!NewCounters /\ slotDrops = 0 /\ clock = 0
      /\ due = [tick |-> 0, out |-> 0, dropped |-> 0, line |-> Report!NoLine, at |-> 0, on |-> TRUE]
      /\ log = [frames |-> 0, drops |-> 0, ticked |-> Report!NewCounters, ticks |-> 0]
  BY DEF Init, AllBegin, Report!Init
<1>2. Report!NewCounters \in Readings /\ Report!NoLine \in Readings
  BY DEF Report!NewCounters, Report!NoLine, Readings, CounterNames, Report!Unset
<1>3. "frames_out" \notin Report!Gauges /\ "frames_dropped" \notin Report!Gauges BY DEF Report!Gauges
<1>4. counters["frames_out"] = 0 /\ counters["frames_dropped"] = 0
  BY <1>1, <1>3, NamesOfCounters DEF Report!NewCounters, CounterNames
<1>5. 0 \in Int /\ 0 \in Nat /\ TRUE \in BOOLEAN OBVIOUS
<1>6. due \in Due /\ due.out = 0 /\ due.dropped = 0 BY <1>1, <1>2, <1>5 DEF Due
<1>7. log \in Log /\ log.frames = 0 /\ log.drops = 0 /\ log.ticks = 0 BY <1>1, <1>2, <1>5 DEF Log
<1>8. Report!ReporterHolds BY <1>1, <1>4, <1>6, <1>7 DEF Report!ReporterHolds, Report!LinesAddUp, Report!LastLineIsTrue,
        Report!HeartbeatIsKept, Report!DropsCountedOnce, Report!Ticked
<1>9. counters \in Readings /\ slotDrops \in Int /\ clock \in Int BY <1>1, <1>2
<1> QED BY <1>4, <1>6, <1>7, <1>8, <1>9 DEF ReportInv

\* A step of another machine.
LEMMA ReporterStands == ASSUME ReportInv, UNCHANGED reportVars PROVE ReportInv'
<1>1. UNCHANGED <<counters, slotDrops, clock, bumps, due, log>> BY DEF reportVars
<1> QED BY <1>1 DEF ReportInv, Report!ReporterHolds, Report!LinesAddUp, Report!LastLineIsTrue,
        Report!HeartbeatIsKept, Report!DropsCountedOnce, Report!Ticked

-----------------------------------------------------------------------------
(* The stage table (StageTable). *)

\* q lists the n samples of a ring in their order.
OrderOf(q, ring, n) ==
    /\ \A i \in 1..n : \E j \in 1..n : q[j] = i
    /\ \A i, j \in 1..n : i < j => ring[q[i]] <= ring[q[j]]

\* One more sample finds its place among those in order.
LEMMA Inserted == ASSUME NEW n \in Nat, NEW ring, \A i \in 1..n + 1 : ring[i] \in Int,
                         NEW r \in [1..n -> 1..n], OrderOf(r, ring, n)
                  PROVE \E q \in [1..n + 1 -> 1..n + 1] : OrderOf(q, ring, n + 1)
<1>o. /\ \A i \in 1..n : \E j \in 1..n : r[j] = i
      /\ \A i, j \in 1..n : i < j => ring[r[i]] <= ring[r[j]]
   BY DEF OrderOf
<1>v. PICK x : x = ring[n + 1] OBVIOUS
<1> DEFINE P == {p \in 1..n + 1 : p = n + 1 \/ ring[r[p]] > x}
<1>1. P \in SUBSET Nat /\ n + 1 \in P OBVIOUS
<1>n. 1..n \subseteq 1..n + 1 /\ n + 1 \in 1..n + 1 /\ n + 1 \notin 1..n OBVIOUS
<1>r. \A i \in 1..n : r[i] \in 1..n OBVIOUS
<1>m. \A a, b, c \in Int : /\ ~(a > b) => a <= b
                           /\ a > b /\ a <= c => b <= c
   OBVIOUS
<1>x. x \in Int /\ \A i \in 1..n : ring[r[i]] \in Int BY <1>n, <1>r, <1>v
<1>2. PICK p \in P : \A m \in P : p <= m BY <1>1, Smallest
<1>3. p \in 1..n + 1 /\ (p = n + 1 \/ ring[r[p]] > x) OBVIOUS
<1>4. \A i \in 1..n : i < p => ring[r[i]] <= x
  <2>1. SUFFICES ASSUME NEW i \in 1..n, i < p PROVE ring[r[i]] <= x OBVIOUS
  <2>2. i \in 1..n + 1 /\ i # n + 1 BY <1>n
  <2>3. i \notin P
    <3>1. p \in Nat /\ i \in Nat BY <1>3
    <3> HIDE DEF P
    <3> QED BY <1>2, <2>1, <3>1
  <2>4. ~(ring[r[i]] > x) BY <2>2, <2>3
  <2>5. ring[r[i]] \in Int /\ x \in Int BY <1>x
  <2>6. PICK y \in Int : y = ring[r[i]] BY <2>5
  <2>7. ~(y > x) BY <2>4, <2>6
  <2>8. y <= x BY <2>5, <2>7, <1>m, Zenon
  <2> QED BY <2>6, <2>8
<1> HIDE DEF P
<1> DEFINE q == [j \in 1..n + 1 |-> IF j < p THEN r[j] ELSE IF j = p THEN n + 1 ELSE r[j - 1]]
<1>5. q \in [1..n + 1 -> 1..n + 1]
  <2>1. SUFFICES ASSUME NEW j \in 1..n + 1
                 PROVE (IF j < p THEN r[j] ELSE IF j = p THEN n + 1 ELSE r[j - 1]) \in 1..n + 1 OBVIOUS
  <2>2. (j < p => j \in 1..n) /\ (j > p => j - 1 \in 1..n) BY <1>3
  <2>3. (j < p => r[j] \in 1..n) /\ (j > p => r[j - 1] \in 1..n) BY <1>r, <2>2
  <2>4. j < p \/ j = p \/ j > p BY <1>3
  <2> QED BY <1>n, <1>3, <2>3, <2>4
<1>6. \A i \in 1..n + 1 : \E j \in 1..n + 1 : q[j] = i
  <2>1. SUFFICES ASSUME NEW i \in 1..n + 1 PROVE \E j \in 1..n + 1 : q[j] = i OBVIOUS
  <2>2. CASE i = n + 1 BY <1>3, <2>2
  <2>3. CASE i # n + 1
    <3>1. i \in 1..n BY <2>3
    <3>2. PICK j \in 1..n : r[j] = i BY <3>1, <1>o
    <3>3. CASE j < p
      <4>1. q[j] = r[j] BY <1>3, <3>3
      <4>2. j \in 1..n + 1 BY <1>n
      <4> HIDE DEF q
      <4> QED BY <4>1, <4>2, <3>2
    <3>4. CASE j >= p
      <4>1. j + 1 \in 1..n + 1 /\ q[j + 1] = r[j] BY <1>3, <3>4
      <4> QED BY <4>1, <3>2
    <3> QED BY <1>3, <3>3, <3>4
  <2> QED BY <2>2, <2>3
<1>7. \A i, j \in 1..n + 1 : i < j => ring[q[i]] <= ring[q[j]]
  <2>1. SUFFICES ASSUME NEW i \in 1..n + 1, NEW j \in 1..n + 1, i < j PROVE ring[q[i]] <= ring[q[j]] OBVIOUS
  <2>2. CASE j < p
    <3>1. q[i] = r[i] /\ q[j] = r[j] /\ i \in 1..n /\ j \in 1..n BY <1>3, <2>1, <2>2
    <3> QED BY <3>1, <2>1, <1>o
  <2>3. CASE j = p
    <3>1. q[i] = r[i] /\ q[j] = n + 1 /\ i \in 1..n /\ i < p BY <1>3, <2>1, <2>3
    <3> QED BY <3>1, <1>4, <1>v
  <2>4. CASE j > p /\ i = p
    <3>1. q[i] = n + 1 /\ q[j] = r[j - 1] /\ j - 1 \in 1..n /\ p \in 1..n /\ p <= j - 1 BY <1>3, <2>1, <2>4
    <3>2. ring[r[p]] > x BY <1>3, <3>1
    <3>3. ring[r[p]] <= ring[r[j - 1]]
      <4>1. ring[r[p]] \in Int BY <3>1, <1>x
      <4>2. CASE p = j - 1 BY <4>1, <4>2
      <4>3. CASE p < j - 1 BY <4>3, <3>1, <1>o
      <4> QED BY <4>2, <4>3, <3>1
    <3>4. PICK y \in Int : y = ring[r[j - 1]] BY <3>1, <1>x
    <3>5. PICK z \in Int : z = ring[r[p]] BY <3>1, <1>x
    <3>6. z > x /\ z <= y BY <3>2, <3>3, <3>4, <3>5
    <3>7. x <= y BY <3>6, <1>x, <1>m, Zenon
    <3> QED BY <3>1, <3>4, <3>7, <1>v
  <2>5. CASE j > p /\ i < p
    <3>1. q[i] = r[i] /\ q[j] = r[j - 1] /\ i \in 1..n /\ j - 1 \in 1..n BY <1>3, <2>1, <2>5
    <3>2. ring[r[i]] \in Int BY <3>1, <1>x
    <3>3. i < j - 1 BY <1>3, <2>5
    <3> QED BY <3>1, <3>3, <1>o
  <2>6. CASE i > p
    <3>1. i - 1 \in 1..n /\ j - 1 \in 1..n /\ i - 1 < j - 1 /\ ~(i < p) /\ i # p /\ ~(j < p) /\ j # p
      <4> HIDE DEF q
      <4>1. i \in Int /\ j \in Int /\ p \in Int /\ 1 <= p /\ i <= n + 1 /\ j <= n + 1 BY <1>3
      <4> QED BY <4>1, <2>1, <2>6
    <3>2. q[i] = r[i - 1] /\ q[j] = r[j - 1] BY <3>1
    <3> HIDE DEF q
    <3> QED BY <3>1, <3>2, <1>o
  <2> QED BY <1>3, <2>1, <2>2, <2>3, <2>4, <2>5, <2>6
<1> HIDE DEF q
<1> QED BY <1>5, <1>6, <1>7 DEF OrderOf

\* Some order of the samples is one of sort_unstable's.
LEMMA SomeOrder == ASSUME NEW n \in Nat, NEW ring, \A i \in 1..n : ring[i] \in Int
                   PROVE \E r \in [1..n -> 1..n] : OrderOf(r, ring, n)
<1> DEFINE Ordered(k) == \E r \in [1..k -> 1..k] : OrderOf(r, ring, k)
           T == {k \in Nat : k <= n /\ ~Ordered(k)}
<1>1. T = {}
  <2>1. SUFFICES ASSUME T # {} PROVE FALSE OBVIOUS
  <2>2. T \in SUBSET Nat OBVIOUS
  <2>3. PICK m \in T : \A k \in T : m <= k BY <2>1, <2>2, Smallest
  <2>4. m \in Nat /\ m <= n /\ ~Ordered(m) OBVIOUS
  <2>5. m # 0
    <3>1. SUFFICES ASSUME m = 0 PROVE Ordered(m) BY <2>4
    <3>2. 1..m = {} BY <3>1
    <3> DEFINE r == [i \in 1..m |-> i]
    <3>3. r \in [1..m -> 1..m] OBVIOUS
    <3> HIDE DEF r
    <3> QED BY <3>2, <3>3 DEF OrderOf
  <2>6. PICK k \in Nat : m = k + 1
    <3>1. m - 1 \in Nat /\ m = (m - 1) + 1 BY <2>4, <2>5
    <3> QED BY <3>1
  <2>7. k \notin T
    <3> HIDE DEF Ordered, T
    <3> QED BY <2>3, <2>4, <2>6
  <2>8. Ordered(k)
    <3>1. k <= n BY <2>4, <2>6
    <3> HIDE DEF Ordered
    <3> QED BY <2>7, <3>1
  <2>9. PICK r \in [1..k -> 1..k] : OrderOf(r, ring, k)
     BY <2>8
  <2>10. \A i \in 1..k + 1 : ring[i] \in Int BY <2>4, <2>6
  <2>11. Ordered(k + 1) BY <2>9, <2>10, Inserted
  <2> QED BY <2>4, <2>6, <2>11
<1> HIDE DEF Ordered
<1>2. Ordered(n) BY <1>1
<1> QED BY <1>2 DEF Ordered

\* The first k of an order without repeats are k places.
LEMMA FirstPlaces == ASSUME NEW n \in Nat, NEW r \in [1..n -> 1..n], \A i \in 1..n : \E j \in 1..n : r[j] = i, NEW k \in 0..n
                     PROVE LET T == {r[i] : i \in 1..k} IN IsFiniteSet(T) /\ Cardinality(T) = k
<1> DEFINE T == {r[i] : i \in 1..k}
<1>1. IsFiniteSet(1..n) BY FS_Interval
<1>2. r \in Surjection(1..n, 1..n) BY DEF Surjection
<1>3. r \in Injection(1..n, 1..n) BY <1>1, <1>2, FS_SurjSameCardinalityImpliesInj
<1>4. \A i, j \in 1..n : r[i] = r[j] => i = j BY <1>3 DEF Injection, IsInjective
<1> DEFINE g == [i \in 1..k |-> r[i]]
<1>5. g \in Bijection(1..k, T)
  <2>1. g \in [1..k -> T] OBVIOUS
  <2>2. \A i, j \in 1..k : g[i] = g[j] => i = j BY <1>4
  <2>3. \A t \in T : \E i \in 1..k : g[i] = t OBVIOUS
  <2> QED BY <2>1, <2>2, <2>3 DEF Bijection, Injection, Surjection, IsInjective
<1>6. ExistsBijection(1..k, T) BY <1>5 DEF ExistsBijection
<1>7. IsFiniteSet(1..k) BY FS_Interval
<1> HIDE DEF T
<1>8. Cardinality(T) = k BY <1>6, FS_CountingElements
<1>9. IsFiniteSet(T) BY <1>6, <1>7, FS_Bijection
<1> QED BY <1>8, <1>9 DEF T

\* The least number of samples that is that share of them.
LEMMA RoundedUp == ASSUME NEW m \in Nat
                   PROVE LET q == (m + 99) \div 100 IN q \in Nat /\ 100 * q >= m /\ 100 * (q - 1) < m
OBVIOUS

\* The place of a percentile: within the ring, and the first that is far enough.
LEMMA Position == ASSUME NEW n \in Nat \ {0}, NEW p \in {50, 95, 99}
                  PROVE \E k \in 1..n : k = (p * n + 99) \div 100 /\ k * 100 >= p * n /\ (k - 1) * 100 < p * n
<1>1. CASE p = 50
  <2>1. PICK m \in Nat : m = 50 * n OBVIOUS
  <2>2. PICK k \in Nat : k = (m + 99) \div 100 /\ 100 * k >= m /\ 100 * (k - 1) < m BY RoundedUp
  <2>3. k \in 1..n BY <2>1, <2>2
  <2> QED BY <1>1, <2>1, <2>2, <2>3
<1>2. CASE p = 95
  <2>1. PICK m \in Nat : m = 95 * n OBVIOUS
  <2>2. PICK k \in Nat : k = (m + 99) \div 100 /\ 100 * k >= m /\ 100 * (k - 1) < m BY RoundedUp
  <2>3. k \in 1..n BY <2>1, <2>2
  <2> QED BY <1>2, <2>1, <2>2, <2>3
<1>3. CASE p = 99
  <2>1. PICK m \in Nat : m = 99 * n OBVIOUS
  <2>2. PICK k \in Nat : k = (m + 99) \div 100 /\ 100 * k >= m /\ 100 * (k - 1) < m BY RoundedUp
  <2>3. k \in 1..n BY <2>1, <2>2
  <2> QED BY <1>3, <2>1, <2>2, <2>3
<1> QED BY <1>1, <1>2, <1>3

\* A function on 1..n is a sequence of length n.
LEMMA Listed == ASSUME NEW n \in Nat, NEW S, NEW f \in [1..n -> S] PROVE f \in Seq(S) /\ Len(f) = n /\ DOMAIN f = 1..n
<1>1. f \in Seq(S) BY SeqDef
<1>2. Len(f) \in Nat /\ DOMAIN f = 1..Len(f) BY <1>1, LenProperties
<1>3. Len(f) = n BY <1>2
<1> QED BY <1>1, <1>3

\* Cardinality has one definition, whichever module it comes from.
LEMMA SameCount == \A S : Stage!Cardinality(S) = Cardinality(S)
BY DEF Stage!Cardinality, Cardinality

\* Sorts says that its ranks are an order of the ring.
LEMMA SortsMeans == ASSUME NEW ring, NEW n, DOMAIN ring = 1..n
                    PROVE \A q : Stage!Sorts(q, ring) <=> OrderOf(q, ring, n)
BY DEF Stage!Sorts, OrderOf

\* What percentile_us reads off the sorted samples is a percentile of them, of every ring there is.
LEMMA IsThePercentile == ASSUME NEW ring \in Seq(Int), ring # <<>>, NEW p \in {50, 95, 99}
                         PROVE Stage!IsPercentile(Stage!Percentile(Stage!SortedSamples(ring), p), ring, p)
<1>1. PICK n \in Nat \ {0} : n = Len(ring) BY EmptySeq
<1>n. n \in Nat OBVIOUS
<1>2. DOMAIN ring = 1..n /\ \A i \in 1..n : ring[i] \in Int BY <1>1, LenProperties, ElementOfSeq
<1>s. \A q : Stage!Sorts(q, ring) <=> OrderOf(q, ring, n) BY <1>2, SortsMeans
<1>o. \E q \in [1..n -> 1..n] : Stage!Sorts(q, ring)
  <2>1. \A i \in 1..n : ring[i] \in Int BY <1>2
  <2>2. \E q \in [1..n -> 1..n] : OrderOf(q, ring, n) BY <1>n, <2>1, SomeOrder
  <2> QED BY <1>s, <2>2
<1> DEFINE r == CHOOSE q \in [DOMAIN ring -> DOMAIN ring] : Stage!Sorts(q, ring)
           sorted == [i \in 1..n |-> ring[r[i]]]
<1>3. r \in [1..n -> 1..n] /\ Stage!Sorts(r, ring) BY <1>2, <1>o
<1>4. Stage!SortedSamples(ring) = sorted BY <1>2 DEF Stage!SortedSamples
<1> HIDE DEF r
<1>5. /\ \A i \in 1..n : \E j \in 1..n : r[j] = i
      /\ \A i, j \in 1..n : i < j => ring[r[i]] <= ring[r[j]]
   BY <1>3, <1>s DEF OrderOf
<1>6. \A i \in 1..n : r[i] \in 1..n /\ ring[r[i]] \in Int BY <1>2, <1>3
<1>7. sorted \in [1..n -> Int] BY <1>6
<1>8. Len(sorted) = n BY <1>7, Listed
<1>9. PICK k \in 1..n : k = (p * n + 99) \div 100 /\ k * 100 >= p * n /\ (k - 1) * 100 < p * n BY Position
<1> DEFINE v == ring[r[k]]
<1>10. Stage!Percentile(sorted, p) = v
  <2>1. sorted[k] = v OBVIOUS
  <2> HIDE DEF sorted, v
  <2>2. p \in Int /\ ~(p < 0) /\ ~(p > 100) OBVIOUS
  <2>3. k # 0 /\ ~(k > n) /\ n # 0 OBVIOUS
  <2>4. Stage!Percentile(sorted, p) = sorted[k] BY <1>8, <1>9, <2>2, <2>3 DEF Stage!Percentile
  <2> QED BY <2>1, <2>4
<1> HIDE DEF sorted
<1>11. v \in Int BY <1>6
<1> DEFINE Under(w) == {i \in 1..n : ring[i] <= w}
<1>12. \A w : Stage!Below(ring, w) = Cardinality(Under(w))
  <2>1. SUFFICES ASSUME NEW w PROVE Stage!Below(ring, w) = Cardinality(Under(w)) OBVIOUS
  <2>2. {i \in DOMAIN ring : ring[i] <= w} = Under(w) BY <1>2
  <2> HIDE DEF Under
  <2>3. Stage!Below(ring, w) = Stage!Cardinality({i \in DOMAIN ring : ring[i] <= w}) BY DEF Stage!Below
  <2> QED BY <2>2, <2>3, SameCount
<1>13. IsFiniteSet(1..n) BY FS_Interval
<1>14. \A w : Under(w) \in SUBSET (1..n) OBVIOUS
<1>15. \A w : IsFiniteSet(Under(w)) /\ Cardinality(Under(w)) \in Nat BY <1>13, <1>14, FS_Subset, FS_CardinalityType
<1>16. Cardinality(Under(v)) >= k
  <2> DEFINE T == {r[i] : i \in 1..k}
  <2>0. k \in 0..n OBVIOUS
  <2>1. IsFiniteSet(T) /\ Cardinality(T) = k
    <3>1. \A i \in 1..n : \E j \in 1..n : r[j] = i BY <1>5
    <3> HIDE DEF v, Under
    <3> QED BY <1>n, <1>3, <3>1, <2>0, FirstPlaces
  <2>2. T \subseteq Under(v)
    <3>1. SUFFICES ASSUME NEW i \in 1..k PROVE r[i] \in Under(v) OBVIOUS
    <3>2. i \in 1..n /\ k \in 1..n OBVIOUS
    <3>3. i < k => ring[r[i]] <= ring[r[k]] BY <1>5, <3>2
    <3>4. i = k => ring[r[i]] <= ring[r[k]] BY <1>11
    <3>5. i < k \/ i = k OBVIOUS
    <3>6. ring[r[i]] <= v BY <3>3, <3>4, <3>5
    <3> QED BY <1>6, <3>2, <3>6
  <2> HIDE DEF T, Under
  <2>3. Cardinality(T) <= Cardinality(Under(v)) BY <1>15, <2>2, FS_Subset
  <2> QED BY <2>1, <2>3
<1>17. \A i \in 1..n : ring[i] < v => Cardinality(Under(ring[i])) <= k - 1
  <2>1. SUFFICES ASSUME NEW i \in 1..n, ring[i] < v PROVE Cardinality(Under(ring[i])) <= k - 1 OBVIOUS
  <2> DEFINE T == {r[j] : j \in 1..(k - 1)}
  <2>2. k - 1 \in 0..n OBVIOUS
  <2>3. IsFiniteSet(T) /\ Cardinality(T) = k - 1 BY <1>3, <1>5, <2>2, FirstPlaces
  <2>4. Under(ring[i]) \subseteq T
    <3>1. SUFFICES ASSUME NEW j \in 1..n, ring[j] <= ring[i] PROVE j \in T OBVIOUS
    <3>2. PICK m \in 1..n : r[m] = j BY <1>5
    <3>3. m < k
      <4>1. SUFFICES ASSUME m >= k PROVE FALSE OBVIOUS
      <4>2. ring[r[k]] <= ring[r[m]]
        <5>1. m = k => ring[r[k]] <= ring[r[m]] BY <1>11
        <5>2. k < m => ring[r[k]] <= ring[r[m]] BY <1>5
        <5>3. m = k \/ k < m BY <4>1
        <5> QED BY <5>1, <5>2, <5>3
      <4>3. PICK a, b, c \in Int : a = ring[i] /\ b = ring[j] /\ c = v BY <1>2, <1>11
      <4>4. a < c /\ b <= a /\ c <= b BY <2>1, <3>1, <3>2, <4>2, <4>3
      <4> QED BY <4>4
    <3>4. m \in 1..(k - 1) BY <3>3
    <3> QED BY <3>2, <3>4
  <2> HIDE DEF T, Under
  <2>5. Cardinality(Under(ring[i])) <= Cardinality(T) BY <2>3, <2>4, FS_Subset
  <2> QED BY <2>3, <2>5
<1> HIDE DEF Under
<1>18. \E i \in DOMAIN ring : ring[i] = v BY <1>2, <1>6
<1>19. Stage!Below(ring, v) * 100 >= p * Len(ring)
  <2>1. PICK b \in Nat : b = Stage!Below(ring, v) BY <1>12, <1>15
  <2>2. b >= k BY <1>12, <1>16, <2>1
  <2>3. p * n \in Int OBVIOUS
  <2>4. b * 100 >= p * n BY <1>9, <2>2, <2>3
  <2> QED BY <1>1, <2>1, <2>4
<1>20. \A i \in DOMAIN ring : ring[i] < v => Stage!Below(ring, ring[i]) * 100 < p * Len(ring)
  <2>1. SUFFICES ASSUME NEW i \in 1..n, ring[i] < v PROVE Stage!Below(ring, ring[i]) * 100 < p * n BY <1>1, <1>2
  <2>2. PICK b \in Nat : b = Stage!Below(ring, ring[i]) BY <1>12, <1>15
  <2>3. b <= k - 1 BY <1>12, <1>17, <2>1, <2>2
  <2>4. p * n \in Int OBVIOUS
  <2>5. b * 100 < p * n BY <1>9, <2>3, <2>4
  <2> QED BY <2>2, <2>5
<1> HIDE DEF v
<1>21. Stage!IsPercentile(v, ring, p) BY <1>18, <1>19, <1>20 DEF Stage!IsPercentile
<1> QED BY <1>4, <1>10, <1>21

\* A sequence without its i-th element.
LEMMA RemovedAt == ASSUME NEW S, NEW s \in Seq(S), NEW i \in 1..Len(s)
                   PROVE /\ Stage!RemoveAt(s, i) \in Seq(S)
                         /\ Len(Stage!RemoveAt(s, i)) = Len(s) - 1
                         /\ \A j \in 1..Len(s) - 1 : Stage!RemoveAt(s, i)[j] = IF j < i THEN s[j] ELSE s[j + 1]
<1>1. PICK n \in Nat : n = Len(s) BY LenProperties
<1>2. \A j \in 1..n : s[j] \in S BY <1>1, ElementOfSeq
<1>i. i \in Int /\ 1 <= i /\ i <= n BY <1>1
<1> DEFINE a == SubSeq(s, 1, i - 1)
           b == SubSeq(s, i + 1, n)
<1>3. a \in Seq(S) /\ Len(a) = i - 1 /\ \A j \in 1..i - 1 : a[j] = s[j]
  <2>1. \A j \in 1..i - 1 : s[j] \in S BY <1>2, <1>i
  <2>2. 1 \in Int /\ i - 1 \in Int BY <1>i
  <2>3. /\ a \in Seq(S) /\ Len(a) = IF 1 <= i - 1 THEN (i - 1) - 1 + 1 ELSE 0
        /\ \A j \in 1..(i - 1) - 1 + 1 : a[j] = s[1 + j - 1]
    BY <2>1, <2>2, SubSeqProperties
  <2> HIDE DEF a
  <2>4. Len(a) = i - 1 BY <2>3, <1>i
  <2>5. \A j \in 1..i - 1 : j \in 1..(i - 1) - 1 + 1 /\ 1 + j - 1 = j BY <1>i
  <2> QED BY <2>3, <2>4, <2>5
<1>4. b \in Seq(S) /\ Len(b) = n - i /\ \A j \in 1..n - i : b[j] = s[i + j]
  <2>1. \A j \in i + 1..n : s[j] \in S BY <1>2, <1>i
  <2>2. i + 1 \in Int /\ n \in Int BY <1>i
  <2>3. /\ b \in Seq(S) /\ Len(b) = IF i + 1 <= n THEN n - (i + 1) + 1 ELSE 0
        /\ \A j \in 1..n - (i + 1) + 1 : b[j] = s[i + 1 + j - 1]
    BY <2>1, <2>2, SubSeqProperties
  <2> HIDE DEF b
  <2>4. Len(b) = n - i BY <2>3, <1>i
  <2>5. \A j \in 1..n - i : j \in 1..n - (i + 1) + 1 /\ i + 1 + j - 1 = i + j BY <1>i
  <2> QED BY <2>3, <2>4, <2>5
<1>5. Stage!RemoveAt(s, i) = a \o b BY <1>1 DEF Stage!RemoveAt
<1> HIDE DEF a, b
<1>6. /\ a \o b \in Seq(S) /\ Len(a \o b) = Len(a) + Len(b)
      /\ \A j \in 1..Len(a) + Len(b) : (a \o b)[j] = IF j <= Len(a) THEN a[j] ELSE b[j - Len(a)]
   BY <1>3, <1>4, ConcatProperties
<1>7. PICK c \in Seq(S) : c = a \o b BY <1>6
<1>8. Len(c) = n - 1 /\ \A j \in 1..n - 1 : c[j] = IF j <= i - 1 THEN a[j] ELSE b[j - (i - 1)]
  <2>1. (i - 1) + (n - i) = n - 1 BY <1>i
  <2> QED BY <1>3, <1>4, <1>6, <1>7, <2>1
<1>9. \A j \in 1..n - 1 : c[j] = IF j < i THEN s[j] ELSE s[j + 1]
  <2>1. SUFFICES ASSUME NEW j \in 1..n - 1 PROVE c[j] = IF j < i THEN s[j] ELSE s[j + 1] OBVIOUS
  <2>2. CASE j < i
    <3>1. j <= i - 1 /\ j \in 1..i - 1 BY <2>2, <1>i
    <3> QED BY <3>1, <2>2, <1>3, <1>8
  <2>3. CASE j >= i
    <3>1. ~(j <= i - 1) /\ j - (i - 1) \in 1..n - i /\ i + (j - (i - 1)) = j + 1 /\ ~(j < i) BY <2>3, <1>i
    <3> QED BY <3>1, <1>4, <1>8
  <2> QED BY <2>2, <2>3, <1>i
<1> QED BY <1>1, <1>5, <1>7, <1>8, <1>9

\* The last samples of a series, at most as many as a ring holds.
LEMMA TailedIs == ASSUME NEW seq \in Seq(Int)
                  PROVE /\ Stage!Tailed(seq) \in Seq(Int)
                        /\ Len(Stage!Tailed(seq)) = IF Len(seq) > RingSize THEN RingSize ELSE Len(seq)
                        /\ \A i \in 1..Len(Stage!Tailed(seq)) :
                              Stage!Tailed(seq)[i] = seq[(IF Len(seq) > RingSize THEN Len(seq) - RingSize ELSE 0) + i]
<1>1. PICK n \in Nat : n = Len(seq) BY LenProperties
<1>2. \A j \in 1..n : seq[j] \in Int BY <1>1, ElementOfSeq
<1>3. RingSize \in Nat \ {0} BY StagesAssumption DEF StagesAssumption
<1>m. (IF n > RingSize THEN n - RingSize ELSE 0) \in Nat BY <1>3
<1>4. PICK m \in Nat : m = IF n > RingSize THEN n - RingSize ELSE 0 BY <1>m
<1>5. m <= n /\ (m < n \/ n = 0) BY <1>3, <1>4
<1> DEFINE t == SubSeq(seq, m + 1, n)
<1>6. Stage!Tailed(seq) = t
  <2>1. m + 1 = IF n > RingSize THEN n - RingSize + 1 ELSE 1 BY <1>3, <1>4
  <2> QED BY <2>1, <1>1 DEF Stage!Tailed
<1>7. /\ t \in Seq(Int) /\ Len(t) = IF m + 1 <= n THEN n - (m + 1) + 1 ELSE 0
      /\ \A j \in 1..n - (m + 1) + 1 : t[j] = seq[m + 1 + j - 1]
  <2>1. \A j \in m + 1..n : seq[j] \in Int BY <1>2
  <2>2. m + 1 \in Int /\ n \in Int OBVIOUS
  <2> QED BY <2>1, <2>2, SubSeqProperties
<1> HIDE DEF t
<1>8. Len(t) = n - m BY <1>5, <1>7
<1>9. \A j \in 1..n - m : t[j] = seq[m + j]
  <2>1. \A j \in 1..n - m : j \in 1..n - (m + 1) + 1 /\ m + 1 + j - 1 = m + j OBVIOUS
  <2> QED BY <2>1, <1>7
<1>10. n - m = IF n > RingSize THEN RingSize ELSE n BY <1>3, <1>4
<1> QED BY <1>1, <1>4, <1>6, <1>7, <1>8, <1>9, <1>10

\* A ring that is pushed a sample has the last samples of the series with that sample.
LEMMA TailedGrows == ASSUME NEW seq \in Seq(Int), NEW x \in Int
                     PROVE Stage!PushSample(Stage!Tailed(seq), x, RingSize) = Stage!Tailed(Append(seq, x))
<1>1. PICK n \in Nat : n = Len(seq) BY LenProperties
<1>2. RingSize \in Nat \ {0} BY StagesAssumption DEF StagesAssumption
<1>m. (IF n > RingSize THEN n - RingSize ELSE 0) \in Nat BY <1>2
<1>3. PICK m \in Nat : m = IF n > RingSize THEN n - RingSize ELSE 0 BY <1>m
<1>4. PICK t \in Seq(Int) : t = Stage!Tailed(seq) BY TailedIs
<1>5. Len(t) = n - m /\ \A i \in 1..n - m : t[i] = seq[m + i]
  <2>1. n - m = IF n > RingSize THEN RingSize ELSE n BY <1>2, <1>3
  <2>2. /\ Len(t) = IF Len(seq) > RingSize THEN RingSize ELSE Len(seq)
        /\ \A i \in 1..Len(t) : t[i] = seq[(IF Len(seq) > RingSize THEN Len(seq) - RingSize ELSE 0) + i]
    BY <1>4, TailedIs
  <2>3. Len(t) = n - m BY <2>1, <2>2, <1>1
  <2>4. \A i \in 1..n - m : t[i] = seq[m + i] BY <2>2, <2>3, <1>1, <1>3
  <2> QED BY <2>3, <2>4
<1>6. PICK more \in Seq(Int) : more = Append(seq, x) BY AppendProperties
<1>7. Len(more) = n + 1 /\ more[n + 1] = x /\ \A i \in 1..n : more[i] = seq[i] BY <1>1, <1>6, AppendProperties
<1>k. (IF n + 1 > RingSize THEN n + 1 - RingSize ELSE 0) \in Nat BY <1>2
<1>8. PICK k \in Nat : k = IF n + 1 > RingSize THEN n + 1 - RingSize ELSE 0 BY <1>k
<1>9. PICK u \in Seq(Int) : u = Stage!Tailed(more) BY TailedIs
<1>10. Len(u) = n + 1 - k /\ \A i \in 1..n + 1 - k : u[i] = more[k + i]
  <2>1. n + 1 - k = IF n + 1 > RingSize THEN RingSize ELSE n + 1 BY <1>2, <1>8
  <2>2. /\ Len(u) = IF Len(more) > RingSize THEN RingSize ELSE Len(more)
        /\ \A i \in 1..Len(u) : u[i] = more[(IF Len(more) > RingSize THEN Len(more) - RingSize ELSE 0) + i]
    BY <1>9, TailedIs
  <2>3. Len(u) = n + 1 - k BY <2>1, <2>2, <1>7
  <2>4. \A i \in 1..n + 1 - k : u[i] = more[k + i]
    <3>1. k = IF Len(more) > RingSize THEN Len(more) - RingSize ELSE 0 BY <1>2, <1>7, <1>8
    <3> QED BY <2>2, <2>3, <3>1
  <2> QED BY <2>3, <2>4
<1>11. Stage!PushSample(t, x, RingSize) = Append(IF Len(t) = RingSize THEN Tail(t) ELSE t, x)
   BY <1>2 DEF Stage!PushSample, Stage!Capacity
<1>12. CASE n < RingSize
  <2>1. m = 0 /\ k = 0 /\ Len(t) # RingSize BY <1>2, <1>3, <1>5, <1>8, <1>12
  <2>2. PICK w \in Seq(Int) : w = Append(t, x) BY AppendProperties
  <2>3. Len(w) = n + 1 /\ w[n + 1] = x /\ \A i \in 1..n : w[i] = t[i]
    <3>1. Len(t) = n BY <1>5, <2>1
    <3> QED BY <3>1, <2>2, AppendProperties
  <2>4. \A i \in 1..n + 1 : w[i] = u[i]
    <3>1. SUFFICES ASSUME NEW i \in 1..n + 1 PROVE w[i] = u[i] OBVIOUS
    <3>2. i \in 1..n + 1 - k /\ k + i = i BY <2>1
    <3>3. u[i] = more[i] BY <1>10, <3>2
    <3>4. CASE i = n + 1 BY <3>3, <3>4, <2>3, <1>7
    <3>5. CASE i # n + 1
      <4>1. i \in 1..n /\ i \in 1..n - m /\ m + i = i BY <2>1, <3>5
      <4>2. w[i] = t[i] /\ t[i] = seq[i] BY <4>1, <1>5, <2>3
      <4>3. more[i] = seq[i] BY <4>1, <1>7
      <4> QED BY <3>3, <4>2, <4>3
    <3> QED BY <3>4, <3>5
  <2>5. Len(u) = n + 1 BY <1>10, <2>1
  <2>6. w = u BY <2>3, <2>4, <2>5, SeqEqual
  <2> QED BY <2>1, <2>2, <2>6, <1>4, <1>6, <1>9, <1>11
<1>13. CASE n >= RingSize
  <2>1. m = n - RingSize /\ k = m + 1 /\ Len(t) = RingSize BY <1>2, <1>3, <1>5, <1>8, <1>13
  <2>2. t # <<>> BY <2>1, <1>2, EmptySeq
  <2>3. PICK v \in Seq(Int) : v = Tail(t) BY <2>2, HeadTailProperties
  <2>4. Len(v) = RingSize - 1 /\ \A i \in 1..RingSize - 1 : v[i] = t[i + 1] BY <2>1, <2>2, <2>3, HeadTailProperties
  <2>5. PICK w \in Seq(Int) : w = Append(v, x) BY AppendProperties
  <2>6. Len(w) = RingSize /\ w[RingSize] = x /\ \A i \in 1..RingSize - 1 : w[i] = v[i]
    <3>1. (RingSize - 1) + 1 = RingSize BY <1>2
    <3>2. Len(w) = Len(v) + 1 /\ w[Len(v) + 1] = x /\ \A i \in 1..Len(v) : w[i] = v[i] BY <2>5, AppendProperties
    <3> QED BY <3>1, <3>2, <2>4
  <2>7. \A i \in 1..RingSize : w[i] = u[i]
    <3>1. SUFFICES ASSUME NEW i \in 1..RingSize PROVE w[i] = u[i] OBVIOUS
    <3>2. i \in 1..n + 1 - k BY <1>2, <2>1
    <3>3. u[i] = more[k + i] BY <1>10, <3>2
    <3>4. CASE i = RingSize
      <4>1. k + i = n + 1 BY <1>2, <2>1, <3>4
      <4> QED BY <4>1, <3>3, <3>4, <2>6, <1>7
    <3>5. CASE i # RingSize
      <4>1. /\ i \in 1..RingSize - 1 /\ i + 1 \in 1..n - m /\ k + i \in 1..n /\ m + (i + 1) = k + i
        BY <1>2, <2>1, <3>5
      <4>2. w[i] = t[i + 1] BY <4>1, <2>4, <2>6
      <4>3. t[i + 1] = seq[k + i] BY <4>1, <1>5
      <4>4. more[k + i] = seq[k + i] BY <4>1, <1>7
      <4> QED BY <3>3, <4>2, <4>3, <4>4
    <3> QED BY <3>4, <3>5
  <2>8. Len(u) = RingSize
    <3>1. n + 1 - k = RingSize BY <1>2, <2>1
    <3> QED BY <3>1, <1>10
  <2>9. w = u BY <2>6, <2>7, <2>8, SeqEqual
  <2> QED BY <2>1, <2>3, <2>5, <2>9, <1>4, <1>6, <1>9, <1>11
<1> QED BY <1>2, <1>12, <1>13

\* A row of the table.
Entry == [stage : Stages, ring : Seq(Int)]

\* The index and the list are one: every stage has one place, and the ring there has
\* the last of its samples.
TableOf(idx, ents, tkn) ==
    /\ DOMAIN idx \subseteq Stages
    /\ ents \in Seq(Entry)
    /\ tkn \in [Stages -> Seq(Int)]
    /\ \A s \in DOMAIN idx : idx[s] \in 1..Len(ents) /\ ents[idx[s]].stage = s
    /\ \A i \in 1..Len(ents) : /\ ents[i].stage \in DOMAIN idx /\ idx[ents[i].stage] = i
                              /\ ents[i].ring = Stage!Tailed(tkn[ents[i].stage])
    /\ \A s \in Stages : s \notin DOMAIN idx => tkn[s] = <<>>

\* A stage comes into the table with its first sample.
Sampled(idx, tkn) == \A s \in DOMAIN idx : tkn[s] # <<>>

StageInv == TableOf(index, entries, taken) /\ Sampled(index, taken) /\ Stage!SnapshotExact

\* What an entry of the list is made of.
LEMMA EntryAt == ASSUME NEW ents \in Seq(Entry), NEW i \in 1..Len(ents)
                 PROVE ents[i] \in Entry /\ ents[i].stage \in Stages /\ ents[i].ring \in Seq(Int)
<1>1. ents[i] \in Entry BY ElementOfSeq
<1> QED BY <1>1 DEF Entry

\* Of no samples, none are the last.
LEMMA TailedOfNone == Stage!Tailed(<<>>) = <<>>
<1>1. <<>> \in Seq(Int) /\ Len(<<>>) = 0 BY EmptySeq
<1>2. RingSize \in Nat \ {0} BY StagesAssumption DEF StagesAssumption
<1>3. ~(0 > RingSize) BY <1>2
<1>4. Stage!Tailed(<<>>) \in Seq(Int) /\ Len(Stage!Tailed(<<>>)) = 0
  <2>1. Len(Stage!Tailed(<<>>)) = IF Len(<<>>) > RingSize THEN RingSize ELSE Len(<<>>) BY <1>1, TailedIs
  <2>2. Stage!Tailed(<<>>) \in Seq(Int) BY <1>1, TailedIs
  <2> QED BY <2>1, <2>2, <1>1, <1>3
<1> QED BY <1>4, EmptySeq

\* A stage seen for the first time goes to the end of the list.
LEMMA Registers == ASSUME NEW idx, NEW ents, NEW tkn, TableOf(idx, ents, tkn), NEW stage \in Stages, stage \notin DOMAIN idx,
                          NEW idx2, idx2 = [s \in DOMAIN idx \cup {stage} |-> IF s = stage THEN Len(ents) + 1 ELSE idx[s]],
                          NEW ents2, ents2 = Append(ents, [stage |-> stage, ring |-> <<>>])
                   PROVE TableOf(idx2, ents2, tkn) /\ stage \in DOMAIN idx2 /\ idx2[stage] \in 1..Len(ents2)
<1>1. /\ DOMAIN idx \subseteq Stages /\ ents \in Seq(Entry) /\ tkn \in [Stages -> Seq(Int)]
      /\ \A s \in DOMAIN idx : idx[s] \in 1..Len(ents) /\ ents[idx[s]].stage = s
   BY DEF TableOf
<1>2. \A i \in 1..Len(ents) : /\ ents[i].stage \in DOMAIN idx /\ idx[ents[i].stage] = i
                              /\ ents[i].ring = Stage!Tailed(tkn[ents[i].stage])
   BY DEF TableOf
<1>3. \A s \in Stages : s \notin DOMAIN idx => tkn[s] = <<>> BY DEF TableOf
<1>4. PICK n \in Nat : n = Len(ents) BY <1>1, LenProperties
<1>5. PICK e \in Entry : e = [stage |-> stage, ring |-> <<>>] BY EmptySeq DEF Entry
<1>6. e.stage = stage /\ e.ring = <<>> BY <1>5
<1>7. ents2 \in Seq(Entry) /\ Len(ents2) = n + 1 /\ ents2[n + 1] = e /\ \A i \in 1..n : ents2[i] = ents[i]
   BY <1>1, <1>4, <1>5, AppendProperties
<1>8. /\ DOMAIN idx2 = DOMAIN idx \cup {stage} /\ idx2[stage] = n + 1
      /\ \A s \in DOMAIN idx : idx2[s] = idx[s]
   BY <1>4
<1>9. \A s \in DOMAIN idx2 : idx2[s] \in 1..n + 1 /\ ents2[idx2[s]].stage = s
  <2>1. SUFFICES ASSUME NEW s \in DOMAIN idx2 PROVE idx2[s] \in 1..n + 1 /\ ents2[idx2[s]].stage = s OBVIOUS
  <2>2. CASE s = stage BY <2>2, <1>6, <1>7, <1>8
  <2>3. CASE s # stage
    <3>1. s \in DOMAIN idx /\ idx2[s] = idx[s] /\ idx[s] \in 1..n BY <2>3, <1>1, <1>4, <1>8
    <3> QED BY <3>1, <1>1, <1>7
  <2> QED BY <2>2, <2>3
<1>10. \A i \in 1..n + 1 : /\ ents2[i].stage \in DOMAIN idx2 /\ idx2[ents2[i].stage] = i
                           /\ ents2[i].ring = Stage!Tailed(tkn[ents2[i].stage])
  <2>1. SUFFICES ASSUME NEW i \in 1..n + 1
                 PROVE /\ ents2[i].stage \in DOMAIN idx2 /\ idx2[ents2[i].stage] = i
                       /\ ents2[i].ring = Stage!Tailed(tkn[ents2[i].stage])
     OBVIOUS
  <2>2. CASE i = n + 1
    <3>1. ents2[i].stage = stage /\ ents2[i].ring = <<>> BY <2>2, <1>6, <1>7
    <3>2. tkn[stage] = <<>> BY <1>3
    <3> QED BY <3>1, <3>2, <2>2, <1>8, TailedOfNone
  <2>3. CASE i # n + 1
    <3>1. i \in 1..n BY <2>3
    <3> QED BY <3>1, <1>2, <1>4, <1>7, <1>8
  <2> QED BY <2>2, <2>3
<1>11. \A s \in Stages : s \notin DOMAIN idx2 => tkn[s] = <<>> BY <1>3, <1>8
<1>12. DOMAIN idx2 \subseteq Stages BY <1>1, <1>8
<1> QED BY <1>1, <1>7, <1>8, <1>9, <1>10, <1>11, <1>12 DEF TableOf

\* A sample pushed to the ring in place i, and noted among those taken.
PushedAt(ents, i, x) == [ents EXCEPT ![i].ring = Stage!PushSample(@, x, RingSize)]
Took(tkn, stage, x) == [tkn EXCEPT ![stage] = Append(@, x)]

\* A sample goes to the ring of its stage, and to no other.
LEMMA Pushes == ASSUME NEW idx, NEW ents, NEW tkn, TableOf(idx, ents, tkn), NEW stage \in DOMAIN idx, NEW x \in Int,
                       NEW ents2, ents2 = PushedAt(ents, idx[stage], x),
                       NEW tkn2, tkn2 = Took(tkn, stage, x)
                PROVE TableOf(idx, ents2, tkn2) /\ tkn2[stage] # <<>> /\ \A s \in Stages : s # stage => tkn2[s] = tkn[s]
<1>1. /\ DOMAIN idx \subseteq Stages /\ ents \in Seq(Entry) /\ tkn \in [Stages -> Seq(Int)]
      /\ \A s \in DOMAIN idx : idx[s] \in 1..Len(ents) /\ ents[idx[s]].stage = s
   BY DEF TableOf
<1>2. \A i \in 1..Len(ents) : /\ ents[i].stage \in DOMAIN idx /\ idx[ents[i].stage] = i
                              /\ ents[i].ring = Stage!Tailed(tkn[ents[i].stage])
   BY DEF TableOf
<1>3. \A s \in Stages : s \notin DOMAIN idx => tkn[s] = <<>> BY DEF TableOf
<1>4. PICK n \in Nat : n = Len(ents) BY <1>1, LenProperties
<1>5. PICK at2 \in 1..n : at2 = idx[stage] BY <1>1, <1>4
<1>6. ents[at2] \in Entry /\ ents[at2].stage = stage BY <1>1, <1>4, <1>5, EntryAt
<1>7. stage \in Stages /\ tkn[stage] \in Seq(Int) BY <1>1
<1>8. Append(tkn[stage], x) \in Seq(Int) /\ Append(tkn[stage], x) # <<>> BY <1>7, AppendProperties
<1>9. /\ tkn2 \in [Stages -> Seq(Int)] /\ tkn2[stage] = Append(tkn[stage], x)
      /\ \A s \in Stages : s # stage => tkn2[s] = tkn[s]
   BY <1>1, <1>7, <1>8 DEF Took
<1>10. ents[at2].ring = Stage!Tailed(tkn[stage]) BY <1>2, <1>4, <1>6
<1>11. PICK ring \in Seq(Int) : ring = Stage!PushSample(ents[at2].ring, x, RingSize) /\ ring = Stage!Tailed(tkn2[stage])
   BY <1>7, <1>8, <1>9, <1>10, TailedGrows, TailedIs
<1>a. PICK e \in Entry : e = [stage |-> stage, ring |-> ring] BY <1>7, <1>11 DEF Entry
<1>b. e.stage = stage /\ e.ring = ring BY <1>a
<1>c. PICK old \in Entry : old = ents[at2] BY <1>6
<1>d. [old EXCEPT !.ring = ring] = e
  <2>1. old = [stage |-> old.stage, ring |-> old.ring] BY DEF Entry
  <2> QED BY <2>1, <1>a, <1>c, <1>6
<1>12. e = [ents[at2] EXCEPT !.ring = ring] /\ e.stage = stage /\ e.ring = ring BY <1>b, <1>c, <1>d
<1>13. ents2 = [ents EXCEPT ![at2] = e] BY <1>5, <1>11, <1>12 DEF PushedAt
<1>14. ents2 \in Seq(Entry) /\ Len(ents2) = n /\ \A j \in 1..n : ents2[j] = IF j = at2 THEN e ELSE ents[j]
  <2>1. at2 \in 1..Len(ents) BY <1>4
  <2> HIDE DEF Entry
  <2>2. /\ [ents EXCEPT ![at2] = e] \in Seq(Entry)
        /\ Len([ents EXCEPT ![at2] = e]) = Len(ents)
        /\ \A j \in 1..Len(ents) : [ents EXCEPT ![at2] = e][j] = IF j = at2 THEN e ELSE ents[j]
     BY <1>1, <2>1, ExceptSeq
  <2> QED BY <2>2, <1>4, <1>13
<1>15. \A j \in 1..n : ents2[j].stage = ents[j].stage BY <1>6, <1>12, <1>14
<1>16. \A s \in DOMAIN idx : idx[s] \in 1..Len(ents2) /\ ents2[idx[s]].stage = s BY <1>1, <1>4, <1>14, <1>15
<1>17. \A i \in 1..Len(ents2) : /\ ents2[i].stage \in DOMAIN idx /\ idx[ents2[i].stage] = i
                                /\ ents2[i].ring = Stage!Tailed(tkn2[ents2[i].stage])
  <2>1. SUFFICES ASSUME NEW i \in 1..n PROVE /\ ents2[i].stage \in DOMAIN idx /\ idx[ents2[i].stage] = i
                                             /\ ents2[i].ring = Stage!Tailed(tkn2[ents2[i].stage])
     BY <1>14
  <2>2. ents2[i].stage \in DOMAIN idx /\ idx[ents2[i].stage] = i /\ ents2[i].stage \in Stages BY <1>1, <1>2, <1>4, <1>15
  <2>3. CASE i = at2 BY <2>2, <2>3, <1>11, <1>12, <1>14
  <2>4. CASE i # at2
    <3>1. ents2[i] = ents[i] BY <2>4, <1>14
    <3>2. ents[i].stage # stage BY <2>2, <2>4, <3>1, <1>5
    <3>3. tkn2[ents[i].stage] = tkn[ents[i].stage] BY <1>9, <2>2, <3>1, <3>2
    <3> QED BY <2>2, <3>1, <3>3, <1>2, <1>4
  <2> QED BY <2>3, <2>4
<1>18. \A s \in Stages : s \notin DOMAIN idx => tkn2[s] = <<>> BY <1>3, <1>9
<1> QED BY <1>1, <1>8, <1>9, <1>14, <1>16, <1>17, <1>18 DEF TableOf

\* The places after a row is taken out, and the samples forgotten with it.
Moved(idx, stage, pos) == [s \in DOMAIN idx \ {stage} |-> IF idx[s] > pos THEN idx[s] - 1 ELSE idx[s]]
Emptied(tkn, stage) == [tkn EXCEPT ![stage] = <<>>]

\* A stage is removed, and the places after it move up.
LEMMA Removes == ASSUME NEW idx, NEW ents, NEW tkn, TableOf(idx, ents, tkn), NEW stage \in Stages,
                        NEW pos \in DOMAIN ents, ents[pos].stage = stage,
                        NEW idx2, idx2 = Moved(idx, stage, pos), NEW ents2, ents2 = Stage!RemoveAt(ents, pos),
                        NEW tkn2, tkn2 = Emptied(tkn, stage)
                 PROVE TableOf(idx2, ents2, tkn2) /\ DOMAIN idx2 = DOMAIN idx \ {stage} /\ \A s \in Stages \ {stage} : tkn2[s] = tkn[s]
<1>1. /\ DOMAIN idx \subseteq Stages /\ ents \in Seq(Entry) /\ tkn \in [Stages -> Seq(Int)]
      /\ \A s \in DOMAIN idx : idx[s] \in 1..Len(ents) /\ ents[idx[s]].stage = s
   BY DEF TableOf
<1>2. \A i \in 1..Len(ents) : /\ ents[i].stage \in DOMAIN idx /\ idx[ents[i].stage] = i
                              /\ ents[i].ring = Stage!Tailed(tkn[ents[i].stage])
   BY DEF TableOf
<1>3. \A s \in Stages : s \notin DOMAIN idx => tkn[s] = <<>> BY DEF TableOf
<1>4. PICK n \in Nat : n = Len(ents) BY <1>1, LenProperties
<1>5. pos \in 1..n /\ DOMAIN ents = 1..n BY <1>1, <1>4, LenProperties
<1>6. stage \in DOMAIN idx /\ idx[stage] = pos BY <1>2, <1>4, <1>5
<1>7. ents2 \in Seq(Entry) /\ Len(ents2) = n - 1 /\ \A j \in 1..n - 1 : ents2[j] = IF j < pos THEN ents[j] ELSE ents[j + 1]
  <2>1. pos \in 1..Len(ents) BY <1>4, <1>5
  <2> HIDE DEF Entry
  <2> QED BY <1>1, <1>4, <2>1, RemovedAt
<1>8. /\ DOMAIN idx2 = DOMAIN idx \ {stage}
      /\ \A s \in DOMAIN idx2 : idx2[s] = IF idx[s] > pos THEN idx[s] - 1 ELSE idx[s]
   BY DEF Moved
<1>9. <<>> \in Seq(Int) BY EmptySeq
<1>10. /\ tkn2 \in [Stages -> Seq(Int)] /\ tkn2[stage] = <<>>
       /\ \A s \in Stages \ {stage} : tkn2[s] = tkn[s]
   BY <1>1, <1>9 DEF Emptied
<1>11. \A s \in DOMAIN idx2 : idx2[s] \in 1..n - 1 /\ ents2[idx2[s]].stage = s
  <2>1. SUFFICES ASSUME NEW s \in DOMAIN idx2 PROVE idx2[s] \in 1..n - 1 /\ ents2[idx2[s]].stage = s OBVIOUS
  <2>2. s \in DOMAIN idx /\ s # stage /\ idx[s] \in 1..n /\ ents[idx[s]].stage = s BY <1>1, <1>4, <1>8
  <2>3. PICK i \in 1..n : i = idx[s] BY <2>2
  <2>4. i # pos BY <2>2, <2>3
  <2>5. CASE i > pos
    <3>1. idx2[s] = i - 1 /\ i - 1 \in 1..n - 1 /\ ~(i - 1 < pos) /\ (i - 1) + 1 = i BY <1>5, <1>8, <2>3, <2>5
    <3>2. ents2[i - 1] = ents[i] BY <3>1, <1>7
    <3> QED BY <3>1, <3>2, <2>2, <2>3
  <2>6. CASE i < pos
    <3>1. idx2[s] = i /\ i \in 1..n - 1 BY <1>5, <1>8, <2>3, <2>6
    <3>2. ents2[i] = ents[i] BY <3>1, <1>7, <2>6
    <3> QED BY <3>1, <3>2, <2>2, <2>3
  <2> QED BY <1>5, <2>4, <2>5, <2>6
<1>12. \A i \in 1..n - 1 : /\ ents2[i].stage \in DOMAIN idx2 /\ idx2[ents2[i].stage] = i
                           /\ ents2[i].ring = Stage!Tailed(tkn2[ents2[i].stage])
  <2>1. SUFFICES ASSUME NEW i \in 1..n - 1
                 PROVE /\ ents2[i].stage \in DOMAIN idx2 /\ idx2[ents2[i].stage] = i
                       /\ ents2[i].ring = Stage!Tailed(tkn2[ents2[i].stage])
     OBVIOUS
  <2>2. PICK m \in 1..n : m = (IF i < pos THEN i ELSE i + 1) /\ m # pos BY <1>5
  <2>3. ents2[i] = ents[m] BY <1>7, <2>2
  <2>4. PICK s : s = ents[m].stage OBVIOUS
  <2>5. s \in DOMAIN idx /\ idx[s] = m /\ ents[m].ring = Stage!Tailed(tkn[s]) BY <1>2, <1>4, <2>4
  <2>6. s # stage /\ s \in DOMAIN idx2 /\ s \in Stages BY <1>1, <1>6, <1>8, <2>2, <2>5
  <2>7. idx2[s] = i
    <3>1. idx2[s] = IF m > pos THEN m - 1 ELSE m BY <1>8, <2>5, <2>6
    <3> QED BY <3>1, <2>2, <1>5
  <2>8. tkn2[s] = tkn[s] BY <1>10, <2>6
  <2> QED BY <2>3, <2>4, <2>5, <2>6, <2>7, <2>8
<1>13. \A s \in Stages : s \notin DOMAIN idx2 => tkn2[s] = <<>> BY <1>3, <1>8, <1>10
<1>14. DOMAIN idx2 \subseteq Stages BY <1>1, <1>8
<1> QED BY <1>7, <1>8, <1>10, <1>11, <1>12, <1>13, <1>14 DEF TableOf

\* record: the stage is registered if need be, then its ring is pushed.
LEMMA RecordHolds == ASSUME StageInv, NEW stage \in Stages, NEW x \in Int, Stage!Record(stage, x) PROVE StageInv'
<1> DEFINE with == Stage!Registered(stage)
<1>1. /\ index' = with.index
      /\ entries' = [with.entries EXCEPT ![with.index[stage]].ring = Stage!PushSample(@, x, RingSize)]
      /\ taken' = [taken EXCEPT ![stage] = Append(@, x)]
      /\ copied' = <<>>
   BY DEF Stage!Record
<1>2. TableOf(index, entries, taken) /\ Sampled(index, taken) BY DEF StageInv
<1>3. PICK idx, ents : idx = with.index /\ ents = with.entries OBVIOUS
<1>4. TableOf(idx, ents, taken) /\ stage \in DOMAIN idx /\ DOMAIN idx = DOMAIN index \cup {stage}
  <2>1. CASE stage \in DOMAIN index
    <3>1. idx = index /\ ents = entries BY <1>3, <2>1 DEF Stage!Registered
    <3> QED BY <3>1, <1>2, <2>1
  <2>2. CASE stage \notin DOMAIN index
    <3>1. /\ idx = [s \in DOMAIN index \cup {stage} |-> IF s = stage THEN Len(entries) + 1 ELSE index[s]]
          /\ ents = Append(entries, [stage |-> stage, ring |-> <<>>])
      BY <1>3, <2>2 DEF Stage!Registered
    <3>2. TableOf(idx, ents, taken) /\ stage \in DOMAIN idx BY <3>1, <1>2, <2>2, Registers
    <3> QED BY <3>1, <3>2
  <2> QED BY <2>1, <2>2
<1> HIDE DEF with
<1>5. TableOf(idx, entries', taken') /\ taken'[stage] # <<>> /\ \A s \in Stages : s # stage => taken'[s] = taken[s]
  <2>1. entries' = PushedAt(ents, idx[stage], x) /\ taken' = Took(taken, stage, x) BY <1>1, <1>3 DEF PushedAt, Took
  <2>2. TableOf(idx, ents, taken) /\ stage \in DOMAIN idx BY <1>4
  <2> QED BY <2>1, <2>2, Pushes
<1>6. index' = idx BY <1>1, <1>3
<1>7. Sampled(idx, taken')
  <2>1. DOMAIN index \subseteq Stages BY <1>2 DEF TableOf
  <2> QED BY <1>2, <1>4, <1>5, <2>1 DEF Sampled
<1>8. Stage!SnapshotExact' BY <1>1 DEF Stage!SnapshotExact
<1> QED BY <1>5, <1>6, <1>7, <1>8 DEF StageInv

\* remove_stage, in the middle of the list too.
LEMMA RemoveHolds == ASSUME StageInv, NEW stage \in Stages, Stage!RemoveStage(stage) PROVE StageInv'
<1>1. PICK pos \in DOMAIN entries :
         /\ entries[pos].stage = stage
         /\ entries' = Stage!RemoveAt(entries, pos)
         /\ index' = [s \in DOMAIN Stage!Without(stage) |-> IF index[s] > pos THEN index[s] - 1 ELSE index[s]]
   BY DEF Stage!RemoveStage
<1>2. taken' = [taken EXCEPT ![stage] = <<>>] /\ copied' = <<>> BY DEF Stage!RemoveStage
<1>3. index' = [s \in DOMAIN index \ {stage} |-> IF index[s] > pos THEN index[s] - 1 ELSE index[s]]
   BY <1>1 DEF Stage!Without
<1>4. TableOf(index, entries, taken) /\ Sampled(index, taken) BY DEF StageInv
<1>5. /\ TableOf(index', entries', taken') /\ DOMAIN index' = DOMAIN index \ {stage}
      /\ \A s \in Stages \ {stage} : taken'[s] = taken[s]
  <2>1. TableOf(index, entries, taken) /\ entries[pos].stage = stage BY <1>1, <1>4
  <2>2. /\ index' = Moved(index, stage, pos) /\ entries' = Stage!RemoveAt(entries, pos)
        /\ taken' = Emptied(taken, stage)
     BY <1>1, <1>2, <1>3 DEF Moved, Emptied
  <2> QED BY <2>1, <2>2, Removes
<1>6. Sampled(index', taken')
  <2>1. DOMAIN index \subseteq Stages BY <1>4 DEF TableOf
  <2> QED BY <1>4, <1>5, <2>1 DEF Sampled
<1>7. Stage!SnapshotExact' BY <1>2 DEF Stage!SnapshotExact
<1> QED BY <1>5, <1>6, <1>7 DEF StageInv

\* snapshot: every ring's percentiles are its percentiles.
LEMMA SnapshotHolds == ASSUME StageInv, Stage!TakeSnapshot PROVE StageInv'
<1>1. /\ copied' = [i \in DOMAIN entries |-> [stage |-> entries[i].stage, latency |-> Stage!RingSummary(entries[i].ring)]]
      /\ index' = index /\ entries' = entries /\ taken' = taken
   BY DEF Stage!TakeSnapshot
<1>2. TableOf(index, entries, taken) /\ Sampled(index, taken) BY DEF StageInv
<1>3. entries \in Seq(Entry) /\ taken \in [Stages -> Seq(Int)] BY <1>2 DEF TableOf
<1>4. PICK n \in Nat : n = Len(entries) /\ DOMAIN entries = 1..n BY <1>3, LenProperties
<1>5. Len(copied') = n
  <2> DEFINE c == [i \in 1..n |-> [stage |-> entries[i].stage, latency |-> Stage!RingSummary(entries[i].ring)]]
             R == {c[i] : i \in 1..n}
  <2>1. c \in [1..n -> R] OBVIOUS
  <2>2. copied' = c BY <1>1, <1>4
  <2> HIDE DEF c, R
  <2>3. Len(c) = n BY <2>1, Listed
  <2> QED BY <2>2, <2>3
<1>6. RingSize \in Nat \ {0} BY StagesAssumption DEF StagesAssumption
<1>7. \A i \in 1..n : LET l == copied'[i].latency
                          ring == entries[i].ring
                      IN  /\ copied'[i].stage = entries[i].stage
                          /\ l.count = Len(ring) /\ l.count \in 1..RingSize
                          /\ Stage!IsPercentile(l.p50, ring, 50) /\ Stage!IsPercentile(l.p95, ring, 95)
                          /\ Stage!IsPercentile(l.p99, ring, 99)
  <2>1. SUFFICES ASSUME NEW i \in 1..n
                 PROVE LET l == copied'[i].latency
                           ring == entries[i].ring
                       IN  /\ copied'[i].stage = entries[i].stage
                           /\ l.count = Len(ring) /\ l.count \in 1..RingSize
                           /\ Stage!IsPercentile(l.p50, ring, 50) /\ Stage!IsPercentile(l.p95, ring, 95)
                           /\ Stage!IsPercentile(l.p99, ring, 99)
     OBVIOUS
  <2>2. PICK ring, stage, l : ring = entries[i].ring /\ stage = entries[i].stage /\ l = copied'[i].latency OBVIOUS
  <2>3. copied'[i].stage = stage /\ l = Stage!RingSummary(ring) BY <1>1, <1>4, <2>2
  <2>4. stage \in DOMAIN index /\ stage \in Stages /\ ring = Stage!Tailed(taken[stage]) BY <1>2, <1>4, <2>2 DEF TableOf
  <2>5. taken[stage] \in Seq(Int) /\ taken[stage] # <<>> BY <1>2, <1>3, <2>4 DEF Sampled
  <2>6. PICK k \in Nat \ {0} : k = Len(taken[stage]) BY <2>5, EmptySeq
  <2>7. ring \in Seq(Int) /\ Len(ring) \in 1..RingSize
    <3>1. ring \in Seq(Int) /\ Len(ring) = IF k > RingSize THEN RingSize ELSE k BY <2>4, <2>5, <2>6, TailedIs
    <3> QED BY <3>1, <1>6
  <2>8. ring # <<>> BY <2>7, EmptySeq
  <2>9. /\ l.count = Len(ring) /\ l.p50 = Stage!Percentile(Stage!SortedSamples(ring), 50)
        /\ l.p95 = Stage!Percentile(Stage!SortedSamples(ring), 95)
        /\ l.p99 = Stage!Percentile(Stage!SortedSamples(ring), 99)
     BY <2>3 DEF Stage!RingSummary
  <2>10. \A p \in {50, 95, 99} : Stage!IsPercentile(Stage!Percentile(Stage!SortedSamples(ring), p), ring, p)
     BY <2>7, <2>8, IsThePercentile
  <2>11. /\ Stage!IsPercentile(l.p50, ring, 50) /\ Stage!IsPercentile(l.p95, ring, 95)
         /\ Stage!IsPercentile(l.p99, ring, 99)
     BY <2>9, <2>10
  <2> QED BY <2>2, <2>3, <2>7, <2>9, <2>11
<1>8. Stage!SnapshotExact' BY <1>1, <1>4, <1>5, <1>7 DEF Stage!SnapshotExact
<1> QED BY <1>1, <1>2, <1>8 DEF StageInv

\* Every step of the table.
LEMMA StagesStep == ASSUME StageInv, Stage!Next PROVE StageInv'
<1>1. ASSUME NEW stage \in Stages, NEW x \in 1..2, Stage!Record(stage, x) PROVE StageInv' BY <1>1, RecordHolds
<1>2. ASSUME NEW stage \in Stages, Stage!RemoveStage(stage) PROVE StageInv' BY <1>2, RemoveHolds
<1> QED BY <1>1, <1>2, SnapshotHolds DEF Stage!Next

\* A step of another machine.
LEMMA StagesStand == ASSUME StageInv, UNCHANGED stageVars PROVE StageInv'
BY DEF StageInv, stageVars, Stage!SnapshotExact

\* The empty table.
LEMMA StagesBegin == ASSUME Init PROVE StageInv
<1>1. index = <<>> /\ entries = <<>> /\ copied = <<>> /\ taken = [s \in Stages |-> <<>>] BY DEF Init, AllBegin, Stage!Init
<1>2. <<>> \in Seq(Int) /\ <<>> \in Seq(Entry) /\ Len(<<>>) = 0 BY EmptySeq
<1>3. DOMAIN <<>> = {} OBVIOUS
<1>4. TableOf(index, entries, taken)
  <2>1. DOMAIN index = {} /\ entries \in Seq(Entry) /\ Len(entries) = 0 BY <1>1, <1>2, <1>3
  <2>2. taken \in [Stages -> Seq(Int)] /\ \A s \in Stages : taken[s] = <<>> BY <1>1, <1>2
  <2> QED BY <2>1, <2>2 DEF TableOf
<1>5. Sampled(index, taken) BY <1>1, <1>3 DEF Sampled
<1>6. Stage!SnapshotExact BY <1>1 DEF Stage!SnapshotExact
<1> QED BY <1>4, <1>5, <1>6 DEF StageInv

\* The invariant says what the table promises.
LEMMA StagesTell == ASSUME StageInv PROVE Stage!StagesHold
<1>1. TableOf(index, entries, taken) /\ Stage!SnapshotExact BY DEF StageInv
<1>2. /\ DOMAIN index \subseteq Stages /\ entries \in Seq(Entry)
      /\ \A s \in DOMAIN index : index[s] \in 1..Len(entries) /\ entries[index[s]].stage = s
   BY <1>1 DEF TableOf
<1>3. \A i \in 1..Len(entries) : /\ entries[i].stage \in DOMAIN index /\ index[entries[i].stage] = i
                                 /\ entries[i].ring = Stage!Tailed(taken[entries[i].stage])
   BY <1>1 DEF TableOf
<1>4. \A s \in Stages : s \notin DOMAIN index => taken[s] = <<>> BY <1>1 DEF TableOf
<1>5. PICK n \in Nat : n = Len(entries) /\ DOMAIN entries = 1..n BY <1>2, LenProperties
<1>6. Stage!SamplesStayHome
  <2>1. SUFFICES ASSUME NEW s \in Stages, s \in DOMAIN index
                 PROVE /\ index[s] \in DOMAIN entries
                       /\ entries[index[s]].stage = s
                       /\ entries[index[s]].ring = Stage!Tailed(taken[s])
     BY <1>4 DEF Stage!SamplesStayHome
  <2>2. PICK i \in 1..Len(entries) : i = index[s] /\ entries[i].stage = s BY <1>2, <2>1
  <2>3. entries[i].ring = Stage!Tailed(taken[entries[i].stage]) BY <1>3
  <2>4. i \in DOMAIN entries BY <1>5
  <2> QED BY <2>2, <2>3, <2>4
<1>7. Stage!OnePlaceEach
  <2> DEFINE f == [i \in 1..n |-> entries[i].stage]
  <2>1. f \in [1..n -> DOMAIN index] BY <1>3, <1>5
  <2>2. \A i, j \in 1..n : f[i] = f[j] => i = j BY <1>3, <1>5
  <2>3. \A s \in DOMAIN index : \E i \in 1..n : f[i] = s BY <1>2, <1>5
  <2> HIDE DEF f
  <2>4. f \in Bijection(1..n, DOMAIN index) BY <2>1, <2>2, <2>3 DEF Bijection, Injection, Surjection, IsInjective
  <2>5. ExistsBijection(1..n, DOMAIN index) BY <2>4 DEF ExistsBijection
  <2>6. Cardinality(DOMAIN index) = n BY <2>5, FS_CountingElements
  <2> QED BY <1>5, <2>6, SameCount DEF Stage!OnePlaceEach
<1> QED BY <1>1, <1>6, <1>7 DEF Stage!StagesHold

-----------------------------------------------------------------------------
(* CPU time by role (CpuSampler). *)

\* There are finitely many roles.
LEMMA RolesFinite == IsFiniteSet(Cpu!Roles)
<1>1. IsFiniteSet({}) BY FS_EmptySet
<1>2. IsFiniteSet({"worker"}) BY FS_Singleton
<1>3. IsFiniteSet({"worker"} \cup {"rayon"}) BY <1>2, FS_AddElement
<1>4. IsFiniteSet(({"worker"} \cup {"rayon"}) \cup {"input"}) BY <1>3, FS_AddElement
<1>5. IsFiniteSet((({"worker"} \cup {"rayon"}) \cup {"input"}) \cup {"output"}) BY <1>4, FS_AddElement
<1>6. IsFiniteSet(((({"worker"} \cup {"rayon"}) \cup {"input"}) \cup {"output"}) \cup {"other"}) BY <1>5, FS_AddElement
<1>7. Cpu!Roles = ((({"worker"} \cup {"rayon"}) \cup {"input"}) \cup {"output"}) \cup {"other"} BY DEF Cpu!Roles
<1> QED BY <1>6, <1>7

\* A sum over the roles, written out.
LEMMA SumOfRoles == ASSUME NEW g, \A r \in Cpu!Roles : g[r] \in Int
      PROVE Cpu!SumFunctionOnSet(g, Cpu!Roles) = g["worker"] + g["rayon"] + g["input"] + g["output"] + g["other"]
<1> DEFINE G(s) == Cpu!SumFunctionOnSet(g, s)
           Rs == Cpu!Roles
<1>1. \A s \in SUBSET Rs : G(s) \in Int /\ (s = {} => G(s) = 0) BY SumOfSubsets, RolesFinite
<1>2. \A s \in SUBSET Rs, x \in Rs : x \in s => G(s) = g[x] + G(s \ {x}) BY SumWithout, RolesFinite
<1> HIDE DEF G
<1>3. Rs = {"worker", "rayon", "input", "output", "other"} BY DEF Cpu!Roles
<1> HIDE DEF Rs
<1>4. G(Rs) = g["worker"] + G({"rayon", "input", "output", "other"})
  <2>1. Rs \ {"worker"} = {"rayon", "input", "output", "other"} BY <1>3
  <2>2. Rs \in SUBSET Rs /\ "worker" \in Rs BY <1>3
  <2> QED BY <1>2, <2>1, <2>2
<1>5. G({"rayon", "input", "output", "other"}) = g["rayon"] + G({"input", "output", "other"})
  <2>1. {"rayon", "input", "output", "other"} \ {"rayon"} = {"input", "output", "other"} OBVIOUS
  <2>2. {"rayon", "input", "output", "other"} \in SUBSET Rs /\ "rayon" \in Rs BY <1>3
  <2> QED BY <1>2, <2>1, <2>2
<1>6. G({"input", "output", "other"}) = g["input"] + G({"output", "other"})
  <2>1. {"input", "output", "other"} \ {"input"} = {"output", "other"} OBVIOUS
  <2>2. {"input", "output", "other"} \in SUBSET Rs /\ "input" \in Rs BY <1>3
  <2> QED BY <1>2, <2>1, <2>2
<1>7. G({"output", "other"}) = g["output"] + G({"other"})
  <2>1. {"output", "other"} \ {"output"} = {"other"} OBVIOUS
  <2>2. {"output", "other"} \in SUBSET Rs /\ "output" \in Rs BY <1>3
  <2> QED BY <1>2, <2>1, <2>2
<1>8. G({"other"}) = g["other"] + G({})
  <2>1. {"other"} \ {"other"} = {} OBVIOUS
  <2>2. {"other"} \in SUBSET Rs /\ "other" \in Rs BY <1>3
  <2> QED BY <1>2, <2>1, <2>2
<1>9. G({}) = 0 BY <1>1
<1>10. g["worker"] \in Int /\ g["rayon"] \in Int /\ g["input"] \in Int /\ g["output"] \in Int /\ g["other"] \in Int
   BY DEF Cpu!Roles
<1>11. G(Rs) = g["worker"] + g["rayon"] + g["input"] + g["output"] + g["other"]
   BY <1>4, <1>5, <1>6, <1>7, <1>8, <1>9, <1>10
<1> QED BY <1>11 DEF G, Rs

\* Before the first sample there is nothing to add up.
LEMMA NoSharesHold == /\ sampled = Cpu!NoShares => Cpu!CpuHolds
                      /\ sampled' = Cpu!NoShares => Cpu!CpuHolds'
<1> DEFINE zero == [r \in Cpu!Roles |-> 0]
<1>1. \A r \in Cpu!Roles : zero[r] \in Int OBVIOUS
<1>2. zero["worker"] = 0 /\ zero["rayon"] = 0 /\ zero["input"] = 0 /\ zero["output"] = 0 /\ zero["other"] = 0 BY DEF Cpu!Roles
<1> HIDE DEF zero
<1>3. Cpu!SumFunctionOnSet(zero, Cpu!Roles) = 0 BY <1>1, <1>2, SumOfRoles
<1>4. Cpu!NoShares.process = 0 /\ Cpu!NoShares.ok = FALSE /\ Cpu!NoShares.roles = zero BY DEF Cpu!NoShares, zero
<1> QED BY <1>3, <1>4 DEF Cpu!CpuHolds, Cpu!RolesAddUp, Cpu!SharesAreReal

\* Who runs and is known; a reused name is one of those that were known.
CpuFields ==
    /\ DOMAIN names \subseteq Threads
    /\ MainThread \in DOMAIN names
    /\ run \in [Threads -> Nat]
    /\ spent \in [Threads -> Nat]
    /\ reused \subseteq DOMAIN prev
    /\ DOMAIN prev \subseteq Threads
    /\ \A t \in DOMAIN prev : prev[t].ticks \in Nat

\* What a thread has run is what the sampler has seen of it and what it ran since.
Accounted ==
    ~missed => \A t \in DOMAIN names :
        IF t \in DOMAIN prev \ reused THEN run[t] = prev[t].ticks + spent[t] ELSE run[t] = spent[t]

CpuInv == CpuFields /\ Accounted /\ Cpu!CpuHolds

\* The sampler that was just made knows the main thread only.
LEMMA CpuBegins == ASSUME Init PROVE CpuInv
<1>1. Cpu!Init BY DEF Init, AllBegin
<1>2. MainThread \in Threads BY CpuAssumption DEF CpuAssumption
<1>3. CpuFields BY <1>1, <1>2 DEF Cpu!Init, CpuFields
<1>4. Accounted BY <1>1, <1>2 DEF Cpu!Init, Accounted
<1>5. Cpu!CpuHolds
  <2>1. sampled = Cpu!NoShares BY <1>1 DEF Cpu!Init
  <2> QED BY <2>1, NoSharesHold
<1> QED BY <1>3, <1>4, <1>5 DEF CpuInv

\* A step of another machine.
LEMMA CpuStands == ASSUME CpuInv, UNCHANGED cpuVars PROVE CpuInv'
BY DEF CpuInv, CpuFields, Accounted, cpuVars, Cpu!CpuHolds, Cpu!RolesAddUp, Cpu!SharesAreReal

\* A thread starts, perhaps with the id of one that ended.
LEMMA ThreadStartsHolds == ASSUME CpuInv, NEW t \in Threads, NEW comm, Cpu!ThreadStarts(t, comm) PROVE CpuInv'
<1>1. /\ t \notin DOMAIN names
      /\ names' = [u \in DOMAIN names \cup {t} |-> IF u = t THEN comm ELSE names[u]]
      /\ run' = [run EXCEPT ![t] = 0] /\ spent' = [spent EXCEPT ![t] = 0]
      /\ reused' = IF t \in DOMAIN prev THEN reused \cup {t} ELSE reused
      /\ sampled' = Cpu!NoShares /\ prev' = prev /\ missed' = missed
   BY DEF Cpu!ThreadStarts
<1>2. CpuFields BY DEF CpuInv
<1>3. CpuFields' BY <1>1, <1>2 DEF CpuFields
<1>4. Accounted'
  <2>1. SUFFICES ASSUME ~missed, NEW u \in DOMAIN names'
                 PROVE IF u \in DOMAIN prev \ reused' THEN run'[u] = prev[u].ticks + spent'[u] ELSE run'[u] = spent'[u]
     BY <1>1 DEF Accounted
  <2>2. CASE u = t BY <1>1, <1>2, <2>2 DEF CpuFields
  <2>3. CASE u # t
    <3>1. u \in DOMAIN names /\ u \in Threads /\ run'[u] = run[u] /\ spent'[u] = spent[u] /\ (u \in reused' <=> u \in reused)
       BY <1>1, <1>2, <2>3 DEF CpuFields
    <3>2. IF u \in DOMAIN prev \ reused THEN run[u] = prev[u].ticks + spent[u] ELSE run[u] = spent[u]
       BY <3>1, <2>1 DEF CpuInv, Accounted
    <3> QED BY <3>1, <3>2
  <2> QED BY <2>2, <2>3
<1>5. Cpu!CpuHolds' BY <1>1, NoSharesHold
<1> QED BY <1>3, <1>4, <1>5 DEF CpuInv

\* A thread ends.
LEMMA ThreadEndsHolds == ASSUME CpuInv, NEW t \in Threads, Cpu!ThreadEnds(t) PROVE CpuInv'
<1>1. /\ t \in DOMAIN names \ {MainThread}
      /\ names' = [u \in DOMAIN names \ {t} |-> names[u]]
      /\ sampled' = Cpu!NoShares /\ prev' = prev /\ missed' = missed /\ run' = run /\ spent' = spent /\ reused' = reused
   BY DEF Cpu!ThreadEnds
<1>2. CpuFields' BY <1>1 DEF CpuInv, CpuFields
<1>3. Accounted' BY <1>1 DEF CpuInv, Accounted
<1>4. Cpu!CpuHolds' BY <1>1, NoSharesHold
<1> QED BY <1>2, <1>3, <1>4 DEF CpuInv

\* A thread runs for a tick.
LEMMA WorksHolds == ASSUME CpuInv, NEW t \in Threads, Cpu!Works(t) PROVE CpuInv'
<1>1. /\ t \in DOMAIN names
      /\ run' = [run EXCEPT ![t] = @ + 1] /\ spent' = [spent EXCEPT ![t] = @ + 1]
      /\ sampled' = Cpu!NoShares /\ prev' = prev /\ missed' = missed /\ names' = names /\ reused' = reused
   BY DEF Cpu!Works
<1>2. CpuFields BY DEF CpuInv
<1>3. CpuFields' BY <1>1, <1>2 DEF CpuFields
<1>4. Accounted'
  <2>1. SUFFICES ASSUME ~missed, NEW u \in DOMAIN names
                 PROVE IF u \in DOMAIN prev \ reused THEN run'[u] = prev[u].ticks + spent'[u] ELSE run'[u] = spent'[u]
     BY <1>1 DEF Accounted
  <2>2. IF u \in DOMAIN prev \ reused THEN run[u] = prev[u].ticks + spent[u] ELSE run[u] = spent[u]
     BY <2>1 DEF CpuInv, Accounted
  <2>3. u \in Threads /\ run[u] \in Nat /\ spent[u] \in Nat /\ (u \in DOMAIN prev => prev[u].ticks \in Nat)
     BY <1>2 DEF CpuFields
  <2>4. IF u = t THEN run'[u] = run[u] + 1 /\ spent'[u] = spent[u] + 1 ELSE run'[u] = run[u] /\ spent'[u] = spent[u]
     BY <1>1, <1>2, <2>3 DEF CpuFields
  <2> QED BY <2>2, <2>3, <2>4
<1>5. Cpu!CpuHolds' BY <1>1, NoSharesHold
<1> QED BY <1>3, <1>4, <1>5 DEF CpuInv

\* A sample that could not read /proc leaves the reading as it was.
LEMMA UnreadHolds == ASSUME CpuInv, Cpu!SampleUnread PROVE CpuInv'
<1>1. /\ missed' = TRUE /\ spent' = [t \in Threads |-> 0]
      /\ sampled' = Cpu!NoShares /\ prev' = prev /\ names' = names /\ run' = run /\ reused' = reused
   BY DEF Cpu!SampleUnread
<1>2. CpuFields' BY <1>1 DEF CpuInv, CpuFields
<1>3. Accounted' BY <1>1 DEF Accounted
<1>4. Cpu!CpuHolds' BY <1>1, NoSharesHold
<1> QED BY <1>2, <1>3, <1>4 DEF CpuInv

\* The parts of a partition by role add up to the whole.
LEMMA RolesPartition == ASSUME NEW cur, IsFiniteSet(DOMAIN cur), \A t \in DOMAIN cur : cur[t].role \in Cpu!Roles,
                               NEW f, \A t \in DOMAIN cur : f[t] \in Int
      PROVE Cpu!SumFunctionOnSet(f, DOMAIN cur)
              = Cpu!SumFunctionOnSet([r \in Cpu!Roles |-> Cpu!SumFunctionOnSet(f, Cpu!InRole(cur, r))], Cpu!Roles)
<1> DEFINE F(s) == Cpu!SumFunctionOnSet(f, s)
           In(r) == Cpu!InRole(cur, r)
           g == [r \in Cpu!Roles |-> F(In(r))]
           D == DOMAIN cur
<1>1. \A s \in SUBSET D : F(s) \in Int BY SumOfSubsets
<1>2. \A a, b \in SUBSET D : a \cap b = {} => F(a \cup b) = F(a) + F(b) BY SumOfUnion
<1>3. \A r : In(r) \in SUBSET D BY DEF Cpu!InRole
<1>4. \A r, q : r # q => In(r) \cap In(q) = {} BY DEF Cpu!InRole
<1>5. D = (((In("worker") \cup In("rayon")) \cup In("input")) \cup In("output")) \cup In("other")
   BY DEF Cpu!InRole, Cpu!Roles
<1> HIDE DEF In, F, D
<1>6. \A r \in Cpu!Roles : g[r] \in Int BY <1>1, <1>3
<1>7. /\ g["worker"] = F(In("worker")) /\ g["rayon"] = F(In("rayon")) /\ g["input"] = F(In("input"))
      /\ g["output"] = F(In("output")) /\ g["other"] = F(In("other"))
   BY DEF Cpu!Roles
<1> HIDE DEF g
<1>8. Cpu!SumFunctionOnSet(g, Cpu!Roles) = g["worker"] + g["rayon"] + g["input"] + g["output"] + g["other"]
   BY <1>6, SumOfRoles
<1>9. PICK a \in SUBSET D : a = In("worker") \cup In("rayon") BY <1>3
<1>10. F(a) = F(In("worker")) + F(In("rayon")) BY <1>2, <1>3, <1>4, <1>9
<1>11. PICK b \in SUBSET D : b = a \cup In("input") BY <1>3
<1>12. F(b) = F(a) + F(In("input"))
  <2>1. a \cap In("input") = {}
    <3>1. In("worker") \cap In("input") = {} /\ In("rayon") \cap In("input") = {} BY <1>4
    <3> QED BY <3>1, <1>9
  <2> QED BY <2>1, <1>2, <1>3, <1>11
<1>13. PICK c \in SUBSET D : c = b \cup In("output") BY <1>3
<1>14. F(c) = F(b) + F(In("output"))
  <2>1. b \cap In("output") = {}
    <3>1. In("worker") \cap In("output") = {} /\ In("rayon") \cap In("output") = {} /\ In("input") \cap In("output") = {} BY <1>4
    <3> QED BY <3>1, <1>9, <1>11
  <2> QED BY <2>1, <1>2, <1>3, <1>13
<1>15. F(D) = F(c) + F(In("other"))
  <2>1. c \cap In("other") = {}
    <3>1. /\ In("worker") \cap In("other") = {} /\ In("rayon") \cap In("other") = {}
          /\ In("input") \cap In("other") = {} /\ In("output") \cap In("other") = {} BY <1>4
    <3> QED BY <3>1, <1>9, <1>11, <1>13
  <2>2. D = c \cup In("other") BY <1>5, <1>9, <1>11, <1>13
  <2> QED BY <2>1, <2>2, <1>2, <1>3
<1>16. F(D) = g["worker"] + g["rayon"] + g["input"] + g["output"] + g["other"]
  <2>1. /\ g["worker"] \in Int /\ g["rayon"] \in Int /\ g["input"] \in Int /\ g["output"] \in Int /\ g["other"] \in Int
        BY <1>6 DEF Cpu!Roles
  <2> QED BY <2>1, <1>7, <1>10, <1>12, <1>14, <1>15
<1>17. F(D) = Cpu!SumFunctionOnSet(g, Cpu!Roles) BY <1>8, <1>16
<1> QED BY <1>17 DEF F, D, g, In

\* A sample: the shares are of what was run, and the reading is the new one.
LEMMA SampleHolds == ASSUME CpuInv, Cpu!Sample PROVE CpuInv'
<1> DEFINE cur == Cpu!ReadTicks
           delta == [t \in DOMAIN cur |-> Cpu!Delta(prev, cur, t)]
<1>1. CpuFields BY DEF CpuInv
<1>2. DOMAIN cur = DOMAIN names /\ DOMAIN names \subseteq Threads /\ IsFiniteSet(DOMAIN names)
  <2>1. IsFiniteSet(DOMAIN names) BY <1>1, CpuAssumption, FS_Subset DEF CpuFields, CpuAssumption
  <2> QED BY <2>1, <1>1 DEF Cpu!ReadTicks, CpuFields
<1>3. \A t \in DOMAIN names : cur[t].ticks = run[t] /\ cur[t].role \in Cpu!Roles
   BY DEF Cpu!ReadTicks, Cpu!RoleOf, Cpu!Classify, Cpu!Roles
<1>4. /\ sampled' = Cpu!SharesOf(cur) /\ prev' = cur /\ missed' = FALSE /\ spent' = [t \in Threads |-> 0]
      /\ reused' = {} /\ names' = names /\ run' = run
   BY DEF Cpu!Sample
<1>5. sampled' = [ok |-> window > 0, process |-> Cpu!SumFunctionOnSet(delta, DOMAIN cur),
                  roles |-> [r \in Cpu!Roles |-> Cpu!SumFunctionOnSet(delta, Cpu!InRole(cur, r))],
                  real |-> Cpu!SumFunctionOnSet(spent, DOMAIN cur),
                  clean |-> ~missed, reused |-> reused \cap DOMAIN cur]
   BY <1>4 DEF Cpu!SharesOf, Cpu!SharesBetween
<1>6. \A t \in DOMAIN names : /\ run[t] \in Nat /\ spent[t] \in Nat
                              /\ t \in DOMAIN prev => prev[t].ticks \in Nat
   BY <1>1, <1>2 DEF CpuFields
<1>7. \A t \in DOMAIN names : /\ delta[t] \in Nat
                              /\ ~missed => delta[t] <= spent[t]
                              /\ ~missed /\ t \notin reused => delta[t] = spent[t]
  <2>1. SUFFICES ASSUME NEW t \in DOMAIN names
                 PROVE /\ delta[t] \in Nat
                       /\ ~missed => delta[t] <= spent[t]
                       /\ ~missed /\ t \notin reused => delta[t] = spent[t]
     OBVIOUS
  <2>2. delta[t] = IF t \in DOMAIN prev /\ run[t] >= prev[t].ticks THEN run[t] - prev[t].ticks
                   ELSE IF t \in DOMAIN prev THEN 0 ELSE run[t]
     BY <1>2, <1>3, <1>6 DEF Cpu!Delta
  <2>3. run[t] \in Nat /\ spent[t] \in Nat /\ (t \in DOMAIN prev => prev[t].ticks \in Nat) BY <1>6
  <2>4. ~missed => IF t \in DOMAIN prev \ reused THEN run[t] = prev[t].ticks + spent[t] ELSE run[t] = spent[t]
     BY DEF CpuInv, Accounted
  <2>5. t \in reused => t \in DOMAIN prev BY <1>1 DEF CpuFields
  <2> HIDE DEF delta
  <2> QED BY <2>2, <2>3, <2>4, <2>5
<1> HIDE DEF delta, cur
<1>8. CpuFields'
  <2>1. \A t \in DOMAIN cur : cur[t].ticks \in Nat BY <1>2, <1>3, <1>6
  <2>2. MainThread \in DOMAIN names /\ run \in [Threads -> Nat] BY <1>1 DEF CpuFields
  <2> QED BY <1>2, <1>4, <2>1, <2>2 DEF CpuFields
<1>9. Accounted'
  <2>1. SUFFICES ASSUME NEW t \in DOMAIN names PROVE run[t] = cur[t].ticks + spent'[t] BY <1>2, <1>4 DEF Accounted
  <2>2. spent'[t] = 0 /\ run[t] \in Nat /\ cur[t].ticks = run[t] BY <1>2, <1>3, <1>4, <1>6
  <2> QED BY <2>2
<1>10. /\ sampled'.process = Cpu!SumFunctionOnSet(delta, DOMAIN names)
       /\ sampled'.roles = [r \in Cpu!Roles |-> Cpu!SumFunctionOnSet(delta, Cpu!InRole(cur, r))]
       /\ sampled'.real = Cpu!SumFunctionOnSet(spent, DOMAIN names)
       /\ sampled'.clean = ~missed /\ sampled'.reused = reused \cap DOMAIN names
   BY <1>2, <1>5
<1>11. \A t \in DOMAIN names : delta[t] \in Int /\ spent[t] \in Int BY <1>6, <1>7
<1>12. Cpu!RolesAddUp'
  <2>1. IsFiniteSet(DOMAIN cur) /\ \A t \in DOMAIN cur : cur[t].role \in Cpu!Roles /\ delta[t] \in Int BY <1>2, <1>3, <1>11
  <2>2. Cpu!SumFunctionOnSet(delta, DOMAIN cur)
         = Cpu!SumFunctionOnSet([r \in Cpu!Roles |-> Cpu!SumFunctionOnSet(delta, Cpu!InRole(cur, r))], Cpu!Roles)
     BY <2>1, RolesPartition
  <2> QED BY <1>2, <1>10, <2>2 DEF Cpu!RolesAddUp
<1>13. Cpu!SharesAreReal'
  <2>1. SUFFICES ASSUME ~missed
                 PROVE /\ Cpu!SumFunctionOnSet(delta, DOMAIN names) <= Cpu!SumFunctionOnSet(spent, DOMAIN names)
                       /\ reused \cap DOMAIN names = {} =>
                             Cpu!SumFunctionOnSet(delta, DOMAIN names) = Cpu!SumFunctionOnSet(spent, DOMAIN names)
     BY <1>10 DEF Cpu!SharesAreReal
  <2>2. \A t \in DOMAIN names : delta[t] <= spent[t] BY <1>7, <2>1
  <2>3. reused \cap DOMAIN names = {} => \A t \in DOMAIN names : delta[t] = spent[t] BY <1>7, <2>1
  <2>4. /\ (\A x \in DOMAIN names : delta[x] <= spent[x]) =>
             Cpu!SumFunctionOnSet(delta, DOMAIN names) <= Cpu!SumFunctionOnSet(spent, DOMAIN names)
        /\ (\A x \in DOMAIN names : delta[x] = spent[x]) =>
             Cpu!SumFunctionOnSet(delta, DOMAIN names) = Cpu!SumFunctionOnSet(spent, DOMAIN names)
     BY <1>2, <1>11, SumsCompare
  <2> QED BY <2>2, <2>3, <2>4
<1> QED BY <1>8, <1>9, <1>12, <1>13 DEF CpuInv, Cpu!CpuHolds

\* Every step of the threads and of the sampler.
LEMMA CpuSteps == ASSUME CpuInv, Cpu!Next PROVE CpuInv'
BY ThreadStartsHolds, ThreadEndsHolds, WorksHolds, SampleHolds, UnreadHolds DEF Cpu!Next

-----------------------------------------------------------------------------
(* Engines: what is loaded, built and asked is one model, on the backend that was chosen. *)

\* What building with an installation and a sidecar comes to.
EngineOf(installation, file) ==
    IF Engine!LoadSidecar(file).ok
    THEN Engine!BuildEngine(installation.choice, installation, Engine!LoadSidecar(file).model.outputIndex)
    ELSE Engine!Failed(Engine!LoadSidecar(file).error)

\* The engine is what was built, and the tensor that is bound is the one that is kept.
EngineInv ==
    /\ at.choice \in {"auto", "cpu", "openvino"} /\ at.model \in {"missing", "garbage", "network"}
    /\ sidecar.state \in {"missing", "unreadable", "text"}
    /\ engine = Engine!Failed("none") \/ engine = EngineOf(at, sidecar)
    /\ tensors.cached = tensors.bound
    /\ Engine!ReadsItsOwnTensor
    /\ sticky = [fallen |-> sticky.fallen, counted |-> IF sticky.fallen THEN 1 ELSE 0] /\ sticky.fallen \in BOOLEAN

\* Loading with either library gives its engine or an error.
LEMMA EngineOrError == ASSUME NEW installation, NEW idx
    PROVE /\ Engine!OnnxLoad(installation, idx) = Engine!Engine("onnx")
             \/ Engine!OnnxLoad(installation, idx).ok = FALSE
          /\ Engine!OpenVinoLoad(installation, idx) = Engine!Engine("openvino")
             \/ Engine!OpenVinoLoad(installation, idx).ok = FALSE
BY DEF Engine!OnnxLoad, Engine!OpenVinoLoad, Engine!Failed

\* auto looks at OpenVINO first, and no choice but auto looks at both.
LEMMA ChosenEngine ==
    ASSUME NEW installation, NEW idx, installation.choice \in {"auto", "cpu", "openvino"}
    PROVE  LET outcome == Engine!BuildEngine(installation.choice, installation, idx)
               onnx  == Engine!OnnxLoad(installation, idx).ok
               openvino == installation.openvinoFeature /\ Engine!OpenVinoLoad(installation, idx).ok
           IN  /\ installation.choice = "cpu" => outcome.ok = onnx /\ (outcome.ok => outcome.kind = "onnx")
               /\ installation.choice = "openvino" =>
                    (outcome.ok = openvino) /\ (outcome.ok => outcome.kind = "openvino")
               /\ installation.choice = "auto" => outcome.ok = (onnx \/ openvino)
<1>1. Engine!Engine("onnx").ok = TRUE /\ Engine!Engine("onnx").kind = "onnx"
      /\ Engine!Engine("openvino").ok = TRUE /\ Engine!Engine("openvino").kind = "openvino"
      /\ \A e : Engine!Failed(e).ok = FALSE
  BY DEF Engine!Engine, Engine!Failed
<1>2. CASE installation.choice = "cpu"
  <2>1. Engine!BuildEngine(installation.choice, installation, idx) = Engine!OnnxLoad(installation, idx)
    BY <1>2 DEF Engine!BuildEngine
  <2> QED BY <1>1, <1>2, <2>1, EngineOrError
<1>3. CASE installation.choice = "openvino"
  <2>1. Engine!BuildEngine(installation.choice, installation, idx) =
          IF installation.openvinoFeature THEN Engine!OpenVinoLoad(installation, idx) ELSE Engine!Failed("BackendUnavailable")
    BY <1>3 DEF Engine!BuildEngine, Engine!BuildOpenVino
  <2> QED BY <1>1, <1>3, <2>1, EngineOrError
<1>4. CASE installation.choice = "auto"
  <2>1. Engine!BuildEngine(installation.choice, installation, idx) =
          IF installation.openvinoFeature /\ Engine!OpenVinoLoad(installation, idx).ok
          THEN Engine!Engine("openvino") ELSE Engine!OnnxLoad(installation, idx)
    BY <1>4 DEF Engine!BuildEngine, Engine!BuildAuto
  <2> QED BY <1>1, <1>4, <2>1, EngineOrError
<1> QED BY <1>2, <1>3, <1>4

\* What a sidecar is loaded as has been validated.
LEMMA LoadedIsValid ==
    ASSUME NEW file, file.state \in {"missing", "unreadable", "text"}, Engine!LoadSidecar(file).ok
    PROVE  /\ file.state # "unreadable"
           /\ Engine!ModelValid(Engine!LoadSidecar(file).model)
           /\ file.state = "text" => Engine!ModelFrom(file.table).color \in Engine!PixelFormats
<1>1. CASE file.state = "missing"
  <2>1. Engine!LoadSidecar(file).model = Engine!DefaultModel("<unknown>", 1, 1)
    BY <1>1 DEF Engine!LoadSidecar
  <2> QED BY <1>1, <2>1 DEF Engine!DefaultModel, Engine!ModelValid
<1>2. CASE file.state = "unreadable"
  BY <1>2 DEF Engine!LoadSidecar, Engine!LoadModelConfig
<1>3. CASE file.state = "text"
  BY <1>3 DEF Engine!LoadSidecar, Engine!LoadModelConfig
<1> QED BY <1>1, <1>2, <1>3

\* The verdict on a faulty model is the one of the first engine that looks.
LEMMA OneVerdict ==
    ASSUME NEW installation, NEW idx, installation.choice \in {"auto", "cpu", "openvino"},
           installation.model # "network" \/ installation.inputs = 0,
           installation.onnxLibrary, installation.openvinoLibrary, installation.openvinoFeature,
           installation.model \in {"missing", "garbage", "network"}
    PROVE  Engine!BuildEngine(installation.choice, installation, idx) = Engine!OnnxLoad(installation, idx)
<1>1. Engine!OpenVinoLoad(installation, idx) = Engine!OnnxLoad(installation, idx)
      /\ Engine!OpenVinoLoad(installation, idx).ok = FALSE
  BY DEF Engine!OpenVinoLoad, Engine!OnnxLoad, Engine!Failed
<1>2. CASE installation.choice = "cpu" BY <1>1, <1>2 DEF Engine!BuildEngine
<1>3. CASE installation.choice = "openvino" BY <1>1, <1>3 DEF Engine!BuildEngine, Engine!BuildOpenVino
<1>4. CASE installation.choice = "auto" BY <1>1, <1>4 DEF Engine!BuildEngine, Engine!BuildAuto
<1> QED BY <1>2, <1>3, <1>4

\* The invariant says what the factories and the engines promise.
LEMMA EnginesTell == ASSUME EngineInv PROVE Engine!EnginesHold
<1> DEFINE idx == Engine!LoadSidecar(sidecar).model.outputIndex
           loaded == Engine!LoadSidecar(sidecar).ok
<1>0. at.choice \in {"auto", "cpu", "openvino"} /\ at.model \in {"missing", "garbage", "network"} /\ sidecar.state \in {"missing", "unreadable", "text"} BY DEF EngineInv
<1>f. \A e : Engine!Failed(e).ok = FALSE BY DEF Engine!Failed
<1>1. engine # Engine!Failed("none") /\ loaded => engine = Engine!BuildEngine(at.choice, at, idx)
  BY DEF EngineInv, EngineOf
<1>2. engine.ok => loaded
  BY <1>f DEF EngineInv, EngineOf
<1>3. Engine!BuiltAsChosen
  <2>1. SUFFICES ASSUME engine # Engine!Failed("none"), loaded PROVE Engine!BuiltAsChosen
    BY DEF Engine!BuiltAsChosen
  <2>2. engine = Engine!BuildEngine(at.choice, at, idx) BY <1>1, <2>1
  <2>h. HIDE DEF idx
  <2>3. /\ at.choice = "cpu" => engine.ok = Engine!OnnxLoad(at, idx).ok /\ (engine.ok => engine.kind = "onnx")
        /\ at.choice = "openvino" =>
             (engine.ok = (at.openvinoFeature /\ Engine!OpenVinoLoad(at, idx).ok)) /\ (engine.ok => engine.kind = "openvino")
        /\ at.choice = "auto" =>
             engine.ok = (Engine!OnnxLoad(at, idx).ok \/ (at.openvinoFeature /\ Engine!OpenVinoLoad(at, idx).ok))
    BY <1>0, <2>2, ChosenEngine
  <2>4. CASE at.choice = "cpu" BY <2>3, <2>4 DEF Engine!BuiltAsChosen, idx
  <2>5. CASE at.choice = "openvino" BY <2>3, <2>5 DEF Engine!BuiltAsChosen, idx
  <2>6. CASE at.choice = "auto" BY <2>3, <2>6 DEF Engine!BuiltAsChosen, idx
  <2> QED BY <1>0, <2>4, <2>5, <2>6
<1>4. Engine!SameVerdict
  BY <1>0, <1>1, OneVerdict DEF Engine!SameVerdict
<1>5. Engine!SidecarChecked
  BY <1>0, <1>2, LoadedIsValid DEF Engine!SidecarChecked
<1>6. Engine!ReadsItsOwnTensor /\ Engine!FallbackCountedOnce
  BY DEF EngineInv, Engine!FallbackCountedOnce
<1> QED BY <1>3, <1>4, <1>5, <1>6 DEF Engine!EnginesHold

\* Before the first start of a run.
LEMMA EnginesBegin == ASSUME Init PROVE EngineInv
<1>1. Engine!Init BY DEF Init, AllBegin
<1> QED BY <1>1 DEF Engine!Init, EngineInv, Engine!BareInstallation, Engine!NoTensors, Engine!NotAsked, Engine!ReadsItsOwnTensor

\* A run that starts builds the engine anew.
LEMMA LoadHolds ==
    ASSUME NEW installation \in Engine!Installations, NEW file \in Engine!Sidecars, Engine!Load(installation, file)
    PROVE  EngineInv'
<1>1. installation.choice \in {"auto", "cpu", "openvino"} /\ installation.model \in {"missing", "garbage", "network"}
  BY DEF Engine!Installations
<1>2. file.state \in {"missing", "unreadable", "text"}
  BY DEF Engine!Sidecars
<1>3. at' = installation /\ sidecar' = file /\ engine' = EngineOf(installation, file)
  BY DEF Engine!Load, EngineOf
<1>4. tensors'.cached = tensors'.bound /\ inferred'.ok = FALSE /\ sticky' = [fallen |-> FALSE, counted |-> 0]
  BY DEF Engine!Load, Engine!NoTensors, Engine!NotAsked
<1>5. (engine = EngineOf(at, sidecar))' BY <1>3 DEF EngineOf
<1> QED BY <1>1, <1>2, <1>3, <1>4, <1>5 DEF EngineInv, Engine!ReadsItsOwnTensor

\* A call reads the tensor it wrote, also after one that failed half-way.
LEMMA InferHolds ==
    ASSUME EngineInv, NEW shape, NEW stage, Engine!Infer(shape, stage)
    PROVE  EngineInv'
<1>1. UNCHANGED <<at, sidecar, engine, sticky>> BY DEF Engine!Infer
<1>2. tensors'.cached = tensors'.bound /\ (inferred'.ok => inferred'.read = inferred'.shape)
  <2>0. tensors.cached = tensors.bound BY DEF EngineInv
  <2>1. CASE engine.kind = "openvino"
    <3> DEFINE call == Engine!OpenVinoInfer(tensors, shape, stage)
    <3>1. tensors' = call.engine /\ inferred' = [ok |-> call.ok, shape |-> shape, read |-> call.read]
      BY <2>1 DEF Engine!Infer
    <3>2. call.engine.cached = call.engine.bound /\ (call.ok => call.read = shape)
      BY <2>0 DEF Engine!OpenVinoInfer, Engine!NeedsRealloc
    <3> HIDE DEF call
    <3> QED BY <3>1, <3>2
  <2>2. CASE engine.kind # "openvino"
    BY <2>0, <2>2 DEF Engine!Infer
  <2> QED BY <2>1, <2>2
<1>3. EngineOf(at, sidecar)' = EngineOf(at, sidecar) BY <1>1 DEF EngineOf
<1> QED BY <1>1, <1>2, <1>3 DEF EngineInv, Engine!ReadsItsOwnTensor

\* The fallback counts the first failure of the engine it gives up.
LEMMA FallbackHolds ==
    ASSUME EngineInv, NEW first \in BOOLEAN, NEW second \in BOOLEAN, Engine!Fallback(first, second)
    PROVE  EngineInv'
<1>1. UNCHANGED <<at, sidecar, engine, tensors, inferred>> BY DEF Engine!Fallback
<1>2. sticky.fallen \in BOOLEAN /\ sticky.counted = IF sticky.fallen THEN 1 ELSE 0 BY DEF EngineInv
<1>3. sticky' = [fallen |-> sticky'.fallen, counted |-> IF sticky'.fallen THEN 1 ELSE 0] /\ sticky'.fallen \in BOOLEAN
  <2> DEFINE call == Engine!StickyInfer(sticky.fallen, first, second)
  <2>1. sticky' = [fallen |-> call.fallen, counted |-> sticky.counted + call.counted] BY DEF Engine!Fallback
  <2>2. call.fallen \in BOOLEAN /\ sticky.counted + call.counted = IF call.fallen THEN 1 ELSE 0
    <3>1. CASE sticky.fallen BY <1>2, <3>1 DEF Engine!StickyInfer
    <3>2. CASE ~sticky.fallen /\ first BY <1>2, <3>2 DEF Engine!StickyInfer
    <3>3. CASE ~sticky.fallen /\ ~first BY <1>2, <3>3 DEF Engine!StickyInfer
    <3> QED BY <1>2, <3>1, <3>2, <3>3
  <2> HIDE DEF call
  <2> QED BY <2>1, <2>2
<1>4. EngineOf(at, sidecar)' = EngineOf(at, sidecar) BY <1>1 DEF EngineOf
<1> QED BY <1>1, <1>3, <1>4 DEF EngineInv, Engine!ReadsItsOwnTensor

\* Every step of the engines, and of another machine.
LEMMA EnginesStep ==
    ASSUME EngineInv, Engine!Next \/ UNCHANGED engineVars
    PROVE  EngineInv'
<1>1. CASE \E installation \in Engine!Installations, file \in Engine!Sidecars : Engine!Load(installation, file)
  BY <1>1, LoadHolds
<1>2. CASE \E shape, stage : Engine!Infer(shape, stage)
  BY <1>2, InferHolds DEF Engine!Infer
<1>3. CASE \E first, second \in BOOLEAN : Engine!Fallback(first, second)
  BY <1>3, FallbackHolds DEF Engine!Fallback
<1>4. CASE UNCHANGED engineVars
  <2>1. UNCHANGED <<at, sidecar, engine, tensors, inferred, sticky>> BY <1>4 DEF engineVars
  <2>2. EngineOf(at, sidecar)' = EngineOf(at, sidecar) BY <2>1 DEF EngineOf
  <2> QED BY <2>1, <2>2 DEF EngineInv, Engine!ReadsItsOwnTensor
<1> QED BY <1>1, <1>2, <1>3, <1>4 DEF Engine!Next

-----------------------------------------------------------------------------
(* Effects: what is drawn is what the configuration says. *)

\* What the variables of an effect hold; only a blur has a factor and a backend.
Pair == Nat \X Nat
Backend == [kind : {"cpu", "wgpu", "sticky"}, fallen : BOOLEAN, gpu : Pair, cpu : Pair]
BlurParams == [{"radius", "passes", "downscale"} -> Int]
EffectTypes ==
    /\ effect \in {"blur", "vignette", "image_fill", "auto_frame"}
    /\ machine \in Effect!Machines
    /\ frame \in Pair /\ ready \in BOOLEAN
    /\ scene \in Nat /\ counted \in Nat
    /\ blur \in [down : Nat, backend : Backend]
    /\ effect = "blur" => params \in BlurParams

\* A backend that is ready is the one that was asked for, and prepared for a frame
\* that is large enough.
BackendMade ==
    effect = "blur" /\ ready =>
        /\ ~Effect!TooSmall(frame)
        /\ blur.backend.kind = "wgpu" => machine.choice = "wgpu" /\ ~machine.counters

\* The boxes in auto_frame's state are of this scene.
BoxIsFresh == box \subseteq {scene}


\* Half of a number is at least one that is no larger, taken twice.
LEMMA TwiceTheQuotient == ASSUME NEW a \in Nat, NEW d \in Nat, d >= 1, 2 * d <= a PROVE a \div d \in Nat /\ a \div d >= 2
<1>1. a \div d \in Int /\ a = d * (a \div d) + (a % d) /\ a % d \in 0..(d - 1) OBVIOUS
<1>2. CASE a \div d <= 1
  <2>1. d * (a \div d) <= d BY <1>1, <1>2
  <2> QED BY <1>1, <2>1
<1> QED BY <1>1, <1>2

\* A factor that is at most half the shorter side leaves two pixels of each.
LEMMA ScaledIsLarge ==
    ASSUME NEW dims \in Pair, ~Effect!TooSmall(dims), NEW factor \in Int
    PROVE  /\ Effect!Bounded(factor, dims) \in Nat \ {0}
           /\ Effect!ScaledDown(dims, Effect!Bounded(factor, dims)) \in Pair
           /\ ~Effect!TooSmall(Effect!ScaledDown(dims, Effect!Bounded(factor, dims)))
<1>1. dims[1] \in Nat /\ dims[2] \in Nat /\ dims[1] >= 2 /\ dims[2] >= 2 BY DEF Pair, Effect!TooSmall
<1> DEFINE d == Effect!Bounded(factor, dims)
           s == Effect!Shorter(dims)
<1>2. s \in Nat /\ s >= 2 /\ s <= dims[1] /\ s <= dims[2] BY <1>1 DEF Effect!Shorter
<1>3. d \in Nat /\ d >= 1 /\ 2 * d <= s
  <2> HIDE DEF s
  <2>1. s \div 2 \in Nat /\ s \div 2 >= 1 /\ 2 * (s \div 2) <= s BY <1>2
  <2>2. d = IF factor > s \div 2 THEN s \div 2 ELSE IF factor < 1 THEN 1 ELSE factor
    BY <2>1 DEF Effect!Bounded, Effect!AtLeastOne, s
  <2> HIDE DEF d
  <2>3. PICK h \in Nat : h = s \div 2 BY <2>1
  <2> QED BY <1>2, <2>1, <2>2, <2>3
<1> HIDE DEF d, s
<1>4. dims[1] \div d \in Nat /\ dims[1] \div d >= 2 BY <1>1, <1>2, <1>3, TwiceTheQuotient
<1>5. dims[2] \div d \in Nat /\ dims[2] \div d >= 2 BY <1>1, <1>2, <1>3, TwiceTheQuotient
<1>6. Effect!ScaledDown(dims, d) = <<dims[1] \div d, dims[2] \div d>> BY <1>4, <1>5 DEF Effect!ScaledDown, Effect!AtLeastOne
<1>7. Effect!ScaledDown(dims, d) \in Pair /\ ~Effect!TooSmall(Effect!ScaledDown(dims, d)) BY <1>4, <1>5, <1>6 DEF Pair, Effect!TooSmall
<1> QED BY <1>3, <1>7 DEF d

\* A backend that is prepared for dims is ready for them.
Fits(b, dims) == (b.kind # "wgpu" => b.cpu = dims) /\ (b.kind # "cpu" /\ ~b.fallen => b.gpu = dims)

\* Either backend can be prepared for any size but the smallest.
LEMMA PreparedFits ==
    ASSUME NEW b \in Backend, NEW dims \in Pair
    PROVE  LET made == Effect!PrepareBackend(b, dims)
           IN  /\ made.ok \in BOOLEAN /\ (made.ok <=> ~Effect!TooSmall(dims))
               /\ made.ok => /\ made.backend \in Backend /\ Fits(made.backend, dims)
                             /\ made.backend.kind = b.kind /\ made.backend.fallen = b.fallen
<1>1. /\ b.kind \in {"cpu", "wgpu", "sticky"} /\ b.fallen \in BOOLEAN /\ b.gpu \in Pair /\ b.cpu \in Pair
      /\ b = [kind |-> b.kind, fallen |-> b.fallen, gpu |-> b.gpu, cpu |-> b.cpu]
  BY DEF Backend
<1>2. CASE Effect!TooSmall(dims)
  BY <1>2 DEF Effect!PrepareBackend, Effect!Refuse
<1>3. CASE ~Effect!TooSmall(dims)
  <2> DEFINE n == [kind |-> b.kind, fallen |-> b.fallen,
                   gpu |-> IF b.kind # "cpu" /\ ~b.fallen THEN dims ELSE b.gpu,
                   cpu |-> IF b.kind # "wgpu" THEN dims ELSE b.cpu]
  <2>1. Effect!PrepareBackend(b, dims) = [ok |-> TRUE, backend |-> n]
    BY <1>1, <1>3 DEF Effect!PrepareBackend, Effect!Made
  <2>2. n \in Backend BY <1>1 DEF Backend
  <2>3. Fits(n, dims) /\ n.kind = b.kind /\ n.fallen = b.fallen BY DEF Fits
  <2> HIDE DEF n
  <2>4. Effect!PrepareBackend(b, dims).ok = TRUE /\ Effect!PrepareBackend(b, dims).backend = n BY <2>1
  <2> QED BY <1>3, <2>2, <2>3, <2>4
<1> QED BY <1>2, <1>3

\* A blur with its factor brought to the one that is asked for.
LEMMA SetupFits ==
    ASSUME NEW b \in [down : Nat, backend : Backend], NEW dims \in Pair, NEW factor \in Int, ~Effect!TooSmall(dims),
           b.down = 0 \/ Fits(b.backend, Effect!ScaledDown(dims, b.down))
    PROVE  LET setup == Effect!SetupDownscale(b, dims, factor)
           IN  /\ setup.ok = TRUE
               /\ setup.blur \in [down : Nat, backend : Backend]
               /\ setup.blur.down = Effect!Bounded(factor, dims)
               /\ setup.blur.backend.kind = b.backend.kind /\ setup.blur.backend.fallen = b.backend.fallen
               /\ Fits(setup.blur.backend, Effect!ScaledDown(dims, Effect!Bounded(factor, dims)))
<1> DEFINE d == Effect!Bounded(factor, dims)
           made == Effect!PrepareBackend(b.backend, Effect!ScaledDown(dims, d))
           setup == Effect!SetupDownscale(b, dims, factor)
<1>1. d \in Nat \ {0} /\ Effect!ScaledDown(dims, d) \in Pair /\ ~Effect!TooSmall(Effect!ScaledDown(dims, d))
  BY ScaledIsLarge
<1>2. b.down \in Nat /\ b.backend \in Backend OBVIOUS
<1>3. /\ made.ok = TRUE /\ made.backend \in Backend /\ Fits(made.backend, Effect!ScaledDown(dims, d))
      /\ made.backend.kind = b.backend.kind /\ made.backend.fallen = b.backend.fallen
  BY <1>1, <1>2, PreparedFits
<1>4. setup = IF d = b.down THEN [ok |-> TRUE, blur |-> b]
              ELSE IF made.ok THEN [ok |-> TRUE, blur |-> [down |-> d, backend |-> made.backend]]
              ELSE [ok |-> FALSE, blur |-> [b EXCEPT !.down = d]]
  BY DEF Effect!SetupDownscale
<1> HIDE DEF d, made, setup
<1>5. CASE d = b.down
  <2>1. setup = [ok |-> TRUE, blur |-> b] BY <1>4, <1>5
  <2>2. setup.ok = TRUE /\ setup.blur = b BY <2>1
  <2>3. Fits(b.backend, Effect!ScaledDown(dims, d)) BY <1>1, <1>5
  <2> QED BY <1>5, <2>2, <2>3 DEF d, setup
<1>6. CASE d # b.down
  <2>1. setup = [ok |-> TRUE, blur |-> [down |-> d, backend |-> made.backend]] BY <1>3, <1>4, <1>6
  <2>2. setup.ok = TRUE /\ setup.blur = [down |-> d, backend |-> made.backend] BY <2>1
  <2>3. setup.blur \in [down : Nat, backend : Backend] /\ setup.blur.down = d /\ setup.blur.backend = made.backend
    BY <1>1, <1>3, <2>2
  <2> QED BY <1>3, <2>2, <2>3 DEF d, setup
<1> QED BY <1>5, <1>6

\* One blur: only a GPU without counters behind it can lose the frame.
LEMMA BlurOnFits ==
    ASSUME NEW b \in Backend, NEW dims \in Pair, Fits(b, dims), NEW radius, NEW passes, NEW works
    PROVE  LET called == Effect!BlurOn(b, dims, radius, passes, works)
           IN  /\ called.backend \in Backend /\ called.backend.kind = b.kind /\ Fits(called.backend, dims)
               /\ called.counted \in Nat
               /\ called.blurred \/ b.kind = "wgpu"
               /\ called.counted = IF called.backend.fallen /\ ~b.fallen THEN 1 ELSE 0
               /\ b.fallen => called.backend.fallen
<1> DEFINE called == Effect!BlurOn(b, dims, radius, passes, works)
           gpu == Effect!WgpuBlurs(b, dims, radius, passes, works)
           cpu == Effect!CpuBlurs(b, dims)
           fell == [b EXCEPT !.fallen = TRUE, !.gpu = Effect!Unprepared]
<1>1. /\ b.kind \in {"cpu", "wgpu", "sticky"} /\ b.fallen \in BOOLEAN /\ b.gpu \in Pair /\ b.cpu \in Pair
      /\ b = [kind |-> b.kind, fallen |-> b.fallen, gpu |-> b.gpu, cpu |-> b.cpu]
  BY DEF Backend
<1>2. called = IF ~(b.kind # "cpu" /\ ~b.fallen) THEN [blurred |-> cpu, backend |-> b, counted |-> 0]
               ELSE IF gpu \/ b.kind = "wgpu" THEN [blurred |-> gpu, backend |-> b, counted |-> 0]
               ELSE [blurred |-> cpu, backend |-> fell, counted |-> 1]
  BY DEF Effect!BlurOn
<1>3. b.kind # "wgpu" => cpu BY DEF Fits, Effect!CpuBlurs
<1>4. fell \in Backend /\ fell.kind = b.kind /\ fell.fallen = TRUE /\ fell.cpu = b.cpu
  <2>1. Effect!Unprepared \in Pair BY DEF Effect!Unprepared, Pair
  <2> QED BY <2>1 DEF Backend
<1> HIDE DEF called, gpu, cpu, fell
<1>6. CASE ~(b.kind # "cpu" /\ ~b.fallen)
  <2>1. called = [blurred |-> cpu, backend |-> b, counted |-> 0] BY <1>2, <1>6
  <2>2. (called.blurred <=> cpu) /\ called.backend = b /\ called.counted = 0 BY <2>1
  <2> QED BY <1>1, <1>3, <2>2 DEF called
<1>7. CASE b.kind # "cpu" /\ ~b.fallen /\ (gpu \/ b.kind = "wgpu")
  <2>1. called = [blurred |-> gpu, backend |-> b, counted |-> 0] BY <1>2, <1>7
  <2>2. (called.blurred <=> gpu) /\ called.backend = b /\ called.counted = 0 BY <2>1
  <2> QED BY <1>1, <1>7, <2>2 DEF called
<1>8. CASE b.kind # "cpu" /\ ~b.fallen /\ ~(gpu \/ b.kind = "wgpu")
  <2>1. called = [blurred |-> cpu, backend |-> fell, counted |-> 1] BY <1>2, <1>8
  <2>2. (called.blurred <=> cpu) /\ called.backend = fell /\ called.counted = 1 BY <2>1
  <2>3. Fits(fell, dims) BY <1>4 DEF Fits
  <2> QED BY <1>1, <1>3, <1>4, <1>8, <2>2, <2>3 DEF called
<1> QED BY <1>6, <1>7, <1>8

\* What is promised of a blur, and of an effect that is none.
BlurInv ==
    effect = "blur" =>
        /\ last.result # "prepare"
        /\ last.result = "backend" => machine.choice = "wgpu" /\ ~machine.counters
        /\ last.result = "drawn" => last.drawn = [params EXCEPT !.downscale = Effect!Bounded(@, frame)]
        /\ ready => /\ counted = IF blur.backend.fallen THEN 1 ELSE 0
                    /\ ~Effect!TooSmall(Effect!ScaledDown(frame, blur.down))
                    /\ Fits(blur.backend, Effect!ScaledDown(frame, blur.down))

\* That formula is what the contract says of a blur.
LEMMA BlurContract ==
    BlurInv <=> /\ effect = "blur" => Effect!DrawnAsConfigured
                /\ Effect!BackendFits /\ Effect!GpuLosesNoFrame
<1>1. Effect!BackendFits <=> (effect = "blur" /\ ready => ~Effect!TooSmall(Effect!ScaledDown(frame, blur.down))
                                /\ Fits(blur.backend, Effect!ScaledDown(frame, blur.down)))
  BY DEF Effect!BackendFits, Fits
<1>2. effect = "blur" => (Effect!DrawnAsConfigured <=>
         (last.result = "drawn" => last.drawn = [params EXCEPT !.downscale = Effect!Bounded(@, frame)]))
  BY DEF Effect!DrawnAsConfigured
<1>3. Effect!GpuLosesNoFrame <=>
        (effect = "blur" => /\ last.result # "prepare"
                            /\ last.result = "backend" => machine.choice = "wgpu" /\ ~machine.counters
                            /\ ready => counted = IF blur.backend.fallen THEN 1 ELSE 0)
  BY DEF Effect!GpuLosesNoFrame
<1> QED BY <1>1, <1>2, <1>3 DEF BlurInv

\* The other effects draw with what is configured; vignette with what was prepared.
OthersDraw == last.result = "drawn" /\ effect \notin {"blur", "vignette"} => last.drawn = params

EffectInv ==
    EffectTypes /\ BackendMade /\ BlurInv /\ OthersDraw /\ Effect!PictureFailsAlone
    /\ BoxIsFresh /\ Effect!NoStaleBox

\* The invariant says what the traits promise.
LEMMA EffectsTell == ASSUME EffectInv PROVE Effect!EffectsKeepContract
<1>1. BlurInv /\ OthersDraw /\ Effect!PictureFailsAlone /\ Effect!NoStaleBox BY DEF EffectInv
<1>2. Effect!DrawnAsConfigured
  <2>1. CASE effect = "blur" BY <1>1, <2>1, BlurContract
  <2>2. CASE effect # "blur" BY <1>1, <2>2 DEF OthersDraw, Effect!DrawnAsConfigured
  <2> QED BY <2>1, <2>2
<1> QED BY <1>1, <1>2, BlurContract DEF Effect!EffectsKeepContract

\* An effect that was just made has drawn nothing.
LEMMA EffectsBegin == ASSUME Init PROVE EffectInv
<1>1. Effect!Init BY DEF Init, AllBegin
<1>2. /\ effect \in {"blur", "vignette", "image_fill", "auto_frame"} /\ params = Effect!Starts[effect]
      /\ machine \in Effect!Machines /\ frame = Effect!Unprepared /\ ready = FALSE
      /\ blur = [down |-> 0, backend |-> Effect!CpuBackend] /\ scene = 0 /\ box = {} /\ last = Effect!Unseen /\ counted = 0
  BY <1>1 DEF Effect!Init, Effect!Starts
<1>3. last.result = "none" /\ last.from = {} BY <1>2 DEF Effect!Unseen
<1>4. frame \in Pair /\ blur \in [down : Nat, backend : Backend]
  BY <1>2 DEF Effect!CpuBackend, Effect!Unprepared, Pair, Backend
<1>5. effect = "blur" => params \in BlurParams
  BY <1>2 DEF Effect!Starts, Effect!BlurDefault, BlurParams
<1> QED BY <1>2, <1>3, <1>4, <1>5 DEF EffectInv, EffectTypes, BackendMade, BlurInv, OthersDraw, Effect!PictureFailsAlone,
          BoxIsFresh, Effect!NoStaleBox

\* Between two frames nothing is drawn, and a blur keeps its backend.
LEMMA NothingDrawn ==
    ASSUME EffectInv, last' = Effect!Unseen, UNCHANGED <<effect, machine, frame, ready, blur, scene, box, counted>>,
           effect = "blur" => params' \in BlurParams
    PROVE  EffectInv'
<1>1. last'.result = "none" /\ last'.from = {} BY DEF Effect!Unseen
<1> QED BY <1>1 DEF EffectInv, EffectTypes, BackendMade, BlurInv, OthersDraw, Effect!PictureFailsAlone,
          BoxIsFresh, Effect!NoStaleBox, Effect!TooSmall, Effect!ScaledDown, Effect!AtLeastOne, Fits

\* Preparing or resetting an effect that is no blur.
LEMMA OtherPrepares ==
    ASSUME EffectInv, effect # "blur", last' = Effect!Unseen, UNCHANGED <<effect, machine, params, blur, counted>>,
           frame' \in Pair, ready' \in BOOLEAN, scene' \in Nat, box' \subseteq {scene'}
    PROVE  EffectInv'
<1>1. last'.result = "none" /\ last'.from = {} BY DEF Effect!Unseen
<1> QED BY <1>1 DEF EffectInv, EffectTypes, BackendMade, BlurInv, OthersDraw, Effect!PictureFailsAlone,
          BoxIsFresh, Effect!NoStaleBox

\* A value that is set is a number where the default is one.
LEMMA ConfigureHolds ==
    ASSUME EffectInv, NEW key \in DOMAIN Effect!LiveValues(effect), NEW value \in Effect!LiveValues(effect)[key],
           Effect!Configure(key, value)
    PROVE  EffectInv'
<1>1. last' = Effect!Unseen /\ UNCHANGED <<effect, machine, frame, ready, blur, scene, box, counted>>
  BY DEF Effect!Configure, Effect!environment
<1>2. effect = "blur" => params' \in BlurParams
  <2> SUFFICES ASSUME effect = "blur" PROVE params' \in BlurParams OBVIOUS
  <2>1. params \in BlurParams BY DEF EffectInv, EffectTypes
  <2>2. key \in {"radius", "passes", "downscale"} /\ value \in Int BY DEF Effect!LiveValues
  <2>3. [params EXCEPT ![key] = value] \in BlurParams BY <2>1, <2>2 DEF BlurParams
  <2> QED BY <2>1, <2>3 DEF Effect!Configure
<1> QED BY <1>1, <1>2, NothingDrawn

\* A file of the user's changes.
LEMMA FileChangesHolds == ASSUME EffectInv, NEW path, NEW kind, Effect!FileChanges(path, kind) PROVE EffectInv'
<1>1. last' = Effect!Unseen /\ UNCHANGED <<effect, machine, params, frame, ready, blur, scene, box, counted>>
  BY DEF Effect!FileChanges, Effect!environment
<1>2. effect = "blur" => params' \in BlurParams BY <1>1 DEF EffectInv, EffectTypes
<1> QED BY <1>1, <1>2, NothingDrawn

\* prepare of the effects without a backend, and reset_state.
LEMMA OtherPreparesHold ==
    ASSUME EffectInv, NEW dims \in Pair,
           Effect!PreparePicture(dims) \/ Effect!PrepareVignette(dims) \/ Effect!PrepareAutoFrame(dims) \/ Effect!ResetState
    PROVE  EffectInv'
<1>0. scene \in Nat /\ box \subseteq {scene} /\ frame \in Pair /\ ready \in BOOLEAN BY DEF EffectInv, EffectTypes, BoxIsFresh
<1>1. CASE Effect!PreparePicture(dims)
  <2>1. Effect!Decodes(params) \in BOOLEAN BY DEF Effect!Decodes
  <2> QED BY <1>0, <1>1, <2>1, OtherPrepares DEF Effect!PreparePicture, Effect!environment
<1>2. CASE Effect!PrepareVignette(dims)
  BY <1>0, <1>2, OtherPrepares DEF Effect!PrepareVignette, Effect!environment
<1>3. CASE Effect!PrepareAutoFrame(dims)
  BY <1>0, <1>3, OtherPrepares DEF Effect!PrepareAutoFrame, Effect!environment
<1>4. CASE Effect!ResetState
  BY <1>0, <1>4, OtherPrepares DEF Effect!ResetState, Effect!environment
<1> QED BY <1>1, <1>2, <1>3, <1>4

\* A frame given to an effect that is no blur.
LEMMA OtherDraws ==
    ASSUME EffectInv, effect # "blur", UNCHANGED <<effect, machine, params, frame, ready, blur, scene, counted>>,
           OthersDraw', Effect!PictureFailsAlone', box' \subseteq {scene}, last'.from \subseteq {scene}
    PROVE  EffectInv'
BY DEF EffectInv, EffectTypes, BackendMade, BlurInv, BoxIsFresh, Effect!NoStaleBox

\* A picture that is not the one configured is loaded again, or costs the frame.
LEMMA ProcessPictureHolds == ASSUME EffectInv, Effect!ProcessPicture PROVE EffectInv'
<1>1. effect = "image_fill" /\ UNCHANGED <<effect, machine, params, disk, frame, ready, blur, scene, box, counted>>
  BY DEF Effect!ProcessPicture, Effect!environment
<1>2. box \subseteq {scene} BY DEF EffectInv, BoxIsFresh
<1>3. CASE Effect!Drifted /\ ~Effect!Decodes(params)
  <2>1. last' = [result |-> "picture", drawn |-> <<>>, from |-> {}] /\ built' = built
    BY <1>3 DEF Effect!ProcessPicture, Effect!Dropped
  <2>2. last'.result = "picture" /\ last'.from = {} BY <2>1
  <2>3. (Effect!Drifted /\ ~Effect!Decodes(params))' BY <1>1, <1>3, <2>1 DEF Effect!Drifted, Effect!Decodes
  <2>4. Effect!PictureFailsAlone' BY <2>2, <2>3 DEF Effect!PictureFailsAlone
  <2> QED BY <1>1, <1>2, <2>2, <2>4, OtherDraws DEF OthersDraw
<1>4. CASE ~(Effect!Drifted /\ ~Effect!Decodes(params))
  <2>1. built' = IF Effect!Drifted THEN [of |-> params, size |-> frame] ELSE built
    BY <1>4 DEF Effect!ProcessPicture
  <2>2. built'.of = params BY <2>1 DEF Effect!Drifted
  <2>3. ~Effect!Drifted' BY <1>1, <2>2 DEF Effect!Drifted
  <2>4. CASE Effect!Area(built'.size) = Effect!Area(frame)
    <3>1. last' = [result |-> "drawn", drawn |-> params, from |-> {}]
      BY <1>4, <2>4 DEF Effect!ProcessPicture, Effect!Drawn
    <3>2. last'.result = "drawn" /\ last'.drawn = params /\ last'.from = {} BY <3>1
    <3>3. Effect!Area(built.size)' = Effect!Area(frame)' BY <1>1, <2>4
    <3>4. Effect!PictureFailsAlone' BY <2>3, <3>2, <3>3 DEF Effect!PictureFailsAlone
    <3> QED BY <1>1, <1>2, <3>2, <3>4, OtherDraws DEF OthersDraw
  <2>5. CASE Effect!Area(built'.size) # Effect!Area(frame)
    <3>1. last' = [result |-> "size", drawn |-> <<>>, from |-> {}]
      BY <1>4, <2>5 DEF Effect!ProcessPicture, Effect!Dropped
    <3>2. last'.result = "size" /\ last'.from = {} BY <3>1
    <3>3. Effect!PictureFailsAlone' BY <2>3, <3>2 DEF Effect!PictureFailsAlone
    <3> QED BY <1>1, <1>2, <3>2, <3>3, OtherDraws DEF OthersDraw
  <2> QED BY <2>4, <2>5
<1> QED BY <1>3, <1>4

\* vignette and auto_frame.
LEMMA ProcessVignetteHolds == ASSUME EffectInv, Effect!ProcessVignette PROVE EffectInv'
<1>1. effect = "vignette" /\ UNCHANGED <<effect, machine, params, frame, ready, blur, scene, box, counted>>
  BY DEF Effect!ProcessVignette, Effect!environment
<1>2. last'.from = {} BY DEF Effect!ProcessVignette, Effect!Drawn
<1>3. OthersDraw' /\ Effect!PictureFailsAlone' BY <1>1 DEF OthersDraw, Effect!PictureFailsAlone
<1>4. box \subseteq {scene} BY DEF EffectInv, BoxIsFresh
<1> QED BY <1>1, <1>2, <1>3, <1>4, OtherDraws

\* Whatever is blended into the box is of this scene.
LEMMA ProcessAutoFrameHolds == ASSUME EffectInv, NEW person, Effect!ProcessAutoFrame(person) PROVE EffectInv'
<1>1. effect = "auto_frame" /\ UNCHANGED <<effect, machine, params, frame, ready, blur, scene, counted>>
  BY DEF Effect!ProcessAutoFrame, Effect!environment
<1>2. box \subseteq {scene} BY DEF EffectInv, BoxIsFresh
<1>3. box' \subseteq {scene}
  <2>1. Effect!EmaBlend(box, params.smoothing) \subseteq {scene} BY <1>2 DEF Effect!EmaBlend
  <2> QED BY <1>2, <2>1 DEF Effect!ProcessAutoFrame
<1>4. last' = [result |-> "drawn", drawn |-> params, from |-> IF params.zoom_max <= 100 THEN {} ELSE box']
  BY DEF Effect!ProcessAutoFrame, Effect!Drawn
<1>5. last'.drawn = params /\ last'.from \subseteq {scene} BY <1>3, <1>4
<1>6. OthersDraw' /\ Effect!PictureFailsAlone' BY <1>1, <1>5 DEF OthersDraw, Effect!PictureFailsAlone
<1> QED BY <1>1, <1>3, <1>5, <1>6, OtherDraws

\* A backend that was just made has been prepared for nothing.
LEMMA FreshBackend ==
    ASSUME NEW m \in Effect!Machines
    PROVE  LET made == Effect!BuildBlur(m.choice, m)
           IN  /\ made.ok \in BOOLEAN
               /\ made.ok => /\ made.backend \in Backend /\ made.backend.fallen = FALSE
                             /\ made.backend.kind = "wgpu" => m.choice = "wgpu" /\ ~m.counters
<1>1. Effect!CpuBackend = [kind |-> "cpu", fallen |-> FALSE, gpu |-> <<0, 0>>, cpu |-> <<0, 0>>]
  BY DEF Effect!CpuBackend, Effect!Unprepared
<1>2. Effect!CpuBackend \in Backend /\ Effect!CpuBackend.fallen = FALSE /\ Effect!CpuBackend.kind = "cpu"
  BY <1>1 DEF Backend, Pair
<1>3. \A k \in {"wgpu", "sticky"} :
        LET b == [Effect!CpuBackend EXCEPT !.kind = k] IN b \in Backend /\ b.fallen = FALSE /\ b.kind = k
  BY <1>2 DEF Backend
<1>4. LET b == Effect!WithFallback(m.counters)
      IN  b \in Backend /\ b.fallen = FALSE /\ (b.kind = "wgpu" => ~m.counters)
  BY <1>3 DEF Effect!WithFallback, Effect!WgpuBackend
<1>5. CASE m.choice = "wgpu"
  BY <1>4, <1>5 DEF Effect!BuildBlur, Effect!BuildForced, Effect!Made, Effect!Refuse
<1>6. CASE m.choice # "wgpu"
  BY <1>2, <1>6 DEF Effect!BuildBlur, Effect!Made
<1> QED BY <1>5, <1>6

\* A run starts with a fresh backend, prepared for the whole frame and the scaled one.
LEMMA PrepareBlurHolds == ASSUME EffectInv, NEW dims \in Pair, Effect!PrepareBlur(dims) PROVE EffectInv'
<1> DEFINE made   == Effect!BuildBlur(machine.choice, machine)
           whole  == Effect!PrepareBackend(made.backend, dims)
           scaled == Effect!SetupDownscale([down |-> 0, backend |-> whole.backend], dims, params.downscale)
<1>0. EffectTypes /\ box \subseteq {scene} BY DEF EffectInv, BoxIsFresh
<1>1. effect = "blur" /\ frame' = dims /\ counted' = 0 /\ last' = Effect!Unseen
      /\ UNCHANGED <<effect, machine, params, disk, built, scene, box>>
  BY DEF Effect!PrepareBlur, Effect!environment
<1>2. IF made.ok /\ whole.ok THEN ready' = scaled.ok /\ blur' = scaled.blur
      ELSE ready' = FALSE /\ blur' = [blur EXCEPT !.down = 0]
  BY DEF Effect!PrepareBlur
<1>3. /\ made.ok \in BOOLEAN
      /\ made.ok => /\ made.backend \in Backend /\ made.backend.fallen = FALSE
                    /\ made.backend.kind = "wgpu" => machine.choice = "wgpu" /\ ~machine.counters
  BY <1>0, FreshBackend DEF EffectTypes
<1>4. params.downscale \in Int BY <1>0, <1>1 DEF EffectTypes, BlurParams
<1> HIDE DEF made
<1>5. last'.result = "none" /\ last'.from = {} BY <1>1 DEF Effect!Unseen
<1>6. CASE ~(made.ok /\ whole.ok)
  <2>1. ready' = FALSE /\ blur' = [blur EXCEPT !.down = 0] BY <1>2, <1>6
  <2>2. blur' \in [down : Nat, backend : Backend] BY <1>0, <2>1 DEF EffectTypes
  <2> QED BY <1>0, <1>1, <1>5, <2>1, <2>2 DEF EffectInv, EffectTypes, BackendMade, BlurInv, OthersDraw,
               Effect!PictureFailsAlone, BoxIsFresh, Effect!NoStaleBox
<1>7. CASE made.ok /\ whole.ok
  <2>1. made.backend \in Backend /\ made.backend.fallen = FALSE BY <1>3, <1>7
  <2>2. /\ ~Effect!TooSmall(dims) /\ whole.backend \in Backend
        /\ whole.backend.kind = made.backend.kind /\ whole.backend.fallen = FALSE
    BY <1>7, <2>1, PreparedFits
  <2> HIDE DEF whole
  <2>3. [down |-> 0, backend |-> whole.backend] \in [down : Nat, backend : Backend] BY <2>2
  <2>4. /\ scaled.ok = TRUE /\ scaled.blur \in [down : Nat, backend : Backend]
        /\ scaled.blur.down = Effect!Bounded(params.downscale, dims)
        /\ scaled.blur.backend.kind = whole.backend.kind /\ scaled.blur.backend.fallen = whole.backend.fallen
        /\ Fits(scaled.blur.backend, Effect!ScaledDown(dims, Effect!Bounded(params.downscale, dims)))
    BY <1>4, <2>2, <2>3, SetupFits
  <2>5. ~Effect!TooSmall(Effect!ScaledDown(dims, Effect!Bounded(params.downscale, dims))) BY <1>4, <2>2, ScaledIsLarge
  <2>6. ready' = scaled.ok /\ blur' = scaled.blur BY <1>2, <1>7
  <2> HIDE DEF scaled
  <2>7. /\ ready' = TRUE /\ blur' \in [down : Nat, backend : Backend]
        /\ blur'.backend.fallen = FALSE /\ blur'.backend.kind = made.backend.kind
        /\ Fits(blur'.backend, Effect!ScaledDown(frame', blur'.down))
        /\ ~Effect!TooSmall(Effect!ScaledDown(frame', blur'.down))
    BY <1>1, <2>2, <2>4, <2>5, <2>6
  <2>8. EffectTypes' BY <1>0, <1>1, <2>7 DEF EffectTypes
  <2>9. BackendMade' BY <1>1, <1>3, <1>7, <2>2, <2>7 DEF BackendMade
  <2>10. (Fits(blur.backend, Effect!ScaledDown(frame, blur.down)) /\ ~Effect!TooSmall(Effect!ScaledDown(frame, blur.down)))'
    BY <2>7 DEF Fits, Effect!TooSmall, Effect!ScaledDown
  <2>11. BlurInv' BY <1>1, <1>5, <2>7, <2>10 DEF BlurInv
  <2> QED BY <1>0, <1>1, <1>5, <2>8, <2>9, <2>11 DEF EffectInv, OthersDraw, Effect!PictureFailsAlone, BoxIsFresh, Effect!NoStaleBox
<1> QED BY <1>6, <1>7

\* A frame: the factor first, then the backend, and the CPU for a frame the GPU loses.
LEMMA ProcessBlurHolds == ASSUME EffectInv, NEW works, Effect!ProcessBlur(works) PROVE EffectInv'
<1> DEFINE setup  == Effect!SetupDownscale(blur, frame, params.downscale)
           factor == setup.blur.down
           radius == Effect!RadiusAt(params.radius, factor)
           called == Effect!BlurOn(setup.blur.backend, Effect!ScaledDown(frame, factor), radius, params.passes, works)
<1>0. EffectTypes /\ BackendMade /\ BlurInv /\ box \subseteq {scene} BY DEF EffectInv, BoxIsFresh
<1>1. effect = "blur" /\ ready /\ UNCHANGED <<effect, machine, params, disk, frame, ready, built, scene, box>>
  BY DEF Effect!ProcessBlur, Effect!environment
<1>2. IF setup.ok
      THEN /\ blur' = [setup.blur EXCEPT !.backend = called.backend]
           /\ counted' = counted + called.counted
           /\ last' = IF called.blurred THEN Effect!Drawn([params EXCEPT !.downscale = factor], {})
                      ELSE Effect!Dropped("backend")
      ELSE blur' = setup.blur /\ last' = Effect!Dropped("prepare") /\ UNCHANGED counted
  BY DEF Effect!ProcessBlur
<1>3. params.downscale \in Int /\ frame \in Pair /\ blur \in [down : Nat, backend : Backend] /\ ~Effect!TooSmall(frame)
  BY <1>0, <1>1 DEF EffectTypes, BlurParams, BackendMade
<1>4. Fits(blur.backend, Effect!ScaledDown(frame, blur.down)) /\ counted = IF blur.backend.fallen THEN 1 ELSE 0
  BY <1>0, <1>1 DEF BlurInv
<1>5. /\ setup.ok = TRUE /\ setup.blur \in [down : Nat, backend : Backend]
      /\ factor = Effect!Bounded(params.downscale, frame)
      /\ setup.blur.backend.kind = blur.backend.kind /\ setup.blur.backend.fallen = blur.backend.fallen
      /\ Fits(setup.blur.backend, Effect!ScaledDown(frame, factor))
  BY <1>3, <1>4, SetupFits
<1>6. ~Effect!TooSmall(Effect!ScaledDown(frame, factor)) /\ Effect!ScaledDown(frame, factor) \in Pair
  BY <1>3, <1>5, ScaledIsLarge
<1>7. setup.blur.backend \in Backend BY <1>5
<1>8. /\ called.backend \in Backend /\ called.backend.kind = setup.blur.backend.kind
      /\ Fits(called.backend, Effect!ScaledDown(frame, factor)) /\ called.counted \in Nat
      /\ called.blurred \/ setup.blur.backend.kind = "wgpu"
      /\ called.counted = IF called.backend.fallen /\ ~setup.blur.backend.fallen THEN 1 ELSE 0
      /\ setup.blur.backend.fallen => called.backend.fallen
  BY <1>5, <1>6, <1>7, BlurOnFits
<1>9. /\ blur' = [setup.blur EXCEPT !.backend = called.backend] /\ counted' = counted + called.counted
      /\ last' = IF called.blurred THEN Effect!Drawn([params EXCEPT !.downscale = factor], {}) ELSE Effect!Dropped("backend")
  BY <1>2, <1>5
<1> HIDE DEF setup, called, radius
<1>10. /\ blur' \in [down : Nat, backend : Backend] /\ blur'.down = factor /\ blur'.backend = called.backend
  BY <1>5, <1>8, <1>9
<1>11. last'.from = {} /\ last'.result \in {"drawn", "backend"}
       /\ (last'.result = "drawn" => last'.drawn = [params EXCEPT !.downscale = factor])
       /\ (last'.result = "backend" => ~called.blurred)
  BY <1>9 DEF Effect!Drawn, Effect!Dropped
<1>12. counted' = IF blur'.backend.fallen THEN 1 ELSE 0
  <2>1. blur.backend.fallen \in BOOLEAN /\ called.backend.fallen \in BOOLEAN BY <1>3, <1>8 DEF Backend
  <2>2. counted + called.counted = IF called.backend.fallen THEN 1 ELSE 0 BY <1>4, <1>5, <1>8, <2>1
  <2> QED BY <1>9, <1>10, <2>2
<1> DEFINE f == factor
<1>13. /\ blur'.down = f /\ f = Effect!Bounded(params.downscale, frame) /\ Fits(blur'.backend, Effect!ScaledDown(frame, f))
       /\ ~Effect!TooSmall(Effect!ScaledDown(frame, f))
  BY <1>5, <1>6, <1>8, <1>10
<1>14. last'.result = "drawn" => last'.drawn = [params EXCEPT !.downscale = f] BY <1>11
<1> HIDE DEF f, factor
<1>15. (Fits(blur.backend, Effect!ScaledDown(frame, blur.down)) /\ ~Effect!TooSmall(Effect!ScaledDown(frame, blur.down)))'
  BY <1>1, <1>13 DEF Fits, Effect!TooSmall, Effect!ScaledDown
<1>16. (last.result = "drawn" => last.drawn = [params EXCEPT !.downscale = Effect!Bounded(@, frame)])'
  <2>1. [params EXCEPT !.downscale = Effect!Bounded(@, frame)] = [params EXCEPT !.downscale = f] BY <1>13
  <2> QED BY <1>1, <1>14, <2>1 DEF Effect!Bounded, Effect!Shorter, Effect!AtLeastOne
<1>17. last'.result = "backend" => machine.choice = "wgpu" /\ ~machine.counters
  BY <1>0, <1>1, <1>5, <1>8, <1>11 DEF BackendMade
<1>18. EffectTypes' BY <1>0, <1>1, <1>10, <1>12 DEF EffectTypes
<1>19. BackendMade' BY <1>0, <1>1, <1>5, <1>8, <1>10 DEF BackendMade, Effect!TooSmall
<1>20. BlurInv' BY <1>1, <1>11, <1>12, <1>15, <1>16, <1>17 DEF BlurInv
<1> QED BY <1>0, <1>1, <1>11, <1>18, <1>19, <1>20 DEF EffectInv, OthersDraw, Effect!PictureFailsAlone, BoxIsFresh, Effect!NoStaleBox

\* Every step of an effect.
LEMMA EffectsStep == ASSUME EffectInv, Effect!Next, FrameSizes \subseteq Pair PROVE EffectInv'
<1>1. CASE Effect!LiveSet BY <1>1, ConfigureHolds DEF Effect!LiveSet
<1>2. CASE \E dims \in FrameSizes : Effect!PrepareBlur(dims) \/ Effect!PreparePicture(dims) \/ Effect!PrepareVignette(dims)
                                      \/ Effect!PrepareAutoFrame(dims)
  BY <1>2, PrepareBlurHolds, OtherPreparesHold
<1>3. CASE \E works \in BOOLEAN : Effect!ProcessBlur(works) BY <1>3, ProcessBlurHolds
<1>4. CASE Effect!ProcessPicture BY <1>4, ProcessPictureHolds
<1>5. CASE Effect!ProcessVignette BY <1>5, ProcessVignetteHolds
<1>6. CASE \E person \in BOOLEAN : Effect!ProcessAutoFrame(person) BY <1>6, ProcessAutoFrameHolds
<1>7. CASE Effect!ResetState
  <2>1. frame \in Pair BY DEF EffectInv, EffectTypes
  <2> QED BY <1>7, <2>1, OtherPreparesHold
<1>8. CASE \E path \in DOMAIN disk : \E kind \in {"picture", "text", "missing"} : Effect!FileChanges(path, kind)
  BY <1>8, FileChangesHolds
<1> QED BY <1>1, <1>2, <1>3, <1>4, <1>5, <1>6, <1>7, <1>8 DEF Effect!Next

\* A step of another machine.
LEMMA EffectsStand == ASSUME EffectInv, UNCHANGED effectVars PROVE EffectInv'
<1>1. UNCHANGED <<effect, params, disk, machine, frame, ready, built, blur, scene, box, last, counted>> BY DEF effectVars
<1> QED BY <1>1 DEF EffectInv, EffectTypes, BackendMade, BlurInv, OthersDraw, Effect!PictureFailsAlone,
          BoxIsFresh, Effect!NoStaleBox, Effect!TooSmall, Effect!ScaledDown, Effect!AtLeastOne, Fits, Effect!Drifted, Effect!Decodes,
          Effect!Bounded, Effect!Shorter

-----------------------------------------------------------------------------
(* Slots: the table that is kept and the effect that draws. *)

\* The effects with parameters.
Tuned == {"smooth_temporal", "threshold", "largest_blob", "dilate", "feather", "blur", "color_fill", "pixelate",
          "sharpen", "vignette", "exposure_correct", "image_fill", "auto_frame"}
KeysOf(e) == DOMAIN Slot!Offers(e)
GivenBy(e) == DOMAIN Slot!SerdeDefault(e)

\* What a value must be for configure to take it; blur takes no passes, which are not offered.
Fine(e, k, v) ==
    LET o == Slot!Offers(e)[k]
    IN  /\ o.kind = "number" => v \in (IF k = "passes" THEN 0 ELSE o.min)..o.max
        /\ o.kind = "enum" => v \in o.variants
        /\ o.kind = "path" => v # "missing"

\* What is offered is fine, the default among it, and is what the configuration type gives.
ParamFine(e, k) ==
    LET o == Slot!Offers(e)[k]
    IN  /\ \/ /\ o.kind = "number"
              /\ o.min \in Nat /\ o.max \in Nat /\ o.default \in o.min..o.max /\ o.max < Slot!NaN
           \/ o.kind = "enum" /\ o.default \in o.variants
           \/ o.kind = "color"
           \/ o.kind = "path" /\ k \notin GivenBy(e)
        /\ k \in GivenBy(e) => Slot!SerdeDefault(e)[k] = o.default

\* What every entry of the catalogue satisfies; a key without a default in the configuration
\* type is a path, or the only one.
Catalogued(e) ==
    /\ "enabled" \notin KeysOf(e) /\ "unknown" \notin KeysOf(e)
    /\ GivenBy(e) \subseteq KeysOf(e)
    /\ \A k \in KeysOf(e) : ParamFine(e, k)
    /\ (\A k \in KeysOf(e) : Slot!Offers(e)[k].kind # "path") => \A k \in KeysOf(e) : k \in GivenBy(e) \/ KeysOf(e) = {k}

\* configure looks at every parameter by itself.
Judged(e, c) ==
    GivenBy(e) \subseteq DOMAIN c /\ DOMAIN c \subseteq KeysOf(e) =>
        (Slot!ConfigAccepted(e, c) <=> KeysOf(e) \subseteq DOMAIN c /\ \A k \in KeysOf(e) : Fine(e, k, c[k]))

\* The catalogue, effect by effect.
LEMMA Catalogue == ASSUME NEW e \in Tuned, NEW c PROVE Catalogued(e) /\ Judged(e, c)
<1>n. Slot!NaN \in Int /\ Slot!NaN > 400 BY SMT DEF Slot!NaN
<1>d. DOMAIN <<>> = {} OBVIOUS
<1> USE DEF Slot!Number, Slot!Choice, Slot!Color, Slot!RequiredPath, Slot!InRange, Slot!Plain, KeysOf, GivenBy, ParamFine, Fine
<1>1. CASE e = "smooth_temporal"
  <2>1. Slot!Offers(e) = Slot!SmoothTemporalOffers /\ Slot!SerdeDefault(e) = Slot!SmoothTemporalDefault /\ (Slot!ConfigAccepted(e, c) <=> Slot!SmoothTemporalAccepts(c))
    BY <1>1 DEF Slot!Offers, Slot!SerdeDefault, Slot!ConfigAccepted
  <2>2. Catalogued(e) BY <1>1, <2>1, <1>n DEF Catalogued, Slot!SmoothTemporalOffers, Slot!SmoothTemporalDefault
  <2>3. Judged(e, c) BY <1>1, <2>1, <1>n DEF Judged, Slot!SmoothTemporalOffers, Slot!SmoothTemporalDefault, Slot!SmoothTemporalAccepts
  <2> QED BY <2>2, <2>3
<1>2. CASE e = "threshold"
  <2>1. Slot!Offers(e) = Slot!ThresholdOffers /\ Slot!SerdeDefault(e) = Slot!ThresholdDefault /\ (Slot!ConfigAccepted(e, c) <=> Slot!ThresholdAccepts(c))
    BY <1>2 DEF Slot!Offers, Slot!SerdeDefault, Slot!ConfigAccepted
  <2>2. Catalogued(e) BY <1>2, <2>1, <1>n DEF Catalogued, Slot!ThresholdOffers, Slot!ThresholdDefault
  <2>3. Judged(e, c) BY <1>2, <2>1, <1>n DEF Judged, Slot!ThresholdOffers, Slot!ThresholdDefault, Slot!ThresholdAccepts
  <2> QED BY <2>2, <2>3
<1>3. CASE e = "largest_blob"
  <2>1. Slot!Offers(e) = Slot!LargestBlobOffers /\ Slot!SerdeDefault(e) = Slot!LargestBlobDefault /\ (Slot!ConfigAccepted(e, c) <=> Slot!LargestBlobAccepts(c))
    BY <1>3 DEF Slot!Offers, Slot!SerdeDefault, Slot!ConfigAccepted
  <2>2. Catalogued(e) BY <1>3, <2>1, <1>n DEF Catalogued, Slot!LargestBlobOffers, Slot!LargestBlobDefault
  <2>3. Judged(e, c) BY <1>3, <2>1, <1>n DEF Judged, Slot!LargestBlobOffers, Slot!LargestBlobDefault, Slot!LargestBlobAccepts
  <2> QED BY <2>2, <2>3
<1>4. CASE e = "dilate"
  <2>1. Slot!Offers(e) = Slot!DilateOffers /\ Slot!SerdeDefault(e) = Slot!DilateDefault /\ (Slot!ConfigAccepted(e, c) <=> Slot!DilateAccepts(c))
    BY <1>4 DEF Slot!Offers, Slot!SerdeDefault, Slot!ConfigAccepted
  <2>2. Catalogued(e) BY <1>4, <2>1, <1>n DEF Catalogued, Slot!DilateOffers, Slot!DilateDefault
  <2>3. Judged(e, c) BY <1>4, <2>1, <1>n DEF Judged, Slot!DilateOffers, Slot!DilateDefault, Slot!DilateAccepts
  <2> QED BY <2>2, <2>3
<1>5. CASE e = "feather"
  <2>1. Slot!Offers(e) = Slot!FeatherOffers /\ Slot!SerdeDefault(e) = Slot!FeatherDefault /\ (Slot!ConfigAccepted(e, c) <=> Slot!FeatherAccepts(c))
    BY <1>5 DEF Slot!Offers, Slot!SerdeDefault, Slot!ConfigAccepted
  <2>2. Catalogued(e) BY <1>5, <2>1, <1>n DEF Catalogued, Slot!FeatherOffers, Slot!FeatherDefault
  <2>3. Judged(e, c) BY <1>5, <2>1, <1>n DEF Judged, Slot!FeatherOffers, Slot!FeatherDefault, Slot!FeatherAccepts
  <2> QED BY <2>2, <2>3
<1>6. CASE e = "blur"
  <2>1. Slot!Offers(e) = Slot!BlurOffers /\ Slot!SerdeDefault(e) = Slot!BlurDefault /\ (Slot!ConfigAccepted(e, c) <=> Slot!BlurAccepts(c))
    BY <1>6 DEF Slot!Offers, Slot!SerdeDefault, Slot!ConfigAccepted
  <2>2. Catalogued(e) BY <1>6, <2>1, <1>n DEF Catalogued, Slot!BlurOffers, Slot!BlurDefault
  <2>3. Judged(e, c) BY <1>6, <2>1, <1>n DEF Judged, Slot!BlurOffers, Slot!BlurDefault, Slot!BlurAccepts
  <2> QED BY <2>2, <2>3
<1>7. CASE e = "color_fill"
  <2>1. Slot!Offers(e) = Slot!ColorFillOffers /\ Slot!SerdeDefault(e) = Slot!ColorFillDefault /\ (Slot!ConfigAccepted(e, c) <=> Slot!ColorFillAccepts(c))
    BY <1>7 DEF Slot!Offers, Slot!SerdeDefault, Slot!ConfigAccepted
  <2>a. KeysOf(e) = {"rgb"} /\ Slot!Offers(e)["rgb"].kind = "color" BY <2>1 DEF Slot!ColorFillOffers
  <2>b. GivenBy(e) = {} BY <2>1, <1>d DEF Slot!ColorFillDefault
  <2> HIDE DEF KeysOf, GivenBy
  <2>2. Catalogued(e) BY <2>a, <2>b DEF Catalogued
  <2> USE DEF KeysOf, GivenBy
  <2>3. Judged(e, c) BY <1>7, <2>1, <1>n DEF Judged, Slot!ColorFillOffers, Slot!ColorFillDefault, Slot!ColorFillAccepts
  <2> QED BY <2>2, <2>3
<1>8. CASE e = "pixelate"
  <2>1. Slot!Offers(e) = Slot!PixelateOffers /\ Slot!SerdeDefault(e) = Slot!PixelateDefault /\ (Slot!ConfigAccepted(e, c) <=> Slot!PixelateAccepts(c))
    BY <1>8 DEF Slot!Offers, Slot!SerdeDefault, Slot!ConfigAccepted
  <2>2. Catalogued(e) BY <1>8, <2>1, <1>n DEF Catalogued, Slot!PixelateOffers, Slot!PixelateDefault
  <2>3. Judged(e, c) BY <1>8, <2>1, <1>n DEF Judged, Slot!PixelateOffers, Slot!PixelateDefault, Slot!PixelateAccepts
  <2> QED BY <2>2, <2>3
<1>9. CASE e = "sharpen"
  <2>1. Slot!Offers(e) = Slot!SharpenOffers /\ Slot!SerdeDefault(e) = Slot!SharpenDefault /\ (Slot!ConfigAccepted(e, c) <=> Slot!SharpenAccepts(c))
    BY <1>9 DEF Slot!Offers, Slot!SerdeDefault, Slot!ConfigAccepted
  <2>2. Catalogued(e) BY <1>9, <2>1, <1>n DEF Catalogued, Slot!SharpenOffers, Slot!SharpenDefault
  <2>3. Judged(e, c) BY <1>9, <2>1, <1>n DEF Judged, Slot!SharpenOffers, Slot!SharpenDefault, Slot!SharpenAccepts
  <2> QED BY <2>2, <2>3
<1>10. CASE e = "vignette"
  <2>1. Slot!Offers(e) = Slot!VignetteOffers /\ Slot!SerdeDefault(e) = Slot!VignetteDefault /\ (Slot!ConfigAccepted(e, c) <=> Slot!VignetteAccepts(c))
    BY <1>10 DEF Slot!Offers, Slot!SerdeDefault, Slot!ConfigAccepted
  <2>2. Catalogued(e) BY <1>10, <2>1, <1>n DEF Catalogued, Slot!VignetteOffers, Slot!VignetteDefault
  <2>3. Judged(e, c) BY <1>10, <2>1, <1>n DEF Judged, Slot!VignetteOffers, Slot!VignetteDefault, Slot!VignetteAccepts
  <2> QED BY <2>2, <2>3
<1>11. CASE e = "exposure_correct"
  <2>1. Slot!Offers(e) = Slot!ExposureOffers /\ Slot!SerdeDefault(e) = Slot!ExposureDefault /\ (Slot!ConfigAccepted(e, c) <=> Slot!ExposureAccepts(c))
    BY <1>11 DEF Slot!Offers, Slot!SerdeDefault, Slot!ConfigAccepted
  <2>2. Catalogued(e) BY <1>11, <2>1, <1>n DEF Catalogued, Slot!ExposureOffers, Slot!ExposureDefault
  <2>3. Judged(e, c) BY <1>11, <2>1, <1>n DEF Judged, Slot!ExposureOffers, Slot!ExposureDefault, Slot!ExposureAccepts
  <2> QED BY <2>2, <2>3
<1>12. CASE e = "image_fill"
  <2>1. Slot!Offers(e) = Slot!ImageFillOffers /\ Slot!SerdeDefault(e) = Slot!ImageFillDefault /\ (Slot!ConfigAccepted(e, c) <=> Slot!ImageFillAccepts(c))
    BY <1>12 DEF Slot!Offers, Slot!SerdeDefault, Slot!ConfigAccepted
  <2>2. Catalogued(e) BY <1>12, <2>1, <1>n DEF Catalogued, Slot!ImageFillOffers, Slot!ImageFillDefault
  <2>3. Judged(e, c) BY <1>12, <2>1, <1>n DEF Judged, Slot!ImageFillOffers, Slot!ImageFillDefault, Slot!ImageFillAccepts
  <2> QED BY <2>2, <2>3
<1>13. CASE e = "auto_frame"
  <2>1. Slot!Offers(e) = Slot!AutoFrameOffers /\ Slot!SerdeDefault(e) = Slot!AutoFrameDefault /\ (Slot!ConfigAccepted(e, c) <=> Slot!AutoFrameAccepts(c))
    BY <1>13 DEF Slot!Offers, Slot!SerdeDefault, Slot!ConfigAccepted
  <2>2. Catalogued(e) BY <1>13, <2>1, <1>n DEF Catalogued, Slot!AutoFrameOffers, Slot!AutoFrameDefault
  <2>3. Judged(e, c) BY <1>13, <2>1, <1>n DEF Judged, Slot!AutoFrameOffers, Slot!AutoFrameDefault, Slot!AutoFrameAccepts
  <2> QED BY <2>2, <2>3
<1> QED BY <1>1, <1>2, <1>3, <1>4, <1>5, <1>6, <1>7, <1>8, <1>9, <1>10, <1>11, <1>12, <1>13 DEF Tuned

\* The flag and the parameters of a table.
Flag(t) == IF "enabled" \in DOMAIN t THEN t["enabled"] ELSE "true"
Keyed(t) == [k \in DOMAIN t \ {"enabled"} |-> t[k]]
Defaults(e) == [p \in KeysOf(e) |-> Slot!Offers(e)[p].default]
\* The parameters a chain is built with.
Taken(e, t) == IF DOMAIN Keyed(t) # {} THEN Keyed(t) ELSE Defaults(e)
NoPath(e) == \A k \in KeysOf(e) : Slot!Offers(e)[k].kind # "path"
\* configure, with the defaults of the configuration type.
Filled(e, p) == Slot!Over(p, Slot!SerdeDefault(e))

\* What a table without a faulty flag is split into.
LEMMA SplitIs == ASSUME NEW t
    PROVE /\ Flag(t) \in {"true", "false"} =>
               Slot!SplitTable(t) = [ok |-> TRUE, enabled |-> Flag(t) = "true", params |-> Keyed(t)]
          /\ Flag(t) \notin {"true", "false"} => Slot!SplitTable(t) = [ok |-> FALSE]
BY DEF Slot!SplitTable, Slot!Refused, Flag, Keyed

\* What is accepted of an effect with parameters: all of them are there, and fine.
LEMMA AcceptsMeans == ASSUME NEW e \in Tuned, NEW p
    PROVE Slot!Accepts(e, p) <=>
             /\ DOMAIN p \subseteq KeysOf(e)
             /\ KeysOf(e) \subseteq DOMAIN p \cup GivenBy(e)
             /\ \A k \in KeysOf(e) : Fine(e, k, Filled(e, p)[k])
<1>1. DOMAIN Filled(e, p) = DOMAIN p \cup GivenBy(e) BY DEF Filled, Slot!Over, GivenBy
<1>2. Catalogued(e) /\ Judged(e, Filled(e, p)) BY Catalogue
<1>3. GivenBy(e) \subseteq KeysOf(e) BY <1>2 DEF Catalogued
<1>4. DOMAIN p \subseteq KeysOf(e) =>
        (Slot!ConfigAccepted(e, Filled(e, p)) <=>
            KeysOf(e) \subseteq DOMAIN p \cup GivenBy(e) /\ \A k \in KeysOf(e) : Fine(e, k, Filled(e, p)[k]))
  BY <1>1, <1>2, <1>3 DEF Judged
<1>5. e \notin Slot!Plain BY DEF Tuned, Slot!Plain
<1>6. Slot!Accepts(e, p) <=> DOMAIN p \subseteq KeysOf(e) /\ Slot!ConfigAccepted(e, Filled(e, p))
  BY <1>5 DEF Slot!Accepts, Slot!Configured, Filled, KeysOf
<1> QED BY <1>4, <1>6

\* What a chain is built as.
LEMMA BuiltIs == ASSUME NEW e, NEW t
    PROVE /\ Slot!Built(e, t).ok \in BOOLEAN
          /\ Slot!Built(e, t).ok <=>
                /\ Flag(t) \in {"true", "false"}
                /\ DOMAIN Keyed(t) # {} \/ NoPath(e)
                /\ Slot!Accepts(e, Taken(e, t))
          /\ Slot!Built(e, t).ok =>
                Slot!Built(e, t) = [ok |-> TRUE, live |-> [params |-> Slot!Configuration(e, Taken(e, t)), on |-> Flag(t) = "true"]]
<1> DEFINE resolved == Slot!Resolve(e, t)
           whole(p) == [ok |-> TRUE, enabled |-> Flag(t) = "true", params |-> p]
<1>1. CASE Flag(t) \notin {"true", "false"}
  <2>1. Slot!SplitTable(t) = [ok |-> FALSE] BY <1>1, SplitIs
  <2>2. resolved = [ok |-> FALSE] BY <2>1 DEF Slot!Resolve
  <2>3. Slot!Built(e, t) = [ok |-> FALSE] BY <2>2 DEF Slot!Built, Slot!Refused
  <2> QED BY <1>1, <2>3
<1>2. CASE Flag(t) \in {"true", "false"}
  <2>1. Slot!SplitTable(t) = whole(Keyed(t)) BY <1>2, SplitIs
  <2>2. CASE DOMAIN Keyed(t) = {} /\ ~NoPath(e)
    <3>1. Slot!DefaultConfig(e) = [ok |-> FALSE] BY <2>2 DEF Slot!DefaultConfig, Slot!Refused, NoPath, KeysOf
    <3>2. resolved = [ok |-> FALSE] BY <2>1, <2>2, <3>1 DEF Slot!Resolve, Slot!Refused
    <3>3. Slot!Built(e, t) = [ok |-> FALSE] BY <3>2 DEF Slot!Built, Slot!Refused
    <3> QED BY <2>2, <3>3
  <2>3. CASE DOMAIN Keyed(t) # {} \/ NoPath(e)
    <3>1. resolved = whole(Taken(e, t))
      <4>1. CASE DOMAIN Keyed(t) # {} BY <2>1, <4>1 DEF Slot!Resolve, Taken
      <4>2. CASE DOMAIN Keyed(t) = {}
        <5>1. {p \in KeysOf(e) : Slot!Offers(e)[p].kind = "path"} = {} BY <2>3, <4>2 DEF NoPath
        <5>2. Slot!DefaultConfig(e) = [ok |-> TRUE, params |-> Defaults(e)] BY <5>1 DEF Slot!DefaultConfig, Defaults, KeysOf
        <5> QED BY <2>1, <4>2, <5>2 DEF Slot!Resolve, Taken
      <4> QED BY <4>1, <4>2
    <3>2. resolved.ok = TRUE /\ resolved.params = Taken(e, t) /\ resolved.enabled = (Flag(t) = "true") BY <3>1
    <3> HIDE DEF resolved
    <3>3. Slot!Built(e, t) = IF Slot!Accepts(e, Taken(e, t))
             THEN [ok |-> TRUE, live |-> [params |-> Slot!Configuration(e, Taken(e, t)), on |-> Flag(t) = "true"]]
             ELSE [ok |-> FALSE]
      BY <3>2 DEF Slot!Built, Slot!Refused, resolved
    <3> QED BY <1>2, <2>3, <3>3
  <2> QED BY <2>2, <2>3
<1> QED BY <1>1, <1>2

\* Without parameters in the table, both sets of defaults configure the effect alike.
LEMMA DefaultsAgree == ASSUME NEW e \in Tuned, NEW p, DOMAIN p = {}, Slot!Accepts(e, p)
    PROVE Filled(e, p) = Filled(e, Defaults(e))
<1>1. KeysOf(e) \subseteq GivenBy(e) BY AcceptsMeans
<1>2. Catalogued(e) BY Catalogue
<1>3. GivenBy(e) = KeysOf(e) BY <1>1, <1>2 DEF Catalogued
<1>4. \A k \in KeysOf(e) : Slot!SerdeDefault(e)[k] = Slot!Offers(e)[k].default BY <1>2, <1>3 DEF Catalogued, ParamFine
<1>5. Filled(e, p) = [k \in KeysOf(e) |-> Slot!SerdeDefault(e)[k]] BY <1>3 DEF Filled, Slot!Over, GivenBy
<1>6. Filled(e, Defaults(e)) = [k \in KeysOf(e) |-> Slot!Offers(e)[k].default]
  BY <1>3 DEF Filled, Slot!Over, GivenBy, Defaults
<1> QED BY <1>4, <1>5, <1>6

\* The value of a control is accepted, and no number that compares with none.
LEMMA OfferedIsFine ==
    ASSUME NEW e \in Tuned, NEW k \in KeysOf(e), NEW v,
           \/ v \in Slot!OfferedValues(Slot!Offers(e)[k])
           \/ v = Slot!NaN /\ Slot!Offers(e)[k].kind = "number"
    PROVE  Fine(e, k, v) <=> IF Slot!Offers(e)[k].kind = "path" THEN v # "missing"
                             ELSE v \in Slot!OfferedValues(Slot!Offers(e)[k])
<1>1. ParamFine(e, k) BY Catalogue DEF Catalogued
<1> DEFINE o == Slot!Offers(e)[k]
<1>2. CASE o.kind = "number"
  <2>1. /\ o.min \in Nat /\ o.max \in Nat /\ o.default \in o.min..o.max /\ o.max < Slot!NaN BY <1>1, <1>2 DEF ParamFine
  <2>2. Slot!OfferedValues(o) \subseteq o.min..o.max BY <1>2, <2>1 DEF Slot!OfferedValues
  <2>3. Slot!NaN \notin o.min..o.max /\ (\A low \in {0, o.min} : Slot!NaN \notin low..o.max) BY <2>1, SMT DEF Slot!NaN
  <2>4. Fine(e, k, v) <=> v \in (IF k = "passes" THEN 0 ELSE o.min)..o.max BY <1>2 DEF Fine
  <2>5. \A x \in o.min..o.max : x \in 0..o.max BY <2>1
  <2> HIDE DEF o
  <2> QED BY <1>2, <2>2, <2>3, <2>4, <2>5 DEF o
<1>3. CASE o.kind = "enum" BY <1>3 DEF Fine, Slot!OfferedValues
<1>4. CASE o.kind = "color" BY <1>4 DEF Fine, Slot!OfferedValues
<1>5. CASE o.kind = "path" BY <1>5 DEF Fine, Slot!OfferedValues
<1> QED BY <1>1, <1>2, <1>3, <1>4, <1>5 DEF ParamFine

\* A slot without an effect, or one of a registry.
SlotTypes ==
    /\ slot # Slot!Vacant => slot.effect \in Tuned \cup Slot!Plain
    /\ live = [params |-> live.params, on |-> live.on]

SlotInv == SlotTypes /\ Slot!SlotsHold

\* The configuration of an effect with parameters is what configure fills in.
LEMMA ConfigurationIs == /\ \A e \in Tuned : \A p : Slot!Configuration(e, p) = Filled(e, p)
                         /\ \A e \in Slot!Plain : \A p : Slot!Configuration(e, p) = <<>>
<1>1. \A e \in Tuned : e \notin Slot!Plain BY DEF Tuned, Slot!Plain
<1> QED BY <1>1 DEF Slot!Configuration, Slot!Configured, Filled

\* Building from the table that an effect with parameters was given, key by key.
LEMMA MergedIs == ASSUME NEW t, NEW key, NEW value, key # "enabled"
    PROVE /\ Flag(Slot!Merged(t, key, value)) = Flag(t)
          /\ Keyed(Slot!Merged(t, key, value)) =
               [k \in DOMAIN Keyed(t) \cup {key} |-> IF k = key THEN value ELSE Keyed(t)[k]]
          /\ Taken(slot.effect, Slot!Merged(t, key, value)) = Keyed(Slot!Merged(t, key, value))
<1> DEFINE m == Slot!Merged(t, key, value)
<1>1. m = [k \in {key} \cup DOMAIN t |-> IF k \in {key} THEN value ELSE t[k]] BY DEF Slot!Merged, Slot!Over
<1>2. DOMAIN m = {key} \cup DOMAIN t /\ \A k \in DOMAIN m : m[k] = IF k = key THEN value ELSE t[k] BY <1>1
<1> HIDE DEF m
<1>3. Flag(m) = Flag(t) BY <1>2 DEF Flag
<1>4. Keyed(m) = [k \in DOMAIN m \ {"enabled"} |-> m[k]] BY DEF Keyed
<1>5. DOMAIN m \ {"enabled"} = DOMAIN Keyed(t) \cup {key} BY <1>2 DEF Keyed
<1>6. Keyed(m) = [k \in DOMAIN Keyed(t) \cup {key} |-> IF k = key THEN value ELSE Keyed(t)[k]]
  BY <1>2, <1>4, <1>5 DEF Keyed
<1>7. DOMAIN Keyed(m) # {} BY <1>6
<1>8. Taken(slot.effect, m) = Keyed(m) BY <1>7 DEF Taken
<1> QED BY <1>3, <1>6, <1>8 DEF m

\* A key more in the table is that key in the configuration, and no other.
LEMMA OneKeyFilled ==
    ASSUME NEW e \in Tuned, NEW p, NEW q, NEW key \in KeysOf(e), NEW value,
           (q = p /\ DOMAIN p # {}) \/ (q = Defaults(e) /\ DOMAIN p = {} /\ NoPath(e)),
           Slot!Accepts(e, q)
    PROVE  LET m == [k \in DOMAIN p \cup {key} |-> IF k = key THEN value ELSE p[k]]
           IN  /\ Filled(e, m) = [Filled(e, q) EXCEPT ![key] = value]
               /\ Slot!Accepts(e, m) <=> Fine(e, key, value)
<1> DEFINE m == [k \in DOMAIN p \cup {key} |-> IF k = key THEN value ELSE p[k]]
<1>1. DOMAIN m = DOMAIN p \cup {key} /\ m[key] = value /\ \A k \in DOMAIN p : k # key => m[k] = p[k] OBVIOUS
<1> HIDE DEF m
<1>2. /\ DOMAIN q \subseteq KeysOf(e) /\ KeysOf(e) \subseteq DOMAIN q \cup GivenBy(e)
      /\ \A k \in KeysOf(e) : Fine(e, k, Filled(e, q)[k])
  BY AcceptsMeans
<1>3. Catalogued(e) BY Catalogue
<1>4. GivenBy(e) \subseteq KeysOf(e) BY <1>3 DEF Catalogued
<1>5. DOMAIN p \subseteq KeysOf(e) /\ KeysOf(e) \subseteq DOMAIN m \cup GivenBy(e)
  <2>1. CASE DOMAIN p # {} BY <1>1, <1>2, <2>1
  <2>2. CASE DOMAIN p = {}
    <3>1. \A k \in KeysOf(e) : k \in GivenBy(e) \/ KeysOf(e) = {k} BY <1>3, <2>2 DEF Catalogued, NoPath
    <3> QED BY <1>1, <2>2, <3>1
  <2> QED BY <2>1, <2>2
<1>6. \A f : DOMAIN f \subseteq KeysOf(e) /\ KeysOf(e) \subseteq DOMAIN f \cup GivenBy(e) =>
        Filled(e, f) = [k \in KeysOf(e) |-> IF k \in DOMAIN f THEN f[k] ELSE Slot!SerdeDefault(e)[k]]
  <2> SUFFICES ASSUME NEW f, DOMAIN f \subseteq KeysOf(e), KeysOf(e) \subseteq DOMAIN f \cup GivenBy(e)
               PROVE  Filled(e, f) = [k \in KeysOf(e) |-> IF k \in DOMAIN f THEN f[k] ELSE Slot!SerdeDefault(e)[k]]
    OBVIOUS
  <2>1. DOMAIN f \cup GivenBy(e) = KeysOf(e) BY <1>4
  <2> QED BY <2>1 DEF Filled, Slot!Over, GivenBy
<1>7. DOMAIN m \subseteq KeysOf(e) BY <1>1, <1>5
<1>8. Filled(e, m) = [k \in KeysOf(e) |-> IF k \in DOMAIN m THEN m[k] ELSE Slot!SerdeDefault(e)[k]] BY <1>5, <1>6, <1>7
<1>9. Filled(e, q) = [k \in KeysOf(e) |-> IF k \in DOMAIN q THEN q[k] ELSE Slot!SerdeDefault(e)[k]] BY <1>2, <1>6
<1>10. \A k \in KeysOf(e) : k # key => Filled(e, m)[k] = Filled(e, q)[k]
  <2>1. CASE DOMAIN p # {} BY <1>1, <1>8, <1>9, <2>1
  <2>2. CASE DOMAIN p = {}
    <3>1. \A k \in KeysOf(e) : k # key => k \in GivenBy(e) /\ k \notin DOMAIN m BY <1>1, <1>5, <2>2
    <3>2. \A k \in KeysOf(e) : k # key => Slot!SerdeDefault(e)[k] = Slot!Offers(e)[k].default
      BY <1>3, <3>1 DEF Catalogued, ParamFine
    <3>3. \A k \in KeysOf(e) : k \in DOMAIN q /\ q[k] = Slot!Offers(e)[k].default BY <2>2 DEF Defaults
    <3> QED BY <1>8, <1>9, <3>1, <3>2, <3>3
  <2> QED BY <2>1, <2>2
<1>11. Filled(e, m)[key] = value BY <1>1, <1>8
<1>12. Filled(e, m) = [Filled(e, q) EXCEPT ![key] = value]
  <2>1. DOMAIN Filled(e, m) = KeysOf(e) /\ DOMAIN Filled(e, q) = KeysOf(e) BY <1>8, <1>9
  <2>2. Filled(e, m) = [k \in KeysOf(e) |-> Filled(e, m)[k]] BY <1>8
  <2>3. [Filled(e, q) EXCEPT ![key] = value] = [k \in KeysOf(e) |-> IF k = key THEN value ELSE Filled(e, q)[k]] BY <2>1
  <2> QED BY <1>10, <1>11, <2>2, <2>3
<1>13. Slot!Accepts(e, m) <=> \A k \in KeysOf(e) : Fine(e, k, Filled(e, m)[k]) BY <1>5, <1>7, AcceptsMeans
<1>14. Slot!Accepts(e, m) <=> Fine(e, key, value) BY <1>2, <1>10, <1>11, <1>13
<1> QED BY <1>12, <1>14 DEF m

\* An effect without parameters offers none, and its configuration is nothing.
LEMMA PlainIs == ASSUME NEW e \in Slot!Plain PROVE KeysOf(e) = {} /\ \A p : Slot!Accepts(e, p)
<1>1. Slot!Offers(e) = <<>> BY DEF Slot!Offers, Slot!Plain
<1>2. DOMAIN <<>> = {} OBVIOUS
<1> QED BY <1>1, <1>2 DEF KeysOf, Slot!Accepts

\* The table and the effect that draws are one.
Agree(e, t, l) ==
    /\ Flag(t) \in {"true", "false"}
    /\ DOMAIN Keyed(t) # {} \/ NoPath(e)
    /\ Slot!Accepts(e, Taken(e, t))
    /\ l = [params |-> Slot!Configuration(e, Taken(e, t)), on |-> Flag(t) = "true"]

\* Which is what building again and getting the same effect means.
LEMMA AgreeMeans == ASSUME NEW e, NEW t, NEW l PROVE Slot!Built(e, t) = [ok |-> TRUE, live |-> l] <=> Agree(e, t, l)
<1>1. CASE Slot!Built(e, t).ok
  <2>1. Slot!Built(e, t) = [ok |-> TRUE, live |-> [params |-> Slot!Configuration(e, Taken(e, t)), on |-> Flag(t) = "true"]]
    BY <1>1, BuiltIs
  <2>2. /\ Flag(t) \in {"true", "false"} /\ (DOMAIN Keyed(t) # {} \/ NoPath(e)) /\ Slot!Accepts(e, Taken(e, t))
    BY <1>1, BuiltIs
  <2>3. \A x, y : [ok |-> TRUE, live |-> x] = [ok |-> TRUE, live |-> y] <=> x = y
    <3>1. SUFFICES ASSUME NEW x, NEW y, [ok |-> TRUE, live |-> x] = [ok |-> TRUE, live |-> y] PROVE x = y OBVIOUS
    <3>2. [ok |-> TRUE, live |-> x].live = [ok |-> TRUE, live |-> y].live BY <3>1
    <3> QED BY <3>2
  <2> QED BY <2>1, <2>2, <2>3 DEF Agree
<1>2. CASE ~Slot!Built(e, t).ok
  <2>1. Slot!Built(e, t) # [ok |-> TRUE, live |-> l] BY <1>2
  <2>2. ~Agree(e, t, l) BY <1>2, BuiltIs DEF Agree
  <2> QED BY <2>1, <2>2
<1> QED BY <1>1, <1>2

\* Configured from the table as `set` does or from what a chain takes: the same.
LEMMA SetAsBuilt == ASSUME NEW e \in Tuned \cup Slot!Plain, NEW t, Slot!Accepts(e, Keyed(t))
    PROVE Slot!Configuration(e, Keyed(t)) = Slot!Configuration(e, Taken(e, t))
<1>1. CASE DOMAIN Keyed(t) # {} BY <1>1 DEF Taken
<1>2. CASE DOMAIN Keyed(t) = {}
  <2>1. Taken(e, t) = Defaults(e) BY <1>2 DEF Taken
  <2>2. CASE e \in Slot!Plain BY <2>2, ConfigurationIs
  <2>3. CASE e \in Tuned
    <3>1. Filled(e, Keyed(t)) = Filled(e, Defaults(e)) BY <1>2, <2>3, DefaultsAgree
    <3> QED BY <2>1, <2>3, <3>1, ConfigurationIs
  <2> QED BY <2>2, <2>3
<1> QED BY <1>1, <1>2

\* What a client sends is a key that is offered with a value that is, or no number; or no key of the effect.
LEMMA SentIs == ASSUME NEW e \in Tuned \cup Slot!Plain, NEW pair \in Slot!Sent(e)
    PROVE /\ pair[1] # "enabled"
          /\ \/ /\ pair[1] \in KeysOf(e)
                /\ \/ pair[2] \in Slot!OfferedValues(Slot!Offers(e)[pair[1]])
                   \/ pair[2] = Slot!NaN /\ Slot!Offers(e)[pair[1]].kind = "number"
             \/ pair[1] \notin KeysOf(e)
<1>1. "enabled" \notin KeysOf(e) BY Catalogue, PlainIs DEF Catalogued
<1>2. CASE \E k \in KeysOf(e) : \E v \in Slot!OfferedValues(Slot!Offers(e)[k]) : pair = <<k, v>> BY <1>1, <1>2
<1>3. CASE \E k \in KeysOf(e) : Slot!Offers(e)[k].kind = "number" /\ pair = <<k, Slot!NaN>> BY <1>1, <1>3
<1>4. CASE pair = <<"unknown", 1>>
  <2>1. "unknown" \notin KeysOf(e) BY Catalogue, PlainIs DEF Catalogued
  <2> QED BY <1>4, <2>1
<1> DEFINE offered == UNION {{<<k, v>> : v \in Slot!OfferedValues(Slot!Offers(e)[k])} : k \in KeysOf(e)}
           nans == {<<k, Slot!NaN>> : k \in {p \in KeysOf(e) : Slot!Offers(e)[p].kind = "number"}}
<1>5. Slot!Sent(e) = offered \cup nans \cup {<<"unknown", 1>>} BY Zenon DEF Slot!Sent, KeysOf
<1>7. pair \in offered => \E k \in KeysOf(e) : \E v \in Slot!OfferedValues(Slot!Offers(e)[k]) : pair = <<k, v>>
  OBVIOUS
<1>8. pair \in nans => \E k \in KeysOf(e) : Slot!Offers(e)[k].kind = "number" /\ pair = <<k, Slot!NaN>>
  OBVIOUS
<1> HIDE DEF offered, nans
<1>6. QED BY <1>2, <1>3, <1>4, <1>5, <1>7, <1>8

\* Parameters are what is left when the flag is taken off.
LEMMA ParamsAre == ASSUME NEW t, Flag(t) \in {"true", "false"} PROVE Slot!Params(t) = Keyed(t)
BY SplitIs DEF Slot!Params

\* `set`: accepted, the key moves and no other; refused, nothing does.
LEMMA SetHolds == ASSUME SlotInv, slot # Slot!Vacant, NEW pair \in Slot!Sent(slot.effect), Slot!Set(pair[1], pair[2])
                  PROVE  SlotInv'
<1> DEFINE e == slot.effect
           key == pair[1]
           value == pair[2]
           merged == Slot!Merged(table, key, value)
           q == Taken(e, table)
<1>1. e \in Tuned \cup Slot!Plain BY DEF SlotInv, SlotTypes
<1>2. Agree(e, table, live)
  <2>1. Slot!Built(e, table) = [ok |-> TRUE, live |-> live] BY DEF SlotInv, Slot!SlotsHold, Slot!RebuildChangesNothing
  <2> QED BY <2>1, AgreeMeans
<1>3. key # "enabled" BY <1>1, SentIs
<1>4. /\ Flag(merged) = Flag(table)
      /\ Keyed(merged) = [k \in DOMAIN Keyed(table) \cup {key} |-> IF k = key THEN value ELSE Keyed(table)[k]]
      /\ Taken(e, merged) = Keyed(merged)
  BY <1>3, MergedIs
<1>5. Slot!Params(merged) = Keyed(merged) /\ Slot!Params(table) = Keyed(table) BY <1>2, <1>4, ParamsAre DEF Agree
<1> DEFINE ok == Slot!Accepts(e, Keyed(merged))
<1>6. /\ slot' = slot
      /\ table' = IF ok THEN merged ELSE table
      /\ live' = IF Slot!Accepts(e, Slot!Params(table')) THEN [live EXCEPT !.params = Slot!Configuration(e, Slot!Params(table'))]
                 ELSE live
      /\ reply' = [op |-> "set", ok |-> ok, key |-> key, value |-> value, before |-> live]
  BY <1>5 DEF Slot!Set
<1>7. live = [params |-> Slot!Configuration(e, q), on |-> Flag(table) = "true"] BY <1>2 DEF Agree
<1>8. ok \in BOOLEAN /\ (ok <=> Slot!Accepts(e, Keyed(merged))) BY DEF Slot!Accepts
<1>9. \A c : [live EXCEPT !.params = c] = [params |-> c, on |-> Flag(table) = "true"] BY <1>7
<1> HIDE DEF ok, merged, e, key, value, q
<1>10. ok => live' = [params |-> Slot!Configuration(e, Keyed(merged)), on |-> Flag(table) = "true"]
  BY <1>5, <1>6, <1>8, <1>9
<1>11. ~ok => live' = live
  <2>1. ~ok => \/ live' = live
               \/ /\ Slot!Accepts(e, Keyed(table))
                  /\ live' = [params |-> Slot!Configuration(e, Keyed(table)), on |-> Flag(table) = "true"]
    BY <1>5, <1>6, <1>9
  <2>2. Slot!Accepts(e, Keyed(table)) => Slot!Configuration(e, Keyed(table)) = Slot!Configuration(e, q)
    BY <1>1, SetAsBuilt DEF q
  <2> QED BY <2>1, <2>2, <1>7
<1>12. Agree(e, table', live')
  <2>1. CASE ok
    <3>1. DOMAIN Keyed(merged) # {} BY <1>4
    <3> QED BY <2>1, <1>2, <1>4, <1>6, <1>8, <1>10, <3>1 DEF Agree
  <2>2. CASE ~ok BY <2>2, <1>2, <1>6, <1>11
  <2> QED BY <2>1, <2>2
<1>13. Slot!RebuildChangesNothing'
  <2>1. Slot!Built(e, table') = [ok |-> TRUE, live |-> live'] BY <1>12, AgreeMeans
  <2> QED BY <2>1, <1>6 DEF Slot!RebuildChangesNothing, e
<1>14. SlotTypes'
  <2>1. live' = [params |-> live'.params, on |-> live'.on] BY <1>12 DEF Agree
  <2> QED BY <2>1, <1>1, <1>6 DEF SlotTypes, e
<1>15. ASSUME e \in Tuned, key \in KeysOf(e)
       PROVE  /\ Filled(e, Keyed(merged)) = [Filled(e, q) EXCEPT ![key] = value]
              /\ ok <=> Fine(e, key, value)
  <2>1. \/ q = Keyed(table) /\ DOMAIN Keyed(table) # {}
        \/ q = Defaults(e) /\ DOMAIN Keyed(table) = {} /\ NoPath(e)
    BY <1>2 DEF Agree, Taken, q
  <2>2. Slot!Accepts(e, q) BY <1>2 DEF Agree, q
  <2> DEFINE p == Keyed(table)
             m == [k \in DOMAIN p \cup {key} |-> IF k = key THEN value ELSE p[k]]
  <2>4. Filled(e, m) = [Filled(e, q) EXCEPT ![key] = value] /\ (Slot!Accepts(e, m) <=> Fine(e, key, value))
    <3> HIDE DEF p
    <3>1. (q = p /\ DOMAIN p # {}) \/ (q = Defaults(e) /\ DOMAIN p = {} /\ NoPath(e)) BY <2>1 DEF p
    <3>2. LET n == [k \in DOMAIN p \cup {key} |-> IF k = key THEN value ELSE p[k]]
          IN  /\ Filled(e, n) = [Filled(e, q) EXCEPT ![key] = value]
              /\ Slot!Accepts(e, n) <=> Fine(e, key, value)
      BY <1>15, <2>2, <3>1, OneKeyFilled
    <3> QED BY <3>2
  <2>5. m = Keyed(merged) BY <1>4
  <2> HIDE DEF m
  <2>3. /\ Filled(e, Keyed(merged)) = [Filled(e, q) EXCEPT ![key] = value]
        /\ Slot!Accepts(e, Keyed(merged)) <=> Fine(e, key, value)
    BY <2>4, <2>5
  <2> QED BY <2>3, <1>8
<1>16. e \in Tuned /\ ok => key \in KeysOf(e)
  <2>1. e \in Tuned /\ ok => DOMAIN Keyed(merged) \subseteq KeysOf(e) BY <1>8, AcceptsMeans
  <2>2. key \in DOMAIN Keyed(merged) BY <1>4
  <2> QED BY <2>1, <2>2
<1>17. Slot!OneKeyMoves'
  <2>1. live'.params = IF ok /\ e \notin Slot!Plain THEN [live.params EXCEPT ![key] = value] ELSE live.params
    <3>1. CASE ~ok BY <3>1, <1>11
    <3>2. CASE ok /\ e \in Slot!Plain
      <4>1. live.params = <<>> /\ live'.params = <<>> BY <3>2, <1>7, <1>10, ConfigurationIs
      <4> QED BY <3>2, <4>1
    <3>3. CASE ok /\ e \notin Slot!Plain
      <4>1. e \in Tuned /\ key \in KeysOf(e) BY <3>3, <1>1, <1>16
      <4>2. live.params = Filled(e, q) /\ live'.params = Filled(e, Keyed(merged)) BY <4>1, <3>3, <1>7, <1>10, ConfigurationIs
      <4> QED BY <3>3, <4>1, <4>2, <1>15
    <3> QED BY <3>1, <3>2, <3>3
  <2>2. reply'.ok = ok /\ reply'.key = key /\ reply'.value = value /\ reply'.before = live BY <1>6
  <2> QED BY <2>1, <2>2, <1>6 DEF Slot!OneKeyMoves, e
<1>18. Slot!OfferedIsAccepted'
  <2>1. reply'.ok = ok /\ reply'.key = key /\ reply'.value = value BY <1>6
  <2>2. SUFFICES ASSUME key \in KeysOf(e)
                 PROVE ok = (IF Slot!Offers(e)[key].kind = "path" THEN value # "missing"
                             ELSE value \in Slot!OfferedValues(Slot!Offers(e)[key]))
    BY <2>1, <1>6 DEF Slot!OfferedIsAccepted, KeysOf, e
  <2>3. e \in Tuned BY <1>1, <2>2, PlainIs
  <2>4. \/ value \in Slot!OfferedValues(Slot!Offers(e)[key])
        \/ value = Slot!NaN /\ Slot!Offers(e)[key].kind = "number"
    BY <1>1, <2>2, SentIs DEF key, value, e
  <2>5. Fine(e, key, value) <=> IF Slot!Offers(e)[key].kind = "path" THEN value # "missing"
                                ELSE value \in Slot!OfferedValues(Slot!Offers(e)[key])
    BY <2>2, <2>3, <2>4, OfferedIsFine
  <2>6. ok <=> Fine(e, key, value) BY <1>15, <2>2, <2>3
  <2> QED BY <2>5, <2>6, <1>8
<1> QED BY <1>13, <1>14, <1>17, <1>18 DEF SlotInv, Slot!SlotsHold

\* The flag: on is the absence of the key, and no parameter moves.
LEMMA SetEnabledHolds == ASSUME SlotInv, NEW on \in BOOLEAN, Slot!SetEnabled(on) PROVE SlotInv'
<1> DEFINE e == slot.effect
<1>1. slot # Slot!Vacant /\ e \in Tuned \cup Slot!Plain BY DEF SlotInv, SlotTypes, Slot!SetEnabled
<1>2. Agree(e, table, live)
  <2>1. Slot!Built(e, table) = [ok |-> TRUE, live |-> live] BY <1>1 DEF SlotInv, Slot!SlotsHold, Slot!RebuildChangesNothing
  <2> QED BY <2>1, AgreeMeans
<1>3. Slot!Params(table) = Keyed(table) BY <1>2, ParamsAre DEF Agree
<1>4. /\ slot' = slot
      /\ table' = IF on THEN Keyed(table) ELSE Slot!Merged(table, "enabled", "false")
      /\ live' = [live EXCEPT !.on = on]
      /\ reply' = [op |-> "set_enabled", ok |-> TRUE]
  BY <1>3 DEF Slot!SetEnabled
<1>5. Keyed(table') = Keyed(table) /\ Flag(table') = IF on THEN "true" ELSE "false"
  <2>1. CASE on
    <3>1. table' = [k \in DOMAIN table \ {"enabled"} |-> table[k]] BY <2>1, <1>4 DEF Keyed
    <3>2. DOMAIN table' = DOMAIN table \ {"enabled"} BY <3>1
    <3>3. DOMAIN table' \ {"enabled"} = DOMAIN table \ {"enabled"} /\ "enabled" \notin DOMAIN table' BY <3>2
    <3>4. Keyed(table') = [k \in DOMAIN table \ {"enabled"} |-> table'[k]] BY <3>3 DEF Keyed
    <3> QED BY <2>1, <3>1, <3>3, <3>4 DEF Keyed, Flag
  <2>2. CASE ~on
    <3>1. table' = [k \in {"enabled"} \cup DOMAIN table |-> IF k \in {"enabled"} THEN "false" ELSE table[k]]
      BY <2>2, <1>4 DEF Slot!Merged, Slot!Over
    <3>2. /\ DOMAIN table' = {"enabled"} \cup DOMAIN table /\ table'["enabled"] = "false"
          /\ \A k \in DOMAIN table \ {"enabled"} : table'[k] = table[k]
      BY <3>1
    <3>3. DOMAIN table' \ {"enabled"} = DOMAIN table \ {"enabled"} BY <3>2
    <3>4. Keyed(table') = [k \in DOMAIN table \ {"enabled"} |-> table'[k]] BY <3>3 DEF Keyed
    <3>5. Keyed(table') = Keyed(table) BY <3>2, <3>4 DEF Keyed
    <3> QED BY <2>2, <3>2, <3>5 DEF Flag
  <2> QED BY <2>1, <2>2
<1>6. Taken(e, table') = Taken(e, table) BY <1>5 DEF Taken
<1>7. live' = [params |-> Slot!Configuration(e, Taken(e, table)), on |-> on] BY <1>2, <1>4 DEF Agree
<1>8. on = (Flag(table') = "true") BY <1>5
<1> HIDE DEF e
<1>9. Agree(e, table', live') BY <1>2, <1>5, <1>6, <1>7, <1>8 DEF Agree
<1>10. Slot!Built(e, table') = [ok |-> TRUE, live |-> live'] BY <1>9, AgreeMeans
<1>11. Slot!RebuildChangesNothing' BY <1>10, <1>4 DEF Slot!RebuildChangesNothing, e
<1>12. SlotTypes' BY <1>1, <1>4, <1>7 DEF SlotTypes, e
<1>13. Slot!OneKeyMoves' /\ Slot!OfferedIsAccepted' BY <1>4 DEF Slot!OneKeyMoves, Slot!OfferedIsAccepted
<1> QED BY <1>11, <1>12, <1>13 DEF SlotInv, Slot!SlotsHold

\* Building the chain again gives the effect that draws.
LEMMA RebuildHolds == ASSUME SlotInv, Slot!Rebuild PROVE SlotInv'
<1>1. Slot!Built(slot.effect, table) = [ok |-> TRUE, live |-> live]
  BY DEF SlotInv, Slot!SlotsHold, Slot!RebuildChangesNothing, Slot!Rebuild
<1>2. live' = live /\ slot' = slot /\ table' = table /\ reply'.op = "rebuild" BY <1>1 DEF Slot!Rebuild
<1>3. SlotTypes' /\ Slot!RebuildChangesNothing' BY <1>1, <1>2 DEF SlotInv, SlotTypes, Slot!RebuildChangesNothing
<1>4. Slot!OneKeyMoves' /\ Slot!OfferedIsAccepted' BY <1>2 DEF Slot!OneKeyMoves, Slot!OfferedIsAccepted
<1> QED BY <1>3, <1>4 DEF SlotInv, Slot!SlotsHold

\* The registries hold the effects with parameters and those without.
LEMMA RegisteredAre == ASSUME NEW section \in Slot!Sections PROVE Slot!Registered(section) \subseteq Tuned \cup Slot!Plain
BY DEF Slot!Sections, Slot!Registered, Slot!MaskEffects, Slot!PlaneEffects, Slot!PostEffects, Tuned, Slot!Plain

\* The first build is of the table, whatever it says, if it can be built.
LEMMA BuildHolds == ASSUME NEW section \in Slot!Sections, NEW e \in Slot!Registered(section), NEW t, Slot!Build(section, e, t)
                    PROVE  SlotInv'
<1>1. /\ slot' = [section |-> section, effect |-> e] /\ table' = t /\ live' = Slot!Built(e, t).live /\ reply' = Slot!Quiet
      /\ Slot!Built(e, t).ok
  BY DEF Slot!Build
<1>2. e \in Tuned \cup Slot!Plain BY RegisteredAre
<1>3. Slot!Built(e, t) = [ok |-> TRUE, live |-> [params |-> Slot!Configuration(e, Taken(e, t)), on |-> Flag(t) = "true"]]
  BY <1>1, BuiltIs
<1>4. live' = [params |-> Slot!Configuration(e, Taken(e, t)), on |-> Flag(t) = "true"] BY <1>1, <1>3
<1>5. slot'.effect = e BY <1>1
<1>6. SlotTypes' BY <1>2, <1>4, <1>5 DEF SlotTypes
<1>7. Slot!RebuildChangesNothing' BY <1>1, <1>3, <1>4, <1>5 DEF Slot!RebuildChangesNothing
<1>8. reply'.op # "set" BY <1>1 DEF Slot!Quiet
<1>9. Slot!OneKeyMoves' /\ Slot!OfferedIsAccepted' BY <1>8 DEF Slot!OneKeyMoves, Slot!OfferedIsAccepted
<1> QED BY <1>6, <1>7, <1>9 DEF SlotInv, Slot!SlotsHold

\* Every command keeps the two one.
LEMMA SlotsStep == ASSUME SlotInv, Slot!Next PROVE SlotInv'
<1>1. CASE \E section \in Slot!Sections : \E e \in Slot!Registered(section) :
             \E t \in Slot!Written(e) : Slot!Build(section, e, t)
  BY <1>1, BuildHolds
<1>2. CASE slot # Slot!Vacant /\ \E pair \in Slot!Sent(slot.effect) : Slot!Set(pair[1], pair[2]) BY <1>2, SetHolds
<1>3. CASE \E on \in BOOLEAN : Slot!SetEnabled(on) BY <1>3, SetEnabledHolds
<1>4. CASE Slot!Rebuild BY <1>4, RebuildHolds
<1> QED BY <1>1, <1>2, <1>3, <1>4 DEF Slot!Next

\* As long as another machine moves, nothing of this one does.
LEMMA SlotsStand == ASSUME SlotInv, UNCHANGED slotVars PROVE SlotInv'
BY DEF slotVars, SlotInv, SlotTypes, Slot!SlotsHold, Slot!RebuildChangesNothing, Slot!OneKeyMoves, Slot!OfferedIsAccepted

\* No effect yet, and no command.
LEMMA SlotsBegin == ASSUME Init PROVE SlotInv
BY DEF Init, AllBegin, Slot!Init, Slot!Quiet, SlotInv, SlotTypes, Slot!SlotsHold, Slot!RebuildChangesNothing,
       Slot!OneKeyMoves, Slot!OfferedIsAccepted

-----------------------------------------------------------------------------
(* The services together. *)

\* The invariants of the five machines, which share no variable.
ServicesInv == PlaneTypes /\ PlaneInv /\ DaemonInv /\ ReportInv /\ StageInv /\ CpuInv

\* A step is one of one machine; the variables of the others stay.
LEMMA OneMachineMoves ==
    ASSUME Next \/ UNCHANGED vars
    PROVE  /\ Daemon!Next \/ UNCHANGED daemonVars
           /\ Report!Next \/ UNCHANGED reportVars
           /\ Stage!Next \/ UNCHANGED stageVars
           /\ Cpu!Next \/ UNCHANGED cpuVars
BY DEF Next, vars

(***************************************************************************)
(* Outages, retry delays, log lines, percentiles and CPU shares are what   *)
(* really happened, whatever the intervals, the capacity of a ring, the    *)
(* threads that come and go and the sizes of the commands; and a client's  *)
(* answers are those to its own commands, each carried out once and in     *)
(* order, whoever closes, times out or is dropped in between.              *)
(***************************************************************************)
THEOREM ServicesKeep == Spec => []ServicesHold
<1>1. Init => ServicesInv
  <2> SUFFICES ASSUME Init PROVE ServicesInv OBVIOUS
  <2>1. PlaneTypes /\ PlaneInv BY PlaneBegins, PlaneAssumption
  <2>2. DaemonInv BY DaemonBegins
  <2>3. ReportInv BY ReporterBegins
  <2>4. StageInv BY StagesBegin
  <2>5. CpuInv BY CpuBegins
  <2> QED BY <2>1, <2>2, <2>3, <2>4, <2>5 DEF ServicesInv
<1>2. ServicesInv /\ [Next]_vars => ServicesInv'
  <2> SUFFICES ASSUME ServicesInv, Next \/ UNCHANGED vars PROVE ServicesInv' OBVIOUS
  <2>0. PlaneTypes /\ PlaneInv /\ DaemonInv /\ ReportInv /\ StageInv /\ CpuInv BY DEF ServicesInv
  <2>1. (PlaneTypes /\ PlaneInv)' BY <2>0, PlaneSteps
  <2>2. DaemonInv' BY <2>0, OneMachineMoves, DaemonSteps, DaemonStands
  <2>3. ReportInv' BY <2>0, OneMachineMoves, ReporterSteps, ReporterStands
  <2>4. StageInv' BY <2>0, OneMachineMoves, StagesStep, StagesStand
  <2>5. CpuInv' BY <2>0, OneMachineMoves, CpuSteps, CpuStands
  <2> QED BY <2>1, <2>2, <2>3, <2>4, <2>5 DEF ServicesInv
<1>3. ServicesInv => ServicesHold
  <2> SUFFICES ASSUME ServicesInv PROVE ServicesHold OBVIOUS
  <2>0. PlaneTypes /\ PlaneInv /\ DaemonInv /\ ReportInv /\ StageInv /\ CpuInv BY DEF ServicesInv
  <2>1. Plane!ControlPlaneHolds BY <2>0, PlaneAnswers
  <2>2. Daemon!AutoInputHolds BY <2>0, DaemonTells
  <2>3. Report!ReporterHolds BY <2>0 DEF ReportInv
  <2>4. Stage!StagesHold BY <2>0, StagesTell
  <2>5. Cpu!CpuHolds BY <2>0 DEF CpuInv
  <2> QED BY <2>1, <2>2, <2>3, <2>4, <2>5 DEF ServicesHold
<1> QED BY <1>1, <1>2, <1>3, PTL DEF Spec

-----------------------------------------------------------------------------
(* The effects, their tables and the engines together. *)

\* The invariants of the three machines.
EffectsInv == EffectInv /\ SlotInv /\ EngineInv

\* A step of one of the three leaves the other two alone.
LEMMA OneOfThreeMoves ==
    ASSUME Next \/ UNCHANGED vars
    PROVE  /\ Effect!Next \/ UNCHANGED effectVars
           /\ Slot!Next \/ UNCHANGED slotVars
           /\ Engine!Next \/ UNCHANGED engineVars
BY DEF Next, vars

(***************************************************************************)
(* Whatever the frames and scenes: an effect draws what its configuration  *)
(* says; the table that is saved and the effect that draws are one, after  *)
(* any commands, refused ones among them; and an engine reports the        *)
(* backend it runs on and refuses what does not match its sidecar.         *)
(***************************************************************************)
THEOREM EffectsKeep == Spec => []EffectsHold
<1>0. FrameSizes \subseteq Pair BY FramesAssumption DEF FramesAssumption, Pair
<1>1. Init => EffectsInv
  <2> SUFFICES ASSUME Init PROVE EffectsInv OBVIOUS
  <2> QED BY EffectsBegin, SlotsBegin, EnginesBegin DEF EffectsInv
<1>2. EffectsInv /\ [Next]_vars => EffectsInv'
  <2> SUFFICES ASSUME EffectsInv, Next \/ UNCHANGED vars PROVE EffectsInv' OBVIOUS
  <2>0. EffectInv /\ SlotInv /\ EngineInv BY DEF EffectsInv
  <2>1. EffectInv' BY <1>0, <2>0, OneOfThreeMoves, EffectsStep, EffectsStand
  <2>2. SlotInv' BY <2>0, OneOfThreeMoves, SlotsStep, SlotsStand
  <2>3. EngineInv' BY <2>0, OneOfThreeMoves, EnginesStep
  <2> QED BY <2>1, <2>2, <2>3 DEF EffectsInv
<1>3. EffectsInv => EffectsHold
  <2> SUFFICES ASSUME EffectsInv PROVE EffectsHold OBVIOUS
  <2>0. EffectInv /\ SlotInv /\ EngineInv BY DEF EffectsInv
  <2>1. Effect!EffectsKeepContract BY <2>0, EffectsTell
  <2>2. Slot!SlotsHold BY <2>0 DEF SlotInv
  <2>3. Engine!EnginesHold BY <2>0, EnginesTell
  <2> QED BY <2>1, <2>2, <2>3 DEF EffectsHold
<1> QED BY <1>1, <1>2, <1>3, PTL DEF Spec

-----------------------------------------------------------------------------
(* The levels of exposure_correct: sums over a histogram. *)

\* The kernels.
Pixel == INSTANCE GpuKernels

\* A product with a weight is ordered as what is weighed.
LEMMA WeighedOrdered == ASSUME NEW a \in Int, NEW b \in Int, NEW k \in Nat, a <= b PROVE a * k <= b * k /\ a * k \in Int /\ b * k \in Int
<1>1. PICK e \in Nat : b = a + e BY SMT
<1>2. b * k = a * k + e * k /\ e * k \in Nat /\ a * k \in Int BY <1>1
<1> QED BY <1>2

\* What Min gives for a set of numbers.
LEMMA MinOf == ASSUME NEW S \in SUBSET Nat, S # {} PROVE Pixel!Min(S) \in S /\ \A k \in S : Pixel!Min(S) <= k
<1>1. \E m \in S : \A k \in S : m <= k BY Smallest
<1> QED BY <1>1 DEF Pixel!Min

\* A sum of naturals is one.
LEMMA SumsPositive == ASSUME NEW S, IsFiniteSet(S), NEW f, \A x \in S : f[x] \in Nat PROVE Cpu!SumFunctionOnSet(f, S) \in Nat
<1> DEFINE Sum(s) == Cpu!SumFunctionOnSet(f, s)
           T == {n \in Nat : \E s \in SUBSET S : Cardinality(s) = n /\ ~ (Sum(s) \in Nat)}
<1>0. \A x \in S : f[x] \in Int OBVIOUS
<1>1. \A s \in SUBSET S : s = {} => Sum(s) = 0 BY <1>0, SumOfSubsets
<1>2. \A s \in SUBSET S, x \in S : x \in s => Sum(s) = f[x] + Sum(s \ {x}) BY <1>0, SumWithout
<1> HIDE DEF Sum
<1>c. \A s \in SUBSET S : IsFiniteSet(s) /\ Cardinality(s) \in Nat BY FS_Subset, FS_CardinalityType
<1>r. \A s \in SUBSET S, x \in S : x \in s => Cardinality(s \ {x}) = Cardinality(s) - 1 BY <1>c, SmallerSet
<1>3. T = {}
  <2> SUFFICES ASSUME T # {} PROVE FALSE OBVIOUS
  <2>1. PICK m \in T : \A k \in T : m <= k BY Smallest
  <2>2. PICK s \in SUBSET S : Cardinality(s) = m /\ ~ (Sum(s) \in Nat) OBVIOUS
  <2>3. PICK x \in S : x \in s BY <1>1, <2>2
  <2>4. PICK t \in SUBSET S : t = s \ {x} OBVIOUS
  <2>5. m \in Nat /\ Cardinality(t) = m - 1 /\ Cardinality(t) \in Nat BY <1>c, <1>r, <2>2, <2>3, <2>4
  <2>6. m - 1 \notin T /\ m - 1 \in Nat BY <2>1, <2>5
  <2>7. Sum(t) \in Nat BY <2>5, <2>6
  <2> HIDE DEF T
  <2> QED BY <1>2, <2>2, <2>3, <2>4, <2>7
<1>4. Sum(S) \in Nat BY <1>3, <1>c
<1> QED BY <1>4 DEF Sum

(***************************************************************************)
(* exposure_correct: whatever the histogram and the percentages, both      *)
(* levels are found, and the lower one is not above the higher one.        *)
(***************************************************************************)
LEMMA PercentilesOrdered ==
    ASSUME NEW hist, DOMAIN hist \subseteq 0..255, \A v \in DOMAIN hist : hist[v] \in Nat,
           NEW low \in 0..100, NEW high \in low..100
    PROVE  LET p == Pixel!Percentiles(hist, low, high)
           IN  p.low \in 0..255 /\ p.high \in 0..255 /\ p.low <= p.high
<1> DEFINE UpTo(i) == Pixel!MapThenSumSet(LAMBDA v : hist[v], {v \in DOMAIN hist : v <= i})
           Reaches(t) == {i \in 0..255 : UpTo(i) >= t}
<1>0. \A i \in 0..255 : UpTo(i) \in Nat
  <2> TAKE i \in 0..255
  <2> DEFINE S == {v \in DOMAIN hist : v <= i}
  <2>1. IsFiniteSet(S)
    <3>1. 0 \in Int /\ 255 \in Int OBVIOUS
    <3>2. IsFiniteSet(0..255) BY <3>1, FS_Interval
    <3>3. S \subseteq 0..255 OBVIOUS
    <3> QED BY <3>2, <3>3, FS_Subset
  <2>2. UpTo(i) = Cpu!SumFunctionOnSet(hist, S)
    BY DEF Pixel!MapThenSumSet, Pixel!MapThenFoldSet, Cpu!SumFunctionOnSet, Cpu!FoldFunctionOnSet, Cpu!MapThenFoldSet
  <2>3. Cpu!SumFunctionOnSet(hist, S) \in Nat BY <2>1, SumsPositive
  <2> QED BY <2>2, <2>3
<1>1. PICK total \in Nat : total = UpTo(255)
  <2>1. UpTo(255) \in Nat BY <1>0
  <2> QED BY <2>1
<1>2. \A pct \in 0..100 : Pixel!Rounded(total * pct, 100) \in Int /\ Pixel!Rounded(total * pct, 100) <= total
  <2> TAKE pct \in 0..100
  <2>1. pct * total <= 100 * total /\ pct * total \in Int BY WeighedOrdered
  <2>2. PICK a \in Int : a = total * pct /\ a <= 100 * total
    <3>1. total * pct = pct * total OBVIOUS
    <3> QED BY <2>1, <3>1
  <2>3. (2 * a + 100) \div 200 \in Int /\ (2 * a + 100) \div 200 <= total BY <2>2
  <2>4. Pixel!Rounded(total * pct, 100) = (2 * a + 100) \div 200 BY <2>2 DEF Pixel!Rounded
  <2> QED BY <2>3, <2>4
<1>3. Pixel!Rounded(total * low, 100) <= Pixel!Rounded(total * high, 100)
  <2>1. low * total <= high * total /\ low * total \in Int /\ high * total \in Int BY WeighedOrdered
  <2>2. PICK a \in Int, b \in Int : a = total * low /\ b = total * high /\ a <= b
    <3>1. total * low = low * total /\ total * high = high * total OBVIOUS
    <3> QED BY <2>1, <3>1
  <2>3. (2 * a + 100) \div 200 <= (2 * b + 100) \div 200 BY <2>2
  <2> QED BY <2>2, <2>3 DEF Pixel!Rounded
<1>4. Pixel!Percentiles(hist, low, high) =
         IF total = 0 THEN [low |-> 0, high |-> 255]
         ELSE [low |-> Pixel!Min(Reaches(Pixel!Rounded(total * low, 100))),
               high |-> Pixel!Min(Reaches(Pixel!Rounded(total * high, 100)))]
  BY <1>1 DEF Pixel!Percentiles
<1>5. \A i \in 0..255, t \in Int : i \in Reaches(t) <=> UpTo(i) >= t OBVIOUS
<1>6. \A t \in Int : Reaches(t) \subseteq 0..255 OBVIOUS
<1> HIDE DEF UpTo, Reaches
<1>7. \A t \in Int : t <= total => /\ Pixel!Min(Reaches(t)) \in Reaches(t) /\ \A k \in Reaches(t) : Pixel!Min(Reaches(t)) <= k
  <2> SUFFICES ASSUME NEW t \in Int, t <= total
               PROVE Pixel!Min(Reaches(t)) \in Reaches(t) /\ \A k \in Reaches(t) : Pixel!Min(Reaches(t)) <= k
    OBVIOUS
  <2>1. 255 \in Reaches(t) BY <1>1, <1>5
  <2>2. Reaches(t) \in SUBSET Nat BY <1>6
  <2> QED BY <2>1, <2>2, MinOf
<1>8. PICK t \in Int, u \in Int : /\ t = Pixel!Rounded(total * low, 100) /\ t <= total
                                  /\ u = Pixel!Rounded(total * high, 100) /\ u <= total /\ t <= u
  <2>1. low \in 0..100 /\ high \in 0..100 OBVIOUS
  <2> QED BY <1>2, <1>3, <2>1
<1>9. PICK i, j : i = Pixel!Min(Reaches(t)) /\ j = Pixel!Min(Reaches(u)) OBVIOUS
<1>10. /\ i \in Reaches(t) /\ \A k \in Reaches(t) : i <= k
       /\ j \in Reaches(u)
  BY <1>7, <1>8, <1>9
<1>11. i \in 0..255 /\ j \in 0..255 BY <1>6, <1>10
<1>12. j \in Reaches(t)
  <2>1. UpTo(j) >= u BY <1>5, <1>10, <1>11
  <2>2. UpTo(j) \in Nat BY <1>0, <1>11
  <2>3. UpTo(j) >= t BY <1>8, <2>1, <2>2
  <2> QED BY <1>5, <1>11, <2>3
<1> QED BY <1>4, <1>8, <1>9, <1>10, <1>11, <1>12
=============================================================================

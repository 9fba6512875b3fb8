--------------------------- MODULE Ledger_proofs ---------------------------
(***************************************************************************)
(* What posting a journal does, for every set of accounts, and how a sum   *)
(* over a finite set of rows changes with one row: the facts that the      *)
(* proofs about the money services rest on.                                *)
(***************************************************************************)
EXTENDS Ledger, FiniteSets, Functions, FiniteSetTheorems, WellFoundedInduction, TLAPS

(* A two-legged journal is an effect on every account.                     *)
LEMMA MoveType ==
  ASSUME NEW from, NEW to, NEW n \in Int
  PROVE  Move(from, to, n) \in Effects
BY DEF Move, Effects

(* Two effects in one journal.                                             *)
LEMMA BothType ==
  ASSUME NEW d \in Effects, NEW e \in Effects
  PROVE  Both(d, e) \in Effects
BY DEF Both, Effects

(* It changes only the accounts that it names.                             *)
LEMMA MoveSpares ==
  ASSUME NEW from, NEW to, NEW n \in Int, NEW a \in Accounts \ {from, to}
  PROVE  Move(from, to, n)[a] = 0
BY DEF Move

(* What posting a journal under a fresh key does.                          *)
LEMMA PostFresh ==
  ASSUME LedgerTypeOK, NEW key, NEW d \in Effects, ~Posted(key), PostJournal(key, d)
  PROVE  /\ LedgerTypeOK'
         /\ DOMAIN journals' = DOMAIN journals \cup {key}
         /\ journals'[key] = d
         /\ \A k \in DOMAIN journals : journals'[k] = journals[k]
         /\ \A a \in Accounts : bal'[a] = bal[a] + d[a]
BY DEF LedgerTypeOK, Posted, PostJournal, Both, Effects

(* What posting does whether or not the key is in use: the key is posted,  *)
(* no other is, and no account to which the journal is not unfavourable    *)
(* has less than before.                                                   *)
LEMMA PostAny ==
  ASSUME LedgerTypeOK, NEW key, NEW d \in Effects, PostJournal(key, d)
  PROVE  /\ LedgerTypeOK'
         /\ DOMAIN journals' = DOMAIN journals \cup {key}
         /\ \A a \in Accounts : d[a] >= 0 => bal'[a] >= bal[a]
<1>1. CASE Posted(key)
  <2>1. journals' = journals /\ bal' = bal
    BY <1>1 DEF PostJournal, ledgerVars
  <2>2. bal \in [Accounts -> Int]
    BY DEF LedgerTypeOK, Effects
  <2>3. LedgerTypeOK'
    BY <2>1 DEF LedgerTypeOK
  <2>4. DOMAIN journals' = DOMAIN journals \cup {key}
    BY <2>1, <1>1 DEF Posted
  <2> QED
    BY <2>1, <2>2, <2>3, <2>4
<1>2. CASE ~Posted(key)
  <2>1. /\ LedgerTypeOK'
        /\ DOMAIN journals' = DOMAIN journals \cup {key}
        /\ \A a \in Accounts : bal'[a] = bal[a] + d[a]
    BY <1>2, PostFresh
  <2>2. bal \in [Accounts -> Int] /\ d \in [Accounts -> Int]
    BY DEF LedgerTypeOK, Effects
  <2> QED
    BY <2>1, <2>2
<1> QED
  BY <1>1, <1>2

(* A two-legged journal has been posted, account by account.               *)
Shifted(from, to, n) == \A a \in Accounts : bal'[a] = bal[a] + Move(from, to, n)[a]

LEMMA ShiftedAt ==
  ASSUME LedgerTypeOK, NEW from, NEW to, NEW n \in Int, Shifted(from, to, n), NEW a \in Accounts
  PROVE  /\ bal[a] \in Int
         /\ bal'[a] = bal[a] + (IF a = to THEN n ELSE 0) - (IF a = from THEN n ELSE 0)
<1>1. bal[a] \in Int
  BY DEF LedgerTypeOK, Effects
<1>2. Move(from, to, n)[a] = (IF a = to THEN n ELSE 0) - (IF a = from THEN n ELSE 0)
  BY DEF Move
<1>3. bal'[a] = bal[a] + Move(from, to, n)[a]
  BY DEF Shifted
<1> QED
  BY <1>1, <1>2, <1>3

-----------------------------------------------------------------------------
(* Sums over finite sets: the SUM(...) of the code's queries.              *)

(* A nonempty family of subsets of a finite set has a least member: the    *)
(* induction over finite sets, in first-order form.                        *)
LEMMA LeastSet ==
  ASSUME NEW S, IsFiniteSet(S), NEW B, B \subseteq SUBSET S, B # {}
  PROVE  \E T \in B : \A U \in B : U \subseteq T => U = T
<1>1. FiniteSubsetsOf(S) = SUBSET S
  BY FS_FiniteSubsetsOfFinite
<1>2. IsWellFoundedOn(StrictSubsetOrdering(S), SUBSET S)
  BY <1>1, FS_StrictSubsetOrderingWellFounded
<1>3. PICK T \in B : \A U \in B : ~(<<U, T>> \in StrictSubsetOrdering(S))
  BY <1>2, WFMin
<1> QED
  BY <1>3 DEF StrictSubsetOrdering

(* Of finitely many things that are compared all with all there is a first.*)
LEMMA FirstExists ==
  ASSUME NEW M, IsFiniteSet(M), M # {}, NEW R, R \subseteq M \X M,
         \A x, y \in M : <<x, y>> \in R \/ <<y, x>> \in R,
         \A x, y, z \in M : <<x, y>> \in R /\ <<y, z>> \in R => <<x, z>> \in R
  PROVE  \E x \in M : \A y \in M : <<x, y>> \in R
<1> DEFINE B == {T \in SUBSET M : T # {} /\ ~\E x \in T : \A y \in T : <<x, y>> \in R}
<1>1. SUFFICES ASSUME B # {} PROVE FALSE
  OBVIOUS
<1>2. B \subseteq SUBSET M
  OBVIOUS
<1>3. PICK T \in B : \A U \in B : U \subseteq T => U = T
  <2> HIDE DEF B
  <2> QED
    BY <1>1, <1>2, LeastSet
<1>4. PICK x \in T : TRUE
  OBVIOUS
<1>5. T \ {x} \notin B
  <2> HIDE DEF B
  <2>1. T \ {x} # T /\ T \ {x} \subseteq T
    BY <1>4
  <2> QED
    BY <1>3, <2>1
<1>6. <<x, x>> \in R
  BY <1>2, <1>3, <1>4
<1>7. T \ {x} # {}
  <2>1. SUFFICES ASSUME T = {x} PROVE FALSE
    BY <1>4
  <2> QED
    BY <1>3, <1>6, <2>1
<1>8. PICK y \in T \ {x} : \A z \in T \ {x} : <<y, z>> \in R
  BY <1>5, <1>7
<1>9. <<x, y>> \in R \/ <<y, x>> \in R
  BY <1>2, <1>3, <1>4, <1>8
<1>10. CASE <<y, x>> \in R
  BY <1>3, <1>8, <1>10
<1>11. CASE <<x, y>> \in R
  <2>1. \A z \in T : <<x, z>> \in R
    BY <1>2, <1>3, <1>4, <1>6, <1>8, <1>11
  <2> QED
    BY <1>3, <1>4, <2>1
<1> QED
  BY <1>9, <1>10, <1>11

(* SumFunctionOnSet(f, S) is entry S of a table over the subsets of S that *)
(* takes out one chosen member at a time.                                  *)
OneOf(s) == CHOOSE x \in s : TRUE

SumStep(f, g, s) == IF s = {} THEN 0 ELSE f[OneOf(s)] + g[s \ {OneOf(s)}]
SumTable(f, S, g) == g = [s \in SUBSET S |-> SumStep(f, g, s)]

(* The operator of the Functions module, by that table.                    *)
LEMMA SumIsChosen ==
  ASSUME NEW f, NEW S
  PROVE  SumFunctionOnSet(f, S) = (CHOOSE g : SumTable(f, S, g))[S]
BY DEF SumFunctionOnSet, FoldFunctionOnSet, MapThenFoldSet, SumTable, SumStep, OneOf

(* The table of a set holds the table of each of its subsets.              *)
LEMMA SumsRestrict ==
  ASSUME NEW f, NEW S, NEW g, SumTable(f, S, g), NEW T \in SUBSET S
  PROVE  SumTable(f, T, [s \in SUBSET T |-> g[s]])
<1> DEFINE h == [s \in SUBSET T |-> g[s]]
<1>1. ASSUME NEW s \in SUBSET T PROVE g[s] = SumStep(f, h, s)
  <2>1. g[s] = SumStep(f, g, s)
    BY DEF SumTable
  <2>2. s \ {OneOf(s)} \in SUBSET T
    OBVIOUS
  <2> QED
    BY <2>1, <2>2 DEF SumStep
<1>2. h = [s \in SUBSET T |-> SumStep(f, h, s)]
  BY <1>1
<1> QED
  BY <1>2 DEF SumTable

(* The chosen member is a member.                                          *)
LEMMA OneOfIn == ASSUME NEW s, s # {} PROVE OneOf(s) \in s
BY DEF OneOf

(* A finite set has at most one table of sums ...                          *)
LEMMA SumsUnique ==
  ASSUME NEW f, NEW S, IsFiniteSet(S), NEW g, NEW h, SumTable(f, S, g), SumTable(f, S, h)
  PROVE  g = h
<1> DEFINE B == {s \in SUBSET S : g[s] # h[s]}
<1>1. B = {}
  <2>1. SUFFICES ASSUME B # {} PROVE FALSE
    OBVIOUS
  <2>a. B \subseteq SUBSET S
    OBVIOUS
<2>2. PICK T \in B : \A U \in B : U \subseteq T => U = T
    <3> HIDE DEF B
    <3> QED
      BY <2>1, <2>a, LeastSet
  <2>3. g[T] = SumStep(f, g, T) /\ h[T] = SumStep(f, h, T)
    BY DEF SumTable
  <2>4. T # {}
    BY <2>3 DEF SumStep
  <2>5. g[T \ {OneOf(T)}] = h[T \ {OneOf(T)}]
    BY <2>2, <2>4, OneOfIn
  <2> QED
    BY <2>3, <2>5 DEF SumStep
<1>2. g = [s \in SUBSET S |-> g[s]] /\ h = [s \in SUBSET S |-> h[s]]
  BY DEF SumTable
<1> QED
  BY <1>1, <1>2

(* ... and at least one.                                                   *)
LEMMA SumsExists ==
  ASSUME NEW f, NEW S, IsFiniteSet(S)
  PROVE  \E g : SumTable(f, S, g)
<1> DEFINE B == {s \in SUBSET S : ~ \E g : SumTable(f, s, g)}
<1>1. SUFFICES B = {}
  OBVIOUS
<1>2. SUFFICES ASSUME B # {} PROVE FALSE
  OBVIOUS
<1>a. B \subseteq SUBSET S
  OBVIOUS
<1>3. PICK T \in B : \A U \in B : U \subseteq T => U = T
  <2> HIDE DEF B
  <2> QED
    BY <1>2, <1>a, LeastSet
<1> DEFINE h(s) == CHOOSE g : SumTable(f, s, g)
           k == [s \in SUBSET T |-> IF s = {} THEN 0 ELSE f[OneOf(s)] + h(s \ {OneOf(s)})[s \ {OneOf(s)}]]
<1>4. ASSUME NEW s \in SUBSET T, s # T PROVE SumTable(f, s, h(s))
  <2>1. \E g : SumTable(f, s, g)
    BY <1>3, <1>4
  <2> QED
    BY <2>1
<1>5. ASSUME NEW s \in SUBSET T, s # T, s # {} PROVE h(s)[s] = k[s]
  <2> DEFINE u == s \ {OneOf(s)}
  <2>1. SumTable(f, s, h(s))
    BY <1>4, <1>5
  <2>2. u \in SUBSET s /\ u \in SUBSET T /\ u # T
    BY <1>5, OneOfIn
  <2>3. SumTable(f, u, h(u))
    BY <1>4, <2>2
  <2>4. SumTable(f, u, [v \in SUBSET u |-> h(s)[v]])
    BY <2>1, <2>2, SumsRestrict
  <2>5. IsFiniteSet(u)
    BY <2>2, FS_Subset
  <2>6. h(u) = [v \in SUBSET u |-> h(s)[v]]
    BY <2>3, <2>4, <2>5, SumsUnique
  <2>7. h(u)[u] = h(s)[u]
    BY <2>6
  <2>8. h(s)[s] = f[OneOf(s)] + h(s)[u]
    BY <2>1, <1>5 DEF SumTable, SumStep
  <2> QED
    BY <2>7, <2>8, <1>5
<1>6. ASSUME NEW s \in SUBSET T, s # {} PROVE h(s \ {OneOf(s)})[s \ {OneOf(s)}] = k[s \ {OneOf(s)}]
  <2> DEFINE u == s \ {OneOf(s)}
  <2>1. u \in SUBSET T /\ u # T
    BY <1>6, OneOfIn
  <2>2. CASE u = {}
    <3>1. SumTable(f, u, h(u))
      BY <1>4, <2>1
    <3>2. h(u)[u] = 0
      BY <3>1, <2>2 DEF SumTable, SumStep
    <3> QED
      BY <3>2, <2>2
  <2>3. CASE u # {}
    BY <2>1, <2>3, <1>5
  <2> QED
    BY <2>2, <2>3
<1>7. SumTable(f, T, k)
  <2>1. ASSUME NEW s \in SUBSET T PROVE k[s] = SumStep(f, k, s)
    <3>1. CASE s = {}
      BY <3>1 DEF SumStep
    <3>2. CASE s # {}
      <4>1. k[s] = f[OneOf(s)] + h(s \ {OneOf(s)})[s \ {OneOf(s)}]
        BY <3>2
      <4>2. h(s \ {OneOf(s)})[s \ {OneOf(s)}] = k[s \ {OneOf(s)}]
        BY <3>2, <1>6
      <4> HIDE DEF h, k
      <4> QED
        BY <4>1, <4>2, <3>2 DEF SumStep
    <3> QED
      BY <3>1, <3>2
  <2> QED
    BY <2>1 DEF SumTable
<1> QED
  BY <1>7

(* Nothing adds up to nothing.                                             *)
LEMMA SumEmpty == ASSUME NEW f PROVE SumFunctionOnSet(f, {}) = 0
<1>1. PICK g : SumTable(f, {}, g)
  BY SumsExists, FS_EmptySet
<1> DEFINE c == CHOOSE x : SumTable(f, {}, x)
<1>2. SumTable(f, {}, c)
  BY <1>1
<1>3. c[{}] = 0
  BY <1>2 DEF SumTable, SumStep
<1> QED
  BY <1>3, SumIsChosen

(* The defining equation: the chosen member and the sum of the others.     *)
LEMMA SumPicked ==
  ASSUME NEW f, NEW S, IsFiniteSet(S), S # {}
  PROVE  SumFunctionOnSet(f, S) = f[OneOf(S)] + SumFunctionOnSet(f, S \ {OneOf(S)})
<1> DEFINE u == S \ {OneOf(S)}
           c(s) == CHOOSE g : SumTable(f, s, g)
<1>1. IsFiniteSet(u)
  BY FS_Subset
<1>2. SumTable(f, S, c(S))
  BY SumsExists
<1>3. SumTable(f, u, c(u))
  BY SumsExists, <1>1
<1>4. SumTable(f, u, [v \in SUBSET u |-> c(S)[v]])
  BY <1>2, SumsRestrict
<1>5. c(u) = [v \in SUBSET u |-> c(S)[v]]
  BY <1>1, <1>3, <1>4, SumsUnique
<1>6. c(u)[u] = c(S)[u]
  BY <1>5
<1>7. c(S)[S] = f[OneOf(S)] + c(S)[u]
  BY <1>2 DEF SumTable, SumStep
<1>8. SumFunctionOnSet(f, S) = c(S)[S] /\ SumFunctionOnSet(f, u) = c(u)[u]
  BY SumIsChosen
<1> QED
  BY <1>6, <1>7, <1>8

(* Integers add up to an integer.                                          *)
LEMMA SumType ==
  ASSUME NEW f, NEW S, IsFiniteSet(S), \A x \in S : f[x] \in Int
  PROVE  SumFunctionOnSet(f, S) \in Int
<1> DEFINE B == {s \in SUBSET S : SumFunctionOnSet(f, s) \notin Int}
<1>1. SUFFICES ASSUME B # {} PROVE FALSE
  OBVIOUS
<1>a. B \subseteq SUBSET S
  OBVIOUS
<1>2. PICK T \in B : \A U \in B : U \subseteq T => U = T
  <2> HIDE DEF B
  <2> QED
    BY <1>1, <1>a, LeastSet
<1>3. T # {}
  BY SumEmpty
<1>4. OneOf(T) \in T /\ IsFiniteSet(T)
  BY <1>3, OneOfIn, FS_Subset
<1>5. SumFunctionOnSet(f, T \ {OneOf(T)}) \in Int
  BY <1>2, <1>4
<1> QED
  BY <1>3, <1>4, <1>5, SumPicked

(* The sum does not depend on which member is taken out first.             *)
LEMMA SumTakeOut ==
  ASSUME NEW f, NEW S, IsFiniteSet(S), \A x \in S : f[x] \in Int, NEW a \in S
  PROVE  SumFunctionOnSet(f, S) = f[a] + SumFunctionOnSet(f, S \ {a})
<1> DEFINE B == {s \in SUBSET S : \E x \in s : SumFunctionOnSet(f, s) # f[x] + SumFunctionOnSet(f, s \ {x})}
<1>1. SUFFICES ASSUME B # {} PROVE FALSE
  OBVIOUS
<1>a. B \subseteq SUBSET S
  OBVIOUS
<1>2. PICK T \in B : \A U \in B : U \subseteq T => U = T
  <2> HIDE DEF B
  <2> QED
    BY <1>1, <1>a, LeastSet
<1>3. PICK x \in T : SumFunctionOnSet(f, T) # f[x] + SumFunctionOnSet(f, T \ {x})
  BY <1>2
<1> DEFINE p == OneOf(T)
<1>4. p \in T /\ IsFiniteSet(T) /\ IsFiniteSet(T \ {x}) /\ IsFiniteSet(T \ {p}) /\ IsFiniteSet((T \ {p}) \ {x})
  BY OneOfIn, FS_Subset
<1>5. SumFunctionOnSet(f, T) = f[p] + SumFunctionOnSet(f, T \ {p})
  BY <1>4, SumPicked
<1>6. x # p
  BY <1>3, <1>5
<1>7. SumFunctionOnSet(f, T \ {p}) = f[x] + SumFunctionOnSet(f, (T \ {p}) \ {x})
  <2>1. T \ {p} \notin B
    BY <1>2, <1>4
  <2> QED
    BY <2>1, <1>6
<1>8. SumFunctionOnSet(f, T \ {x}) = f[p] + SumFunctionOnSet(f, (T \ {x}) \ {p})
  <2>1. T \ {x} \notin B
    BY <1>2
  <2> QED
    BY <2>1, <1>4, <1>6
<1>9. (T \ {x}) \ {p} = (T \ {p}) \ {x}
  OBVIOUS
<1>10. SumFunctionOnSet(f, (T \ {p}) \ {x}) \in Int /\ f[x] \in Int /\ f[p] \in Int
  BY <1>4, SumType
<1>11. SumFunctionOnSet(f, T) = f[x] + SumFunctionOnSet(f, T \ {x})
  <2>1. SumFunctionOnSet(f, T) = f[p] + (f[x] + SumFunctionOnSet(f, (T \ {p}) \ {x}))
    BY <1>5, <1>7
  <2>2. SumFunctionOnSet(f, T \ {x}) = f[p] + SumFunctionOnSet(f, (T \ {p}) \ {x})
    BY <1>8, <1>9
  <2>3. \A i, j, k \in Int : i + (j + k) = j + (i + k)
    OBVIOUS
  <2> QED
    BY <2>1, <2>2, <2>3, <1>10
<1> QED
  BY <1>3, <1>11

(* Only the values at the members of the set count.                        *)
LEMMA SumSame ==
  ASSUME NEW S, IsFiniteSet(S), NEW f, NEW g, \A x \in S : f[x] = g[x]
  PROVE  SumFunctionOnSet(f, S) = SumFunctionOnSet(g, S)
<1> DEFINE B == {s \in SUBSET S : SumFunctionOnSet(f, s) # SumFunctionOnSet(g, s)}
<1>1. SUFFICES ASSUME B # {} PROVE FALSE
  OBVIOUS
<1>a. B \subseteq SUBSET S
  OBVIOUS
<1>2. PICK T \in B : \A U \in B : U \subseteq T => U = T
  <2> HIDE DEF B
  <2> QED
    BY <1>1, <1>a, LeastSet
<1>3. T # {}
  BY SumEmpty
<1>4. OneOf(T) \in T /\ IsFiniteSet(T)
  BY <1>3, OneOfIn, FS_Subset
<1>5. SumFunctionOnSet(f, T \ {OneOf(T)}) = SumFunctionOnSet(g, T \ {OneOf(T)})
  BY <1>2, <1>4
<1> QED
  BY <1>3, <1>4, <1>5, SumPicked

(* What is never negative adds up to nothing negative.                     *)
LEMMA SumNat ==
  ASSUME NEW S, IsFiniteSet(S), NEW f, \A x \in S : f[x] \in Nat
  PROVE  SumFunctionOnSet(f, S) \in Nat
<1> DEFINE B == {s \in SUBSET S : SumFunctionOnSet(f, s) \notin Nat}
<1>1. SUFFICES ASSUME B # {} PROVE FALSE
  OBVIOUS
<1>a. B \subseteq SUBSET S
  OBVIOUS
<1>2. PICK T \in B : \A U \in B : U \subseteq T => U = T
  <2> HIDE DEF B
  <2> QED
    BY <1>1, <1>a, LeastSet
<1>3. T # {}
  BY SumEmpty
<1>4. OneOf(T) \in T /\ IsFiniteSet(T)
  BY <1>3, OneOfIn, FS_Subset
<1>5. SumFunctionOnSet(f, T \ {OneOf(T)}) \in Nat
  BY <1>2, <1>4
<1> QED
  BY <1>3, <1>4, <1>5, SumPicked

(* A new member adds its value.                                            *)
LEMMA SumAdd ==
  ASSUME NEW f, NEW S, IsFiniteSet(S), \A x \in S : f[x] \in Int, NEW a, a \notin S, f[a] \in Int
  PROVE  SumFunctionOnSet(f, S \cup {a}) = SumFunctionOnSet(f, S) + f[a]
<1>1. IsFiniteSet(S \cup {a})
  BY FS_AddElement
<1>2. (S \cup {a}) \ {a} = S
  OBVIOUS
<1>3. SumFunctionOnSet(f, S \cup {a}) = f[a] + SumFunctionOnSet(f, S)
  BY <1>1, <1>2, SumTakeOut
<1> QED
  BY <1>3, SumType

(* A change of one member's value changes the sum by as much.              *)
LEMMA SumChange ==
  ASSUME NEW S, IsFiniteSet(S), NEW f, NEW g, NEW a \in S,
         \A x \in S : f[x] \in Int /\ g[x] \in Int,
         \A x \in S \ {a} : f[x] = g[x]
  PROVE  SumFunctionOnSet(g, S) = SumFunctionOnSet(f, S) + g[a] - f[a]
<1>1. IsFiniteSet(S \ {a})
  BY FS_RemoveElement
<1>2. /\ SumFunctionOnSet(f, S) = f[a] + SumFunctionOnSet(f, S \ {a})
      /\ SumFunctionOnSet(g, S) = g[a] + SumFunctionOnSet(g, S \ {a})
  BY SumTakeOut
<1>3. SumFunctionOnSet(f, S \ {a}) = SumFunctionOnSet(g, S \ {a})
  BY <1>1, SumSame
<1>4. SumFunctionOnSet(f, S \ {a}) \in Int
  BY <1>1, SumType
<1> QED
  BY <1>2, <1>3, <1>4
(* One member joins or leaves the set, or stays what it was.               *)
LEMMA SumSetChange ==
  ASSUME NEW f, NEW S, NEW T, NEW a, IsFiniteSet(S), IsFiniteSet(T),
         \A x \in S \cup T \cup {a} : f[x] \in Int,
         S \ {a} = T \ {a}
  PROVE  SumFunctionOnSet(f, T) = SumFunctionOnSet(f, S)
                                  + (IF a \in T THEN f[a] ELSE 0)
                                  - (IF a \in S THEN f[a] ELSE 0)
<1>1. f[a] \in Int /\ \A x \in S \ {a} : f[x] \in Int
  OBVIOUS
<1>2. PICK r \in Int : r = SumFunctionOnSet(f, S \ {a})
  <2>1. IsFiniteSet(S \ {a})
    BY FS_RemoveElement
  <2> QED
    BY <1>1, <2>1, SumType
<1>3. ASSUME NEW U, IsFiniteSet(U), U \ {a} = S \ {a}, \A x \in U : f[x] \in Int
      PROVE  SumFunctionOnSet(f, U) = r + (IF a \in U THEN f[a] ELSE 0)
  <2>1. CASE a \in U
    <3>1. SumFunctionOnSet(f, U) = f[a] + SumFunctionOnSet(f, U \ {a})
      BY <1>3, <2>1, SumTakeOut
    <3>2. SumFunctionOnSet(f, U) = f[a] + r
      BY <1>2, <1>3, <3>1
    <3> QED
      BY <1>1, <2>1, <3>2
  <2>2. CASE a \notin U
    <3>1. U = S \ {a}
      BY <1>3, <2>2
    <3>2. SumFunctionOnSet(f, U) = r
      BY <1>2, <3>1
    <3> QED
      BY <2>2, <3>2
  <2> QED
    BY <2>1, <2>2
<1>4. SumFunctionOnSet(f, S) = r + (IF a \in S THEN f[a] ELSE 0)
  BY <1>3
<1>5. SumFunctionOnSet(f, T) = r + (IF a \in T THEN f[a] ELSE 0)
  BY <1>3
<1> QED
  BY <1>1, <1>4, <1>5
(* A set's sum is that of a part and that of the rest.                     *)
LEMMA SumSplit ==
  ASSUME NEW f, NEW S, IsFiniteSet(S), \A x \in S : f[x] \in Int, NEW P \in SUBSET S
  PROVE  SumFunctionOnSet(f, S) = SumFunctionOnSet(f, P) + SumFunctionOnSet(f, S \ P)
<1> DEFINE B == {U \in SUBSET S :
                   SumFunctionOnSet(f, S) # SumFunctionOnSet(f, U) + SumFunctionOnSet(f, S \ U)}
<1>1. SUFFICES ASSUME B # {} PROVE FALSE
  OBVIOUS
<1>2. B \subseteq SUBSET S
  OBVIOUS
<1>3. PICK T \in B : \A U \in B : U \subseteq T => U = T
  <2> HIDE DEF B
  <2> QED
    BY <1>1, <1>2, LeastSet
<1>4. T # {}
  <2>1. SumFunctionOnSet(f, {}) = 0 /\ SumFunctionOnSet(f, S) \in Int
    BY SumEmpty, SumType
  <2>2. S \ {} = S
    OBVIOUS
  <2>3. SumFunctionOnSet(f, S \ {}) = SumFunctionOnSet(f, S)
    BY <2>2
  <2>4. SumFunctionOnSet(f, S) = SumFunctionOnSet(f, {}) + SumFunctionOnSet(f, S \ {})
    BY <2>1, <2>3
  <2>5. {} \notin B
    BY <2>4
  <2> QED
    BY <2>5
<1>5. PICK a \in T : TRUE
  BY <1>4
<1>6. /\ IsFiniteSet(T) /\ IsFiniteSet(T \ {a}) /\ IsFiniteSet(S \ T) /\ IsFiniteSet(S \ (T \ {a}))
      /\ f[a] \in Int
  BY FS_Subset
<1>7. PICK i \in Int : i = SumFunctionOnSet(f, T \ {a})
  BY <1>6, SumType
<1>8. PICK j \in Int : j = SumFunctionOnSet(f, S \ T)
  BY <1>6, SumType
<1>9. SumFunctionOnSet(f, T) = f[a] + i
  BY <1>6, <1>7, SumTakeOut
<1>10. SumFunctionOnSet(f, S \ (T \ {a})) = f[a] + j
  <2>1. a \in S \ (T \ {a}) /\ (S \ (T \ {a})) \ {a} = S \ T
    OBVIOUS
  <2>2. SumFunctionOnSet(f, S \ (T \ {a})) = f[a] + SumFunctionOnSet(f, (S \ (T \ {a})) \ {a})
    BY <1>6, <2>1, SumTakeOut
  <2> QED
    BY <1>8, <2>1, <2>2
<1>11. SumFunctionOnSet(f, S) = i + (f[a] + j)
  <2>1. T \ {a} \notin B
    BY <1>3
  <2> QED
    BY <1>7, <1>10, <2>1
<1>12. SumFunctionOnSet(f, S) # (f[a] + i) + j
  BY <1>8, <1>9
<1> QED
  BY <1>6, <1>11, <1>12

(* What is never negative adds up to no less over a larger set ...         *)
LEMMA SumGrows ==
  ASSUME NEW f, NEW S, IsFiniteSet(S), \A x \in S : f[x] \in Nat, NEW P \in SUBSET S
  PROVE  SumFunctionOnSet(f, P) <= SumFunctionOnSet(f, S)
<1>1. IsFiniteSet(P) /\ IsFiniteSet(S \ P)
  BY FS_Subset
<1>2. PICK i \in Nat : i = SumFunctionOnSet(f, P)
  BY <1>1, SumNat
<1>3. PICK j \in Nat : j = SumFunctionOnSet(f, S \ P)
  BY <1>1, SumNat
<1>4. SumFunctionOnSet(f, S) = i + j
  <2>1. \A x \in S : f[x] \in Int
    OBVIOUS
  <2> QED
    BY <1>2, <1>3, <2>1, SumSplit
<1> QED
  BY <1>2, <1>3, <1>4

(* ... and over two sets to no less than over their union.                 *)
LEMMA SumUnion ==
  ASSUME NEW f, NEW S, NEW T, IsFiniteSet(S), IsFiniteSet(T), \A x \in S \cup T : f[x] \in Nat
  PROVE  SumFunctionOnSet(f, S \cup T) <= SumFunctionOnSet(f, S) + SumFunctionOnSet(f, T)
<1>1. IsFiniteSet(S \cup T) /\ IsFiniteSet(T \ S)
  BY FS_Union, FS_Subset
<1>2. SumFunctionOnSet(f, S) \in Nat /\ SumFunctionOnSet(f, T) \in Nat /\ SumFunctionOnSet(f, T \ S) \in Nat
  BY <1>1, SumNat
<1>3. SumFunctionOnSet(f, S \cup T) = SumFunctionOnSet(f, S) + SumFunctionOnSet(f, T \ S)
  <2>1. (S \cup T) \ S = T \ S /\ \A x \in S \cup T : f[x] \in Int
    OBVIOUS
  <2>2. SumFunctionOnSet(f, S \cup T) =
          SumFunctionOnSet(f, S) + SumFunctionOnSet(f, (S \cup T) \ S)
    BY <1>1, <2>1, SumSplit
  <2> QED
    BY <2>1, <2>2
<1>4. SumFunctionOnSet(f, T \ S) <= SumFunctionOnSet(f, T)
  BY SumGrows
<1> QED
  BY <1>2, <1>3, <1>4
=============================================================================

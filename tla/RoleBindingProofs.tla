-------------------------- MODULE RoleBindingProofs --------------------------
(***************************************************************************)
(* The single pass of lookupUserAccount picks the binding the strategy     *)
(* documents, and its loop over the roles grants what they add up to, for  *)
(* any rbac section, any claims and any cache of compiled expressions.     *)
(***************************************************************************)
EXTENDS RoleBinding, FiniteSetTheorems, WellFoundedInduction, TLAPS

\* The criteria among the first n that are met.
HitsUpTo(b, n) == {k \in 1 .. n : Matched(Match(b)[k])}

FallbackInv ==
  /\ fallback = 0 => \A c \in 1 .. i - 1 : ~ Catchall(c)
  /\ fallback # 0 => /\ fallback \in 1 .. i - 1
                     /\ Catchall(fallback)
                     /\ \A c \in 1 .. fallback - 1 : ~ Catchall(c)

StrictInv == Strict => best.binding = 0 /\ \A c \in 1 .. i - 1 : ~ Full(c)

BestInv ==
  ~ Strict =>
    /\ best.binding = 0 => /\ best.matches = 0
                           /\ \A c \in 1 .. i - 1 : ~ (Score(c) > 0)
    /\ \A b : b = best.binding /\ b # 0 =>
         /\ b \in 1 .. i - 1
         /\ Score(b) > 0
         /\ best.matches = Score(b)
         /\ best.criteria = Len(Match(b))
         /\ \A c \in 1 .. i - 1 : c # b /\ Score(c) > 0 => Beats(b, c)

CriterionInv ==
  /\ i \in Bindings
  /\ ~ Catchall(i)
  /\ j \in 1 .. Len(Match(i)) + 1
  /\ matches = Cardinality(HitsUpTo(i, j - 1))
  /\ Strict => HitsUpTo(i, j - 1) = 1 .. j - 1

LoopInv ==
  pc \in {"binding", "criterion"} =>
    /\ i <= Len(config.bindings) + 1
    /\ FallbackInv
    /\ StrictInv
    /\ BestInv

IInv ==
  /\ LoopInv
  /\ pc = "criterion" => CriterionInv
  /\ result.status # "none" => pc = "done"
  /\ ChosenIsBest
  /\ DeniedWhenNoneFits
  /\ RoleErrorsExplained

-----------------------------------------------------------------------------
(***************************************************************************)
(* Type correctness.                                                       *)
(***************************************************************************)

\* The counters, apart from the rest of the state.
Counters ==
  /\ i \in Nat \ {0}
  /\ j \in Nat \ {0}
  /\ matches \in Nat
  /\ fallback \in Nat

Records ==
  /\ best.binding \in Nat /\ best.matches \in Nat /\ best.criteria \in Nat
  /\ result.status \in {"none", "granted", "unknown role", "no match"}
  /\ result.binding \in Nat

Selections ==
  /\ config \in Setup
  /\ request \in Requests
  /\ compiled \subseteq Exprs
  /\ pc \in {"idle", "binding", "criterion", "done"}
  /\ pc = "criterion" => i \in Bindings

\* TypeOK is the three parts together.
LEMMA TypeParts == TypeOK <=> Counters /\ Records /\ Selections
  BY DEF TypeOK, Counters, Records, Selections

\* A binding's criteria are a finite list.
LEMMA MatchType ==
  ASSUME config \in Setup, NEW b \in Bindings
  PROVE  Match(b) \in Seq(Criterion) /\ Len(Match(b)) \in Nat /\ b \in Nat
<1>1. config.bindings \in Seq(Binding)
  BY DEF Setup
<1>2. config.bindings[b] \in Binding /\ b \in Nat
  BY <1>1 DEF Bindings
<1> QED
  BY <1>2 DEF Match, Binding

\* A configuration has finitely many bindings.
LEMMA SetupType ==
  ASSUME config \in Setup
  PROVE  config.bindings \in Seq(Binding) /\ Len(config.bindings) \in Nat
  BY DEF Setup

\* A step leaves each counter alone, sets it to a constant, or adds one to it.
LEMMA CounterStep ==
  ASSUME Counters,
         i' \in {i, i + 1, 1}, j' \in {j, j + 1, 1},
         matches' \in {matches, matches + 1, 0}, fallback' \in {fallback, i, 0}
  PROVE  Counters'
  BY DEF Counters

\* Return leaves a well-formed result.
LEMMA ReturnType ==
  ASSUME NEW b \in Nat, Return(b)
  PROVE  /\ pc' = "done"
         /\ result'.status \in {"none", "granted", "unknown role", "no match"}
         /\ result'.binding \in Nat
         /\ result'.status = "granted" => result'.binding = b /\ KnownRoles(b)
         /\ result'.status # "granted" => result'.status = "unknown role" /\ ~ KnownRoles(b)
  BY DEF Return, Ungranted

\* Every variable of the lookup has its type in every reachable state.
THEOREM TypeCorrect == Spec => []TypeOK
<1>1. Init => TypeOK
  BY RoleBindingAssumption DEF Init, TypeOK, NoBest, NotYet, Ungranted
<1>2. TypeOK /\ [Next]_vars => TypeOK'
  <2> SUFFICES ASSUME Counters, Records, Selections, [Next]_vars
               PROVE  Counters' /\ Records' /\ Selections'
    BY TypeParts, PTL
  <2>1. ASSUME NEW claims \in Requests, Receive(claims)
        PROVE  Counters' /\ Records' /\ Selections'
    <3>1. Records' /\ Selections'
      BY <2>1 DEF Receive, Records, Selections, NoBest, NotYet, Ungranted
    <3>2. Counters'
      BY <2>1 DEF Receive, Counters
    <3> QED
      BY <3>1, <3>2
  <2>2. CASE RecordFallback
    <3>1. Records' /\ Selections'
      BY <2>2 DEF RecordFallback, Records, Selections, Bindings
    <3>2. Counters'
      BY <2>2, CounterStep DEF RecordFallback
    <3> QED
      BY <3>1, <3>2
  <2>3. CASE EnterBinding
    <3>1. Records' /\ Selections'
      BY <2>3 DEF EnterBinding, Records, Selections, Bindings
    <3>2. Counters'
      BY <2>3, CounterStep DEF EnterBinding
    <3> QED
      BY <3>1, <3>2
  <2>4. CASE EvaluateCriterion
    <3>1. Match(i)[j].kind = "expr" /\ Runnable(Match(i)[j].value, compiled) =>
            Match(i)[j].value \in Exprs
      BY RoleBindingAssumption DEF Selections, Runnable
    <3>2. compiled' \subseteq Exprs
      BY <2>4, <3>1 DEF EvaluateCriterion, Remember, Selections
    <3>3. Records' /\ Selections'
      BY <2>4, <3>2 DEF EvaluateCriterion, Records, Selections, Bindings
    <3>4. Counters'
      BY <2>4, CounterStep DEF EvaluateCriterion
    <3> QED
      BY <3>3, <3>4
  <2>5. CASE SelectStrict
    <3>1. i \in Nat /\ Return(i)
      BY <2>5 DEF SelectStrict, Counters
    <3>2. Records' /\ Selections'
      BY <2>5, <3>1, ReturnType DEF SelectStrict, Records, Selections, Bindings
    <3>3. Counters'
      BY <2>5 DEF SelectStrict, Counters
    <3> QED
      BY <3>2, <3>3
  <2>6. CASE CompareBest
    <3>1. Counters'
      BY <2>6, CounterStep DEF CompareBest
    <3>2. UNCHANGED <<config, request, compiled>>
      BY <2>6 DEF CompareBest
    <3>3. CASE best' = Candidate /\ pc' = "binding" /\ UNCHANGED result
      <4>1. Len(Match(i)) \in Nat
        BY <2>6, MatchType DEF CompareBest, Selections
      <4>2. Records'
        BY <3>3, <4>1 DEF Candidate, Records, Counters
      <4> QED
        BY <3>1, <3>2, <3>3, <4>2 DEF Selections
    <3>4. CASE Return(i) /\ UNCHANGED best
      <4>1. i \in Nat
        BY DEF Counters
      <4> QED
        BY <3>1, <3>2, <3>4, <4>1, ReturnType DEF Records, Selections
    <3>5. CASE pc' = "binding" /\ UNCHANGED <<best, result>>
      BY <3>1, <3>2, <3>5 DEF Records, Selections
    <3> QED
      BY <2>6, <3>3, <3>4, <3>5 DEF CompareBest
  <2>7. CASE Finish
    <3>1. UNCHANGED <<config, request, compiled, i, j, matches, best, fallback>>
      BY <2>7 DEF Finish
    <3>2. Counters' /\ best'.binding \in Nat /\ best'.matches \in Nat /\ best'.criteria \in Nat
      BY <3>1 DEF Counters, Records
    <3>3. CASE ReturnBest
      BY <3>1, <3>2, <3>3 DEF ReturnBest, Records, Selections
    <3>4. CASE Return(fallback)
      <4>1. fallback \in Nat
        BY DEF Counters
      <4> QED
        BY <3>1, <3>2, <3>4, <4>1, ReturnType DEF Records, Selections
    <3>5. CASE pc' = "done" /\ result' = Ungranted("no match")
      BY <3>1, <3>2, <3>5 DEF Ungranted, Records, Selections
    <3> QED
      BY <2>7, <3>3, <3>4, <3>5 DEF Finish
  <2>8. CASE UNCHANGED vars
    BY <2>8 DEF vars, Counters, Records, Selections, Bindings
  <2> QED
    BY <2>1, <2>2, <2>3, <2>4, <2>5, <2>6, <2>7, <2>8 DEF Next
<1> QED
  BY <1>1, <1>2, PTL DEF Spec

-----------------------------------------------------------------------------
(***************************************************************************)
(* Scores: finite, comparable, and the same throughout a lookup.           *)
(***************************************************************************)
LEMMA ScoreType ==
  ASSUME config \in Setup, NEW b \in Bindings
  PROVE  /\ Score(b) \in Nat
         /\ Catchall(b) => Score(b) = 0
         /\ ~ Catchall(b) => Len(Match(b)) > 0
<1>1. Match(b) \in Seq(Criterion) /\ Len(Match(b)) \in Nat
  BY MatchType
<1>2. IsFiniteSet(1 .. Len(Match(b))) /\ Hits(b) \subseteq 1 .. Len(Match(b))
  BY <1>1, FS_Interval DEF Hits
<1>3. Score(b) \in Nat
  BY <1>2, FS_Subset, FS_CardinalityType DEF Score
<1>4. Catchall(b) => Hits(b) = {}
  BY <1>2 DEF Catchall
<1>5. ~ Catchall(b) => Len(Match(b)) > 0
  BY <1>1 DEF Catchall
<1> QED
  BY <1>3, <1>4, <1>5, FS_EmptySet DEF Score

\* One more criterion is one more hit or none.
LEMMA OneMore ==
  ASSUME config \in Setup, NEW b \in Bindings, NEW n \in Nat
  PROVE  /\ HitsUpTo(b, 0) = {}
         /\ Cardinality(HitsUpTo(b, n)) \in Nat
         /\ Matched(Match(b)[n + 1]) =>
              /\ HitsUpTo(b, n + 1) = HitsUpTo(b, n) \cup {n + 1}
              /\ Cardinality(HitsUpTo(b, n + 1)) = Cardinality(HitsUpTo(b, n)) + 1
         /\ ~ Matched(Match(b)[n + 1]) => HitsUpTo(b, n + 1) = HitsUpTo(b, n)
<1>1. 1 .. n + 1 = (1 .. n) \cup {n + 1} /\ n + 1 \notin 1 .. n /\ 1 .. 0 = {}
  OBVIOUS
<1>2. IsFiniteSet(HitsUpTo(b, n)) /\ n + 1 \notin HitsUpTo(b, n)
  <2>1. HitsUpTo(b, n) \subseteq 1 .. n
    BY DEF HitsUpTo
  <2> QED
    BY <1>1, <2>1, FS_Interval, FS_Subset
<1>3. Matched(Match(b)[n + 1]) => HitsUpTo(b, n + 1) = HitsUpTo(b, n) \cup {n + 1}
  BY <1>1 DEF HitsUpTo
<1>4. ~ Matched(Match(b)[n + 1]) => HitsUpTo(b, n + 1) = HitsUpTo(b, n)
  BY <1>1 DEF HitsUpTo
<1>5. HitsUpTo(b, 0) = {}
  BY <1>1 DEF HitsUpTo
<1> QED
  BY <1>2, <1>3, <1>4, <1>5, FS_CardinalityType, FS_AddElement

\* Preference under best_match is transitive.
LEMMA BeatsTransitive ==
  ASSUME config \in Setup, NEW a \in Bindings, NEW b \in Bindings, NEW c \in Bindings,
         Beats(a, b), Beats(b, c)
  PROVE  Beats(a, c)
<1>1. /\ Score(a) \in Nat /\ Score(b) \in Nat /\ Score(c) \in Nat
      /\ Len(Match(a)) \in Nat /\ Len(Match(b)) \in Nat /\ Len(Match(c)) \in Nat
      /\ a \in Nat /\ b \in Nat /\ c \in Nat
  BY ScoreType, MatchType
<1> QED
  BY <1>1 DEF Beats

\* A step of a lookup neither changes what matches nor what is preferred: an
\* expression it compiles is one that was runnable for these claims already.
SameLookup == UNCHANGED <<config, request>> /\ (compiled' = compiled \/ \E m : Remember(m))

\* What a criterion says of these claims does not depend on the cache's growth.
LEMMA SameMatches ==
  ASSUME SameLookup
  PROVE  \A m : Matched(m)' <=> Matched(m)
  BY DEF SameLookup, Remember, Matched, MatchedWith, Runnable

\* So no binding's score changes during a lookup.
LEMMA SameScores ==
  ASSUME SameLookup
  PROVE  /\ Bindings' = Bindings /\ (Strict' = Strict)
         /\ \A b : /\ Match(b)' = Match(b)
                  /\ Score(b)' = Score(b)
                  /\ Full(b)' = Full(b)
                  /\ Catchall(b)' = Catchall(b)
                  /\ KnownRoles(b)' = KnownRoles(b)
         /\ \A b, n : HitsUpTo(b, n)' = HitsUpTo(b, n)
<1>1. config' = config
  BY DEF SameLookup
<1>2. /\ Bindings' = Bindings /\ (Strict' = Strict)
      /\ \A b : Match(b)' = Match(b) /\ (Catchall(b)' = Catchall(b))
      /\ \A b : KnownRoles(b)' = KnownRoles(b)
  BY <1>1 DEF Bindings, Strict, Match, Catchall, KnownRoles, Declared
<1>3. \A b, k : Matched(Match(b)[k])' <=> Matched(Match(b)[k])
  BY <1>1, SameMatches DEF Match
<1>4. \A b : Hits(b)' = Hits(b)
  BY <1>2, <1>3 DEF Hits
<1>5. \A b, n : HitsUpTo(b, n)' = HitsUpTo(b, n)
  BY <1>2, <1>3 DEF HitsUpTo
<1> QED
  BY <1>2, <1>4, <1>5 DEF Score, Full

\* And neither does which binding is chosen.
LEMMA SameChoice ==
  ASSUME SameLookup
  PROVE  /\ \A b, c : Beats(b, c)' = Beats(b, c)
         /\ \A b : Fits(b)' = Fits(b)
         /\ \A b : IsChosen(b)' = IsChosen(b)
         /\ \A b : Contender(b)' = Contender(b)
<1>1. \A b, c : Beats(b, c)' = Beats(b, c)
  BY SameScores DEF Beats
<1>2. \A b : Fits(b)' = Fits(b)
  BY SameScores DEF Fits
<1>3. \A b, c : Preferred(b, c)' = Preferred(b, c)
  BY <1>1, SameScores DEF Preferred
<1> QED
  BY <1>1, <1>2, <1>3, SameScores DEF IsChosen, Contender

-----------------------------------------------------------------------------
(***************************************************************************)
(* The loop invariant.                                                     *)
(***************************************************************************)

\* What is decided stays explained as long as the lookup is the same.
LEMMA SameVerdict ==
  ASSUME SameLookup, UNCHANGED result, ChosenIsBest, DeniedWhenNoneFits, RoleErrorsExplained
  PROVE  ChosenIsBest' /\ DeniedWhenNoneFits' /\ RoleErrorsExplained'
<1>1. ChosenIsBest'
  BY SameScores, SameChoice DEF ChosenIsBest
<1>2. DeniedWhenNoneFits'
  BY SameScores, SameChoice DEF DeniedWhenNoneFits
<1>3. RoleErrorsExplained'
  <2>1. CASE result.status = "unknown role"
    <3>1. PICK b \in Bindings : ~ KnownRoles(b) /\ (IsChosen(b) \/ (~ Strict /\ Contender(b)))
      BY <2>1 DEF RoleErrorsExplained
    <3>2. b \in Bindings' /\ ~ KnownRoles(b)'
      BY <3>1, SameScores
    <3>3. IsChosen(b)' \/ (~ Strict' /\ Contender(b)')
      BY <3>1, SameScores, SameChoice
    <3> QED
      BY <3>2, <3>3 DEF RoleErrorsExplained
  <2> QED
    BY <2>1 DEF RoleErrorsExplained
<1> QED
  BY <1>1, <1>2, <1>3

\* Returning the chosen binding is right, whether its roles are known or not.
LEMMA RightReturn ==
  ASSUME SameLookup, NEW b \in Bindings, Return(b),
         IsChosen(b) \/ (~ KnownRoles(b) /\ ~ Strict /\ Contender(b))
  PROVE  ChosenIsBest' /\ DeniedWhenNoneFits' /\ RoleErrorsExplained'
<1>1. CASE KnownRoles(b)
  <2>1. result'.status = "granted" /\ result'.binding = b
    BY <1>1 DEF Return
  <2> QED
    BY <1>1, <2>1, SameScores, SameChoice
       DEF ChosenIsBest, DeniedWhenNoneFits, RoleErrorsExplained
<1>2. CASE ~ KnownRoles(b)
  <2>1. result'.status = "unknown role"
    BY <1>2 DEF Return, Ungranted
  <2>2. b \in Bindings' /\ ~ KnownRoles(b)'
    BY <1>2, SameScores
  <2>3. IsChosen(b)' \/ (~ Strict' /\ Contender(b)')
    BY SameScores, SameChoice
  <2>4. RoleErrorsExplained'
    BY <2>2, <2>3 DEF RoleErrorsExplained
  <2> QED
    BY <2>1, <2>4 DEF ChosenIsBest, DeniedWhenNoneFits
<1> QED
  BY <1>1, <1>2

\* When all its criteria were evaluated, the loop knows the score of a binding.
LEMMA ScoreKnown ==
  ASSUME TypeOK, CriterionInv, j > Len(Match(i))
  PROVE  matches = Score(i) /\ (Strict => Full(i))
<1>1. Len(Match(i)) \in Nat /\ j \in 1 .. Len(Match(i)) + 1
  BY MatchType DEF TypeOK, CriterionInv
<1>2. j - 1 = Len(Match(i))
  BY <1>1
<1>3. HitsUpTo(i, j - 1) = Hits(i)
  BY <1>2 DEF HitsUpTo, Hits
<1> QED
  BY <1>2, <1>3 DEF CriterionInv, Score, Full

\* The loop moves on: the bindings seen so far are those before and this one.
LEMMA SeenOneMore ==
  ASSUME TypeOK, i \in Bindings
  PROVE  /\ \A c \in 1 .. (i + 1) - 1 : c \in 1 .. i - 1 \/ c = i
         /\ i + 1 <= Len(config.bindings) + 1
         /\ i \in 1 .. (i + 1) - 1
         /\ \A c \in 1 .. i - 1 : c \in 1 .. (i + 1) - 1 /\ c \in Bindings /\ c < i
<1>1. Len(config.bindings) \in Nat /\ i \in Nat
  BY SetupType DEF TypeOK
<1> QED
  BY <1>1 DEF Bindings

\* A binding that had criteria and was given up or not improved on.
LEMMA NextBinding ==
  ASSUME TypeOK, LoopInv, pc \in {"binding", "criterion"}, i \in Bindings, SameLookup,
         ~ Catchall(i), i' = i + 1, UNCHANGED fallback
  PROVE  FallbackInv'
<1>1. FallbackInv
  BY DEF LoopInv
<1>2. \A c : Catchall(c)' = Catchall(c)
  BY SameScores
<1> QED
  BY <1>1, <1>2, SeenOneMore DEF FallbackInv

\* The loop invariant holds in every reachable state.
THEOREM Inductive == Spec => []IInv
<1>1. Init => IInv
  BY DEF Init, IInv, LoopInv, ChosenIsBest, DeniedWhenNoneFits, RoleErrorsExplained,
         NotYet, Ungranted
<1>2. TypeOK /\ TypeOK' /\ IInv /\ [Next]_vars => IInv'
  <2> SUFFICES ASSUME TypeOK, TypeOK', IInv, [Next]_vars PROVE IInv'
    OBVIOUS
  <2>0. config \in Setup /\ Len(config.bindings) \in Nat
    BY SetupType DEF TypeOK
  <2>1. ASSUME NEW claims \in Requests, Receive(claims) PROVE IInv'
    <3>1. /\ pc' = "binding" /\ i' = 1 /\ fallback' = 0 /\ result'.status = "none"
          /\ best'.binding = 0 /\ best'.matches = 0 /\ config' = config
      BY <2>1 DEF Receive, NotYet, Ungranted, NoBest
    <3>2. \A c \in 1 .. i' - 1 : FALSE
      BY <3>1
    <3>3. FallbackInv' /\ StrictInv' /\ BestInv'
      BY <3>1, <3>2 DEF FallbackInv, StrictInv, BestInv
    <3>4. ChosenIsBest' /\ DeniedWhenNoneFits' /\ RoleErrorsExplained'
      BY <3>1 DEF ChosenIsBest, DeniedWhenNoneFits, RoleErrorsExplained
    <3>5. LoopInv'
      BY <2>0, <3>1, <3>3 DEF LoopInv
    <3> QED
      BY <3>1, <3>4, <3>5 DEF IInv
  <2>2. CASE RecordFallback
    <3>1. /\ pc = "binding" /\ i \in Bindings /\ Catchall(i) /\ i' = i + 1
          /\ fallback' = IF fallback = 0 THEN i ELSE fallback
          /\ UNCHANGED <<config, request, compiled, pc, best, result>>
      BY <2>2 DEF RecordFallback, Catchall
    <3>2. SameLookup
      BY <3>1 DEF SameLookup
    <3>3. FallbackInv'
      <4>1. FallbackInv /\ i # 0
        BY <3>1 DEF IInv, LoopInv, TypeOK
      <4>2. \A c : Catchall(c)' = Catchall(c)
        BY <3>2, SameScores
      <4>3. CASE fallback = 0
        BY <3>1, <4>1, <4>2, <4>3, SeenOneMore DEF FallbackInv
      <4>4. CASE fallback # 0
        BY <3>1, <4>1, <4>2, <4>4, SeenOneMore DEF FallbackInv
      <4> QED
        BY <4>3, <4>4
    <3>4. StrictInv' /\ BestInv'
      <4>1. ~ Full(i) /\ Score(i) = 0
        BY <2>0, <3>1, ScoreType DEF Full
      <4>2. StrictInv /\ BestInv
        BY <3>1 DEF IInv, LoopInv
      <4>3. StrictInv'
        BY <3>1, <3>2, <4>1, <4>2, SeenOneMore, SameScores DEF StrictInv
      <4>4. BestInv'
        BY <3>1, <3>2, <4>1, <4>2, SeenOneMore, SameScores, SameChoice DEF BestInv
      <4> QED
        BY <4>3, <4>4
    <3>5. LoopInv'
      BY <3>1, <3>3, <3>4, SeenOneMore DEF LoopInv
    <3> QED
      BY <3>1, <3>2, <3>5, SameVerdict DEF IInv
  <2>3. CASE EnterBinding
    <3>1. /\ pc = "binding" /\ i \in Bindings /\ ~ Catchall(i) /\ pc' = "criterion"
          /\ j' = 1 /\ matches' = 0
          /\ UNCHANGED <<config, request, compiled, i, best, fallback, result>>
      BY <2>3 DEF EnterBinding, Catchall
    <3>2. SameLookup
      BY <3>1 DEF SameLookup
    <3>3. LoopInv'
      BY <3>1, <3>2, SameScores, SameChoice
         DEF IInv, LoopInv, FallbackInv, StrictInv, BestInv
    <3>4. CriterionInv'
      <4>1. HitsUpTo(i, 0) = {} /\ Len(Match(i)) > 0 /\ Len(Match(i)) \in Nat
        BY <2>0, <3>1, OneMore, ScoreType, MatchType
      <4>2. j' - 1 = 0 /\ 1 .. 0 = {}
        BY <3>1
      <4> QED
        BY <3>1, <3>2, <4>1, <4>2, SameScores, FS_EmptySet, SMTT(30) DEF CriterionInv
    <3> QED
      BY <3>1, <3>2, <3>3, <3>4, SameVerdict DEF IInv
  <2>4. CASE EvaluateCriterion
    <3>1. /\ pc = "criterion" /\ j <= Len(Match(i)) /\ Remember(Match(i)[j])
          /\ UNCHANGED <<config, request, best, fallback, result>>
      BY <2>4 DEF EvaluateCriterion
    <3>2. SameLookup
      BY <3>1 DEF SameLookup
    <3>3. CriterionInv /\ LoopInv /\ i \in Bindings /\ ~ Catchall(i)
      BY <3>1 DEF IInv, CriterionInv
    <3>4. result.status = "none" /\ result'.status = "none"
      BY <3>1 DEF IInv
    <3>5. CASE UNCHANGED <<pc, i>> /\ j' = j + 1
      <4>1. LoopInv'
        BY <3>1, <3>2, <3>3, <3>5, SameScores, SameChoice
           DEF LoopInv, FallbackInv, StrictInv, BestInv
      <4>2. CriterionInv'
        <5>1. /\ j \in 1 .. Len(Match(i)) + 1 /\ Len(Match(i)) \in Nat
              /\ matches = Cardinality(HitsUpTo(i, j - 1))
              /\ Strict => HitsUpTo(i, j - 1) = 1 .. j - 1
          BY <2>0, <3>3, MatchType DEF CriterionInv
        <5>2. j - 1 \in Nat /\ (j - 1) + 1 = j /\ (j + 1) - 1 = j /\ j + 1 \in 1 .. Len(Match(i)) + 1
          BY <3>1, <5>1
        <5>3. (1 .. j - 1) \cup {j} = 1 .. j
          BY <5>1
        <5>4. matches' = Cardinality(HitsUpTo(i, j)) /\ (Strict => HitsUpTo(i, j) = 1 .. j)
          <6>1. CASE Matched(Match(i)[j]) /\ matches' = matches + 1
            <7>1. PICK n \in Nat : n = j - 1 /\ n + 1 = j
              BY <5>2
            <7>2. Matched(Match(i)[n + 1])
              BY <6>1, <7>1
            <7>3. /\ HitsUpTo(i, n + 1) = HitsUpTo(i, n) \cup {n + 1}
                  /\ Cardinality(HitsUpTo(i, n + 1)) = Cardinality(HitsUpTo(i, n)) + 1
              BY <2>0, <3>3, <7>2, OneMore
            <7> QED
              BY <5>1, <5>3, <6>1, <7>1, <7>3
          <6>2. CASE ~ Matched(Match(i)[j]) /\ ~ Strict /\ UNCHANGED matches
            BY <2>0, <3>3, <5>1, <5>2, <6>2, OneMore
          <6> QED
            BY <2>4, <3>5, <6>1, <6>2 DEF EvaluateCriterion
        <5> QED
          BY <3>2, <3>3, <3>5, <5>2, <5>4, SameScores DEF CriterionInv
      <4> QED
        BY <3>1, <3>2, <3>4, <4>1, <4>2, SameVerdict DEF IInv
    <3>6. CASE Strict /\ ~ Matched(Match(i)[j]) /\ pc' = "binding" /\ i' = i + 1
      <4>1. ~ Full(i)
        <5>1. j \in 1 .. Len(Match(i)) /\ j \notin Hits(i)
          BY <3>1, <3>3, <3>6, MatchType, <2>0 DEF CriterionInv, Hits
        <5> QED
          BY <5>1 DEF Full
      <4>2. FallbackInv'
        BY <3>1, <3>2, <3>3, <3>6, NextBinding
      <4>3. StrictInv'
        BY <3>1, <3>2, <3>3, <3>6, <4>1, SeenOneMore, SameScores DEF LoopInv, StrictInv
      <4>4. BestInv'
        BY <3>2, <3>6, SameScores DEF BestInv
      <4>5. LoopInv'
        BY <3>1, <3>3, <3>6, <4>2, <4>3, <4>4, SeenOneMore DEF LoopInv
      <4> QED
        BY <3>1, <3>2, <3>4, <3>6, <4>5, SameVerdict DEF IInv
    <3> QED
      BY <2>4, <3>5, <3>6 DEF EvaluateCriterion
  <2>5. CASE SelectStrict
    <3>1. /\ pc = "criterion" /\ j > Len(Match(i)) /\ Strict /\ Return(i)
          /\ UNCHANGED <<config, request, compiled>>
      BY <2>5 DEF SelectStrict
    <3>2. SameLookup /\ CriterionInv /\ StrictInv /\ i \in Bindings
      BY <3>1 DEF SameLookup, IInv, LoopInv, CriterionInv
    <3>3. Full(i)
      BY <3>1, <3>2, ScoreKnown
    <3>4. \A c \in Bindings : Full(c) => c = i \/ i < c
      BY <2>0, <3>1, <3>2 DEF StrictInv, Bindings
    <3>5. IsChosen(i)
      BY <3>1, <3>2, <3>3, <3>4 DEF IsChosen, Fits, Preferred
    <3>6. pc' = "done"
      BY <3>1 DEF Return
    <3> QED
      BY <3>1, <3>2, <3>5, <3>6, RightReturn DEF IInv, LoopInv
  <2>6. CASE CompareBest
    <3>1. /\ pc = "criterion" /\ j > Len(Match(i)) /\ ~ Strict
          /\ UNCHANGED <<config, request, compiled, fallback>>
      BY <2>6 DEF CompareBest
    <3>2. /\ SameLookup /\ CriterionInv /\ LoopInv /\ BestInv
          /\ i \in Bindings /\ ~ Catchall(i)
      BY <3>1 DEF SameLookup, IInv, LoopInv, CriterionInv
    <3>3. matches = Score(i) /\ Score(i) \in Nat /\ i \in Nat /\ Len(Match(i)) \in Nat
      BY <2>0, <3>1, <3>2, ScoreKnown, ScoreType, MatchType
    <3>4. \A c \in 1 .. i - 1 : /\ c \in Bindings /\ c < i
                               /\ Score(c) \in Nat /\ Len(Match(c)) \in Nat
      BY <2>0, <3>2, SeenOneMore, ScoreType, MatchType
    <3>5. matches > 0 /\ Improves => \A c \in 1 .. i - 1 : Score(c) > 0 => Beats(i, c)
      <4>1. CASE best.binding = 0
        BY <3>2, <3>1, <4>1 DEF BestInv
      <4>2. CASE best.binding # 0 /\ matches > 0 /\ Improves
        <5>1. best.binding \in 1 .. i - 1
          BY <3>1, <3>2, <4>2 DEF BestInv
        <5>2. Beats(i, best.binding)
          BY <3>1, <3>2, <3>3, <4>2 DEF BestInv, Improves, Beats
        <5>3. \A c \in 1 .. i - 1 : c # best.binding /\ Score(c) > 0 => Beats(best.binding, c)
          BY <3>1, <3>2, <4>2 DEF BestInv
        <5> QED
          BY <2>0, <3>2, <3>4, <5>1, <5>2, <5>3, BeatsTransitive
      <4> QED
        BY <4>1, <4>2
    <3>6. CASE matches > 0 /\ Improves /\ ~ KnownRoles(i) /\ Return(i)
      <4>1. Contender(i)
        BY <3>3, <3>5, <3>6 DEF Contender
      <4>2. pc' = "done"
        BY <3>6 DEF Return
      <4> QED
        BY <3>1, <3>2, <3>6, <4>1, <4>2, RightReturn DEF IInv, LoopInv
    <3>7. CASE pc' = "binding" /\ i' = i + 1 /\ UNCHANGED result
      <4>1. FallbackInv' /\ StrictInv'
        BY <3>1, <3>2, <3>7, NextBinding, SameScores DEF StrictInv
      <4>0. /\ \A c \in 1 .. i' - 1 : c \in 1 .. i - 1 \/ c = i
            /\ i \in 1 .. i' - 1
            /\ \A c \in 1 .. i - 1 : c \in 1 .. i' - 1
            /\ \A c : Score(c)' = Score(c) /\ Match(c)' = Match(c)
            /\ \A b, c : Beats(b, c)' = Beats(b, c)
        BY <3>2, <3>7, SeenOneMore, SameScores, SameChoice
      <4>2. ASSUME matches > 0, Improves, best' = Candidate PROVE BestInv'
        <5>1. /\ best'.binding = i /\ best'.matches = Score(i)
              /\ best'.criteria = Len(Match(i)) /\ i # 0
          BY <3>3, <4>2 DEF Candidate, TypeOK
        <5>2. \A c \in 1 .. i' - 1 : c # i /\ Score(c) > 0 => Beats(i, c)
          BY <3>5, <4>0, <4>2
        <5> QED
          BY <3>3, <4>0, <4>2, <5>1, <5>2 DEF BestInv
      <4>3. ASSUME ~ (matches > 0 /\ Improves), UNCHANGED best PROVE BestInv'
        <5>1. CASE best.binding = 0
          <6>1. ~ (Score(i) > 0)
            BY <3>1, <3>2, <3>3, <4>3, <5>1 DEF BestInv, Improves
          <6>2. best.matches = 0 /\ \A c \in 1 .. i' - 1 : ~ (Score(c) > 0)
            BY <3>1, <3>2, <4>0, <5>1, <6>1 DEF BestInv
          <6> QED
            BY <4>0, <4>3, <5>1, <6>2 DEF BestInv
        <5>2. CASE best.binding # 0
          <6>1. best.binding \in 1 .. i - 1
            BY <3>1, <3>2, <5>2 DEF BestInv
          <6>2. Score(i) > 0 => Beats(best.binding, i)
            BY <3>1, <3>2, <3>3, <3>4, <4>3, <5>2, <6>1 DEF BestInv, Improves, Beats
          <6>3. \A c \in 1 .. i' - 1 : c # best.binding /\ Score(c) > 0 =>
                  Beats(best.binding, c)
            BY <3>1, <3>2, <4>0, <5>2, <6>2 DEF BestInv
          <6>4. /\ Score(best.binding) > 0 /\ best.matches = Score(best.binding)
                /\ best.criteria = Len(Match(best.binding))
            BY <3>1, <3>2, <5>2 DEF BestInv
          <6> QED
            BY <4>0, <4>3, <5>2, <6>1, <6>3, <6>4 DEF BestInv
        <5> QED
          BY <5>1, <5>2
      <4>4. \/ matches > 0 /\ Improves /\ best' = Candidate
            \/ ~ (matches > 0 /\ Improves) /\ UNCHANGED best
        BY <2>6, <3>7 DEF CompareBest, Return
      <4>5. BestInv'
        BY <4>2, <4>3, <4>4
      <4> QED
        BY <3>1, <3>2, <3>7, <4>1, <4>5, SeenOneMore, SameVerdict DEF IInv, LoopInv
    <3> QED
      BY <2>6, <3>6, <3>7 DEF CompareBest
  <2>7. CASE Finish
    <3>1. /\ pc = "binding" /\ i > Len(config.bindings)
          /\ UNCHANGED <<config, request, compiled>>
      BY <2>7 DEF Finish
    <3>2. SameLookup /\ FallbackInv /\ StrictInv /\ BestInv
      BY <3>1 DEF SameLookup, IInv, LoopInv
    <3>3. 1 .. i - 1 = Bindings
      <4>1. i \in Nat /\ i <= Len(config.bindings) + 1
        BY <3>1 DEF TypeOK, IInv, LoopInv
      <4> QED
        BY <2>0, <3>1, <4>1 DEF Bindings
    <3>4. CASE best.binding # 0 /\ ReturnBest
      <4>1. IsChosen(best.binding) /\ best.binding \in Bindings
        BY <3>2, <3>3, <3>4 DEF StrictInv, BestInv, IsChosen, Fits, Preferred
      <4>2. pc' = "done" /\ result'.status = "granted" /\ result'.binding = best.binding
        BY <3>4 DEF ReturnBest
      <4> QED
        BY <3>2, <4>1, <4>2, SameScores, SameChoice
           DEF IInv, LoopInv, ChosenIsBest, DeniedWhenNoneFits, RoleErrorsExplained
    <3>5. best.binding = 0 => \A c \in Bindings : ~ Fits(c)
      BY <3>2, <3>3 DEF StrictInv, BestInv, Fits
    <3>6. CASE best.binding = 0 /\ fallback # 0 /\ Return(fallback)
      <4>1. fallback \in Bindings /\ Catchall(fallback)
        BY <3>2, <3>3, <3>6 DEF FallbackInv
      <4>2. \A c \in Bindings : Catchall(c) => c = fallback \/ fallback < c
        BY <3>2, <3>6, <4>1 DEF FallbackInv, Bindings
      <4>3. IsChosen(fallback)
        BY <3>5, <3>6, <4>1, <4>2 DEF IsChosen
      <4>4. pc' = "done"
        BY <3>6 DEF Return
      <4> QED
        BY <3>2, <3>6, <4>1, <4>3, <4>4, RightReturn DEF IInv, LoopInv
    <3>7. CASE best.binding = 0 /\ fallback = 0 /\ pc' = "done" /\ result' = Ungranted("no match")
      <4>1. \A c \in Bindings : ~ Fits(c) /\ ~ Catchall(c)
        BY <3>2, <3>3, <3>5, <3>7 DEF FallbackInv
      <4>2. result'.status = "no match"
        BY <3>7 DEF Ungranted
      <4> QED
        BY <3>2, <3>7, <4>1, <4>2, SameScores, SameChoice
           DEF IInv, LoopInv, ChosenIsBest, DeniedWhenNoneFits, RoleErrorsExplained
    <3> QED
      BY <2>7, <3>4, <3>6, <3>7 DEF Finish
  <2>8. CASE UNCHANGED vars
    <3>1. SameLookup /\ UNCHANGED <<pc, i, j, matches, best, fallback, result>>
      BY <2>8 DEF vars, SameLookup
    <3>2. LoopInv'
      <4>1. LoopInv
        BY DEF IInv
      <4>2. (FallbackInv => FallbackInv') /\ (StrictInv => StrictInv')
        BY <3>1, SameScores DEF FallbackInv, StrictInv
      <4>3. BestInv => BestInv'
        BY <3>1, SameScores, SameChoice DEF BestInv
      <4>4. config' = config
        BY <3>1 DEF SameLookup
      <4> QED
        BY <3>1, <4>1, <4>2, <4>3, <4>4 DEF LoopInv
    <3>3. pc' = "criterion" => CriterionInv'
      BY <3>1, SameScores DEF IInv, CriterionInv
    <3> QED
      BY <3>1, <3>2, <3>3, SameVerdict DEF IInv
  <2> QED
    BY <2>1, <2>2, <2>3, <2>4, <2>5, <2>6, <2>7, <2>8 DEF Next
<1> QED
  BY <1>1, <1>2, TypeCorrect, PTL DEF Spec

-----------------------------------------------------------------------------
(***************************************************************************)
(* What follows from it.                                                   *)
(***************************************************************************)

\* A granted request got the binding its strategy documents, in one pass.
THEOREM BestIsChosen == Spec => []ChosenIsBest
<1>1. IInv => ChosenIsBest
  BY DEF IInv
<1> QED
  BY <1>1, Inductive, PTL

\* A request is only turned away when nothing fits and there is no catch-all.
THEOREM DenialIsRight == Spec => []DeniedWhenNoneFits
<1>1. IInv => DeniedWhenNoneFits
  BY DEF IInv
<1> QED
  BY <1>1, Inductive, PTL

\* An unknown role is the fault of a binding that was leading when it was met.
THEOREM RoleErrorIsExplained == Spec => []RoleErrorsExplained
<1>1. IInv => RoleErrorsExplained
  BY DEF IInv
<1> QED
  BY <1>1, Inductive, PTL

-----------------------------------------------------------------------------
(***************************************************************************)
(* What collateRoles returns: the sum of the roles, however many there     *)
(* are.  The loop is a recursive function, and the least turn at which it  *)
(* would be wrong refutes itself.                                          *)
(***************************************************************************)

\* The role a binding's k-th name stands for.
Named(b, k) == lookupRole(config.bindings[b].roles[k])

\* The roles among the first n that set a response limit.
Replies(b, n) == {k \in 1 .. n : Named(b, k).maxMsgs > 0}

\* The response limit of the last of them.
LastReply(b, n) ==
  Named(b, CHOOSE k \in Replies(b, n) : \A l \in Replies(b, n) : l <= k).maxMsgs

\* What the first n roles of a binding add up to.
PromisedUpTo(b, n) ==
  [allow   |-> UNION {Named(b, k).allow : k \in 1 .. n},
   deny    |-> UNION {Named(b, k).deny : k \in 1 .. n},
   src     |-> UNION {Named(b, k).src : k \in 1 .. n},
   maxMsgs |-> IF Replies(b, n) = {} THEN 0 ELSE LastReply(b, n),
   subs    |-> IF n = 0 THEN NoLimit ELSE Named(b, n).subs]

\* What collateRoles' loop makes of a grant at the n-th role.
Collate(b, grant, n) ==
  collateLimits(collatePermissions(grant, Named(b, n)), Named(b, n))

\* A function that records what the loop of collateRoles has after each role.
IsRunOver(b, f) ==
  f = [n \in 0 .. Len(config.bindings[b].roles) |->
         IF n = 0 THEN NoGrant ELSE Collate(b, f[n - 1], n)]

\* A non-empty set of naturals has a least element.
LEMMA Least ==
  ASSUME NEW S, S \subseteq Nat, S # {}
  PROVE  \E m \in S : \A k \in S : m <= k
<1> DEFINE R == OpToRel(<, Nat)
<1>1. IsWellFoundedOn(R, Nat)
  BY NatLessThanWellFounded
<1>2. \A k, m \in Nat : k < m => <<k, m>> \in R
  BY DEF OpToRel
<1> HIDE DEF R
<1>3. PICK m \in S : \A k \in S : ~ (<<k, m>> \in R)
  BY <1>1, WFMin
<1>4. \A k \in S : ~ (k < m)
  BY <1>2, <1>3
<1>5. \A k \in S : m <= k
  BY <1>4
<1> QED
  BY <1>5

\* A non-empty set of naturals up to n has a greatest one.
LEMMA Greatest ==
  ASSUME NEW n \in Nat, NEW S, S \subseteq 1 .. n, S # {}
  PROVE  \E m \in S : \A k \in S : k <= m
<1> DEFINE D == {n - k : k \in S}
<1>1. D \subseteq Nat /\ D # {}
  <2>1. \A k \in S : n - k \in Nat
    OBVIOUS
  <2>2. PICK k \in S : TRUE
    OBVIOUS
  <2>3. n - k \in D
    OBVIOUS
  <2> QED
    BY <2>1, <2>3
<1>2. PICK d \in D : \A e \in D : d <= e
  BY <1>1, Least
<1>3. PICK m \in S : d = n - m
  BY <1>2
<1>4. \A k \in S : n - m <= n - k
  BY <1>2, <1>3
<1>5. \A k \in S : k <= m
  BY <1>4
<1> QED
  BY <1>5

\* No roles add up to the grant the loop starts with.
LEMMA NoRoles ==
  ASSUME NEW b
  PROVE  PromisedUpTo(b, 0) = NoGrant
<1>1. 1 .. 0 = {} /\ Replies(b, 0) = {}
  BY DEF Replies
<1>2. UNION {Named(b, k).allow : k \in 1 .. 0} = {}
  BY <1>1
<1>3. UNION {Named(b, k).deny : k \in 1 .. 0} = {}
  BY <1>1
<1>4. UNION {Named(b, k).src : k \in 1 .. 0} = {}
  BY <1>1
<1> QED
  BY <1>1, <1>2, <1>3, <1>4 DEF PromisedUpTo, NoGrant

\* What the two collate steps make of a grant, field by field.
LEMMA CollateFields ==
  ASSUME NEW a, NEW d, NEW s, NEW m, NEW u, NEW role
  PROVE  collateLimits(collatePermissions([allow |-> a, deny |-> d, src |-> s,
                                           maxMsgs |-> m, subs |-> u], role), role) =
           [allow |-> a \cup role.allow, deny |-> d \cup role.deny, src |-> s \cup role.src,
            maxMsgs |-> IF role.maxMsgs > 0 THEN role.maxMsgs ELSE m, subs |-> role.subs]
<1> DEFINE grant == [allow |-> a, deny |-> d, src |-> s, maxMsgs |-> m, subs |-> u]
           limit == IF role.maxMsgs > 0 THEN role.maxMsgs ELSE m
           first == [allow : {a \cup role.allow}, deny : {d \cup role.deny}, src : {s},
                     maxMsgs : {limit}, subs : {u}]
           both == [allow : {a \cup role.allow}, deny : {d \cup role.deny},
                    src : {s \cup role.src}, maxMsgs : {limit}, subs : {role.subs}]
<1> HIDE DEF limit
<1>1. collatePermissions(grant, role) \in first
  BY DEF collatePermissions, limit
<1>2. \A g \in first : collateLimits(g, role) \in both
  BY DEF collateLimits
<1>3. \A g \in both : g = [allow |-> a \cup role.allow, deny |-> d \cup role.deny,
                          src |-> s \cup role.src, maxMsgs |-> limit, subs |-> role.subs]
  OBVIOUS
<1> QED
  BY <1>1, <1>2, <1>3 DEF limit

\* One more role changes what the roles add up to as one turn of the loop does.
LEMMA OneMoreRole ==
  ASSUME NEW b, NEW n \in Nat
  PROVE  Collate(b, PromisedUpTo(b, n), n + 1) = PromisedUpTo(b, n + 1)
<1> DEFINE role == Named(b, n + 1)
           old == PromisedUpTo(b, n)
           new == PromisedUpTo(b, n + 1)
<1>1. 1 .. n + 1 = (1 .. n) \cup {n + 1} /\ n + 1 # 0
  OBVIOUS
<1>2. /\ new.allow = old.allow \cup role.allow
      /\ new.deny = old.deny \cup role.deny
      /\ new.src = old.src \cup role.src
  BY <1>1 DEF PromisedUpTo
<1>3. new.subs = role.subs
  BY <1>1 DEF PromisedUpTo
<1>4. new.maxMsgs = IF role.maxMsgs > 0 THEN role.maxMsgs ELSE old.maxMsgs
  <2>1. CASE role.maxMsgs > 0
    <3>1. n + 1 \in Replies(b, n + 1) /\ \A l \in Replies(b, n + 1) : l <= n + 1
      BY <2>1 DEF Replies
    <3>2. \A k \in Replies(b, n + 1) : n + 1 <= k => k = n + 1
      BY DEF Replies
    <3>3. (CHOOSE k \in Replies(b, n + 1) : \A l \in Replies(b, n + 1) : l <= k) = n + 1
      BY <3>1, <3>2
    <3>4. LastReply(b, n + 1) = role.maxMsgs
      BY <3>3 DEF LastReply
    <3> QED
      BY <2>1, <3>1, <3>4 DEF PromisedUpTo
  <2>2. CASE ~ (role.maxMsgs > 0)
    <3>1. Replies(b, n + 1) = Replies(b, n)
      BY <1>1, <2>2 DEF Replies
    <3>2. LastReply(b, n + 1) = LastReply(b, n)
      BY <3>1 DEF LastReply
    <3> QED
      BY <2>2, <3>1, <3>2 DEF PromisedUpTo
  <2> QED
    BY <2>1, <2>2
<1>5. /\ old = [allow |-> old.allow, deny |-> old.deny, src |-> old.src,
                maxMsgs |-> old.maxMsgs, subs |-> old.subs]
      /\ new = [allow |-> new.allow, deny |-> new.deny, src |-> new.src,
                maxMsgs |-> new.maxMsgs, subs |-> new.subs]
  BY DEF PromisedUpTo
<1> HIDE DEF old, new, role
<1> QED
  <2>1. Collate(b, old, n + 1) =
          [allow |-> old.allow \cup role.allow, deny |-> old.deny \cup role.deny,
           src |-> old.src \cup role.src,
           maxMsgs |-> IF role.maxMsgs > 0 THEN role.maxMsgs ELSE old.maxMsgs,
           subs |-> role.subs]
    BY <1>5, CollateFields DEF Collate, role
  <2>2. Collate(b, old, n + 1) = new
    BY <1>2, <1>3, <1>4, <1>5, <2>1
  <2> QED
    BY <2>2 DEF old, new

\* However far the loop has come, its grant is what the roles so far add up to.
LEMMA RunIsPromised ==
  ASSUME NEW b, config.bindings[b].roles \in Seq(STRING), NEW f, IsRunOver(b, f),
         NEW n \in 0 .. Len(config.bindings[b].roles)
  PROVE  f[n] = PromisedUpTo(b, n)
<1> DEFINE L == Len(config.bindings[b].roles)
           Wrong == {k \in 0 .. L : f[k] # PromisedUpTo(b, k)}
<1>1. L \in Nat
  OBVIOUS
<1>2. f[0] = NoGrant /\ \A k \in 1 .. L : f[k] = Collate(b, f[k - 1], k)
  BY <1>1 DEF IsRunOver
<1>3. f[0] = PromisedUpTo(b, 0)
  BY <1>2, NoRoles
<1> SUFFICES ASSUME Wrong # {} PROVE FALSE
  OBVIOUS
<1>4. PICK m \in Wrong : \A k \in Wrong : m <= k
  <2>1. Wrong \subseteq Nat
    BY <1>1
  <2> QED
    BY <2>1, Least
<1>5. m \in 1 .. L /\ m - 1 \in 0 .. L /\ m - 1 \in Nat /\ (m - 1) + 1 = m /\ ~ (m <= m - 1)
  BY <1>1, <1>3
<1>6. f[m - 1] = PromisedUpTo(b, m - 1)
  BY <1>4, <1>5
<1>7. Collate(b, PromisedUpTo(b, m - 1), m) = PromisedUpTo(b, m)
  BY <1>5, OneMoreRole
<1> QED
  BY <1>2, <1>5, <1>6, <1>7

\* The last of the roles that set a response limit is one of them.
LEMMA LastReplyExists ==
  ASSUME NEW b, NEW n \in Nat, Replies(b, n) # {}
  PROVE  (CHOOSE k \in Replies(b, n) : \A l \in Replies(b, n) : l <= k) \in 1 .. n
<1>1. Replies(b, n) \subseteq 1 .. n
  BY DEF Replies
<1>2. PICK m \in Replies(b, n) : \A l \in Replies(b, n) : l <= m
  BY <1>1, Greatest
<1>3. (CHOOSE k \in Replies(b, n) : \A l \in Replies(b, n) : l <= k) \in Replies(b, n)
  BY <1>2, Zenon
<1> QED
  BY <1>1, <1>3

\* All roles together add up to what the binding promises.
LEMMA AllPromised ==
  ASSUME NEW b, config.bindings[b].roles \in Seq(STRING)
  PROVE  PromisedUpTo(b, Len(config.bindings[b].roles)) = Promised(b)
<1> DEFINE names == config.bindings[b].roles
           L == Len(names)
           roles == [k \in DOMAIN names |-> lookupRole(names[k])]
           replies == {k \in DOMAIN roles : roles[k].maxMsgs > 0}
           maxMsgs == IF replies = {} THEN 0
                      ELSE roles[CHOOSE k \in replies : \A l \in replies : l <= k].maxMsgs
           subs == IF roles = <<>> THEN NoLimit ELSE roles[Len(roles)].subs
<1>1. Promised(b) =
        [allow |-> UNION {roles[k].allow : k \in DOMAIN roles},
         deny |-> UNION {roles[k].deny : k \in DOMAIN roles},
         src |-> UNION {roles[k].src : k \in DOMAIN roles},
         maxMsgs |-> maxMsgs, subs |-> subs]
  BY DEF Promised
<1>2. L \in Nat /\ DOMAIN names = 1 .. L
  OBVIOUS
<1>3. roles = [k \in 1 .. L |-> Named(b, k)]
  BY <1>2 DEF Named
<1>4. DOMAIN roles = 1 .. L /\ \A k \in 1 .. L : roles[k] = Named(b, k)
  BY <1>3
<1>5. subs = IF L = 0 THEN NoLimit ELSE Named(b, L).subs
  <2>1. CASE L = 0
    <3>1. roles = <<>>
      BY <1>3, <2>1
    <3> QED
      BY <2>1, <3>1
  <2>2. CASE L # 0
    <3>1. Len([k \in 1 .. L |-> Named(b, k)]) = L
      BY <1>2
    <3>2. L \in 1 .. L
      BY <1>2, <2>2
    <3>3. roles # <<>>
      BY <1>4, <3>2
    <3> HIDE DEF roles
    <3>4. Len(roles) = L
      BY <1>3, <3>1
    <3> QED
      BY <1>4, <2>2, <3>2, <3>3, <3>4
  <2> QED
    BY <2>1, <2>2
<1> HIDE DEF names, L, roles
<1>6. replies = Replies(b, L)
  BY <1>4 DEF Replies
<1>7. maxMsgs = IF Replies(b, L) = {} THEN 0 ELSE LastReply(b, L)
  <2>1. CASE Replies(b, L) = {}
    BY <1>6, <2>1
  <2>2. CASE Replies(b, L) # {}
    <3> DEFINE m == CHOOSE k \in Replies(b, L) : \A l \in Replies(b, L) : l <= k
    <3>1. m \in 1 .. L
      BY <1>2, <2>2, LastReplyExists
    <3>2. LastReply(b, L) = Named(b, m).maxMsgs
      BY DEF LastReply
    <3>3. maxMsgs = roles[m].maxMsgs
      BY <1>6, <2>2
    <3> HIDE DEF m, maxMsgs, replies
    <3>4. roles[m] = Named(b, m)
      BY <1>4, <3>1
    <3> QED
      BY <2>2, <3>2, <3>3, <3>4
  <2> QED
    BY <2>1, <2>2
<1>8. /\ UNION {roles[k].allow : k \in DOMAIN roles} = UNION {Named(b, k).allow : k \in 1 .. L}
      /\ UNION {roles[k].deny : k \in DOMAIN roles} = UNION {Named(b, k).deny : k \in 1 .. L}
      /\ UNION {roles[k].src : k \in DOMAIN roles} = UNION {Named(b, k).src : k \in 1 .. L}
  BY <1>4
<1> HIDE DEF maxMsgs, subs, replies
<1>9. PromisedUpTo(b, L) = Promised(b)
  BY <1>1, <1>5, <1>7, <1>8 DEF PromisedUpTo
<1> QED
  BY <1>9 DEF L, names

\* collateRoles returns what the roles of the binding add up to.
LEMMA CollateRoles ==
  ASSUME NEW b, config.bindings[b].roles \in Seq(STRING)
  PROVE  collateRoles(b) = Promised(b)
<1> DEFINE L == Len(config.bindings[b].roles)
           run == CHOOSE f : IsRunOver(b, f)
           sums == [n \in 0 .. L |-> PromisedUpTo(b, n)]
<1>1. L \in Nat
  OBVIOUS
<1>2. IsRunOver(b, sums)
  <2>1. sums[0] = NoGrant
    BY <1>1, NoRoles
  <2>2. ASSUME NEW n \in 1 .. L PROVE sums[n] = Collate(b, sums[n - 1], n)
    <3>1. n - 1 \in Nat /\ n - 1 \in 0 .. L /\ (n - 1) + 1 = n
      BY <1>1
    <3> QED
      BY <3>1, OneMoreRole
  <2>3. \A n \in 0 .. L : n = 0 \/ n \in 1 .. L
    BY <1>1
  <2> HIDE DEF sums
  <2>4. sums = [n \in 0 .. L |-> sums[n]]
    BY DEF sums
  <2>5. \A n \in 0 .. L : sums[n] = IF n = 0 THEN NoGrant ELSE Collate(b, sums[n - 1], n)
    BY <2>1, <2>2, <2>3
  <2> QED
    BY <2>4, <2>5 DEF IsRunOver
<1>3. IsRunOver(b, run)
  BY <1>2
<1>4. collateRoles(b) = run[L]
  BY DEF collateRoles, IsRunOver, Collate, Named
<1> HIDE DEF run, sums
<1>5. L \in 0 .. L
  BY <1>1
<1>6. run[L] = PromisedUpTo(b, L)
  BY <1>3, <1>5, RunIsPromised
<1> QED
  BY <1>4, <1>6, AllPromised

-----------------------------------------------------------------------------
(***************************************************************************)
(* The grant.                                                              *)
(***************************************************************************)

\* What was collated for the best binding so far is what its roles add up to.
BestGrant ==
  best.binding # 0 => best.binding \in Bindings /\ best.grant = Promised(best.binding)

GrantInv == BestGrant /\ GrantIsCollated

\* A binding's roles are a finite list of names.
LEMMA RolesType ==
  ASSUME config \in Setup, NEW b \in Bindings
  PROVE  config.bindings[b].roles \in Seq(STRING)
<1>1. config.bindings \in Seq(Binding)
  BY DEF Setup
<1>2. config.bindings[b] \in Binding
  BY <1>1 DEF Bindings
<1> QED
  BY <1>2 DEF Binding

\* What a binding promises only depends on the configuration.
LEMMA SamePromise ==
  ASSUME UNCHANGED config
  PROVE  Bindings' = Bindings /\ \A b : Promised(b)' = Promised(b)
  BY DEF Bindings, Promised, lookupRole

\* Returning a binding's account returns what its roles add up to.
LEMMA GrantReturned ==
  ASSUME config \in Setup, UNCHANGED config, NEW b \in Bindings, Return(b)
  PROVE  GrantIsCollated'
<1>1. collateRoles(b) = Promised(b)
  BY RolesType, CollateRoles
<1>2. CASE KnownRoles(b)
  BY <1>1, <1>2, SamePromise DEF Return, GrantIsCollated
<1>3. CASE ~ KnownRoles(b)
  BY <1>3 DEF Return, Ungranted, GrantIsCollated
<1> QED
  BY <1>2, <1>3

\* A granted request is granted what the roles of its binding add up to.
THEOREM GrantAlwaysCollated == Spec => []GrantIsCollated
<1>1. Init => GrantInv
  BY DEF Init, GrantInv, BestGrant, GrantIsCollated, NoBest, NotYet, Ungranted
<1>2. TypeOK /\ IInv /\ GrantInv /\ [Next]_vars => GrantInv'
  <2> SUFFICES ASSUME TypeOK, IInv, GrantInv, [Next]_vars PROVE GrantInv'
    OBVIOUS
  <2>0. config \in Setup /\ Len(config.bindings) \in Nat
    BY SetupType DEF TypeOK
  <2>1. UNCHANGED config
    BY DEF Next, Receive, RecordFallback, EnterBinding, EvaluateCriterion, SelectStrict,
           CompareBest, Finish, vars
  <2>2. UNCHANGED best => BestGrant'
    BY <2>1, SamePromise DEF GrantInv, BestGrant
  <2>3. UNCHANGED <<best, result>> => GrantInv'
    BY <2>1, <2>2, SamePromise DEF GrantInv, GrantIsCollated
  <2>4. ASSUME NEW claims \in Requests, Receive(claims) PROVE GrantInv'
    BY <2>4 DEF Receive, GrantInv, BestGrant, GrantIsCollated, NoBest, NotYet, Ungranted
  <2>5. CASE RecordFallback \/ EnterBinding \/ EvaluateCriterion \/ UNCHANGED vars
    BY <2>3, <2>5 DEF RecordFallback, EnterBinding, EvaluateCriterion, vars
  <2>6. CASE SelectStrict
    <3>1. i \in Bindings /\ Return(i) /\ UNCHANGED best
      BY <2>6 DEF SelectStrict, TypeOK
    <3> QED
      BY <2>0, <2>1, <2>2, <3>1, GrantReturned DEF GrantInv
  <2>7. CASE CompareBest
    <3>1. i \in Bindings
      BY <2>7 DEF CompareBest, TypeOK
    <3>2. CASE best' = Candidate /\ UNCHANGED result
      <4>1. best'.binding = i /\ best'.grant = Promised(i)
        BY <2>0, <3>1, <3>2, RolesType, CollateRoles DEF Candidate
      <4> QED
        BY <2>1, <3>1, <3>2, <4>1, SamePromise DEF GrantInv, BestGrant, GrantIsCollated
    <3>3. CASE Return(i) /\ UNCHANGED best
      BY <2>0, <2>1, <2>2, <3>1, <3>3, GrantReturned DEF GrantInv
    <3> QED
      BY <2>3, <2>7, <3>2, <3>3 DEF CompareBest
  <2>8. CASE Finish
    <3>1. UNCHANGED best
      BY <2>8 DEF Finish
    <3>2. CASE best.binding # 0 /\ ReturnBest
      BY <2>1, <2>2, <3>1, <3>2, SamePromise DEF ReturnBest, GrantInv, BestGrant, GrantIsCollated
    <3>3. CASE fallback # 0 /\ Return(fallback)
      <4>1. i \in Nat /\ i <= Len(config.bindings) + 1 /\ fallback \in 1 .. i - 1
        BY <2>8, <3>3 DEF Finish, TypeOK, IInv, LoopInv, FallbackInv
      <4>2. fallback \in Bindings
        BY <2>0, <4>1 DEF Bindings
      <4> QED
        BY <2>0, <2>1, <2>2, <3>1, <3>3, <4>2, GrantReturned DEF GrantInv
    <3>4. CASE result' = Ungranted("no match")
      BY <2>2, <3>1, <3>4 DEF Ungranted, GrantInv, GrantIsCollated
    <3> QED
      BY <2>8, <3>2, <3>3, <3>4 DEF Finish
  <2> QED
    BY <2>4, <2>5, <2>6, <2>7, <2>8 DEF Next
<1>3. GrantInv => GrantIsCollated
  BY DEF GrantInv
<1> QED
  BY <1>1, <1>2, <1>3, TypeCorrect, Inductive, PTL DEF Spec

=============================================================================

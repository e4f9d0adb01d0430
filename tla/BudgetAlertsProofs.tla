------------------------- MODULE BudgetAlertsProofs -------------------------
(***************************************************************************)
(* Proofs about BudgetAlerts, for any budgets, thresholds, workers and     *)
(* bounds: an alert goes out twice only after a rollback, no row is        *)
(* committed whose alert was not sent or passed over by an exception, and  *)
(* what the table records is borne out by the spend.  The arithmetic of    *)
(* periods, sums and fits comes first, then the transactions.              *)
(***************************************************************************)
EXTENDS BudgetAlerts, SetSums

-----------------------------------------------------------------------------
(* Numbers. *)

(***************************************************************************)
(* The least of a set of naturals is in it.                                *)
(***************************************************************************)
LEMMA MinIsLeast ==
    ASSUME NEW T, T \subseteq Nat, T # {}
    PROVE  Min(T) \in T /\ \A k \in T : Min(T) <= k
  <1> DEFINE R == {p \in Nat \X Nat : p[1] < p[2]}
  <1>1. IsWellFoundedOn(R, Nat)
    BY NatLessThanWellFounded DEF OpToRel
  <1>2. PICK m \in T : \A k \in T : ~ (<<k, m>> \in R)
    <2> HIDE DEF R
    <2> QED BY <1>1, WFMin
  <1>3. ASSUME NEW k \in T PROVE m <= k
    <2>1. m \in Nat /\ k \in Nat /\ <<k, m>> \in Nat \X Nat /\ <<k, m>> \notin R
      BY <1>2
    <2> QED BY <2>1
  <1> QED BY <1>3 DEF Min

\* Products grow with a factor.
LEMMA ProductUp ==
    ASSUME NEW a \in Nat, NEW b \in Nat, a <= b, NEW c \in Nat
    PROVE  a * c \in Nat /\ b * c \in Nat /\ a * c <= b * c
  OBVIOUS

(***************************************************************************)
(* A period starts at a day that starts its period.                        *)
(***************************************************************************)
LEMMA PeriodStarts ==
    ASSUME NEW d \in Days, NEW n \in Nat \ {0}
    PROVE  /\ PeriodStart(n, d) \in Days
           /\ PeriodStart(n, PeriodStart(n, d)) = PeriodStart(n, d)
  <1> DEFINE q == d \div n
             x == d - (d % n)
             p == x \div n
             r == x % n
  <1>0. d \in Nat /\ d <= MaxDay /\ MaxDay \in Nat
    BY BudgetsAssumption DEF Days
  <1>1. q \in Int /\ x = n * q /\ x \in Nat /\ x <= d
    BY <1>0
  <1>2. p \in Int /\ x = n * p + r /\ r \in 0..(n - 1)
    BY <1>1
  <1>3. x \in Days
    BY <1>0, <1>1 DEF Days
  <1> HIDE DEF q, x, p, r
  <1>4. n * (q - p) = r
    BY <1>1, <1>2
  <1>5. /\ q - p \in Int
        /\ q - p >= 1 => n * (q - p) >= n
        /\ q - p <= -1 => n * (q - p) <= -n
    BY <1>1, <1>2
  <1>6. q - p = 0
    BY <1>2, <1>4, <1>5
  <1>7. r = 0
    BY <1>4, <1>6
  <1> QED BY <1>1, <1>3, <1>7 DEF PeriodStart, x, r
-----------------------------------------------------------------------------
(* The spend. *)

SpendTyped == spend \in [Days -> [ScopeValues -> Nat]]

\* The slice of a scope.
Slice(scope) == IF scope = TenantScope THEN ScopeValues ELSE {scope}

Scopes == ScopeValues \union {TenantScope}

\* The spend of each day in a slice, as a function to add up.
SpentOn(values) == [d \in Days |-> SpendOn(d, values)]

\* A budget's scope is finitely many values.
LEMMA SlicesFinite ==
    ASSUME NEW scope \in Scopes
    PROVE  Slice(scope) \subseteq ScopeValues /\ IsFiniteSet(Slice(scope))
  BY BudgetsAssumption, FS_Subset, FS_Singleton DEF Slice, Scopes

\* A window is finitely many days.
LEMMA DaysFinite == \A W \in SUBSET Days : IsFiniteSet(W)
  <1>1. IsFiniteSet(Days)
    BY BudgetsAssumption, FS_Interval DEF Days
  <1> QED BY <1>1, FS_Subset

\* A day's spend is a sum as SetSums has it.
LEMMA SpendOnIsSum == \A d, values : SpendOn(d, values) = SumOf(spend[d], values)
  BY DEF SpendOn, SumOf

(***************************************************************************)
(* The fold over days is a sum.                                            *)
(***************************************************************************)
LEMMA DaysSum ==
    \A values, W : W \subseteq Days =>
       MapThenSumSet(LAMBDA d : SpendOn(d, values), W) = SumOf(SpentOn(values), W)
  <1> SUFFICES ASSUME NEW values, NEW W, W \subseteq Days
               PROVE  MapThenSumSet(LAMBDA d : SpendOn(d, values), W)
                         = SumOf(SpentOn(values), W)
    OBVIOUS
  <1>0. IsFiniteSet(W)
    BY DaysFinite
  <1>1. PICK F : Adds(F, SpentOn(values), W)
    BY <1>0, AddsExists
  <1>2. \A s \in SUBSET W : s # {} => SpentOn(values)[Some(s)] = SpendOn(Some(s), values)
    BY SomeIn DEF SpentOn
  <1> DEFINE Solves(G) == G = [s \in SUBSET W |->
                  IF s = {} THEN 0 ELSE SpendOn(Some(s), values) + G[s \ {Some(s)}]]
             G == CHOOSE G : Solves(G)
  <1>3. Solves(F)
    BY <1>1, <1>2 DEF Adds
  <1>4. Solves(G)
    <2> HIDE DEF Solves
    <2> QED BY <1>3
  <1>5. MapThenSumSet(LAMBDA d : SpendOn(d, values), W) = G[W]
    BY DEF MapThenSumSet, MapThenFoldSet, Some
  <1> HIDE DEF G
  <1>6. Adds(G, SpentOn(values), W)
    BY <1>2, <1>4 DEF Adds
  <1>7. SumOf(SpentOn(values), W) = G[W]
    BY <1>0, <1>6, SumIs
  <1> QED BY <1>5, <1>7

\* So are a window's spend and the whole.
LEMMA ComputeSpendIsSum ==
    /\ \A scope, window : ComputeSpend(scope, window)
                             = SumOf(SpentOn(Slice(scope)), window \intersect Days)
    /\ Spent = SumOf(SpentOn(ScopeValues), Days)
  <1>1. ASSUME NEW scope, NEW window
        PROVE  ComputeSpend(scope, window)
                  = SumOf(SpentOn(Slice(scope)), window \intersect Days)
    <2>1. ComputeSpend(scope, window)
             = MapThenSumSet(LAMBDA d : SpendOn(d, Slice(scope)), window \intersect Days)
      BY DEF ComputeSpend, Slice
    <2> QED BY <2>1, DaysSum
  <1>2. Spent = SumOf(SpentOn(ScopeValues), Days)
    BY DaysSum DEF Spent
  <1> QED BY <1>1, <1>2

\* Spends are naturals.
LEMMA SpendTypes ==
    SpendTyped => \A scope \in Scopes :
                     /\ \A d \in Days : SpendOn(d, Slice(scope)) \in Nat
                     /\ \A W \in SUBSET Days : SumOf(SpentOn(Slice(scope)), W) \in Nat
  <1> SUFFICES ASSUME SpendTyped, NEW scope \in Scopes
               PROVE  /\ \A d \in Days : SpendOn(d, Slice(scope)) \in Nat
                      /\ \A W \in SUBSET Days : SumOf(SpentOn(Slice(scope)), W) \in Nat
    OBVIOUS
  <1>1. ASSUME NEW d \in Days PROVE SpendOn(d, Slice(scope)) \in Nat
    <2>1. \A v \in Slice(scope) : spend[d][v] \in Nat
      BY SlicesFinite DEF SpendTyped
    <2>2. SumOf(spend[d], Slice(scope)) \in Nat
      BY <2>1, SlicesFinite, SumMonotone
    <2> QED BY <2>2, SpendOnIsSum
  <1>2. ASSUME NEW W \in SUBSET Days PROVE SumOf(SpentOn(Slice(scope)), W) \in Nat
    <2>1. \A d \in W : SpentOn(Slice(scope))[d] \in Nat
      BY <1>1 DEF SpentOn
    <2> QED BY <2>1, DaysFinite, SumMonotone
  <1> QED BY <1>1, <1>2

\* The same after a step.
LEMMA SpendNext ==
    /\ (\A d, values : SpendOn(d, values) = SumOf(spend[d], values))'
    /\ (/\ \A scope, window : ComputeSpend(scope, window)
                                 = SumOf(SpentOn(Slice(scope)), window \intersect Days)
        /\ Spent = SumOf(SpentOn(ScopeValues), Days))'
    /\ SpendTyped' =>
         (\A scope \in Scopes :
             /\ \A d \in Days : SpendOn(d, Slice(scope)) \in Nat
             /\ \A W \in SUBSET Days : SumOf(SpentOn(Slice(scope)), W) \in Nat)'
  BY SpendOnIsSum, ComputeSpendIsSum, SpendTypes, PTL

\* No record is taken back.
SpendUp == \A d \in Days, v \in ScopeValues : spend[d][v] <= spend'[d][v]

(***************************************************************************)
(* Where no day and scope value loses, no slice of any window does.        *)
(***************************************************************************)
LEMMA SpendGrows ==
    ASSUME SpendTyped, SpendTyped', SpendUp, NEW scope \in Scopes, NEW window
    PROVE  /\ ComputeSpend(scope, window) \in Nat /\ ComputeSpend(scope, window)' \in Nat
           /\ ComputeSpend(scope, window) <= ComputeSpend(scope, window)'
  <1> DEFINE W == window \intersect Days
  <1>1. PICK g : g = SpentOn(Slice(scope))
    OBVIOUS
  <1>2. PICK h : h = SpentOn(Slice(scope))'
    OBVIOUS
  <1>3. ASSUME NEW d \in Days
        PROVE  g[d] \in Nat /\ h[d] \in Nat /\ g[d] <= h[d]
    <2>1. PICK s, t : s = spend[d] /\ t = spend'[d]
      OBVIOUS
    <2>2. \A v \in Slice(scope) : s[v] \in Nat /\ t[v] \in Nat /\ s[v] <= t[v]
      BY <2>1, SlicesFinite DEF SpendTyped, SpendUp
    <2>3. /\ SumOf(s, Slice(scope)) \in Nat /\ SumOf(t, Slice(scope)) \in Nat
          /\ SumOf(s, Slice(scope)) <= SumOf(t, Slice(scope))
      BY <2>2, SlicesFinite, SumMonotone
    <2>4. g[d] = SumOf(s, Slice(scope))
      BY <1>1, <2>1, SpendOnIsSum DEF SpentOn
    <2>5. h[d] = SumOf(t, Slice(scope))
      <3>1. h[d] = SpendOn(d, Slice(scope))'
        BY <1>2 DEF SpentOn
      <3> QED BY <2>1, <3>1, SpendNext
    <2> QED BY <2>3, <2>4, <2>5
  <1>4. W \in SUBSET Days /\ IsFiniteSet(W)
    BY DaysFinite
  <1> HIDE DEF W
  <1>5. SumOf(g, W) \in Nat /\ SumOf(h, W) \in Nat /\ SumOf(g, W) <= SumOf(h, W)
    BY <1>3, <1>4, SumMonotone
  <1>6. ComputeSpend(scope, window) = SumOf(g, W)
    BY <1>1, ComputeSpendIsSum DEF W
  <1>7. ComputeSpend(scope, window)' = SumOf(h, W)
    BY <1>2, SpendNext DEF W
  <1> QED BY <1>5, <1>6, <1>7

(***************************************************************************)
(* A record adds one to the spend, in all.                                 *)
(***************************************************************************)
LEMMA RecordAdds ==
    ASSUME SpendTyped, NEW e \in Days, NEW u \in ScopeValues, RecordUsage(e, u)
    PROVE  SpendTyped' /\ SpendUp /\ Spent' = Spent + 1
  <1>1. SpendTyped' /\ SpendUp
    BY DEF SpendTyped, SpendUp, RecordUsage
  <1>2. PICK g : g = SpentOn(ScopeValues)
    OBVIOUS
  <1>3. PICK h : h = SpentOn(ScopeValues)'
    OBVIOUS
  <1>4. TenantScope \in Scopes /\ Slice(TenantScope) = ScopeValues
    BY DEF Scopes, Slice
  <1>5. /\ \A d \in Days : g[d] = SumOf(spend[d], ScopeValues) /\ g[d] \in Nat
        /\ Spent = SumOf(g, Days) /\ Spent \in Nat
    BY <1>2, <1>4, SpendOnIsSum, SpendTypes, ComputeSpendIsSum DEF SpentOn
  <1>6. /\ \A d \in Days : h[d] = SumOf(spend'[d], ScopeValues) /\ h[d] \in Nat
        /\ Spent' = SumOf(h, Days) /\ Spent' \in Nat
    <2>1. /\ \A d \in Days : h[d] = SpendOn(d, ScopeValues)'
          /\ Spent' = SumOf(h, Days)
      BY <1>3, SpendNext DEF SpentOn
    <2>2. \A d \in Days : SpendOn(d, ScopeValues)' \in Nat
      BY <1>1, <1>4, SpendNext
    <2>3. \A d \in Days : SpendOn(d, ScopeValues)' = SumOf(spend'[d], ScopeValues)
      BY SpendNext
    <2>4. Spent' \in Nat
      BY <2>1, <2>2, DaysFinite, SumMonotone
    <2> QED BY <2>1, <2>2, <2>3, <2>4
  <1>7. \A d \in Days : d # e => h[d] = g[d]
    BY <1>5, <1>6 DEF RecordUsage, SpendTyped
  <1>8. h[e] = g[e] + 1
    <2>1. PICK s, t : s = spend[e] /\ t = spend'[e]
      OBVIOUS
    <2>2. /\ t[u] = s[u] + 1
          /\ \A v \in ScopeValues : s[v] \in Nat /\ t[v] \in Nat /\ (v # u => t[v] = s[v])
      BY <2>1 DEF RecordUsage, SpendTyped
    <2>3. SumOf(t, ScopeValues) + s[u] = SumOf(s, ScopeValues) + t[u]
      BY <2>2, SumChanges, BudgetsAssumption
    <2>4. h[e] = SumOf(t, ScopeValues) /\ g[e] = SumOf(s, ScopeValues)
      BY <1>5, <1>6, <2>1
    <2>5. g[e] \in Nat /\ h[e] \in Nat /\ s[u] \in Nat
      BY <1>5, <1>6, <2>2
    <2> QED BY <2>2, <2>3, <2>4, <2>5
  <1>9. SumOf(h, Days) + g[e] = SumOf(g, Days) + h[e]
    BY <1>5, <1>6, <1>7, DaysFinite, SumChanges
  <1> QED BY <1>1, <1>5, <1>6, <1>8, <1>9
-----------------------------------------------------------------------------
(* The fit. *)

\* A day's place in a fit is a natural.
LEMMA IndexTyped == \A days \in SUBSET Days : \A d : Index(days, d) \in Nat
  BY DaysFinite, FS_Subset, FS_CardinalityType DEF Index

\* The sums of a fit: of the indices, ...
LEMMA IndexSum ==
    \A days : days \subseteq Days =>
       MapThenSumSet(LAMBDA d : Index(days, d), days)
          = SumOf([d \in days |-> Index(days, d)], days)
  <1> SUFFICES ASSUME NEW days, days \subseteq Days
               PROVE  MapThenSumSet(LAMBDA d : Index(days, d), days)
                         = SumOf([d \in days |-> Index(days, d)], days)
    OBVIOUS
  <1> DEFINE value(d) == Index(days, d)
             values == [d \in days |-> value(d)]
  <1>0. IsFiniteSet(days)
    BY DaysFinite
  <1>1. PICK F : Adds(F, values, days)
    BY <1>0, AddsExists
  <1>2. \A s \in SUBSET days : s # {} => values[Some(s)] = value(Some(s))
    BY SomeIn
  <1> DEFINE Solves(G) == G = [s \in SUBSET days |->
                  IF s = {} THEN 0 ELSE value(Some(s)) + G[s \ {Some(s)}]]
             G == CHOOSE G : Solves(G)
  <1>3. Solves(F)
    <2> HIDE DEF value
    <2> QED BY <1>1, <1>2 DEF Adds
  <1>4. Solves(G)
    <2> HIDE DEF Solves
    <2> QED BY <1>3
  <1>5. MapThenSumSet(LAMBDA d : value(d), days) = G[days]
    BY DEF MapThenSumSet, MapThenFoldSet, Some
  <1> HIDE DEF G
  <1>6. Adds(G, values, days)
    <2> HIDE DEF value
    <2> QED BY <1>2, <1>4 DEF Adds
  <1>7. SumOf(values, days) = G[days]
    BY <1>0, <1>6, SumIs
  <1> QED BY <1>5, <1>7

\* ... of their squares, ...
LEMMA SquareSum ==
    \A days : days \subseteq Days =>
       MapThenSumSet(LAMBDA d : Index(days, d) * Index(days, d), days)
          = SumOf([d \in days |-> Index(days, d) * Index(days, d)], days)
  <1> SUFFICES ASSUME NEW days, days \subseteq Days
               PROVE  MapThenSumSet(LAMBDA d : Index(days, d) * Index(days, d), days)
                         = SumOf([d \in days |-> Index(days, d) * Index(days, d)], days)
    OBVIOUS
  <1> DEFINE value(d) == Index(days, d) * Index(days, d)
             values == [d \in days |-> value(d)]
  <1>0. IsFiniteSet(days)
    BY DaysFinite
  <1>1. PICK F : Adds(F, values, days)
    BY <1>0, AddsExists
  <1>2. \A s \in SUBSET days : s # {} => values[Some(s)] = value(Some(s))
    BY SomeIn
  <1> DEFINE Solves(G) == G = [s \in SUBSET days |->
                  IF s = {} THEN 0 ELSE value(Some(s)) + G[s \ {Some(s)}]]
             G == CHOOSE G : Solves(G)
  <1>3. Solves(F)
    <2> HIDE DEF value
    <2> QED BY <1>1, <1>2 DEF Adds
  <1>4. Solves(G)
    <2> HIDE DEF Solves
    <2> QED BY <1>3
  <1>5. MapThenSumSet(LAMBDA d : value(d), days) = G[days]
    BY DEF MapThenSumSet, MapThenFoldSet, Some
  <1> HIDE DEF G
  <1>6. Adds(G, values, days)
    <2> HIDE DEF value
    <2> QED BY <1>2, <1>4 DEF Adds
  <1>7. SumOf(values, days) = G[days]
    BY <1>0, <1>6, SumIs
  <1> QED BY <1>5, <1>7

\* ... and of each index times its day's spend.
LEMMA ProductSum ==
    \A days : days \subseteq Days =>
       MapThenSumSet(LAMBDA d : Index(days, d) * SpendOn(d, ScopeValues), days)
          = SumOf([d \in days |-> Index(days, d) * SpendOn(d, ScopeValues)], days)
  <1> SUFFICES ASSUME NEW days, days \subseteq Days
               PROVE  MapThenSumSet(LAMBDA d : Index(days, d) * SpendOn(d, ScopeValues), days)
                         = SumOf([d \in days |-> Index(days, d) * SpendOn(d, ScopeValues)], days)
    OBVIOUS
  <1> DEFINE value(d) == Index(days, d) * SpendOn(d, ScopeValues)
             values == [d \in days |-> value(d)]
  <1>0. IsFiniteSet(days)
    BY DaysFinite
  <1>1. PICK F : Adds(F, values, days)
    BY <1>0, AddsExists
  <1>2. \A s \in SUBSET days : s # {} => values[Some(s)] = value(Some(s))
    BY SomeIn
  <1> DEFINE Solves(G) == G = [s \in SUBSET days |->
                  IF s = {} THEN 0 ELSE value(Some(s)) + G[s \ {Some(s)}]]
             G == CHOOSE G : Solves(G)
  <1>3. Solves(F)
    <2> HIDE DEF value
    <2> QED BY <1>1, <1>2 DEF Adds
  <1>4. Solves(G)
    <2> HIDE DEF Solves
    <2> QED BY <1>3
  <1>5. MapThenSumSet(LAMBDA d : value(d), days) = G[days]
    BY DEF MapThenSumSet, MapThenFoldSet, Some
  <1> HIDE DEF G
  <1>6. Adds(G, values, days)
    <2> HIDE DEF value
    <2> QED BY <1>2, <1>4 DEF Adds
  <1>7. SumOf(values, days) = G[days]
    BY <1>0, <1>6, SumIs
  <1> QED BY <1>5, <1>7

(***************************************************************************)
(* The denominator of the slope is not negative.                           *)
(***************************************************************************)
LEMMA RunTyped == \A days \in SUBSET Days : Run(days) \in Nat
  <1> SUFFICES ASSUME NEW days \in SUBSET Days PROVE Run(days) \in Nat
    OBVIOUS
  <1> DEFINE x == [d \in days |-> Index(days, d)]
             xx == [d \in days |-> Index(days, d) * Index(days, d)]
  <1>1. IsFiniteSet(days) /\ Cardinality(days) \in Nat
    BY DaysFinite, FS_CardinalityType
  <1>2. \A d \in days : Index(days, d) \in Nat
    BY IndexTyped
  <1>3. \A d \in days : x[d] \in Nat /\ xx[d] = x[d] * x[d] /\ xx[d] \in Nat
    BY <1>2
  <1>4. Run(days) = Cardinality(days) * SumOf(xx, days) - SumOf(x, days) * SumOf(x, days)
    BY IndexSum, SquareSum DEF Run
  <1> HIDE DEF x, xx
  <1>5. SumOf(x, days) \in Nat /\ SumOf(xx, days) \in Nat
    BY <1>1, <1>3, SumMonotone
  <1>6. Cardinality(days) * SumOf(xx, days) - SumOf(x, days) * SumOf(x, days) >= 0
    BY <1>1, <1>3, SumOfSquares
  <1> QED BY <1>1, <1>4, <1>5, <1>6

\* The rise of a fit is an integer.
LEMMA RiseTyped ==
    ASSUME SpendTyped, NEW days \in SUBSET Days
    PROVE  Rise(days) \in Int
  <1> DEFINE x == [d \in days |-> Index(days, d)]
             xy == [d \in days |-> Index(days, d) * SpendOn(d, ScopeValues)]
  <1>1. IsFiniteSet(days) /\ Cardinality(days) \in Nat
    BY DaysFinite, FS_CardinalityType
  <1>2. /\ \A d \in days : SpendOn(d, ScopeValues) \in Nat
        /\ SumOf(SpentOn(ScopeValues), days) \in Nat
    <2>1. TenantScope \in Scopes /\ Slice(TenantScope) = ScopeValues
      BY DEF Scopes, Slice
    <2> QED BY <2>1, SpendTypes
  <1>3. \A d \in days : Index(days, d) \in Nat
    BY IndexTyped
  <1>4. \A d \in days : x[d] \in Nat /\ xy[d] \in Nat
    BY <1>2, <1>3
  <1>5. Rise(days) = Cardinality(days) * SumOf(xy, days)
                        - SumOf(x, days) * SumOf(SpentOn(ScopeValues), days)
    BY IndexSum, ProductSum, DaysSum DEF Rise
  <1> HIDE DEF x, xy
  <1>6. SumOf(x, days) \in Nat /\ SumOf(xy, days) \in Nat
    BY <1>1, <1>4, SumMonotone
  <1> QED BY <1>1, <1>2, <1>5, <1>6
-----------------------------------------------------------------------------
(* Evaluations. *)

Month == [start : Days, spend : Nat, rise : Int, run : Nat]

Task == [stage : {"idle", "budgets", "levels"}, kind : Kinds,
         todo : SUBSET (Budgets \X Row), levels : SUBSET Levels, row : Row,
         budget : Budgets \union {CHOOSE b \in Budgets : TRUE},
         start : Days, month : Month]

\* Every budget is left once; the one under evaluation is not left, and has
\* thresholds to go.
WellFormed(t) ==
    /\ t \in Task
    /\ \A r, s \in t.todo : r[1] = s[1] => r = s
    /\ t.stage = "levels" => /\ t.levels # {} /\ t.budget \in Budgets
                             /\ \A r \in t.todo : r[1] # t.budget

TasksInv == task = [w \in Workers |-> task[w]] /\ \A w \in Workers : WellFormed(task[w])

\* An idle worker has nothing to do.
LEMMA IdleWellFormed ==
    WellFormed(Idle) /\ Idle.todo = {} /\ Idle.stage = "idle"
  <1>1. NoBudget \in Row
    BY BudgetsAssumption DEF NoBudget, Row
  <1>2. 0 \in Days /\ [start |-> 0, spend |-> 0, rise |-> 0, run |-> 1] \in Month
    BY BudgetsAssumption DEF Days, Month
  <1>3. "current_threshold" \in Kinds
    BY DEF Kinds
  <1> QED BY <1>1, <1>2, <1>3 DEF WellFormed, Idle, Task

\* The event of a threshold of the budget under evaluation.
KeyOf(t, l) == [budget |-> t.budget, start |-> t.start, level |-> l, kind |-> t.kind]

(***************************************************************************)
(* The lowest threshold to go, and its event.                              *)
(***************************************************************************)
LEMMA NextLevelIs ==
    ASSUME NEW t, WellFormed(t), t.stage = "levels"
    PROVE  /\ NextLevel(t.levels) \in t.levels /\ t.levels \subseteq Levels
           /\ \A k \in t.levels : NextLevel(t.levels) <= k
           /\ \A l \in Levels : KeyOf(t, l) \in EventKeys
           /\ DedupKey(t) \in Names \X Days \X Levels
           /\ DedupKey(t)[2] = t.start /\ DedupKey(t)[3] = NextLevel(t.levels)
  <1>1. /\ t.levels \subseteq Levels /\ t.levels # {} /\ t.levels \subseteq Nat
        /\ t.budget \in Budgets /\ t.start \in Days /\ t.kind \in Kinds
        /\ t.row.name \in Names
    <2>1. t \in Task /\ t.levels # {} /\ t.budget \in Budgets
      BY DEF WellFormed
    <2>2. /\ t.levels \subseteq Levels /\ t.start \in Days /\ t.kind \in Kinds
          /\ t.row \in Row
      BY <2>1 DEF Task
    <2>3. Levels \subseteq Nat
      BY BudgetsAssumption
    <2>4. t.row.name \in Names
      BY <2>2 DEF Row
    <2> QED BY <2>1, <2>2, <2>3, <2>4
  <1>2. /\ NextLevel(t.levels) \in t.levels
        /\ \A k \in t.levels : NextLevel(t.levels) <= k
    BY <1>1, MinIsLeast DEF NextLevel
  <1> QED BY <1>1, <1>2 DEF KeyOf, EventKeys, DedupKey

(***************************************************************************)
(* Going on to fewer thresholds of the same budget, or to the next one.    *)
(***************************************************************************)
LEMMA GoesOn ==
    ASSUME NEW t \in Task, NEW T \in SUBSET Levels,
           \A r, s \in t.todo : r[1] = s[1] => r = s,
           t.budget \in Budgets, \A r \in t.todo : r[1] # t.budget
    PROVE  LET s == WithLevels(t, T)
           IN /\ WellFormed(s)
              /\ s.kind = t.kind /\ s.todo = t.todo /\ s.month = t.month
              /\ s.stage = IF T = {} THEN "budgets" ELSE "levels"
              /\ T # {} => /\ s.levels = T /\ s.budget = t.budget
                           /\ s.row = t.row /\ s.start = t.start
  <1>1. CASE T = {}
    <2> DEFINE s == [Idle EXCEPT !.stage = "budgets", !.kind = t.kind, !.todo = t.todo,
                                 !.month = t.month]
    <2>1. WithLevels(t, T) = s
      BY <1>1 DEF WithLevels
    <2>2. Idle \in Task
      BY IdleWellFormed DEF WellFormed
    <2>3. /\ s \in Task /\ s.kind = t.kind /\ s.todo = t.todo /\ s.month = t.month
          /\ s.stage = "budgets"
      BY <2>2 DEF Task
    <2> QED BY <1>1, <2>1, <2>3 DEF WellFormed
  <1>2. CASE T # {}
    <2> DEFINE s == [t EXCEPT !.stage = "levels", !.levels = T]
    <2>1. WithLevels(t, T) = s
      BY <1>2 DEF WithLevels
    <2>2. /\ s \in Task /\ s.kind = t.kind /\ s.todo = t.todo /\ s.month = t.month
          /\ s.stage = "levels" /\ s.levels = T /\ s.budget = t.budget
          /\ s.row = t.row /\ s.start = t.start
      BY DEF Task
    <2> QED BY <1>2, <2>1, <2>2 DEF WellFormed
  <1> QED BY <1>1, <1>2
-----------------------------------------------------------------------------
(* What a step does to a worker. *)

CoreInv ==
    /\ today \in Days /\ SpendTyped
    /\ budgets \in [Budgets -> Row]
    /\ pending \in [Workers -> SUBSET EventKeys]
    /\ TasksInv

Stays(w) == task'[w] = task[w] /\ pending'[w] = pending[w]

\* The end of a transaction: its rows are committed or rolled back.
Ends(w) == /\ task[w].stage # "idle"
           /\ task'[w] = Idle /\ pending'[w] = {}
           /\ pending[w] \subseteq events' \/ pending[w] \subseteq lost'

Starts(w) == /\ task[w].stage = "idle" /\ task'[w].stage = "budgets"
             /\ task'[w].todo \subseteq LiveRows
             /\ WellFormed(task'[w])
             /\ pending'[w] = pending[w]

\* The spend of a budget's period, and what it reaches.
Reached(b, start, cap, l) == Reaches(ComputeSpend(Scope[b], Window(b, start)), cap, l)

Weighs(w) ==
    /\ task[w].stage = "budgets" /\ task'[w].stage \in {"budgets", "levels"}
    /\ WellFormed(task'[w]) /\ task'[w].kind = task[w].kind
    /\ pending'[w] = pending[w]
    /\ \E r \in task[w].todo :
          /\ task'[w].todo = task[w].todo \ {r}
          /\ task'[w].stage = "levels" =>
                /\ task'[w].budget = r[1]
                /\ \A l \in Levels, k \in task'[w].levels : l < k => l \in task'[w].levels
                /\ task[w].kind = "current_threshold" =>
                      \A l \in task'[w].levels : Reached(r[1], task'[w].start, r[2].cap, l)

\* A threshold is settled: its row is in the table, or in the transaction.
Settles(w) ==
    /\ AtLevel(w)
    /\ \/ task'[w] = WithLevels(task[w], task[w].levels \ {NextLevel(task[w].levels)})
       \/ task'[w] = WithLevels(task[w], {})
    /\ \/ pending'[w] = pending[w]
       \/ pending'[w] = pending[w] \union {EventAt(w)}
    /\ task'[w].stage = "levels" =>
          /\ task'[w] = WithLevels(task[w], task[w].levels \ {NextLevel(task[w].levels)})
          /\ EventAt(w) \in events \union pending'[w]

Moves(w) == Stays(w) \/ Ends(w) \/ Starts(w) \/ Weighs(w) \/ Settles(w)

\* A spend that reaches a level reaches the lower ones.
LEMMA ReachesDown ==
    ASSUME NEW amount \in Nat, NEW cap \in Nat, NEW l \in Nat, NEW k \in Nat, l < k,
           Reaches(amount, cap, k)
    PROVE  Reaches(amount, cap, l)
  <1>1. l * cap <= k * cap /\ l * cap \in Nat /\ k * cap \in Nat
    BY ProductUp
  <1> QED BY <1>1 DEF Reaches

\* So does a projection.
LEMMA ProjectsDown ==
    ASSUME NEW m \in Month, NEW cap \in Nat, NEW l \in Nat, NEW k \in Nat, l < k,
           Projects(m, cap, k)
    PROVE  Projects(m, cap, l)
  <1>0. m.run \in Nat /\ m.spend \in Nat /\ m.rise \in Int
    BY DEF Month
  <1>1. l * cap <= k * cap /\ l * cap \in Nat /\ k * cap \in Nat
    BY ProductUp
  <1> DEFINE x == l * cap
             y == k * cap
  <1>2. x <= y /\ x \in Nat /\ y \in Nat
    BY <1>1
  <1> HIDE DEF x, y
  <1>3. x * m.run <= y * m.run /\ x * m.run \in Nat /\ y * m.run \in Nat
    BY <1>0, <1>2, ProductUp
  <1>4. (m.spend * m.run + m.rise) * 100 \in Int
    BY <1>0
  <1>5. (m.spend * m.run + m.rise) * 100 >= y * m.run
    BY DEF Projects, y
  <1>6. (m.spend * m.run + m.rise) * 100 >= x * m.run
    BY <1>3, <1>4, <1>5
  <1> QED BY <1>6 DEF Projects, x

\* Both tasks start with every row to do.
LEMMA StartMoves ==
    ASSUME CoreInv, NEW w \in Workers, StartEvaluation(w) \/ StartForecast(w)
    PROVE  Starts(w)
  <1>1. PICK m \in Month, L \in SUBSET LiveRows, k \in Kinds :
           task'[w] = [Idle EXCEPT !.stage = "budgets", !.kind = k, !.todo = L, !.month = m]
    <2>1. CASE StartEvaluation(w)
      <3>1. task'[w] = [Idle EXCEPT !.stage = "budgets", !.todo = LiveRows]
        BY <2>1 DEF StartEvaluation, CoreInv, TasksInv
      <3>2. Idle.month \in Month /\ Idle.kind \in Kinds
        BY IdleWellFormed DEF WellFormed, Task
      <3>3. PICK m \in Month, k \in Kinds : m = Idle.month /\ k = Idle.kind
        BY <3>2
      <3>4. task'[w] = [Idle EXCEPT !.stage = "budgets", !.kind = k, !.todo = LiveRows,
                                    !.month = m]
        BY <3>1, <3>3 DEF Idle
      <3> HIDE DEF LiveRows
      <3> QED BY <3>4
    <2>2. CASE StartForecast(w)
      <3> DEFINE L == {r \in LiveRows : /\ Scope[r[1]] = TenantScope
                                        /\ PeriodLength[r[1]] = MonthLength}
      <3>1. task'[w] = [Idle EXCEPT !.stage = "budgets", !.kind = "forecast_threshold",
                                    !.todo = L, !.month = Project(today)]
        BY <2>2 DEF StartForecast, CoreInv, TasksInv
      <3>2. Project(today) \in Month
        <4> DEFINE start == PeriodStart(MonthLength, today)
        <4>1. today \in Days /\ today \in Int /\ SpendTyped /\ MonthLength \in Nat \ {0}
          BY BudgetsAssumption DEF CoreInv, Days
        <4>2. start \in Days /\ start \in Int
          BY <4>1, PeriodStarts DEF Days
        <4>3. ComputeSpend(TenantScope, start..today) \in Nat
          <5>1. TenantScope \in Scopes /\ (start..today) \intersect Days \in SUBSET Days
            BY DEF Scopes
          <5> QED BY <4>1, <5>1, ComputeSpendIsSum, SpendTypes
        <4>4. DailySpend(today) \in SUBSET Days
          BY DEF DailySpend
        <4>5. Rise(DailySpend(today)) \in Int /\ Run(DailySpend(today)) \in Nat
          BY <4>1, <4>4, RiseTyped, RunTyped
        <4> HIDE DEF start
        <4>6. Rise(DailySpend(today)) * (start + MonthLength - 1 - today) \in Int
          BY <4>1, <4>2, <4>5
        <4> QED BY <4>2, <4>3, <4>5, <4>6 DEF Project, Month, start
      <3>3. L \in SUBSET LiveRows /\ "forecast_threshold" \in Kinds
        BY DEF Kinds
      <3> HIDE DEF L
      <3> QED BY <3>1, <3>2, <3>3
    <2> QED BY <2>1, <2>2
  <1>2. LiveRows \subseteq Budgets \X Row /\ \A r, s \in LiveRows : r[1] = s[1] => r = s
    BY DEF CoreInv, LiveRows
  <1>3. task'[w].stage = "budgets" /\ task'[w].todo = L
    BY <1>1 DEF Idle
  <1>4. task'[w] \in Task
    <2>1. Idle \in Task
      BY IdleWellFormed DEF WellFormed
    <2>2. L \in SUBSET (Budgets \X Row)
      BY <1>2
    <2> QED BY <1>1, <2>1, <2>2 DEF Task
  <1>5. WellFormed(task'[w])
    BY <1>2, <1>3, <1>4 DEF WellFormed
  <1>6. task[w].stage = "idle" /\ pending'[w] = pending[w]
    BY DEF StartEvaluation, StartForecast, tables
  <1> QED BY <1>1, <1>3, <1>5, <1>6 DEF Starts

\* A task that takes up row r, whose period starts at d.
Chosen(t, r, d) == [[t EXCEPT !.todo = t.todo \ {r}, !.budget = r[1], !.row = r[2]]
                      EXCEPT !.start = d]

\* A task that takes up a row.
LEMMA ChosenIs ==
    ASSUME NEW t \in Task, NEW r \in Budgets \X Row, NEW d \in Days
    PROVE  /\ Chosen(t, r, d) \in Task /\ Chosen(t, r, d).budget = r[1]
           /\ Chosen(t, r, d).todo = t.todo \ {r}
           /\ Chosen(t, r, d).kind = t.kind /\ Chosen(t, r, d).start = d
  <1> DEFINE p == [t EXCEPT !.todo = t.todo \ {r}, !.budget = r[1], !.row = r[2]]
  <1>1. p \in Task /\ p.budget = r[1] /\ p.todo = t.todo \ {r} /\ p.kind = t.kind
    BY DEF Task
  <1> HIDE DEF p
  <1>2. LET s == [p EXCEPT !.start = d]
        IN /\ s \in Task /\ s.budget = p.budget /\ s.todo = p.todo
           /\ s.kind = p.kind /\ s.start = d
    BY <1>1 DEF Task
  <1> QED BY <1>1, <1>2 DEF p, Chosen

(***************************************************************************)
(* The thresholds that a budget's spend, or its projection, reaches come   *)
(* with every lower one, and stay reached if its window is taken anew.     *)
(***************************************************************************)
LEMMA WeighMoves ==
    ASSUME CoreInv, NEW w \in Workers, EvaluateBudget(w)
    PROVE  Weighs(w)
  <1> DEFINE t == task[w]
  <1>1. /\ t.stage = "budgets" /\ pending'[w] = pending[w]
        /\ WellFormed(t) /\ t \in Task
    BY DEF EvaluateBudget, tables, CoreInv, TasksInv, WellFormed
  <1>2. PICK r \in t.todo :
           LET b == r[1]
               s == [t EXCEPT !.todo = @ \ {r}, !.budget = b, !.row = r[2]]
               amount == ComputeSpend(Scope[b], Window(b, today))
           IN task' = [task EXCEPT ![w] =
                IF s.kind = "current_threshold"
                THEN WithLevels([s EXCEPT !.start = PeriodStart(PeriodLength[b], today)],
                                {l \in Levels : Reaches(amount, r[2].cap, l)})
                ELSE WithLevels([s EXCEPT !.start = s.month.start],
                                {l \in Levels : Projects(s.month, r[2].cap, l)})]
    BY DEF EvaluateBudget
  <1>3. /\ r \in Budgets \X Row /\ r[1] \in Budgets /\ r[2] \in Row /\ r[2].cap \in Nat
        /\ Scope[r[1]] \in Scopes /\ PeriodLength[r[1]] \in Nat \ {0}
        /\ t.month \in Month /\ t.month.start \in Days
    <2>1. r \in Budgets \X Row /\ t.month \in Month
      BY <1>1 DEF Task
    <2>2. Caps \union {0} \subseteq Nat
      BY BudgetsAssumption
    <2>3. r[2].cap \in Nat
      BY <2>1, <2>2 DEF Row
    <2> QED BY <2>1, <2>3, BudgetsAssumption DEF Month, Scopes
  <1>4. today \in Days /\ SpendTyped /\ Levels \subseteq Nat
    BY BudgetsAssumption DEF CoreInv
  <1> DEFINE first == PeriodStart(PeriodLength[r[1]], today)
             s(d) == Chosen(t, r, d)
             amount == ComputeSpend(Scope[r[1]], Window(r[1], today))
             near == {l \in Levels : Reaches(amount, r[2].cap, l)}
             far == {l \in Levels : Projects(t.month, r[2].cap, l)}
             down(L) == \A l \in Levels, k \in L : l < k => l \in L
  <1>5. first \in Days /\ Window(r[1], first) = Window(r[1], today)
    BY <1>3, <1>4, PeriodStarts DEF Window
  <1>6. task'[w] = IF t.kind = "current_threshold" THEN WithLevels(s(first), near)
                                                   ELSE WithLevels(s(t.month.start), far)
    <2>1. /\ [t EXCEPT !.todo = @ \ {r}, !.budget = r[1], !.row = r[2]].kind = t.kind
          /\ [t EXCEPT !.todo = @ \ {r}, !.budget = r[1], !.row = r[2]].month = t.month
      BY <1>1 DEF Task
    <2>2. task'[w] = IF t.kind = "current_threshold"
              THEN WithLevels([[t EXCEPT !.todo = @ \ {r}, !.budget = r[1], !.row = r[2]]
                                  EXCEPT !.start = first], near)
              ELSE WithLevels([[t EXCEPT !.todo = @ \ {r}, !.budget = r[1], !.row = r[2]]
                                  EXCEPT !.start = t.month.start], far)
      BY <1>2, <2>1 DEF CoreInv, TasksInv
    <2> HIDE DEF near, far, first
    <2> QED BY <2>2 DEF Chosen
  <1>7. amount \in Nat
    <2>1. Window(r[1], today) \intersect Days \in SUBSET Days
      OBVIOUS
    <2> QED BY <1>3, <1>4, <2>1, ComputeSpendIsSum, SpendTypes
  <1>8. down(near) /\ near \in SUBSET Levels
    BY <1>3, <1>4, <1>7, ReachesDown
  <1>9. down(far) /\ far \in SUBSET Levels
    BY <1>3, <1>4, ProjectsDown
  <1>10. \A l \in near : Reached(r[1], first, r[2].cap, l)
    BY <1>5 DEF Reached
  <1> HIDE DEF first, near, far, down, amount
  <1>11. ASSUME NEW d \in Days, NEW L \in SUBSET Levels, down(L),
                task'[w] = WithLevels(s(d), L),
                t.kind = "current_threshold" =>
                   \A l \in L : Reached(r[1], d, r[2].cap, l)
         PROVE  Weighs(w)
    <2>1. /\ s(d) \in Task /\ s(d).budget = r[1] /\ s(d).todo = t.todo \ {r}
          /\ s(d).kind = t.kind /\ s(d).start = d
      BY <1>1, <1>3, ChosenIs
    <2>2. \A q \in s(d).todo : q[1] # s(d).budget
      BY <1>1, <2>1 DEF WellFormed
    <2>3. \A p, q \in s(d).todo : p[1] = q[1] => p = q
      BY <1>1, <2>1 DEF WellFormed
    <2> HIDE DEF s, t
    <2>4. /\ WellFormed(task'[w])
          /\ task'[w].kind = t.kind /\ task'[w].todo = t.todo \ {r}
          /\ task'[w].stage = IF L = {} THEN "budgets" ELSE "levels"
          /\ L # {} => /\ task'[w].levels = L /\ task'[w].budget = r[1]
                       /\ task'[w].start = d
      BY <1>3, <1>11, <2>1, <2>2, <2>3, GoesOn
    <2> QED BY <1>1, <1>11, <2>4 DEF Weighs, down, t
  <1> QED BY <1>3, <1>5, <1>6, <1>8, <1>9, <1>10, <1>11

\* What settles a threshold or drops a budget.
LEMMA SettleMoves ==
    ASSUME CoreInv, NEW w \in Workers,
           \/ SkipLevel(w) \/ InsertEvent(w) \/ FailBudget(w)
           \/ \E v \in Workers : DeadlockVictim(v, w)
    PROVE  Settles(w)
  <1> DEFINE next == WithLevels(task[w], task[w].levels \ {NextLevel(task[w].levels)})
  <1>0. /\ task = [u \in Workers |-> task[u]]
        /\ pending \in [Workers -> SUBSET EventKeys]
    BY DEF CoreInv, TasksInv
  <1>1. CASE SkipLevel(w)
    <2>1. /\ AtLevel(w) /\ EventAt(w) \in events
          /\ task'[w] = next /\ pending'[w] = pending[w]
      BY <1>0, <1>1 DEF SkipLevel, tables
    <2> QED BY <2>1 DEF Settles
  <1>2. CASE InsertEvent(w)
    <2>1. AtLevel(w) /\ task'[w] = next /\ pending'[w] = pending[w] \union {EventAt(w)}
      BY <1>0, <1>2 DEF InsertEvent
    <2> QED BY <2>1 DEF Settles
  <1>3. CASE FailBudget(w)
    <2>1. AtLevel(w) /\ task'[w] = WithLevels(task[w], {})
      BY <1>0, <1>3 DEF FailBudget
    <2>2. pending'[w] = pending[w] \/ pending'[w] = pending[w] \union {EventAt(w)}
      BY <1>0, <1>3 DEF FailBudget
    <2>3. task'[w].stage = "budgets"
      BY <2>1 DEF WithLevels, Idle
    <2> QED BY <2>1, <2>2, <2>3 DEF Settles
  <1>4. ASSUME NEW v \in Workers, DeadlockVictim(v, w) PROVE Settles(w)
    <2>1. /\ AtLevel(w) /\ w # v
          /\ task' = [task EXCEPT ![v] = Idle, ![w] = WithLevels(@, @.levels \ {NextLevel(@.levels)})]
          /\ pending' = [pending EXCEPT ![v] = {}, ![w] = @ \union {EventAt(w)}]
      BY <1>4 DEF DeadlockVictim
    <2>2. task'[w] = next
      BY <1>0, <2>1
    <2>3. pending'[w] = pending[w] \union {EventAt(w)}
      BY <1>0, <2>1
    <2> QED BY <2>1, <2>2, <2>3 DEF Settles
  <1> QED BY <1>1, <1>2, <1>3, <1>4

\* What ends an evaluation.
LEMMA EndMoves ==
    ASSUME CoreInv, NEW w \in Workers,
           \/ Commit(w) \/ DatabaseError(w) \/ Die(w)
           \/ \E v \in Workers : DeadlockVictim(w, v)
    PROVE  Ends(w)
  <1>0. /\ task = [u \in Workers |-> task[u]]
        /\ pending \in [Workers -> SUBSET EventKeys]
    BY DEF CoreInv, TasksInv
  <1>1. CASE Commit(w)
    BY <1>0, <1>1 DEF Commit, Ends
  <1>2. CASE DatabaseError(w) \/ Die(w)
    <2>1. task[w].stage # "idle" /\ Abort(w)
      BY <1>2 DEF DatabaseError, Die
    <2> QED BY <1>0, <2>1 DEF Abort, Ends
  <1>3. ASSUME NEW v \in Workers, DeadlockVictim(w, v) PROVE Ends(w)
    <2>1. /\ AtLevel(w) /\ w # v /\ pending[w] \subseteq lost'
          /\ task' = [task EXCEPT ![w] = Idle, ![v] = WithLevels(@, @.levels \ {NextLevel(@.levels)})]
          /\ pending' = [pending EXCEPT ![w] = {}, ![v] = @ \union {EventAt(v)}]
      BY <1>3 DEF DeadlockVictim
    <2> QED BY <1>0, <2>1 DEF Ends, AtLevel
  <1> QED BY <1>1, <1>2, <1>3

\* The workers that an action is not of stay as they are.
LEMMA OthersStay ==
    ASSUME CoreInv, NEW w \in Workers, NEW u \in Workers, u # w
    PROVE  /\ (\/ StartEvaluation(w) \/ StartForecast(w) \/ Evaluate(w)
               \/ FailBudget(w) \/ DatabaseError(w) \/ Die(w)) => Stays(u)
           /\ \A v \in Workers : (DeadlockVictim(w, v) /\ u # v) => Stays(u)
  <1>0. /\ task = [x \in Workers |-> task[x]]
        /\ pending \in [Workers -> SUBSET EventKeys]
    BY DEF CoreInv, TasksInv
  <1>1. ASSUME StartEvaluation(w) \/ StartForecast(w) PROVE Stays(u)
    BY <1>0, <1>1 DEF StartEvaluation, StartForecast, Stays, tables
  <1>2. ASSUME Evaluate(w) PROVE Stays(u)
    <2>1. CASE EvaluateBudget(w)
      <3>1. pending' = pending
        BY <2>1 DEF EvaluateBudget, tables
      <3>2. task'[u] = task[u]
        BY <1>0, <2>1 DEF EvaluateBudget
      <3> QED BY <3>1, <3>2 DEF Stays
    <2>2. CASE SkipLevel(w)
      BY <1>0, <2>2 DEF SkipLevel, Stays, tables
    <2>3. CASE InsertEvent(w)
      BY <1>0, <2>3 DEF InsertEvent, Stays
    <2>4. CASE Commit(w)
      BY <1>0, <2>4 DEF Commit, Stays
    <2> QED BY <1>2, <2>1, <2>2, <2>3, <2>4 DEF Evaluate
  <1>3. ASSUME FailBudget(w) PROVE Stays(u)
    BY <1>0, <1>3 DEF FailBudget, Stays
  <1>4. ASSUME DatabaseError(w) \/ Die(w) PROVE Stays(u)
    BY <1>0, <1>4 DEF DatabaseError, Die, Abort, Stays
  <1>5. ASSUME NEW v \in Workers, DeadlockVictim(w, v), u # v PROVE Stays(u)
    BY <1>0, <1>5 DEF DeadlockVictim, Stays
  <1> QED BY <1>1, <1>2, <1>3, <1>4, <1>5

(***************************************************************************)
(* Whatever the step, a worker stays, or its evaluation starts, goes on    *)
(* or ends.                                                                *)
(***************************************************************************)
LEMMA WorkersMove ==
    ASSUME CoreInv, [Next]_vars, NEW u \in Workers
    PROVE  Moves(u)
  <1>1. ASSUME UNCHANGED <<task, pending>> PROVE Moves(u)
    BY <1>1 DEF Moves, Stays
  <1>2. CASE UNCHANGED vars
    BY <1>1, <1>2 DEF vars, tables
  <1>3. CASE NextDay
    BY <1>1, <1>3 DEF NextDay, tables
  <1>4. ASSUME NEW d \in Days, NEW v \in ScopeValues, RecordUsage(d, v) PROVE Moves(u)
    BY <1>1, <1>4 DEF RecordUsage, tables
  <1>5. ASSUME NEW b \in Budgets, NEW n \in Names, NEW c \in Caps,
               CreateBudget(b, n, c) \/ UpdateBudget(b, n, c)
        PROVE  Moves(u)
    BY <1>1, <1>5 DEF CreateBudget, UpdateBudget, Write
  <1>6. ASSUME NEW b \in Budgets, DeleteBudget(b) PROVE Moves(u)
    BY <1>1, <1>6 DEF DeleteBudget, Write
  <1>7. ASSUME NEW e \in events, Acknowledge(e) PROVE Moves(u)
    BY <1>1, <1>7 DEF Acknowledge
  <1>8. ASSUME NEW w \in Workers,
               \/ StartEvaluation(w) \/ StartForecast(w) \/ Evaluate(w)
               \/ FailBudget(w) \/ DatabaseError(w) \/ Die(w)
        PROVE  Moves(u)
    <2>1. CASE u # w
      BY <1>8, <2>1, OthersStay DEF Moves
    <2>2. CASE u = w
      BY <1>8, <2>2, StartMoves, WeighMoves, SettleMoves, EndMoves DEF Moves, Evaluate
    <2> QED BY <2>1, <2>2
  <1>9. ASSUME NEW w \in Workers, NEW v \in Workers, DeadlockVictim(w, v) PROVE Moves(u)
    <2>1. CASE u # w /\ u # v
      BY <1>9, <2>1, OthersStay DEF Moves
    <2>2. CASE u = w
      BY <1>9, <2>2, EndMoves DEF Moves
    <2>3. CASE u = v
      BY <1>9, <2>3, SettleMoves DEF Moves
    <2> QED BY <2>1, <2>2, <2>3
  <1> QED BY <1>2, <1>3, <1>4, <1>5, <1>6, <1>7, <1>8, <1>9 DEF Next
-----------------------------------------------------------------------------
(* What a step does to the tables and the calendar. *)

\* A row to be inserted has the key of its worker's budget, period and level.
LEMMA EventTyped ==
    ASSUME CoreInv, NEW w \in Workers, AtLevel(w)
    PROVE  /\ EventAt(w) \in EventKeys
           /\ EventAt(w) = KeyOf(task[w], NextLevel(task[w].levels))
           /\ WellFormed(task[w]) /\ task[w].stage = "levels"
  <1>1. WellFormed(task[w]) /\ task[w].stage = "levels"
    BY DEF CoreInv, TasksInv, AtLevel
  <1>2. EventAt(w) = KeyOf(task[w], NextLevel(task[w].levels))
    BY DEF EventAt, KeyOf
  <1> QED BY <1>1, <1>2, NextLevelIs

\* The tables, on which the rest of the state does not depend.
World ==
    /\ today' \in Days /\ SpendTyped' /\ SpendUp
    /\ budgets' \in [Budgets -> Row]
    /\ events \subseteq events'
    /\ \/ budgets' = budgets /\ edits' = edits
       \/ edits' = edits + 1

\* Every step moves the tables and the calendar as World says.
LEMMA WorldMoves ==
    ASSUME CoreInv, [Next]_vars
    PROVE  World
  <1>0. /\ today \in Days /\ SpendTyped /\ budgets \in [Budgets -> Row]
        /\ MaxDay \in Nat
    BY BudgetsAssumption DEF CoreInv
  <1>1. ASSUME UNCHANGED spend PROVE SpendTyped' /\ SpendUp
    BY <1>0, <1>1 DEF SpendTyped, SpendUp
  <1>2. ASSUME UNCHANGED <<today, spend, budgets, edits>>, events \subseteq events'
        PROVE  World
    BY <1>0, <1>1, <1>2 DEF World
  <1>3. CASE UNCHANGED vars
    BY <1>2, <1>3 DEF vars, tables, history
  <1>4. CASE NextDay
    <2>1. today' \in Days
      BY <1>0, <1>4 DEF NextDay, Days
    <2> QED BY <1>0, <1>1, <1>4, <2>1 DEF NextDay, World, tables, history
  <1>5. ASSUME NEW d \in Days, NEW v \in ScopeValues, RecordUsage(d, v) PROVE World
    <2>1. SpendTyped' /\ SpendUp
      BY <1>0, <1>5, RecordAdds
    <2> QED BY <1>0, <1>5, <2>1 DEF RecordUsage, World, tables, history
  <1>6. ASSUME NEW b \in Budgets, NEW row \in Row, Write(b, row) PROVE World
    BY <1>0, <1>1, <1>6 DEF Write, Edit, World
  <1>7. ASSUME NEW b \in Budgets, NEW n \in Names, NEW c \in Caps,
               CreateBudget(b, n, c) \/ UpdateBudget(b, n, c)
        PROVE  World
    <2>1. /\ [status |-> "live", name |-> n, cap |-> c] \in Row
          /\ [budgets[b] EXCEPT !.name = n, !.cap = c] \in Row
      BY <1>0 DEF Row
    <2> QED BY <1>6, <1>7, <2>1 DEF CreateBudget, UpdateBudget
  <1>8. ASSUME NEW b \in Budgets, DeleteBudget(b) PROVE World
    <2>1. [budgets[b] EXCEPT !.status = "deleted"] \in Row
      BY <1>0 DEF Row
    <2> QED BY <1>6, <1>8, <2>1 DEF DeleteBudget
  <1>9. ASSUME NEW e \in events, Acknowledge(e) PROVE World
    BY <1>0, <1>1, <1>9 DEF Acknowledge, Edit, World
  <1>10. ASSUME NEW w \in Workers,
                \/ StartEvaluation(w) \/ StartForecast(w) \/ Evaluate(w)
                \/ FailBudget(w) \/ DatabaseError(w) \/ Die(w)
         PROVE  World
    <2>1. CASE StartEvaluation(w) \/ StartForecast(w)
      BY <1>2, <2>1 DEF StartEvaluation, StartForecast, tables, history
    <2>2. CASE EvaluateBudget(w) \/ SkipLevel(w)
      <3>1. UNCHANGED <<today, spend, tables, incidents, history>>
        BY <2>2 DEF EvaluateBudget, SkipLevel
      <3> QED BY <1>2, <3>1 DEF tables, history
    <2>3. CASE InsertEvent(w)
      BY <1>2, <2>3 DEF InsertEvent
    <2>4. CASE Commit(w)
      BY <1>2, <2>4 DEF Commit, history
    <2>5. CASE FailBudget(w)
      BY <1>2, <2>5 DEF FailBudget
    <2>6. CASE DatabaseError(w) \/ Die(w)
      BY <1>2, <2>6 DEF DatabaseError, Die, Abort
    <2> QED BY <1>10, <2>1, <2>2, <2>3, <2>4, <2>5, <2>6 DEF Evaluate
  <1>11. ASSUME NEW w \in Workers, NEW v \in Workers, DeadlockVictim(w, v) PROVE World
    BY <1>2, <1>11 DEF DeadlockVictim
  <1> QED BY <1>3, <1>4, <1>5, <1>7, <1>8, <1>9, <1>10, <1>11 DEF Next

\* The tables of transactions and of tasks keep their shape.
LEMMA ShapesStay ==
    ASSUME CoreInv, [Next]_vars
    PROVE  /\ task' = [w \in Workers |-> task'[w]]
           /\ pending' = [w \in Workers |-> pending'[w]]
  <1> DEFINE Goal == /\ task' = [w \in Workers |-> task'[w]]
                     /\ pending' = [w \in Workers |-> pending'[w]]
  <1>0. /\ task = [w \in Workers |-> task[w]]
        /\ pending = [w \in Workers |-> pending[w]]
    BY DEF CoreInv, TasksInv
  <1>1. ASSUME UNCHANGED <<task, pending>> PROVE Goal
    BY <1>0, <1>1
  <1>2. CASE UNCHANGED vars
    BY <1>1, <1>2 DEF vars, tables
  <1>3. CASE NextDay
    BY <1>1, <1>3 DEF NextDay, tables
  <1>4. ASSUME NEW d \in Days, NEW v \in ScopeValues, RecordUsage(d, v) PROVE Goal
    BY <1>1, <1>4 DEF RecordUsage, tables
  <1>5. ASSUME NEW b \in Budgets, NEW n \in Names, NEW c \in Caps,
               CreateBudget(b, n, c) \/ UpdateBudget(b, n, c)
        PROVE  Goal
    BY <1>1, <1>5 DEF CreateBudget, UpdateBudget, Write
  <1>6. ASSUME NEW e \in events, Acknowledge(e) PROVE Goal
    BY <1>1, <1>6 DEF Acknowledge
  <1>7. ASSUME NEW w \in Workers, StartEvaluation(w) \/ StartForecast(w) PROVE Goal
    BY <1>0, <1>7 DEF StartEvaluation, StartForecast, tables
  <1>8. ASSUME NEW w \in Workers, EvaluateBudget(w) PROVE Goal
    <2>1. PICK new : task' = [task EXCEPT ![w] = new]
      BY <1>8 DEF EvaluateBudget
    <2>2. pending' = pending
      BY <1>8 DEF EvaluateBudget, tables
    <2> QED BY <1>0, <2>1, <2>2
  <1>9. ASSUME NEW w \in Workers, SkipLevel(w) \/ InsertEvent(w) \/ Commit(w) PROVE Goal
    BY <1>0, <1>9 DEF SkipLevel, InsertEvent, Commit, tables
  <1>10. ASSUME NEW w \in Workers, FailBudget(w) \/ DatabaseError(w) \/ Die(w) PROVE Goal
    BY <1>0, <1>10 DEF FailBudget, DatabaseError, Die, Abort
  <1>11. ASSUME NEW w \in Workers, NEW v \in Workers, DeadlockVictim(w, v) PROVE Goal
    BY <1>0, <1>11 DEF DeadlockVictim
  <1>12. ASSUME NEW b \in Budgets, DeleteBudget(b) PROVE Goal
    BY <1>1, <1>12 DEF DeleteBudget, Write
  <1> QED BY <1>2, <1>3, <1>4, <1>5, <1>6, <1>7, <1>8, <1>9, <1>10, <1>11, <1>12
             DEF Next, Evaluate

\* Every step keeps the types and the tasks.
LEMMA CoreNext ==
    ASSUME CoreInv, [Next]_vars
    PROVE  CoreInv'
  <1>1. ASSUME NEW w \in Workers
        PROVE  WellFormed(task'[w]) /\ pending'[w] \subseteq EventKeys
    <2>0. WellFormed(task[w]) /\ pending[w] \subseteq EventKeys /\ Moves(w)
      BY WorkersMove DEF CoreInv, TasksInv
    <2>1. CASE Stays(w)
      BY <2>0, <2>1 DEF Stays
    <2>2. CASE Ends(w)
      BY <2>0, <2>2, IdleWellFormed DEF Ends
    <2>3. CASE Starts(w) \/ Weighs(w)
      BY <2>0, <2>3 DEF Starts, Weighs
    <2>4. CASE Settles(w)
      <3>1. /\ EventAt(w) \in EventKeys /\ AtLevel(w)
            /\ task[w] \in Task /\ task[w].budget \in Budgets /\ task[w].levels \subseteq Levels
            /\ \A r, s \in task[w].todo : r[1] = s[1] => r = s
            /\ \A r \in task[w].todo : r[1] # task[w].budget
        BY <2>4, EventTyped, NextLevelIs DEF Settles, WellFormed
      <3>2. \A T \in SUBSET Levels : WellFormed(WithLevels(task[w], T))
        BY <3>1, GoesOn
      <3> QED BY <2>0, <2>4, <3>1, <3>2 DEF Settles
    <2> QED BY <2>0, <2>1, <2>2, <2>3, <2>4 DEF Moves
  <1>2. TasksInv' /\ pending' \in [Workers -> SUBSET EventKeys]
    BY <1>1, ShapesStay DEF TasksInv
  <1> QED BY <1>2, WorldMoves DEF World, CoreInv
-----------------------------------------------------------------------------
(* Keys. *)

\* The rows an evaluation may still insert.
ToCome(t, e) == \/ \E r \in t.todo : r[1] = e.budget
                \/ t.stage = "levels" /\ t.budget = e.budget /\ e.level \in t.levels

\* A key has one row in sight, and an evaluation comes to it once.
KeysInv ==
    /\ \A w \in Workers : task[w].stage = "idle" => pending[w] = {}
    /\ \A w \in Workers : pending[w] \intersect events = {}
    /\ \A w, v \in Workers : w # v => pending[w] \intersect pending[v] = {}
    /\ \A w \in Workers : \A e \in pending[w] : ~ToCome(task[w], e)

\* What was inserted, and what is to come, of one evaluation.
LEMMA ToComeNext ==
    ASSUME CoreInv, KeysInv, [Next]_vars, NEW w \in Workers, NEW e \in pending'[w]
    PROVE  ~ToCome(task'[w], e) /\ task'[w].stage # "idle"
  <1>0. /\ Moves(w) /\ WellFormed(task[w]) /\ WellFormed(task'[w])
        /\ \A x \in pending[w] : ~ToCome(task[w], x)
        /\ pending[w] # {} => task[w].stage # "idle"
    BY WorkersMove, CoreNext DEF CoreInv, TasksInv, KeysInv
  <1>1. CASE Stays(w)
    BY <1>0, <1>1 DEF Stays
  <1>2. CASE Ends(w)
    BY <1>2 DEF Ends
  <1>3. CASE Starts(w)
    BY <1>0, <1>3 DEF Starts
  <1>4. CASE Weighs(w)
    <2>1. PICK r \in task[w].todo :
             /\ task'[w].todo = task[w].todo \ {r}
             /\ task'[w].stage = "levels" => task'[w].budget = r[1]
      BY <1>4 DEF Weighs
    <2>2. e \in pending[w] /\ task'[w].stage \in {"budgets", "levels"}
      BY <1>4 DEF Weighs
    <2> QED BY <1>0, <2>1, <2>2 DEF ToCome
  <1>5. CASE Settles(w)
    <2> DEFINE t == task[w]
               n == NextLevel(task[w].levels)
    <2>1. /\ AtLevel(w) /\ t.stage = "levels" /\ EventAt(w) = KeyOf(t, n)
          /\ n \in t.levels /\ t.levels \subseteq Levels
          /\ t \in Task /\ t.budget \in Budgets
          /\ \A r, s \in t.todo : r[1] = s[1] => r = s
          /\ \A r \in t.todo : r[1] # t.budget
      BY <1>5, EventTyped, NextLevelIs DEF Settles, WellFormed
    <2>2. PICK T \in SUBSET (t.levels \ {n}) : task'[w] = WithLevels(t, T)
      BY <1>5 DEF Settles
    <2>3. /\ task'[w].todo = t.todo /\ task'[w].stage \in {"budgets", "levels"}
          /\ task'[w].stage = "levels" => task'[w].levels = T /\ task'[w].budget = t.budget
      <3> HIDE DEF t
      <3> QED BY <2>1, <2>2, GoesOn
    <2>4. e \in pending[w] \/ e = KeyOf(t, n)
      BY <1>5, <2>1 DEF Settles
    <2>5. CASE e \in pending[w]
      BY <1>0, <2>1, <2>2, <2>3, <2>5 DEF ToCome
    <2>6. CASE e = KeyOf(t, n)
      BY <2>1, <2>2, <2>3, <2>6 DEF ToCome, KeyOf
    <2> QED BY <2>4, <2>5, <2>6
  <1> QED BY <1>0, <1>1, <1>2, <1>3, <1>4, <1>5 DEF Moves

(***************************************************************************)
(* No two transactions have a key in hand, nor one that is committed: an   *)
(* insertion waits for the transaction that has the key, and looks.        *)
(***************************************************************************)
LEMMA KeysNext ==
    ASSUME CoreInv, KeysInv, [Next]_vars
    PROVE  KeysInv'
  <1> DEFINE Apart == /\ \A w \in Workers : pending'[w] \intersect events' = {}
                      /\ \A w, v \in Workers :
                            w # v => pending'[w] \intersect pending'[v] = {}
  <1>0. /\ pending \in [Workers -> SUBSET EventKeys]
        /\ \A w \in Workers : pending[w] \intersect events = {}
        /\ \A w, v \in Workers : w # v => pending[w] \intersect pending[v] = {}
    BY DEF CoreInv, KeysInv
  <1>1. ASSUME UNCHANGED <<events, pending>> PROVE Apart
    BY <1>0, <1>1
  <1>2. ASSUME UNCHANGED vars PROVE Apart
    BY <1>1, <1>2 DEF vars, tables
  <1>3. ASSUME NextDay PROVE Apart
    BY <1>1, <1>3 DEF NextDay, tables
  <1>4. ASSUME NEW d \in Days, NEW v \in ScopeValues, RecordUsage(d, v) PROVE Apart
    BY <1>1, <1>4 DEF RecordUsage, tables
  <1>5. ASSUME NEW b \in Budgets, NEW n \in Names, NEW c \in Caps,
               CreateBudget(b, n, c) \/ UpdateBudget(b, n, c)
        PROVE  Apart
    BY <1>1, <1>5 DEF CreateBudget, UpdateBudget, Write
  <1>6. ASSUME NEW b \in Budgets, DeleteBudget(b) PROVE Apart
    BY <1>1, <1>6 DEF DeleteBudget, Write
  <1>7. ASSUME NEW e \in events, Acknowledge(e) PROVE Apart
    BY <1>1, <1>7 DEF Acknowledge
  <1>8. ASSUME NEW w \in Workers,
               StartEvaluation(w) \/ StartForecast(w) \/ EvaluateBudget(w) \/ SkipLevel(w)
        PROVE  Apart
    <2>1. UNCHANGED tables
      BY <1>8 DEF StartEvaluation, StartForecast, EvaluateBudget, SkipLevel
    <2> QED BY <1>1, <2>1 DEF tables
  <1>9. ASSUME NEW w \in Workers, events' = events,
               EventAt(w) \notin events, ~Held(EventAt(w), w),
               pending' = [pending EXCEPT ![w] = @ \union {EventAt(w)}]
        PROVE  Apart
    BY <1>0, <1>9 DEF Held
  <1>10. ASSUME NEW w \in Workers, InsertEvent(w) PROVE Apart
    BY <1>9, <1>10 DEF InsertEvent
  <1>11. ASSUME NEW w \in Workers, Commit(w) PROVE Apart
    <2>1. events' = events \union pending[w] /\ pending' = [pending EXCEPT ![w] = {}]
      BY <1>11 DEF Commit
    <2> QED BY <1>0, <2>1
  <1>12. ASSUME NEW w \in Workers, FailBudget(w) PROVE Apart
    <2>1. events' = events
      BY <1>12 DEF FailBudget
    <2>2. CASE EventAt(w) \in events \/ Held(EventAt(w), w)
      BY <1>1, <1>12, <2>1, <2>2 DEF FailBudget
    <2>3. CASE ~(EventAt(w) \in events \/ Held(EventAt(w), w))
      BY <1>9, <1>12, <2>1, <2>3 DEF FailBudget
    <2> QED BY <2>2, <2>3
  <1>13. ASSUME NEW w \in Workers, DatabaseError(w) \/ Die(w) PROVE Apart
    <2>1. events' = events /\ pending' = [pending EXCEPT ![w] = {}]
      BY <1>13 DEF DatabaseError, Die, Abort
    <2> QED BY <1>0, <2>1
  <1>14. ASSUME NEW w \in Workers, NEW v \in Workers, DeadlockVictim(w, v) PROVE Apart
    <2>1. /\ events' = events /\ v # w /\ EventAt(v) \in pending[w]
          /\ pending' = [pending EXCEPT ![w] = {}, ![v] = @ \union {EventAt(v)}]
      BY <1>14 DEF DeadlockVictim
    <2> QED BY <1>0, <2>1
  <1>15. Apart
    BY <1>2, <1>3, <1>4, <1>5, <1>6, <1>7, <1>8, <1>10, <1>11, <1>12, <1>13, <1>14
       DEF Next, Evaluate
  <1> HIDE DEF Apart
  <1>16. \A w \in Workers : \A e \in pending'[w] :
            ~ToCome(task'[w], e) /\ task'[w].stage # "idle"
    BY ToComeNext
  <1> QED BY <1>15, <1>16 DEF KeysInv, Apart, ToCome
-----------------------------------------------------------------------------
(* Types. *)

BooksInv ==
    /\ Spent <= MaxUsage
    /\ events \subseteq EventKeys /\ acknowledged \subseteq events
    /\ incidents \subseteq Names \X Days \X Levels
    /\ again \subseteq alerted /\ lost \subseteq EventKeys /\ alerted \subseteq EventKeys
    /\ edits \in 0..MaxFaults /\ failures \in 0..MaxFaults

\* What an insertion and its alert do to the books.
LEMMA SendTyped ==
    ASSUME CoreInv, BooksInv, NEW w \in Workers, AtLevel(w), SendAlert(w)
    PROVE  /\ incidents' \subseteq Names \X Days \X Levels
           /\ again' \subseteq alerted' /\ alerted' \subseteq EventKeys
           /\ edits' = edits => failures' \in 0..MaxFaults
  <1>1. EventAt(w) \in EventKeys /\ DedupKey(task[w]) \in Names \X Days \X Levels
    BY EventTyped, NextLevelIs
  <1>2. failures' = failures \/ Fails
    BY DEF SendAlert
  <1>3. edits' = edits => failures' \in 0..MaxFaults
    BY <1>2, BudgetsAssumption DEF Fails, BooksInv
  <1> QED BY <1>1, <1>3 DEF SendAlert, BooksInv

\* Every step keeps the books.
LEMMA BooksNext ==
    ASSUME CoreInv, BooksInv, [Next]_vars
    PROVE  BooksInv'
  <1>0. MaxFaults \in Nat /\ MaxUsage \in Nat
    BY BudgetsAssumption
  <1>1. Spent' <= MaxUsage
    <2>1. ASSUME UNCHANGED spend PROVE Spent' = Spent
      <3>1. PICK g, h : g = SpentOn(ScopeValues) /\ h = SpentOn(ScopeValues)'
        OBVIOUS
      <3>2. \A d \in Days : SpendOn(d, ScopeValues) = SumOf(spend[d], ScopeValues)
        BY SpendOnIsSum
      <3>3. \A d \in Days : SpendOn(d, ScopeValues)' = SumOf(spend'[d], ScopeValues)
        BY SpendNext
      <3>4. /\ g = [d \in Days |-> SumOf(spend[d], ScopeValues)]
            /\ h = [d \in Days |-> SumOf(spend'[d], ScopeValues)]
        BY <3>1, <3>2, <3>3 DEF SpentOn
      <3>5. g = h
        BY <2>1, <3>4
      <3> QED BY <3>1, <3>5, ComputeSpendIsSum, SpendNext
    <2>2. ASSUME NEW d \in Days, NEW v \in ScopeValues, RecordUsage(d, v)
          PROVE  Spent' <= MaxUsage
      <3>1. Spent \in Nat
        <4>1. TenantScope \in Scopes /\ Slice(TenantScope) = ScopeValues /\ SpendTyped
          BY DEF Scopes, Slice, CoreInv
        <4> QED BY <4>1, SpendTypes, ComputeSpendIsSum
      <3>2. Spent' = Spent + 1 /\ Spent < MaxUsage
        BY <2>2, RecordAdds DEF CoreInv, RecordUsage
      <3> QED BY <1>0, <3>1, <3>2
    <2>3. UNCHANGED spend \/ \E d \in Days, v \in ScopeValues : RecordUsage(d, v)
      BY DEF Next, vars, NextDay, CreateBudget, UpdateBudget, DeleteBudget, Write, Acknowledge,
             StartEvaluation, StartForecast, Evaluate, EvaluateBudget, SkipLevel, InsertEvent,
             Commit, FailBudget, DatabaseError, Die, Abort, DeadlockVictim
    <2> QED BY <2>1, <2>2, <2>3 DEF BooksInv
  <1> DEFINE Rows == /\ events' \subseteq EventKeys /\ acknowledged' \subseteq events'
                     /\ incidents' \subseteq Names \X Days \X Levels
                     /\ again' \subseteq alerted' /\ lost' \subseteq EventKeys
                     /\ alerted' \subseteq EventKeys
                     /\ edits' \in 0..MaxFaults /\ failures' \in 0..MaxFaults
  <1>2. /\ events \subseteq EventKeys /\ acknowledged \subseteq events
        /\ incidents \subseteq Names \X Days \X Levels
        /\ again \subseteq alerted /\ lost \subseteq EventKeys /\ alerted \subseteq EventKeys
        /\ edits \in 0..MaxFaults /\ failures \in 0..MaxFaults
        /\ \A w \in Workers : pending[w] \subseteq EventKeys
    BY DEF BooksInv, CoreInv
  <1>3. ASSUME UNCHANGED <<events, acknowledged, incidents, history>> PROVE Rows
    BY <1>2, <1>3 DEF history
  <1>4. ASSUME UNCHANGED vars \/ NextDay PROVE Rows
    BY <1>3, <1>4 DEF vars, tables, NextDay
  <1>5. ASSUME NEW d \in Days, NEW v \in ScopeValues, RecordUsage(d, v) PROVE Rows
    BY <1>3, <1>5 DEF RecordUsage, tables
  <1>6. ASSUME NEW b \in Budgets, NEW row, Write(b, row) PROVE Rows
    BY <1>0, <1>2, <1>6 DEF Write, Edit
  <1>7. ASSUME NEW b \in Budgets, NEW n \in Names, NEW c \in Caps,
               CreateBudget(b, n, c) \/ UpdateBudget(b, n, c)
        PROVE  Rows
    BY <1>6, <1>7 DEF CreateBudget, UpdateBudget
  <1>8. ASSUME NEW b \in Budgets, DeleteBudget(b) PROVE Rows
    BY <1>6, <1>8 DEF DeleteBudget
  <1>9. ASSUME NEW e \in events, Acknowledge(e) PROVE Rows
    BY <1>0, <1>2, <1>9 DEF Acknowledge, Edit
  <1>10. ASSUME NEW w \in Workers,
                StartEvaluation(w) \/ StartForecast(w) \/ EvaluateBudget(w) \/ SkipLevel(w)
         PROVE  Rows
    <2>1. UNCHANGED <<tables, incidents, history>>
      BY <1>10 DEF StartEvaluation, StartForecast, EvaluateBudget, SkipLevel
    <2> QED BY <1>3, <2>1 DEF tables
  <1>11. ASSUME NEW w \in Workers, InsertEvent(w) PROVE Rows
    <2>1. /\ AtLevel(w) /\ SendAlert(w)
          /\ UNCHANGED <<events, acknowledged, lost, edits>>
      BY <1>11 DEF InsertEvent
    <2> QED BY <1>2, <2>1, SendTyped
  <1>12. ASSUME NEW w \in Workers, Commit(w) PROVE Rows
    BY <1>2, <1>12 DEF Commit, history
  <1>13. ASSUME NEW w \in Workers, FailBudget(w) PROVE Rows
    BY <1>0, <1>2, <1>13 DEF FailBudget, Fails
  <1>14. ASSUME NEW w \in Workers, DatabaseError(w) \/ Die(w) PROVE Rows
    BY <1>0, <1>2, <1>14 DEF DatabaseError, Die, Abort, Fails
  <1>15. ASSUME NEW w \in Workers, NEW v \in Workers, DeadlockVictim(w, v) PROVE Rows
    <2>1. /\ AtLevel(v) /\ SendAlert(v) /\ lost' = lost \union pending[w]
          /\ UNCHANGED <<events, acknowledged, edits>>
      BY <1>15 DEF DeadlockVictim
    <2> QED BY <1>2, <2>1, SendTyped
  <1>16. Rows
    BY <1>4, <1>5, <1>7, <1>8, <1>9, <1>10, <1>11, <1>12, <1>13, <1>14, <1>15
       DEF Next, Evaluate
  <1> QED BY <1>1, <1>16 DEF BooksInv
-----------------------------------------------------------------------------
(* Alerts. *)

\* The rows whose alert an exception passed over, and the alerts that
\* PagerDuty did not hear of.
Unsent == ((events \union UNION {pending[w] : w \in Workers}) \ alerted) \union Unheard

IncidentsOk == \A i \in incidents : \E e \in alerted : /\ e.budget \in Routed
                                                    /\ i[2] = e.start /\ i[3] = e.level

\* What an alert was sent for is in the table, in a transaction, or lost.
AlertsInv ==
    /\ again \subseteq lost
    /\ IncidentsOk
    /\ \A e \in alerted : e \in lost \/ e \in events \/ \E w \in Workers : e \in pending[w]
    /\ IsFiniteSet(Unsent) /\ Cardinality(Unsent) <= failures

\* Where no row is added but those that are alerted, none is unsent anew.
LEMMA UnsentStays ==
    ASSUME AlertsInv, failures \in Nat, failures' = failures \/ failures' = failures + 1,
           alerted \subseteq alerted', Unheard' \subseteq Unheard,
           events' \subseteq events \union (UNION {pending[w] : w \in Workers}) \union alerted',
           \A w \in Workers :
              pending'[w] \subseteq events \union (UNION {pending[v] : v \in Workers})
                                      \union alerted'
    PROVE  IsFiniteSet(Unsent') /\ Cardinality(Unsent') <= failures'
  <1>1. Unsent' \subseteq Unsent
    BY DEF Unsent
  <1>2. PICK S, T : S = Unsent /\ T = Unsent'
    OBVIOUS
  <1>3. IsFiniteSet(S) /\ Cardinality(S) <= failures
    BY <1>2 DEF AlertsInv
  <1>4. IsFiniteSet(T) /\ Cardinality(T) <= Cardinality(S)
    BY <1>1, <1>2, <1>3, FS_Subset
  <1>5. Cardinality(S) \in Nat /\ Cardinality(T) \in Nat
    BY <1>3, <1>4, FS_CardinalityType
  <1> QED BY <1>2, <1>3, <1>4, <1>5

\* An exception passes one over, or PagerDuty does not hear of one.
LEMMA UnsentGrows ==
    ASSUME AlertsInv, failures \in Nat, failures' = failures + 1, NEW e,
           alerted \subseteq alerted', Unheard' \subseteq Unheard \union {e}, events' = events,
           \A w \in Workers : pending'[w] \subseteq pending[w] \union {e}
    PROVE  IsFiniteSet(Unsent') /\ Cardinality(Unsent') <= failures'
  <1>1. Unsent' \subseteq Unsent \union {e}
    BY DEF Unsent
  <1>2. PICK S, T : S = Unsent /\ T = Unsent'
    OBVIOUS
  <1>3. IsFiniteSet(S) /\ Cardinality(S) <= failures
    BY <1>2 DEF AlertsInv
  <1>4. /\ IsFiniteSet(S \union {e})
        /\ Cardinality(S \union {e}) = IF e \in S THEN Cardinality(S) ELSE Cardinality(S) + 1
    BY <1>3, FS_AddElement
  <1>5. IsFiniteSet(T) /\ Cardinality(T) <= Cardinality(S \union {e})
    BY <1>1, <1>2, <1>4, FS_Subset
  <1>6. Cardinality(S) \in Nat /\ Cardinality(T) \in Nat
    BY <1>3, <1>5, FS_CardinalityType
  <1> QED BY <1>2, <1>3, <1>4, <1>5, <1>6

\* An alert that is sent, and its incident if PagerDuty heard of it.
LEMMA Sent ==
    ASSUME CoreInv, AlertsInv, NEW w \in Workers, AtLevel(w), SendAlert(w)
    PROVE  /\ IncidentsOk'
           /\ \/ Unheard' \subseteq Unheard /\ failures' = failures
              \/ Unheard' \subseteq Unheard \union {EventAt(w)} /\ failures' = failures + 1
  <1>1. PICK k, e : k = DedupKey(task[w]) /\ e = EventAt(w)
    OBVIOUS
  <1>2. k[2] = e.start /\ k[3] = e.level /\ e.budget = task[w].budget
    BY <1>1 DEF DedupKey, EventAt
  <1>3. /\ alerted' = alerted \union {e}
        /\ \/ /\ incidents' = IF e.budget \in Routed THEN incidents \union {k} ELSE incidents
              /\ failures' = failures
           \/ e.budget \in Routed /\ incidents' = incidents /\ failures' = failures + 1
    BY <1>1, <1>2 DEF SendAlert, Fails
  <1>4. IncidentsOk'
    BY <1>2, <1>3 DEF AlertsInv, IncidentsOk
  <1>5. incidents \subseteq incidents'
    BY <1>3
  <1>6. Unheard' \subseteq Unheard \union {e}
    BY <1>3, <1>5 DEF Unheard
  <1>7. CASE failures' = failures + 1 /\ incidents' = incidents
    BY <1>1, <1>4, <1>6, <1>7
  <1>8. CASE /\ incidents' = IF e.budget \in Routed THEN incidents \union {k} ELSE incidents
             /\ failures' = failures
    <2>1. e \notin Unheard'
      BY <1>2, <1>8 DEF Unheard
    <2> QED BY <1>4, <1>6, <1>8, <2>1
  <1> QED BY <1>3, <1>7, <1>8

\* No row leaves sight but for the table, or a rollback.
LEMMA RowsKept ==
    ASSUME CoreInv, [Next]_vars, NEW w \in Workers
    PROVE  pending[w] \subseteq pending'[w] \/ pending[w] \subseteq events'
              \/ pending[w] \subseteq lost'
  BY WorkersMove DEF Moves, Stays, Ends, Starts, Weighs, Settles

(***************************************************************************)
(* An alert that is sent again is of a row that was lost: the evaluation   *)
(* has looked for the key in the table, waited for whoever had it in hand, *)
(* and comes to a threshold once itself.                                   *)
(***************************************************************************)
LEMMA SentAgain ==
    ASSUME CoreInv, KeysInv, AlertsInv, NEW w \in Workers, AtLevel(w),
           EventAt(w) \in alerted, EventAt(w) \notin events
    PROVE  EventAt(w) \in lost \/ Held(EventAt(w), w)
  <1>1. /\ EventAt(w) = KeyOf(task[w], NextLevel(task[w].levels))
        /\ task[w].stage = "levels"
        /\ NextLevel(task[w].levels) \in task[w].levels
    BY EventTyped, NextLevelIs
  <1>2. EventAt(w) \notin pending[w]
    BY <1>1 DEF KeysInv, ToCome, KeyOf
  <1> QED BY <1>2 DEF AlertsInv, Held

\* Every step keeps what was alerted accounted for.
LEMMA AlertsNext ==
    ASSUME CoreInv, KeysInv, BooksInv, AlertsInv, [Next]_vars
    PROVE  AlertsInv'
  <1> DEFINE Sight == \A e \in alerted' :
                         e \in lost' \/ e \in events' \/ \E w \in Workers : e \in pending'[w]
             Match == IncidentsOk'
             Few == IsFiniteSet(Unsent') /\ Cardinality(Unsent') <= failures'
             Goal == again' \subseteq lost' /\ Match /\ Sight /\ Few
  <1>0. failures \in Nat
    BY DEF BooksInv
  <1>1. ASSUME lost \subseteq lost', NEW e \in alerted
        PROVE  e \in lost' \/ e \in events' \/ \E w \in Workers : e \in pending'[w]
    <2>1. CASE e \in lost \/ e \in events
      BY <1>1, <2>1, WorldMoves DEF World
    <2>2. ASSUME NEW w \in Workers, e \in pending[w]
          PROVE  e \in lost' \/ e \in events' \/ e \in pending'[w]
      BY <2>2, RowsKept
    <2> QED BY <2>1, <2>2 DEF AlertsInv
  \* The steps that send no alert.
  <1>2. ASSUME UNCHANGED <<incidents, alerted, again>>, lost \subseteq lost', Few PROVE Goal
    <2>1. Sight
      BY <1>1, <1>2
    <2>2. Match /\ again' \subseteq lost'
      BY <1>2 DEF AlertsInv, IncidentsOk
    <2> QED BY <1>2, <2>1, <2>2
  <1>3. ASSUME UNCHANGED <<events, pending, incidents, history>> PROVE Goal
    <2>1. Few
      BY <1>0, <1>3, UnsentStays DEF history, Unheard
    <2> QED BY <1>2, <1>3, <2>1 DEF history
  <1>4. ASSUME UNCHANGED <<events, pending, incidents, alerted, again, lost, failures>>
        PROVE  Goal
    <2>1. Few
      BY <1>0, <1>4, UnsentStays DEF Unheard
    <2> QED BY <1>2, <1>4, <2>1
  <1>5. ASSUME UNCHANGED vars \/ NextDay PROVE Goal
    BY <1>3, <1>5 DEF vars, tables, NextDay
  <1>6. ASSUME NEW d \in Days, NEW v \in ScopeValues, RecordUsage(d, v) PROVE Goal
    BY <1>3, <1>6 DEF RecordUsage, tables
  <1>7. ASSUME NEW b \in Budgets, NEW n \in Names, NEW c \in Caps,
               CreateBudget(b, n, c) \/ UpdateBudget(b, n, c)
        PROVE  Goal
    BY <1>4, <1>7 DEF CreateBudget, UpdateBudget, Write
  <1>8. ASSUME NEW b \in Budgets, DeleteBudget(b) PROVE Goal
    BY <1>4, <1>8 DEF DeleteBudget, Write
  <1>9. ASSUME NEW e \in events, Acknowledge(e) PROVE Goal
    BY <1>4, <1>9 DEF Acknowledge
  <1>10. ASSUME NEW w \in Workers,
                StartEvaluation(w) \/ StartForecast(w) \/ EvaluateBudget(w) \/ SkipLevel(w)
         PROVE  Goal
    <2>1. UNCHANGED <<tables, incidents, history>>
      BY <1>10 DEF StartEvaluation, StartForecast, EvaluateBudget, SkipLevel
    <2> QED BY <1>3, <2>1 DEF tables
  <1>11. ASSUME NEW w \in Workers, Commit(w) PROVE Goal
    <2>1. /\ events' = events \union pending[w] /\ pending' = [pending EXCEPT ![w] = {}]
          /\ UNCHANGED <<incidents, history>>
      BY <1>11 DEF Commit
    <2>2. \A v \in Workers : pending'[v] \subseteq pending[v]
      BY <2>1 DEF CoreInv
    <2>3. Few
      BY <1>0, <2>1, <2>2, UnsentStays DEF history, Unheard
    <2> QED BY <1>2, <2>1, <2>3 DEF history
  <1>12. ASSUME NEW w \in Workers, FailBudget(w) PROVE Goal
    <2>1. /\ failures' = failures + 1
          /\ UNCHANGED <<events, incidents, alerted, again, lost>>
      BY <1>12 DEF FailBudget, Fails
    <2>2. \A v \in Workers : pending'[v] \subseteq pending[v] \union {EventAt(w)}
      BY <1>12 DEF FailBudget, CoreInv
    <2>3. Few
      BY <1>0, <2>1, <2>2, UnsentGrows DEF Unheard
    <2> QED BY <1>2, <2>1, <2>3
  <1>13. ASSUME NEW w \in Workers, DatabaseError(w) \/ Die(w) PROVE Goal
    <2>1. /\ failures' = failures + 1 /\ Abort(w)
          /\ UNCHANGED <<events, incidents, alerted, again>> /\ lost \subseteq lost'
      BY <1>13 DEF DatabaseError, Die, Fails, Abort
    <2>2. \A v \in Workers : pending'[v] \subseteq pending[v]
      BY <2>1 DEF Abort, CoreInv
    <2>3. Few
      BY <1>0, <2>1, <2>2, UnsentStays DEF Unheard
    <2> QED BY <1>2, <2>1, <2>3
  \* An alert.
  <1>14. ASSUME NEW w \in Workers, AtLevel(w), SendAlert(w),
                UNCHANGED events, lost \subseteq lost',
                EventAt(w) \in pending'[w],
                EventAt(w) \in alerted => EventAt(w) \in lost',
                \A v \in Workers : pending'[v] \subseteq pending[v] \union {EventAt(w)}
         PROVE  Goal
    <2>1. alerted' = alerted \union {EventAt(w)}
      BY <1>14 DEF SendAlert
    <2>2. again' \subseteq lost'
      BY <1>14 DEF SendAlert, AlertsInv
    <2>3. Match
      BY <1>14, Sent
    <2>4. Sight
      BY <1>1, <1>14, <2>1
    <2>5. Few
      <3>1. CASE Unheard' \subseteq Unheard /\ failures' = failures
        BY <1>0, <1>14, <2>1, <3>1, UnsentStays
      <3>2. CASE Unheard' \subseteq Unheard \union {EventAt(w)} /\ failures' = failures + 1
        BY <1>0, <1>14, <2>1, <3>2, UnsentGrows
      <3> QED BY <1>14, <3>1, <3>2, Sent
    <2> QED BY <2>2, <2>3, <2>4, <2>5
  <1>15. ASSUME NEW w \in Workers, InsertEvent(w) PROVE Goal
    <2>1. /\ AtLevel(w) /\ SendAlert(w) /\ UNCHANGED <<events, lost>>
          /\ EventAt(w) \notin events /\ ~Held(EventAt(w), w)
          /\ pending' = [pending EXCEPT ![w] = @ \union {EventAt(w)}]
      BY <1>15 DEF InsertEvent
    <2>2. /\ EventAt(w) \in pending'[w]
          /\ \A v \in Workers : pending'[v] \subseteq pending[v] \union {EventAt(w)}
      BY <2>1 DEF CoreInv
    <2>3. EventAt(w) \in alerted => EventAt(w) \in lost'
      BY <2>1, SentAgain
    <2> QED BY <1>14, <2>1, <2>2, <2>3
  <1>16. ASSUME NEW w \in Workers, NEW v \in Workers, DeadlockVictim(w, v) PROVE Goal
    <2>1. /\ v # w /\ AtLevel(v) /\ SendAlert(v) /\ UNCHANGED events
          /\ EventAt(v) \in pending[w] /\ lost' = lost \union pending[w]
          /\ pending' = [pending EXCEPT ![w] = {}, ![v] = @ \union {EventAt(v)}]
      BY <1>16 DEF DeadlockVictim
    <2>2. /\ EventAt(v) \in pending'[v]
          /\ \A u \in Workers : pending'[u] \subseteq pending[u] \union {EventAt(v)}
      BY <2>1 DEF CoreInv
    <2> QED BY <1>14, <2>1, <2>2
  <1>17. Goal
    BY <1>5, <1>6, <1>7, <1>8, <1>9, <1>10, <1>11, <1>12, <1>13, <1>15, <1>16
       DEF Next, Evaluate
  <1> QED BY <1>17 DEF AlertsInv
-----------------------------------------------------------------------------
(* The lower thresholds of a row. *)

LowerIn(S, T) == \A e \in S, l \in Levels : l < e.level => [e EXCEPT !.level = l] \in T

\* A threshold under one to go has its row already.
Passed(w) == task[w].stage = "levels" =>
                \A k \in task[w].levels, l \in Levels :
                   (l < k /\ l \notin task[w].levels)
                      => KeyOf(task[w], l) \in events \union pending[w]

LowerInv ==
    /\ LowerIn(events, events)
    /\ \A w \in Workers : LowerIn(pending[w], events \union pending[w]) /\ Passed(w)

\* The table grows by what one transaction commits.
LEMMA EventsMove ==
    ASSUME [Next]_vars
    PROVE  events' = events \/ \E w \in Workers : events' = events \union pending[w]
  BY DEF Next, vars, tables, NextDay, RecordUsage, CreateBudget, UpdateBudget, DeleteBudget,
         Write, Acknowledge, StartEvaluation, StartForecast, Evaluate, EvaluateBudget,
         SkipLevel, InsertEvent, Commit, FailBudget, DatabaseError, Die, Abort, DeadlockVictim

\* A threshold is settled after every lower one.
LEMMA SettledAfterLower ==
    ASSUME CoreInv, LowerInv, NEW w \in Workers, Settles(w), events \subseteq events'
    PROVE  LowerIn(pending'[w], events' \union pending'[w]) /\ Passed(w)'
  <1> DEFINE t == task[w]
             n == NextLevel(task[w].levels)
  <1>1. /\ AtLevel(w) /\ t.stage = "levels" /\ EventAt(w) = KeyOf(t, n)
        /\ n \in t.levels /\ t.levels \subseteq Levels /\ \A k \in t.levels : n <= k
        /\ t \in Task /\ t.budget \in Budgets
        /\ \A r, s \in t.todo : r[1] = s[1] => r = s
        /\ \A r \in t.todo : r[1] # t.budget
    BY EventTyped, NextLevelIs DEF Settles, WellFormed
  <1>2. Levels \subseteq Nat
    BY BudgetsAssumption
  <1>3. pending'[w] = pending[w] \/ pending'[w] = pending[w] \union {KeyOf(t, n)}
    BY <1>1 DEF Settles
  <1>4. \A l \in Levels : \A k \in t.levels :
           (l < k /\ l \notin t.levels) => KeyOf(t, l) \in events \union pending[w]
    BY <1>1 DEF LowerInv, Passed
  <1>5. \A l \in Levels : l < n => KeyOf(t, l) \in events \union pending[w]
    <2>1. \A l \in Levels : l < n => l \notin t.levels
      BY <1>1, <1>2
    <2> QED BY <1>1, <1>4, <2>1
  <1>6. LowerIn(pending'[w], events' \union pending'[w])
    <2>1. \A l : [KeyOf(t, n) EXCEPT !.level = l] = KeyOf(t, l) /\ KeyOf(t, n).level = n
      BY DEF KeyOf
    <2>2. ASSUME NEW l \in Levels, l < KeyOf(t, n).level
          PROVE  [KeyOf(t, n) EXCEPT !.level = l] \in events' \union pending'[w]
      BY <1>3, <1>5, <2>1, <2>2
    <2>3. LowerIn(pending[w], events' \union pending'[w])
      BY <1>3 DEF LowerInv, LowerIn
    <2> QED BY <1>3, <2>2, <2>3 DEF LowerIn
  <1>7. ASSUME task'[w].stage = "levels",
               NEW k \in task'[w].levels, NEW l \in Levels, l < k, l \notin task'[w].levels
        PROVE  KeyOf(task'[w], l) \in events' \union pending'[w]
    <2>1. /\ task'[w] = WithLevels(t, t.levels \ {n})
          /\ KeyOf(t, n) \in events \union pending'[w]
      BY <1>1, <1>7 DEF Settles
    <2>2. t.levels \ {n} # {}
      BY <1>7, <2>1 DEF WithLevels, Idle
    <2>3. /\ task'[w].levels = t.levels \ {n} /\ task'[w].budget = t.budget
          /\ task'[w].start = t.start /\ task'[w].kind = t.kind
      <3> HIDE DEF t
      <3> QED BY <1>1, <2>1, <2>2, GoesOn
    <2>4. KeyOf(task'[w], l) = KeyOf(t, l)
      BY <2>3 DEF KeyOf
    <2>5. l = n \/ l \notin t.levels
      BY <1>7, <2>3
    <2> QED BY <1>3, <1>4, <1>7, <2>1, <2>3, <2>4, <2>5
  <1> QED BY <1>6, <1>7 DEF Passed

(***************************************************************************)
(* Wherever an evaluation is cut short, the rows of a period have every    *)
(* lower threshold: one that it passes over has its row in the table, and  *)
(* the thresholds it weighs come with every lower one.                     *)
(***************************************************************************)
LEMMA LowerNext ==
    ASSUME CoreInv, LowerInv, [Next]_vars
    PROVE  LowerInv'
  <1>0. events \subseteq events'
    BY WorldMoves DEF World
  <1>1. LowerIn(events', events')
    <2>1. CASE events' = events
      BY <2>1 DEF LowerInv
    <2>2. ASSUME NEW w \in Workers, events' = events \union pending[w]
          PROVE  LowerIn(events', events')
      BY <2>2 DEF LowerInv, LowerIn
    <2> QED BY <2>1, <2>2, EventsMove
  <1>2. ASSUME NEW w \in Workers
        PROVE  LowerIn(pending'[w], events' \union pending'[w]) /\ Passed(w)'
    <2>0. LowerIn(pending[w], events \union pending[w]) /\ Passed(w) /\ Moves(w)
      BY WorkersMove DEF LowerInv
    <2>1. CASE Stays(w)
      BY <1>0, <2>0, <2>1 DEF Stays, LowerIn, Passed
    <2>2. CASE Ends(w)
      BY <2>2 DEF Ends, LowerIn, Passed, Idle
    <2>3. CASE Starts(w)
      BY <1>0, <2>0, <2>3 DEF Starts, LowerIn, Passed
    <2>4. CASE Weighs(w)
      <3>1. /\ pending'[w] = pending[w]
            /\ task'[w].stage = "levels" =>
                  \A l \in Levels, k \in task'[w].levels : l < k => l \in task'[w].levels
        BY <2>4 DEF Weighs
      <3> QED BY <1>0, <2>0, <3>1 DEF LowerIn, Passed
    <2>5. CASE Settles(w)
      BY <1>0, <2>5, SettledAfterLower
    <2> QED BY <2>0, <2>1, <2>2, <2>3, <2>4, <2>5 DEF Moves
  <1> QED BY <1>1, <1>2 DEF LowerInv
-----------------------------------------------------------------------------
(* What the spend bears out. *)

\* The spend of the event's period reaches its threshold.
Borne(e) == Reached(e.budget, e.start, budgets[e.budget].cap, e.level)

\* The events of the thresholds that an evaluation has weighed.
Weighed(t, e) == /\ t.stage = "levels" /\ e.level \in t.levels
                 /\ e.budget = t.budget /\ e.start = t.start /\ e.kind = t.kind

\* While no budget has been edited.
BorneInv ==
    edits = 0 =>
       /\ \A e \in events : e.kind = "current_threshold" => Borne(e)
       /\ \A w \in Workers, e \in EventKeys :
             (e.kind = "current_threshold" /\ (e \in pending[w] \/ Weighed(task[w], e)))
                => Borne(e)
       /\ \A w \in Workers : \A r \in task[w].todo : r[2] = budgets[r[1]]

(***************************************************************************)
(* What is reached stays reached: no record is taken back.                 *)
(***************************************************************************)
LEMMA BorneStays ==
    ASSUME CoreInv, World, budgets' = budgets, NEW e \in EventKeys, Borne(e)
    PROVE  Borne(e)'
  <1> DEFINE scope == Scope[e.budget]
             window == Window(e.budget, e.start)
  <1>1. e.budget \in Budgets /\ e.level \in Levels /\ scope \in Scopes
    BY BudgetsAssumption DEF EventKeys, Scopes
  <1>2. e.level \in Nat /\ budgets[e.budget].cap \in Nat
    <2>1. Levels \subseteq Nat /\ Caps \union {0} \subseteq Nat
      BY BudgetsAssumption
    <2> QED BY <1>1, <2>1 DEF CoreInv, Row
  <1> HIDE DEF scope, window
  <1>3. /\ ComputeSpend(scope, window) \in Nat /\ ComputeSpend(scope, window)' \in Nat
        /\ ComputeSpend(scope, window) <= ComputeSpend(scope, window)'
    BY <1>1, SpendGrows DEF World, CoreInv
  <1>4. ComputeSpend(scope, window) * 100 >= e.level * budgets[e.budget].cap
    BY DEF Borne, Reached, Reaches, scope, window
  <1>5. e.level * budgets[e.budget].cap \in Nat
    BY <1>2
  <1>6. ComputeSpend(scope, window)' * 100 >= e.level * budgets[e.budget].cap
    BY <1>3, <1>4, <1>5
  <1> QED BY <1>6 DEF Borne, Reached, Reaches, scope, window

\* Every step keeps the crossings borne out.
LEMMA BorneNext ==
    ASSUME CoreInv, BooksInv, BorneInv, [Next]_vars
    PROVE  BorneInv'
  <1> SUFFICES ASSUME edits' = 0
               PROVE  /\ \A e \in events' : e.kind = "current_threshold" => Borne(e)'
                      /\ \A w \in Workers, e \in EventKeys :
                            (/\ e.kind = "current_threshold"
                             /\ e \in pending'[w] \/ Weighed(task'[w], e)) => Borne(e)'
                      /\ \A w \in Workers : \A r \in task'[w].todo : r[2] = budgets'[r[1]]
    BY DEF BorneInv, Weighed
  <1>0. World /\ edits = 0 /\ budgets' = budgets
    <2>1. World
      BY WorldMoves
    <2> QED BY <2>1 DEF World, BooksInv
  <1>1. /\ \A e \in events : e.kind = "current_threshold" => Borne(e)
        /\ \A w \in Workers, e \in EventKeys :
              (e.kind = "current_threshold" /\ (e \in pending[w] \/ Weighed(task[w], e)))
                 => Borne(e)
        /\ \A w \in Workers : \A r \in task[w].todo : r[2] = budgets[r[1]]
    BY <1>0 DEF BorneInv
  <1>2. \A e \in EventKeys : Borne(e) => Borne(e)'
    BY <1>0, BorneStays
  <1>3. /\ events \subseteq EventKeys /\ \A w \in Workers : pending[w] \subseteq EventKeys
    BY DEF BooksInv, CoreInv
  <1>4. \A e \in events' : e.kind = "current_threshold" => Borne(e)'
    <2>1. ASSUME NEW e \in events', e.kind = "current_threshold"
          PROVE  e \in EventKeys /\ Borne(e)
      BY <1>1, <1>3, <2>1, EventsMove
    <2> QED BY <1>2, <2>1
  <1>5. ASSUME NEW w \in Workers, NEW e \in EventKeys, e.kind = "current_threshold",
               e \in pending'[w] \/ Weighed(task'[w], e)
        PROVE  Borne(e)
    <2>0. /\ Moves(w) /\ WellFormed(task[w])
          /\ e \in pending[w] \/ Weighed(task[w], e) => Borne(e)
      BY <1>1, <1>5, WorkersMove DEF CoreInv, TasksInv
    <2>1. CASE Stays(w)
      BY <1>5, <2>0, <2>1 DEF Stays
    <2>2. CASE Ends(w)
      BY <1>5, <2>2, IdleWellFormed DEF Ends, Weighed
    <2>3. CASE Starts(w)
      BY <1>5, <2>0, <2>3 DEF Starts, Weighed
    <2>4. CASE Weighs(w)
      <3>1. PICK r \in task[w].todo :
               task'[w].stage = "levels" =>
                  /\ task'[w].budget = r[1]
                  /\ task[w].kind = "current_threshold" =>
                        \A l \in task'[w].levels : Reached(r[1], task'[w].start, r[2].cap, l)
        BY <2>4 DEF Weighs
      <3>2. pending'[w] = pending[w] /\ task'[w].kind = task[w].kind
        BY <2>4 DEF Weighs
      <3>3. r[2] = budgets[r[1]]
        BY <1>1
      <3>4. CASE Weighed(task'[w], e)
        BY <1>5, <3>1, <3>2, <3>3, <3>4 DEF Weighed, Borne
      <3> QED BY <1>5, <2>0, <3>2, <3>4
    <2>5. CASE Settles(w)
      <3> DEFINE t == task[w]
                 n == NextLevel(task[w].levels)
      <3>1. /\ AtLevel(w) /\ t.stage = "levels" /\ EventAt(w) = KeyOf(t, n)
            /\ n \in t.levels /\ t.levels \subseteq Levels
            /\ t \in Task /\ t.budget \in Budgets
            /\ \A r, s \in t.todo : r[1] = s[1] => r = s
            /\ \A r \in t.todo : r[1] # t.budget
        BY <2>5, EventTyped, NextLevelIs DEF Settles, WellFormed
      <3>2. PICK T \in SUBSET t.levels : task'[w] = WithLevels(t, T)
        BY <2>5 DEF Settles
      <3>3. /\ task'[w].kind = t.kind
            /\ task'[w].stage = IF T = {} THEN "budgets" ELSE "levels"
            /\ T # {} => /\ task'[w].levels = T /\ task'[w].budget = t.budget
                         /\ task'[w].start = t.start
        <4>1. T \in SUBSET Levels
          BY <3>1
        <4> HIDE DEF t
        <4> QED BY <3>1, <3>2, <4>1, GoesOn
      <3>4. CASE e \in pending'[w]
        <4>1. e \in pending[w] \/ e = KeyOf(t, n)
          BY <2>5, <3>1, <3>4 DEF Settles
        <4>2. e = KeyOf(t, n) => Weighed(task[w], e)
          BY <3>1 DEF KeyOf, Weighed
        <4> QED BY <2>0, <4>1, <4>2
      <3>5. CASE Weighed(task'[w], e)
        <4>1. Weighed(task[w], e)
          BY <3>1, <3>3, <3>5 DEF Weighed
        <4> QED BY <2>0, <4>1
      <3> QED BY <1>5, <3>4, <3>5
    <2> QED BY <2>0, <2>1, <2>2, <2>3, <2>4, <2>5 DEF Moves
  <1>6. ASSUME NEW w \in Workers, NEW r \in task'[w].todo
        PROVE  r[2] = budgets'[r[1]]
    <2>0. Moves(w) /\ \A q \in task[w].todo : q[2] = budgets[q[1]]
      BY <1>1, WorkersMove
    <2>1. CASE r \in task[w].todo
      BY <1>0, <2>0, <2>1
    <2>2. CASE r \in LiveRows
      BY <1>0, <2>2 DEF LiveRows
    <2>3. r \in task[w].todo \/ r \in LiveRows
      <3>1. CASE Settles(w)
        <4>1. PICK T : task'[w] = WithLevels(task[w], T)
          BY <3>1 DEF Settles
        <4>2. WellFormed(task[w]) /\ task[w] \in Task
          BY DEF CoreInv, TasksInv, WellFormed
        <4>3. task'[w].todo = task[w].todo
          BY <4>1, <4>2 DEF WithLevels, Task, Idle
        <4> QED BY <4>3
      <3>2. CASE Ends(w)
        BY <3>2, IdleWellFormed DEF Ends
      <3>3. CASE Stays(w) \/ Starts(w) \/ Weighs(w)
        BY <3>3 DEF Stays, Starts, Weighs
      <3> QED BY <2>0, <3>1, <3>2, <3>3 DEF Moves
    <2> QED BY <2>1, <2>2, <2>3
  <1> QED BY <1>2, <1>4, <1>5, <1>6
-----------------------------------------------------------------------------
(* The invariant, and what follows from it. *)

BudgetsInv == CoreInv /\ KeysInv /\ BooksInv /\ AlertsInv /\ LowerInv /\ BorneInv

\* The invariant holds at first.
LEMMA BudgetsInit == Init => BudgetsInv
  <1> SUFFICES ASSUME Init PROVE BudgetsInv
    OBVIOUS
  <1>1. CoreInv
    <2>1. today \in Days /\ SpendTyped
      BY BudgetsAssumption DEF Init, Days, SpendTyped
    <2>2. budgets \in [Budgets -> Row]
      <3>1. Min(Caps) \in Caps
        BY BudgetsAssumption, MinIsLeast
      <3>2. NoBudget \in Row /\ [NoBudget EXCEPT !.status = "live", !.cap = Min(Caps)] \in Row
        BY <3>1, BudgetsAssumption DEF NoBudget, Row
      <3> HIDE DEF NoBudget, Row
      <3> QED BY <3>2 DEF Init
    <2>3. pending \in [Workers -> SUBSET EventKeys]
      BY DEF Init
    <2>4. TasksInv
      BY IdleWellFormed DEF Init, TasksInv
    <2> QED BY <2>1, <2>2, <2>3, <2>4 DEF CoreInv
  <1>2. KeysInv
    BY DEF Init, KeysInv
  <1>3. BooksInv
    <2>1. Spent <= MaxUsage
      <3>1. PICK g : g = SpentOn(ScopeValues)
        OBVIOUS
      <3>2. \A d \in Days : g[d] = 0
        <4>1. ASSUME NEW d \in Days PROVE SumOf(spend[d], ScopeValues) = 0
          <5>1. PICK s : s = spend[d]
            OBVIOUS
          <5>2. \A v \in ScopeValues : s[v] = 0
            BY <5>1 DEF Init
          <5> QED BY <5>1, <5>2, SumOfZeros, BudgetsAssumption
        <4> QED BY <3>1, <4>1, SpendOnIsSum DEF SpentOn
      <3>3. SumOf(g, Days) = 0
        BY <3>2, DaysFinite, SumOfZeros
      <3> QED BY <3>1, <3>3, ComputeSpendIsSum, BudgetsAssumption
    <2> QED BY <2>1, BudgetsAssumption DEF Init, BooksInv
  <1>4. AlertsInv
    <2>1. Unsent = {}
      BY DEF Init, Unsent, Unheard
    <2> QED BY <2>1, FS_EmptySet DEF Init, AlertsInv, IncidentsOk
  <1>5. LowerInv
    BY IdleWellFormed DEF Init, LowerInv, LowerIn, Passed
  <1>6. BorneInv
    BY IdleWellFormed DEF Init, BorneInv, Weighed
  <1> QED BY <1>1, <1>2, <1>3, <1>4, <1>5, <1>6 DEF BudgetsInv

\* The invariant is kept by every step.
LEMMA BudgetsNext == BudgetsInv /\ [Next]_vars => BudgetsInv'
  BY CoreNext, KeysNext, BooksNext, AlertsNext, LowerNext, BorneNext DEF BudgetsInv

(***************************************************************************)
(* The inductive invariant holds in every reachable state.                 *)
(***************************************************************************)
THEOREM BudgetsInvariant == Spec => []BudgetsInv
  BY BudgetsInit, BudgetsNext, PTL DEF Spec

(***************************************************************************)
(* The tables hold what their columns admit; an uncommitted row belongs to *)
(* a running evaluation, and no key has two rows in sight                  *)
(* (uq_budget_alert_events_dedup).                                         *)
(***************************************************************************)
THEOREM BudgetsTypeCorrect == Spec => []TypeOK
  <1>1. BudgetsInv => TypeOK
    BY DEF BudgetsInv, CoreInv, KeysInv, BooksInv, TypeOK
  <1> QED BY <1>1, BudgetsInvariant, PTL

(***************************************************************************)
(* At-most-once firing (evaluate_budgets.py:29): only an alert whose       *)
(* evaluation was rolled back goes out again, a committed row without an   *)
(* alert is an exception's doing, and an alert that PagerDuty did not hear *)
(* of a failed POST's; its incidents are of what was alerted.              *)
(***************************************************************************)
THEOREM AlertsOnceHolds == Spec => []AlertsOnce
  <1>1. BudgetsInv => AlertsOnce
    <2> SUFFICES ASSUME BudgetsInv PROVE AlertsOnce
      OBVIOUS
    <2>1. PICK S, T : S = Unsent /\ T = (events \ alerted) \union Unheard
      OBVIOUS
    <2>2. T \subseteq S
      BY <2>1 DEF Unsent
    <2>3. IsFiniteSet(S) /\ Cardinality(S) <= failures /\ failures \in Nat
      BY <2>1 DEF BudgetsInv, AlertsInv, BooksInv
    <2>4. IsFiniteSet(T) /\ Cardinality(T) <= Cardinality(S)
      BY <2>2, <2>3, FS_Subset
    <2>5. Cardinality(S) \in Nat /\ Cardinality(T) \in Nat
      BY <2>3, <2>4, FS_CardinalityType
    <2>6. Cardinality((events \ alerted) \union Unheard) <= failures
      BY <2>1, <2>3, <2>4, <2>5
    <2> QED BY <2>6 DEF BudgetsInv, AlertsInv, IncidentsOk, AlertsOnce
  <1> QED BY <1>1, BudgetsInvariant, PTL

(***************************************************************************)
(* A row of the table has every lower threshold of its period beside it,   *)
(* and while no budget is edited the spend of its period bears it out.     *)
(***************************************************************************)
THEOREM RowsExplainedHolds == Spec => []RowsExplained
  <1>1. BudgetsInv => RowsExplained
    BY DEF BudgetsInv, LowerInv, LowerIn, BorneInv, Borne, Reached, RowsExplained
  <1> QED BY <1>1, BudgetsInvariant, PTL
=============================================================================

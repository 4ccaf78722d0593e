------------------------------ MODULE PagesProofs ------------------------------
(***************************************************************************)
(* RunBuild and ShiftPage for any jobs, limits, answers, schedules and     *)
(* dates: the runs of a build are its orders, cut by the limits, and what  *)
(* the shifts page asks for is of its date.  Then Pages: each page behaves *)
(* in the application as it does by itself, so what ImportProofs,          *)
(* ViewerProofs, EditorProofs and this module show of a page holds there.  *)
(***************************************************************************)
EXTENDS Pages, ImportProofs, EditorProofs, WellFoundedInduction

-----------------------------------------------------------------------------
(* Recursion over an interval                                              *)

\* Induction up to n, over a set in place of a predicate.
LEMMA UpTo ==
  ASSUME NEW n \in Nat, NEW T, 0 \in T, \A i \in 0 .. n - 1 : i \in T => i + 1 \in T
  PROVE  0 .. n \subseteq T
<1> SUFFICES ASSUME (0 .. n) \ T # {} PROVE FALSE
  OBVIOUS
<1>1. (0 .. n) \ T \subseteq Nat
  OBVIOUS
<1>2. PICK m \in (0 .. n) \ T : \A k \in (0 .. n) \ T : <<k, m>> \notin OpToRel(<, Nat)
  BY <1>1, NatLessThanWellFounded, WFMin, Zenon
<1>3. \A k \in (0 .. n) \ T : ~(k < m)
  BY <1>1, <1>2, Zenon DEF OpToRel
<1>4. m \in Nat /\ m # 0 /\ m <= n
  <2>1. m \in 0 .. n /\ m \notin T
    BY <1>2
  <2>2. m # 0
    BY <2>1, 0 \in T
  <2> QED
    BY <2>1, <2>2
<1>5. PICK l \in 0 .. n - 1 : m = l + 1
  <2>1. m - 1 \in 0 .. n - 1 /\ m = (m - 1) + 1
    BY <1>4
  <2> QED
    BY <2>1
<1>6. l < m /\ l \in 0 .. n
  BY <1>5
<1>7. l \in T
  BY <1>3, <1>6
<1> QED
  BY <1>2, <1>5, <1>7

\* f is the recursion up to n from first by step.
Recurs(f, n, S, first, step) ==
  f \in [0 .. n -> S] /\ f[0] = first /\ \A i \in 1 .. n : f[i] = step[i][f[i - 1]]

\* What a recursion up to n needs to have a value: a first one, and a step from each to the next.
LEMMA Recursion ==
  ASSUME NEW n \in Nat, NEW S, NEW first \in S, NEW step \in [1 .. n -> [S -> S]]
  PROVE  \E f : Recurs(f, n, S, first, step)
<1> DEFINE Upto(f, k) == f[0] = first /\ \A i \in 1 .. k : f[i] = step[i][f[i - 1]]
           T == {k \in 0 .. n : \E f \in [0 .. k -> S] : Upto(f, k)}
<1>1. 0 \in T
  <2> DEFINE f == [i \in 0 .. 0 |-> first]
  <2>1. f \in [0 .. 0 -> S] /\ Upto(f, 0)
    OBVIOUS
  <2>2. 0 \in 0 .. n
    OBVIOUS
  <2> HIDE DEF f, Upto
  <2> QED
    BY <2>1, <2>2
<1>2. ASSUME NEW k \in 0 .. n - 1, k \in T PROVE k + 1 \in T
  <2>1. PICK f \in [0 .. k -> S] : Upto(f, k)
    BY <1>2
  <2> DEFINE g == [i \in 0 .. k + 1 |-> IF i <= k THEN f[i] ELSE step[k + 1][f[k]]]
  <2>2. f[k] \in S /\ step[k + 1] \in [S -> S]
    OBVIOUS
  <2>3. g \in [0 .. k + 1 -> S]
    BY <2>2
  <2>4. Upto(g, k + 1)
    <3>1. g[0] = first
      BY <2>1
    <3>2. ASSUME NEW i \in 1 .. k + 1 PROVE g[i] = step[i][g[i - 1]]
      <4>1. CASE i <= k
        <5>1. g[i] = f[i] /\ g[i - 1] = f[i - 1] /\ i \in 1 .. k
          BY <4>1
        <5> QED
          BY <5>1, <2>1
      <4>2. CASE i = k + 1
        BY <4>2
      <4> QED
        BY <4>1, <4>2
    <3> QED
      BY <3>1, <3>2
  <2>5. k + 1 \in 0 .. n
    OBVIOUS
  <2> HIDE DEF g, Upto
  <2> QED
    BY <2>3, <2>4, <2>5
<1> HIDE DEF T
<1>3. n \in T
  <2>1. 0 .. n \subseteq T
    BY <1>1, <1>2, UpTo
  <2> QED
    BY <2>1
<1> QED
  BY <1>3 DEF T, Recurs

\* A sum is the sum without its last summand, and that one.
LEMMA TotalOf ==
  ASSUME NEW x \in Seq(Int), NEW a \in Nat \ {0}
  PROVE  /\ \A b \in 0 .. Len(x) : Total(x, a, b) \in Int /\ (b < a => Total(x, a, b) = 0)
         /\ \A b \in 1 .. Len(x) : b >= a => Total(x, a, b) = Total(x, a, b - 1) + x[b]
<1> DEFINE sum == CHOOSE g : g = [i \in 0 .. Len(x) |-> IF i < a THEN 0 ELSE g[i - 1] + x[i]]
           step == [i \in 1 .. Len(x) |-> [v \in Int |-> IF i < a THEN 0 ELSE v + x[i]]]
<1>1. Len(x) \in Nat /\ \A i \in 1 .. Len(x) : x[i] \in Int
  OBVIOUS
<1>2. step \in [1 .. Len(x) -> [Int -> Int]]
  BY <1>1
<1>3. \A i \in 1 .. Len(x), v \in Int : step[i][v] = IF i < a THEN 0 ELSE v + x[i]
  OBVIOUS
<1> HIDE DEF step
<1>4. PICK f \in [0 .. Len(x) -> Int] : f[0] = 0 /\ \A i \in 1 .. Len(x) : f[i] = step[i][f[i - 1]]
  <2>1. 0 \in Int
    OBVIOUS
  <2>2. \E f : Recurs(f, Len(x), Int, 0, step)
    BY <1>1, <1>2, <2>1, Recursion, Zenon
  <2> QED
    BY <2>2 DEF Recurs
<1>5. \A i \in 0 .. Len(x) : f[i] = IF i < a THEN 0 ELSE f[i - 1] + x[i]
  <2> SUFFICES ASSUME NEW i \in 0 .. Len(x) PROVE f[i] = IF i < a THEN 0 ELSE f[i - 1] + x[i]
    OBVIOUS
  <2>1. CASE i = 0
    BY <2>1, <1>4
  <2>2. CASE i # 0
    <3>1. i \in 1 .. Len(x) /\ f[i - 1] \in Int
      BY <2>2, <1>1, <1>4
    <3> QED
      BY <3>1, <1>3, <1>4
  <2> QED
    BY <2>1, <2>2
<1>6. f = [i \in 0 .. Len(x) |-> IF i < a THEN 0 ELSE f[i - 1] + x[i]]
  BY <1>4, <1>5
<1>7. sum = [i \in 0 .. Len(x) |-> IF i < a THEN 0 ELSE sum[i - 1] + x[i]]
  BY <1>6, Zenon
<1>8. \A b : Total(x, a, b) = sum[b]
  BY DEF Total
<1> HIDE DEF sum
<1>9. \A i \in 0 .. Len(x) : sum[i] = IF i < a THEN 0 ELSE sum[i - 1] + x[i]
  BY <1>7
<1> DEFINE T == {i \in 0 .. Len(x) : sum[i] \in Int}
<1>10. 0 \in T
  BY <1>1, <1>9
<1>11. ASSUME NEW i \in 0 .. Len(x) - 1, i \in T PROVE i + 1 \in T
  <2>1. i + 1 \in 1 .. Len(x) /\ i + 1 \in 0 .. Len(x) /\ (i + 1) - 1 = i /\ sum[i] \in Int
    BY <1>1, <1>11
  <2>2. sum[i + 1] = IF i + 1 < a THEN 0 ELSE sum[i] + x[i + 1]
    BY <2>1, <1>9
  <2> QED
    BY <2>1, <2>2, <1>1
<1> HIDE DEF T
<1>12. 0 .. Len(x) \subseteq T
  BY <1>1, <1>10, <1>11, UpTo
<1>13. \A i \in 0 .. Len(x) : sum[i] \in Int
  BY <1>12 DEF T
<1>14. \A b \in 0 .. Len(x) : b < a => sum[b] = 0
  BY <1>9
<1>15. ASSUME NEW b \in 1 .. Len(x), b >= a PROVE sum[b] = sum[b - 1] + x[b]
  <2>1. b \in 0 .. Len(x)
    OBVIOUS
  <2> QED
    BY <2>1, <1>9, <1>15
<1> QED
  BY <1>8, <1>13, <1>14, <1>15

\* A sum one further.
LEMMA TotalNext ==
  ASSUME NEW x \in Seq(Int), NEW a \in Nat \ {0}, NEW i \in Nat, i + 1 <= Len(x), i + 1 >= a
  PROVE  Total(x, a, i + 1) = Total(x, a, i) + x[i + 1]
<1>1. i + 1 \in 1 .. Len(x) /\ (i + 1) - 1 = i
  OBVIOUS
<1> QED
  BY <1>1, TotalOf

-----------------------------------------------------------------------------
(* The loop of the split                                                   *)

Acc == [runs : Seq(Seq(BdJobs)), cur : Seq(BdJobs), travel : Int, cubic : Int]

\* A turn of the loop keeps what it carries of the right kind.
LEMMA AddJobIn ==
  ASSUME NEW j \in BdJobs, NEW leg \in Int, NEW acc \in Acc, NEW limits
  PROVE  AddJob(j, leg, acc, limits) \in Acc
<1>1. BdOf[j].cubic \in Nat
  BY BdAssumption
<1>2. /\ Append(acc.runs, acc.cur) \in Seq(Seq(BdJobs)) /\ <<j>> \in Seq(BdJobs)
      /\ Append(acc.cur, j) \in Seq(BdJobs) /\ acc.travel + leg \in Int
      /\ acc.cubic + BdOf[j].cubic \in Int /\ acc.runs \in Seq(Seq(BdJobs))
  BY <1>1 DEF Acc
<1> QED
  BY <1>1, <1>2 DEF AddJob, NextRun, Acc

\* The loop as a recursion that has a value: it starts with nothing, and turn i adds job i.
LEMMA TurnsAre ==
  ASSUME NEW order \in Seq(BdJobs), NEW minutes \in [DOMAIN order -> Int], NEW limits
  PROVE  LET turns == Turns(order, minutes, limits)
         IN  /\ turns \in [0 .. Len(order) -> Acc] /\ turns[0] = NothingRead
             /\ \A i \in 1 .. Len(order) : turns[i] = AddJob(order[i], minutes[i], turns[i - 1], limits)
<1> DEFINE Round(g, i) == IF i = 0 THEN NothingRead ELSE AddJob(order[i], minutes[i], g[i - 1], limits)
           turns == CHOOSE g : g = [i \in 0 .. Len(order) |-> Round(g, i)]
           step == [i \in 1 .. Len(order) |-> [v \in Acc |-> AddJob(order[i], minutes[i], v, limits)]]
<1>1. Len(order) \in Nat /\ \A i \in 1 .. Len(order) : order[i] \in BdJobs /\ minutes[i] \in Int
  OBVIOUS
<1>2. step \in [1 .. Len(order) -> [Acc -> Acc]]
  BY <1>1, AddJobIn
<1>3. \A i \in 1 .. Len(order), v \in Acc : step[i][v] = AddJob(order[i], minutes[i], v, limits)
  OBVIOUS
<1> HIDE DEF step
<1>4. NothingRead \in Acc
  BY DEF NothingRead, Acc
<1>5. PICK f \in [0 .. Len(order) -> Acc] :
        f[0] = NothingRead /\ \A i \in 1 .. Len(order) : f[i] = step[i][f[i - 1]]
  <2>1. \E f : Recurs(f, Len(order), Acc, NothingRead, step)
    BY <1>1, <1>2, <1>4, Recursion, Zenon
  <2> QED
    BY <2>1 DEF Recurs
<1>6. \A i \in 0 .. Len(order) : f[i] = Round(f, i)
  <2> SUFFICES ASSUME NEW i \in 0 .. Len(order) PROVE f[i] = Round(f, i)
    OBVIOUS
  <2>1. CASE i = 0
    BY <2>1, <1>5
  <2>2. CASE i # 0
    <3>1. i \in 1 .. Len(order) /\ f[i - 1] \in Acc
      <4>1. i \in 1 .. Len(order) /\ i - 1 \in 0 .. Len(order)
        BY <2>2, <1>1
      <4> QED
        BY <4>1, <1>5
    <3>2. f[i] = AddJob(order[i], minutes[i], f[i - 1], limits)
      BY <3>1, <1>3, <1>5
    <3> QED
      BY <3>2, <2>2
  <2> QED
    BY <2>1, <2>2
<1> HIDE DEF Round
<1>7. f = [i \in 0 .. Len(order) |-> Round(f, i)]
  BY <1>5, <1>6
<1>8. turns = [i \in 0 .. Len(order) |-> Round(turns, i)]
  BY <1>7, Zenon
<1>9. Turns(order, minutes, limits) = turns
  BY Zenon DEF Turns, Round
<1> HIDE DEF turns
<1>10. \A i \in 0 .. Len(order) : turns[i] = Round(turns, i)
  BY <1>8
<1>11. turns[0] = NothingRead
  BY <1>1, <1>10 DEF Round
<1>12. ASSUME NEW i \in 1 .. Len(order)
       PROVE  turns[i] = AddJob(order[i], minutes[i], turns[i - 1], limits)
  <2>1. i \in 0 .. Len(order) /\ i # 0
    OBVIOUS
  <2> QED
    BY <2>1, <1>10 DEF Round
<1> DEFINE T == {i \in 0 .. Len(order) : turns[i] \in Acc}
<1>13. 0 \in T
  BY <1>1, <1>4, <1>11
<1>14. ASSUME NEW i \in 0 .. Len(order) - 1, i \in T PROVE i + 1 \in T
  <2>1. i + 1 \in 1 .. Len(order) /\ i + 1 \in 0 .. Len(order) /\ (i + 1) - 1 = i /\ turns[i] \in Acc
    BY <1>1, <1>14
  <2>2. turns[i + 1] = AddJob(order[i + 1], minutes[i + 1], turns[i], limits)
    BY <2>1, <1>12
  <2>3. turns[i + 1] \in Acc
    BY <2>1, <2>2, <1>1, AddJobIn
  <2> QED
    BY <2>1, <2>3
<1> HIDE DEF T
<1>15. 0 .. Len(order) \subseteq T
  BY <1>1, <1>13, <1>14, UpTo
<1>16. \A i \in 0 .. Len(order) : turns[i] \in Acc
  BY <1>15 DEF T
<1>17. turns \in [0 .. Len(order) -> Acc]
  BY <1>8, <1>16
<1> QED
  BY <1>9, <1>11, <1>12, <1>17

-----------------------------------------------------------------------------
(* Cuts of an order                                                        *)

\* A stretch of a sequence of at least one element, and of one more.
LEMMA Stretch ==
  ASSUME NEW S, NEW s \in Seq(S), NEW a \in 1 .. Len(s), NEW b \in a .. Len(s)
  PROVE  /\ SubSeq(s, a, b) \in Seq(S) /\ Len(SubSeq(s, a, b)) = b - a + 1
         /\ SubSeq(s, a, b) # << >>
         /\ SubSeq(s, a, a) = <<s[a]>>
         /\ b < Len(s) => Append(SubSeq(s, a, b), s[b + 1]) = SubSeq(s, a, b + 1)
<1>1. /\ a \in 1 .. Len(s) + 1 /\ b \in 0 .. Len(s) /\ a <= b /\ a \in 0 .. Len(s)
      /\ \A i \in 1 .. Len(s) : s[i] \in S
  OBVIOUS
<1>2. /\ SubSeq(s, a, b) \in Seq(S) /\ Len(SubSeq(s, a, b)) = b - a + 1
      /\ \A i \in 1 .. b - a + 1 : SubSeq(s, a, b)[i] = s[a + i - 1]
  BY <1>1, SubSeqProperties
<1>3. SubSeq(s, a, b) # << >>
  BY <1>1, <1>2
<1>4. SubSeq(s, a, a) = <<s[a]>>
  <2>1. /\ SubSeq(s, a, a) \in Seq(S) /\ Len(SubSeq(s, a, a)) = 1
        /\ SubSeq(s, a, a)[1] = s[a]
    BY <1>1, SubSeqProperties
  <2>2. <<s[a]>> \in Seq(S) /\ Len(<<s[a]>>) = 1 /\ <<s[a]>>[1] = s[a]
    BY <1>1
  <2> DEFINE t == SubSeq(s, a, a)
             u == <<s[a]>>
  <2>3. t \in Seq(S) /\ u \in Seq(S) /\ Len(t) = Len(u) /\ \A i \in 1 .. Len(t) : t[i] = u[i]
    BY <2>1, <2>2
  <2> HIDE DEF t, u
  <2>4. t = u
    BY <2>3, SeqEqual
  <2> QED
    BY <2>4 DEF t, u
<1>5. ASSUME b < Len(s) PROVE Append(SubSeq(s, a, b), s[b + 1]) = SubSeq(s, a, b + 1)
  <2>1. b + 1 \in 0 .. Len(s) /\ a <= b + 1 /\ b + 1 \in 1 .. Len(s)
    BY <1>5
  <2>2. /\ SubSeq(s, a, b + 1) \in Seq(S) /\ Len(SubSeq(s, a, b + 1)) = b - a + 2
        /\ \A i \in 1 .. b - a + 2 : SubSeq(s, a, b + 1)[i] = s[a + i - 1]
    BY <1>1, <2>1, SubSeqProperties
  <2> DEFINE t == Append(SubSeq(s, a, b), s[b + 1])
  <2>3. t \in Seq(S) /\ Len(t) = b - a + 2
    BY <1>1, <1>2, <2>1
  <2>4. \A i \in 1 .. b - a + 2 : t[i] = s[a + i - 1]
    <3> SUFFICES ASSUME NEW i \in 1 .. b - a + 2 PROVE t[i] = s[a + i - 1]
      OBVIOUS
    <3>1. CASE i \in 1 .. b - a + 1
      BY <3>1, <1>2
    <3>2. CASE i = b - a + 2
      BY <3>2, <1>2
    <3> QED
      BY <3>1, <3>2
  <2> HIDE DEF t
  <2>5. t = SubSeq(s, a, b + 1)
    BY <2>2, <2>3, <2>4
  <2> QED
    BY <2>5 DEF t
<1> QED
  BY <1>2, <1>3, <1>4, <1>5

\* The runs cut an order at at: run k is what lies between two cuts, and fits as RunFits says.
CutInto(p, runs, at, c) ==
  /\ at \in [0 .. Len(runs) -> Nat] /\ at[0] = 1 /\ at[Len(runs)] = c
  /\ \A k \in 1 .. Len(runs) : at[k] = at[k - 1] + Len(runs[k]) /\ RunFits(p, runs[k], at[k - 1], at[k] - 1)

\* A run that goes on where the last one stopped is a cut more.
LEMMA CutOneMore ==
  ASSUME NEW p, NEW runs \in Seq(Seq(BdJobs)), NEW at, NEW c \in Nat, CutInto(p, runs, at, c),
         NEW r \in Seq(BdJobs), RunFits(p, r, c, c + Len(r) - 1)
  PROVE  \E more : CutInto(p, Append(runs, r), more, c + Len(r))
<1> DEFINE n == Len(runs)
           both == Append(runs, r)
           more == [k \in 0 .. n + 1 |-> IF k <= n THEN at[k] ELSE c + Len(r)]
<1>1. n \in Nat /\ Len(r) \in Nat /\ Len(both) = n + 1 /\ both[n + 1] = r
      /\ \A k \in 1 .. n : both[k] = runs[k]
  OBVIOUS
<1>2. /\ at \in [0 .. n -> Nat] /\ at[0] = 1 /\ at[n] = c
      /\ \A k \in 1 .. n : at[k] = at[k - 1] + Len(runs[k]) /\ RunFits(p, runs[k], at[k - 1], at[k] - 1)
  BY DEF CutInto
<1>3. RunFits(p, r, c, c + Len(r) - 1)
  OBVIOUS
<1> HIDE DEF n, both
<1>4. more \in [0 .. n + 1 -> Nat] /\ more[0] = 1 /\ more[n + 1] = c + Len(r) /\ more[n] = c
      /\ \A k \in 0 .. n : more[k] = at[k]
  BY <1>1, <1>2
<1>5. ASSUME NEW k \in 1 .. n + 1
      PROVE  more[k] = more[k - 1] + Len(both[k]) /\ RunFits(p, both[k], more[k - 1], more[k] - 1)
  <2>1. CASE k \in 1 .. n
    <3>1. k \in 0 .. n /\ k - 1 \in 0 .. n
      BY <2>1, <1>1
    <3>2. more[k] = at[k] /\ more[k - 1] = at[k - 1] /\ both[k] = runs[k]
      BY <2>1, <3>1, <1>4, <1>1
    <3> QED
      BY <2>1, <3>2, <1>2
  <2>2. CASE k = n + 1
    <3>1. k - 1 = n /\ both[k] = r
      BY <2>2, <1>1
    <3> QED
      BY <2>2, <3>1, <1>4, <1>3
  <2> QED
    BY <2>1, <2>2, <1>1
<1> HIDE DEF more
<1>6. CutInto(p, both, more, c + Len(r))
  BY <1>1, <1>4, <1>5 DEF CutInto
<1> QED
  BY <1>6 DEF both

-----------------------------------------------------------------------------
(* The split cuts its order                                                *)

Cubics(p) == [i \in DOMAIN p.order |-> BdOf[p.order[i]].cubic]

\* A plan as its bucket made it.
IsPlan(p) ==
  /\ p.order \in Seq(BdJobs) /\ p.order # << >> /\ p.legs \in [DOMAIN p.order -> Int]
  /\ p.runs = Split(p.order, p.legs, p.limits)

\* After turn i the runs that are closed cut the order up to c, and the open one goes from c to i.
SoFar(p, acc, i) ==
  \E c \in 1 .. i, at \in [0 .. Len(acc.runs) -> Nat] :
    /\ CutInto(p, acc.runs, at, c) /\ acc.cur = SubSeq(p.order, c, i)
    /\ acc.travel = Total(p.legs, IF c = 1 THEN 1 ELSE c + 1, i) /\ acc.cubic = Total(Cubics(p), c, i)
    /\ c = i \/ Fits(p, c, i)

\* The legs and the sizes of an order are sequences of its length.
LEMMA Measures ==
  ASSUME NEW p, IsPlan(p)
  PROVE  /\ p.legs \in Seq(Int) /\ Len(p.legs) = Len(p.order) /\ Len(p.order) \in Nat \ {0}
         /\ Cubics(p) \in Seq(Int) /\ Len(Cubics(p)) = Len(p.order)
         /\ \A i \in 1 .. Len(p.order) :
              /\ p.order[i] \in BdJobs /\ p.legs[i] \in Int /\ BdOf[p.order[i]].cubic \in Nat
              /\ Cubics(p)[i] = BdOf[p.order[i]].cubic
<1>1. /\ p.order \in Seq(BdJobs) /\ p.order # << >> /\ p.legs \in [DOMAIN p.order -> Int]
      /\ DOMAIN p.order = 1 .. Len(p.order)
  BY DEF IsPlan
<1>2. Len(p.order) \in Nat \ {0} /\ \A i \in 1 .. Len(p.order) : p.order[i] \in BdJobs
  BY <1>1
<1>3. p.legs \in [1 .. Len(p.order) -> Int]
  BY <1>1
<1>4. p.legs \in Seq(Int) /\ Len(p.legs) = Len(p.order)
  BY <1>2, <1>3
<1>5. \A i \in 1 .. Len(p.order) : BdOf[p.order[i]].cubic \in Nat
  BY <1>2, BdAssumption
<1>6. Cubics(p) \in [1 .. Len(p.order) -> Int] /\ \A i \in 1 .. Len(p.order) : Cubics(p)[i] = BdOf[p.order[i]].cubic
  BY <1>1, <1>5 DEF Cubics
<1>7. Cubics(p) \in Seq(Int) /\ Len(Cubics(p)) = Len(p.order)
  BY <1>2, <1>6
<1> QED
  BY <1>2, <1>3, <1>4, <1>5, <1>6, <1>7

\* The first turn opens the first run with the first job, and its leg counts.
LEMMA FirstTurn ==
  ASSUME NEW p, IsPlan(p)
  PROVE  SoFar(p, AddJob(p.order[1], p.legs[1], NothingRead, p.limits), 1)
<1> DEFINE acc == AddJob(p.order[1], p.legs[1], NothingRead, p.limits)
           at == [k \in 0 .. 0 |-> 1]
<1>1. /\ p.legs \in Seq(Int) /\ Len(p.legs) = Len(p.order) /\ Len(p.order) \in Nat \ {0}
      /\ Cubics(p) \in Seq(Int) /\ Len(Cubics(p)) = Len(p.order)
      /\ p.legs[1] \in Int /\ BdOf[p.order[1]].cubic \in Nat /\ Cubics(p)[1] = BdOf[p.order[1]].cubic
  BY Measures
<1>2. 1 \in 1 .. Len(p.order) /\ 0 \in 0 .. Len(p.order) /\ 1 \in Nat \ {0}
  BY <1>1
<1>3. Total(p.legs, 1, 0) = 0 /\ Total(p.legs, 1, 1) = Total(p.legs, 1, 0) + p.legs[1]
  BY <1>1, <1>2, TotalOf
<1>4. Total(Cubics(p), 1, 0) = 0 /\ Total(Cubics(p), 1, 1) = Total(Cubics(p), 1, 0) + Cubics(p)[1]
  BY <1>1, <1>2, TotalOf
<1>5. acc = [runs |-> << >>, cur |-> <<p.order[1]>>, travel |-> 0 + p.legs[1], cubic |-> 0 + BdOf[p.order[1]].cubic]
  BY DEF AddJob, NothingRead
<1>6. SubSeq(p.order, 1, 1) = <<p.order[1]>>
  <2>1. p.order \in Seq(BdJobs)
    BY DEF IsPlan
  <2> QED
    BY <2>1, <1>1, <1>2, Stretch
<1>7. acc.travel = Total(p.legs, 1, 1) /\ acc.cubic = Total(Cubics(p), 1, 1)
  BY <1>1, <1>3, <1>4, <1>5
<1>8. acc.runs = << >> /\ acc.cur = SubSeq(p.order, 1, 1) /\ Len(acc.runs) = 0
  BY <1>5, <1>6
<1>9. CutInto(p, acc.runs, at, 1) /\ at \in [0 .. Len(acc.runs) -> Nat]
  BY <1>8 DEF CutInto
<1> HIDE DEF acc, at
<1>10. 1 \in 1 .. 1
  OBVIOUS
<1>11. SoFar(p, acc, 1)
  BY <1>7, <1>8, <1>9, <1>10 DEF SoFar
<1> QED
  BY <1>11 DEF acc

\* A turn that closes the open run: it is full, and the next starts with the job of the turn.
LEMMA ClosingTurn ==
  ASSUME NEW p, IsPlan(p), NEW i \in 1 .. Len(p.order) - 1, NEW acc \in Acc, SoFar(p, acc, i),
         TooMuch(Len(acc.cur) + 1, acc.travel + p.legs[i + 1], acc.cubic + BdOf[p.order[i + 1]].cubic, p.limits)
  PROVE  SoFar(p, NextRun(p.order[i + 1], acc), i + 1)
<1> DEFINE next == NextRun(p.order[i + 1], acc)
<1>1. /\ p.legs \in Seq(Int) /\ Len(p.legs) = Len(p.order) /\ Len(p.order) \in Nat \ {0}
      /\ Cubics(p) \in Seq(Int) /\ Len(Cubics(p)) = Len(p.order) /\ p.order \in Seq(BdJobs)
  BY Measures DEF IsPlan
<1>2. /\ i + 1 \in 1 .. Len(p.order) /\ i \in 0 .. Len(p.order) /\ (i + 1) - 1 = i /\ i \in Nat
      /\ i + 1 \in 0 .. Len(p.order) /\ i + 2 \in Nat \ {0} /\ i + 1 \in Nat \ {0} /\ i < Len(p.order)
      /\ i + 1 \in i + 1 .. Len(p.order) /\ i + 1 # 1 /\ (i + 1) + 1 = i + 2
  BY <1>1
<1>3. /\ p.legs[i + 1] \in Int /\ BdOf[p.order[i + 1]].cubic \in Nat
      /\ Cubics(p)[i + 1] = BdOf[p.order[i + 1]].cubic
  BY <1>2, Measures
<1>4. PICK c \in 1 .. i, at \in [0 .. Len(acc.runs) -> Nat] :
        /\ CutInto(p, acc.runs, at, c) /\ acc.cur = SubSeq(p.order, c, i)
        /\ acc.travel = Total(p.legs, IF c = 1 THEN 1 ELSE c + 1, i) /\ acc.cubic = Total(Cubics(p), c, i)
        /\ c = i \/ Fits(p, c, i)
  BY DEF SoFar
<1> DEFINE d == IF c = 1 THEN 1 ELSE c + 1
<1>5. c \in Nat \ {0} /\ d \in Nat \ {0} /\ c \in 1 .. Len(p.order) /\ i \in c .. Len(p.order) /\ c <= i
      /\ i + 1 >= c /\ i + 1 >= d
  BY <1>1, <1>2
<1> HIDE DEF d
<1>6. acc.cur \in Seq(BdJobs) /\ Len(acc.cur) = i - c + 1 /\ acc.runs \in Seq(Seq(BdJobs))
  BY <1>1, <1>4, <1>5, Stretch DEF Acc
<1>7. Total(p.legs, d, i + 1) = acc.travel + p.legs[i + 1]
  <2>1. acc.travel = Total(p.legs, d, i)
    BY <1>4 DEF d
  <2>2. i + 1 <= Len(p.legs)
    BY <1>1, <1>2
  <2>3. Total(p.legs, d, i + 1) = Total(p.legs, d, i) + p.legs[i + 1]
    BY <2>2, <1>1, <1>2, <1>5, TotalNext
  <2> QED
    BY <2>1, <2>3
<1>8. Total(Cubics(p), c, i + 1) = acc.cubic + BdOf[p.order[i + 1]].cubic
  <2>1. i + 1 <= Len(Cubics(p))
    BY <1>1, <1>2
  <2>2. Total(Cubics(p), c, i + 1) = Total(Cubics(p), c, i) + Cubics(p)[i + 1]
    BY <2>1, <1>1, <1>2, <1>5, TotalNext
  <2> QED
    BY <2>2, <1>3, <1>4
<1>9. ~Fits(p, c, i + 1)
  <2>1. (i + 1) - c + 1 = Len(acc.cur) + 1
    BY <1>6, <1>5, <1>2
  <2>2. Fits(p, c, i + 1) <=> ~TooMuch((i + 1) - c + 1, Total(p.legs, d, i + 1), Total(Cubics(p), c, i + 1), p.limits)
    BY DEF Fits, Cubics, d
  <2> HIDE DEF TooMuch
  <2> QED
    BY <2>1, <2>2, <1>7, <1>8
<1>10. c + Len(acc.cur) = i + 1 /\ c + Len(acc.cur) - 1 = i
  BY <1>2, <1>5, <1>6
<1>11. RunFits(p, acc.cur, c, c + Len(acc.cur) - 1)
  BY <1>4, <1>5, <1>9, <1>10 DEF RunFits
<1>12. PICK more : CutInto(p, Append(acc.runs, acc.cur), more, i + 1)
  BY <1>4, <1>5, <1>6, <1>10, <1>11, CutOneMore
<1>13. /\ next.runs = Append(acc.runs, acc.cur) /\ next.cur = <<p.order[i + 1]>> /\ next.travel = 0
       /\ next.cubic = BdOf[p.order[i + 1]].cubic
  BY DEF NextRun
<1>14. next.cur = SubSeq(p.order, i + 1, i + 1)
  BY <1>1, <1>2, <1>13, Stretch
<1>15. next.travel = Total(p.legs, i + 2, i + 1)
  <2>1. i + 1 < i + 2
    BY <1>2
  <2> QED
    BY <2>1, <1>1, <1>2, <1>13, TotalOf
<1>16. next.cubic = Total(Cubics(p), i + 1, i + 1)
  <2>1. i < i + 1 /\ i + 1 >= i + 1
    BY <1>2
  <2>2. Total(Cubics(p), i + 1, i) = 0
    BY <2>1, <1>1, <1>2, TotalOf
  <2>3. Total(Cubics(p), i + 1, i + 1) = Total(Cubics(p), i + 1, i) + Cubics(p)[i + 1]
    BY <2>1, <1>1, <1>2, TotalOf
  <2> QED
    BY <2>2, <2>3, <1>3, <1>13
<1> HIDE DEF next
<1>17. CutInto(p, next.runs, more, i + 1) /\ more \in [0 .. Len(next.runs) -> Nat] /\ i + 1 \in 1 .. i + 1
  BY <1>2, <1>12, <1>13 DEF CutInto
<1>18. next.travel = Total(p.legs, IF i + 1 = 1 THEN 1 ELSE (i + 1) + 1, i + 1)
  BY <1>2, <1>15
<1>19. SoFar(p, next, i + 1)
  BY <1>14, <1>16, <1>17, <1>18 DEF SoFar
<1> QED
  BY <1>19 DEF next

\* A turn that adds to the open run: it still fits.
LEMMA AddingTurn ==
  ASSUME NEW p, IsPlan(p), NEW i \in 1 .. Len(p.order) - 1, NEW acc \in Acc, SoFar(p, acc, i),
         ~TooMuch(Len(acc.cur) + 1, acc.travel + p.legs[i + 1], acc.cubic + BdOf[p.order[i + 1]].cubic, p.limits),
         NEW next, next.runs = acc.runs, next.cur = Append(acc.cur, p.order[i + 1]),
         next.travel = acc.travel + p.legs[i + 1], next.cubic = acc.cubic + BdOf[p.order[i + 1]].cubic
  PROVE  SoFar(p, next, i + 1)
<1>1. /\ p.legs \in Seq(Int) /\ Len(p.legs) = Len(p.order) /\ Len(p.order) \in Nat \ {0}
      /\ Cubics(p) \in Seq(Int) /\ Len(Cubics(p)) = Len(p.order) /\ p.order \in Seq(BdJobs)
  BY Measures DEF IsPlan
<1>2. /\ i + 1 \in 1 .. Len(p.order) /\ i \in 0 .. Len(p.order) /\ (i + 1) - 1 = i /\ i \in Nat
      /\ i < Len(p.order)
  BY <1>1
<1>3. /\ p.legs[i + 1] \in Int /\ BdOf[p.order[i + 1]].cubic \in Nat
      /\ Cubics(p)[i + 1] = BdOf[p.order[i + 1]].cubic
  BY <1>2, Measures
<1>4. PICK c \in 1 .. i, at \in [0 .. Len(acc.runs) -> Nat] :
        /\ CutInto(p, acc.runs, at, c) /\ acc.cur = SubSeq(p.order, c, i)
        /\ acc.travel = Total(p.legs, IF c = 1 THEN 1 ELSE c + 1, i) /\ acc.cubic = Total(Cubics(p), c, i)
        /\ c = i \/ Fits(p, c, i)
  BY DEF SoFar
<1> DEFINE d == IF c = 1 THEN 1 ELSE c + 1
<1>5. c \in Nat \ {0} /\ d \in Nat \ {0} /\ c \in 1 .. Len(p.order) /\ i \in c .. Len(p.order) /\ c <= i
      /\ i + 1 >= c /\ i + 1 >= d /\ c \in 1 .. i + 1
  <2>1. c \in Nat \ {0} /\ c <= i /\ i \in Nat
    BY <1>2
  <2>2. d \in Nat \ {0} /\ i + 1 >= c /\ i + 1 >= d /\ c \in 1 .. i + 1
    BY <2>1
  <2>3. c \in 1 .. Len(p.order) /\ i \in c .. Len(p.order)
    BY <2>1, <1>1, <1>2
  <2> QED
    BY <2>1, <2>2, <2>3
<1> HIDE DEF d
<1>6. acc.cur \in Seq(BdJobs) /\ Len(acc.cur) = i - c + 1 /\ acc.runs \in Seq(Seq(BdJobs))
  BY <1>1, <1>4, <1>5, Stretch DEF Acc
<1>7. Total(p.legs, d, i + 1) = acc.travel + p.legs[i + 1]
  <2>1. acc.travel = Total(p.legs, d, i)
    BY <1>4 DEF d
  <2>2. i + 1 <= Len(p.legs)
    BY <1>1, <1>2
  <2>3. Total(p.legs, d, i + 1) = Total(p.legs, d, i) + p.legs[i + 1]
    BY <2>2, <1>1, <1>2, <1>5, TotalNext
  <2> QED
    BY <2>1, <2>3
<1>8. Total(Cubics(p), c, i + 1) = acc.cubic + BdOf[p.order[i + 1]].cubic
  <2>1. i + 1 <= Len(Cubics(p))
    BY <1>1, <1>2
  <2>2. Total(Cubics(p), c, i + 1) = Total(Cubics(p), c, i) + Cubics(p)[i + 1]
    BY <2>1, <1>1, <1>2, <1>5, TotalNext
  <2> QED
    BY <2>2, <1>3, <1>4
<1>9. Fits(p, c, i + 1)
  <2>1. (i + 1) - c + 1 = Len(acc.cur) + 1
    BY <1>6, <1>5, <1>2
  <2>2. Fits(p, c, i + 1) <=> ~TooMuch((i + 1) - c + 1, Total(p.legs, d, i + 1), Total(Cubics(p), c, i + 1), p.limits)
    BY DEF Fits, Cubics, d
  <2> HIDE DEF TooMuch
  <2> QED
    BY <2>1, <2>2, <1>7, <1>8
<1>10. next.cur = SubSeq(p.order, c, i + 1)
  BY <1>1, <1>2, <1>4, <1>5, Stretch
<1>11. next.travel = Total(p.legs, IF c = 1 THEN 1 ELSE c + 1, i + 1) /\ next.cubic = Total(Cubics(p), c, i + 1)
  BY <1>7, <1>8 DEF d
<1>12. CutInto(p, next.runs, at, c) /\ at \in [0 .. Len(next.runs) -> Nat]
  BY <1>4
<1> QED
  BY <1>5, <1>9, <1>10, <1>11, <1>12 DEF SoFar

\* The loop keeps SoFar from the first turn to the last.
LEMMA TurnsCut ==
  ASSUME NEW p, IsPlan(p)
  PROVE  LET turns == Turns(p.order, p.legs, p.limits)
         IN  turns[Len(p.order)] \in Acc /\ SoFar(p, turns[Len(p.order)], Len(p.order))
<1> DEFINE turns == Turns(p.order, p.legs, p.limits)
           n == Len(p.order)
<1>1. /\ turns \in [0 .. n -> Acc] /\ turns[0] = NothingRead
      /\ \A i \in 1 .. n : turns[i] = AddJob(p.order[i], p.legs[i], turns[i - 1], p.limits)
  <2>1. p.order \in Seq(BdJobs) /\ p.legs \in [DOMAIN p.order -> Int]
    BY DEF IsPlan
  <2> QED
    BY <2>1, TurnsAre
<1>2. n \in Nat \ {0}
  BY Measures
<1> HIDE DEF turns, n
<1> DEFINE T == {i \in 0 .. n : i = 0 \/ SoFar(p, turns[i], i)}
<1>3. 0 \in T
  BY <1>2
<1>4. ASSUME NEW i \in 0 .. n - 1, i \in T PROVE i + 1 \in T
  <2>1. i + 1 \in 1 .. n /\ (i + 1) - 1 = i /\ i + 1 \in 0 .. n /\ i \in 0 .. n
    BY <1>2
  <2>2. turns[i + 1] = AddJob(p.order[i + 1], p.legs[i + 1], turns[i], p.limits) /\ turns[i] \in Acc
    BY <2>1, <1>1
  <2>3. CASE i = 0
    <3>1. SoFar(p, turns[1], 1)
      BY <2>2, <2>3, <1>1, FirstTurn
    <3> QED
      BY <3>1, <2>1, <2>3
  <2>4. CASE i # 0
    <3>1. i \in 1 .. n - 1 /\ SoFar(p, turns[i], i)
      BY <2>4, <1>4, <2>1
    <3>2. turns[i].cur # << >>
      <4>1. PICK c \in 1 .. i : turns[i].cur = SubSeq(p.order, c, i)
        BY <3>1 DEF SoFar
      <4>2. c \in 1 .. Len(p.order) /\ i \in c .. Len(p.order) /\ p.order \in Seq(BdJobs)
        BY <3>1, <1>2 DEF n, IsPlan
      <4> QED
        BY <4>1, <4>2, Stretch
    <3> DEFINE acc == turns[i]
               Full == TooMuch(Len(acc.cur) + 1, acc.travel + p.legs[i + 1],
                               acc.cubic + BdOf[p.order[i + 1]].cubic, p.limits)
    <3>3. i \in 1 .. Len(p.order) - 1 /\ acc \in Acc /\ SoFar(p, acc, i)
      BY <3>1, <2>2 DEF n
    <3>4. SoFar(p, turns[i + 1], i + 1)
      <4>1. CASE Full
        <5>1. turns[i + 1] = NextRun(p.order[i + 1], acc)
          BY <4>1, <3>2, <2>2 DEF AddJob
        <5>2. SoFar(p, NextRun(p.order[i + 1], acc), i + 1)
          BY <4>1, <3>3, ClosingTurn
        <5> QED
          BY <5>1, <5>2
      <4>2. CASE ~Full
        <5> DEFINE next == [runs |-> acc.runs, cur |-> Append(acc.cur, p.order[i + 1]),
                            travel |-> acc.travel + p.legs[i + 1], cubic |-> acc.cubic + BdOf[p.order[i + 1]].cubic]
        <5>1. turns[i + 1] = next
          BY <4>2, <3>2, <2>2 DEF AddJob
        <5>2. /\ next.runs = acc.runs /\ next.cur = Append(acc.cur, p.order[i + 1])
              /\ next.travel = acc.travel + p.legs[i + 1]
              /\ next.cubic = acc.cubic + BdOf[p.order[i + 1]].cubic
          OBVIOUS
        <5> HIDE DEF next, acc
        <5>3. SoFar(p, next, i + 1)
          BY <4>2, <3>3, <5>2, AddingTurn
        <5> QED
          BY <5>1, <5>3
      <4> QED
        BY <4>1, <4>2
    <3> QED
      BY <3>4, <2>1
  <2> QED
    BY <2>3, <2>4
<1> HIDE DEF T
<1>5. 0 .. n \subseteq T
  BY <1>2, <1>3, <1>4, UpTo
<1>6. n \in T /\ n # 0 /\ n \in 0 .. n
  <2>1. n \in 0 .. n /\ n # 0
    BY <1>2
  <2> QED
    BY <2>1, <1>5
<1>7. turns[n] \in Acc /\ SoFar(p, turns[n], n)
  BY <1>1, <1>6 DEF T
<1> QED
  BY <1>7 DEF turns, n

\* The split of a plan cuts its whole order.
LEMMA SplitCuts ==
  ASSUME NEW p, IsPlan(p)
  PROVE  p.runs \in Seq(Seq(BdJobs)) /\ \E at : CutInto(p, p.runs, at, Len(p.order) + 1)
<1> DEFINE n == Len(p.order)
           all == Turns(p.order, p.legs, p.limits)[n]
<1>1. all \in Acc /\ SoFar(p, all, n)
  BY TurnsCut
<1>2. p.runs = Append(all.runs, all.cur)
  BY DEF IsPlan, Split
<1>3. n \in Nat \ {0} /\ p.order \in Seq(BdJobs)
  BY Measures DEF IsPlan
<1> HIDE DEF all, n
<1>4. PICK c \in 1 .. n, at \in [0 .. Len(all.runs) -> Nat] :
        CutInto(p, all.runs, at, c) /\ all.cur = SubSeq(p.order, c, n) /\ (c = n \/ Fits(p, c, n))
  BY <1>1 DEF SoFar
<1>5. c \in Nat /\ c <= n
  BY <1>3
<1>6. all.runs \in Seq(Seq(BdJobs)) /\ all.cur \in Seq(BdJobs)
  BY <1>1 DEF Acc
<1>7. Len(all.cur) = n - c + 1
  <2>1. c \in 1 .. Len(p.order) /\ n \in c .. Len(p.order)
    BY <1>3 DEF n
  <2> QED
    BY <2>1, <1>3, <1>4, Stretch
<1>8. c + Len(all.cur) = n + 1 /\ c + Len(all.cur) - 1 = n
  BY <1>3, <1>5, <1>7
<1>9. RunFits(p, all.cur, c, c + Len(all.cur) - 1)
  <2>1. ~(n < Len(p.order))
    BY <1>3 DEF n
  <2> QED
    BY <2>1, <1>4, <1>5, <1>8 DEF RunFits
<1>10. \E more : CutInto(p, Append(all.runs, all.cur), more, c + Len(all.cur))
  BY <1>4, <1>5, <1>6, <1>9, CutOneMore
<1>11. \E more : CutInto(p, p.runs, more, n + 1)
  BY <1>2, <1>8, <1>10
<1>12. p.runs \in Seq(Seq(BdJobs))
  BY <1>2, <1>6
<1> QED
  BY <1>11, <1>12 DEF n

\* Where the runs start is the cut they make.
LEMMA StartsOf ==
  ASSUME NEW p, NEW runs \in Seq(Seq(BdJobs)), NEW at, NEW c, CutInto(p, runs, at, c)
  PROVE  \A k \in 0 .. Len(runs) : Starts(runs)[k] = at[k]
<1> DEFINE Start(g, k) == IF k = 0 THEN 1 ELSE g[k - 1] + Len(runs[k])
           starts == CHOOSE g : g = [k \in 0 .. Len(runs) |-> Start(g, k)]
<1>1. Len(runs) \in Nat
  OBVIOUS
<1>2. /\ at \in [0 .. Len(runs) -> Nat] /\ at[0] = 1
      /\ \A k \in 1 .. Len(runs) : at[k] = at[k - 1] + Len(runs[k])
  BY DEF CutInto
<1>3. \A k \in 0 .. Len(runs) : at[k] = Start(at, k)
  <2> SUFFICES ASSUME NEW k \in 0 .. Len(runs) PROVE at[k] = Start(at, k)
    OBVIOUS
  <2>1. CASE k = 0
    BY <2>1, <1>2
  <2>2. CASE k # 0
    <3>1. k \in 1 .. Len(runs)
      BY <2>2, <1>1
    <3> QED
      BY <3>1, <2>2, <1>2
  <2> QED
    BY <2>1, <2>2
<1>4. Starts(runs) = starts
  BY Zenon DEF Starts, Start
<1> HIDE DEF Start
<1>5. at = [k \in 0 .. Len(runs) |-> Start(at, k)]
  BY <1>2, <1>3
<1>6. starts = [k \in 0 .. Len(runs) |-> Start(starts, k)]
  BY <1>5, Zenon
<1> HIDE DEF starts
<1>7. \A k \in 0 .. Len(runs) : starts[k] = Start(starts, k)
  BY <1>6
<1> DEFINE T == {k \in 0 .. Len(runs) : starts[k] = at[k]}
<1>8. 0 \in T
  <2>1. 0 \in 0 .. Len(runs)
    BY <1>1
  <2> QED
    BY <2>1, <1>2, <1>7 DEF Start
<1>9. ASSUME NEW k \in 0 .. Len(runs) - 1, k \in T PROVE k + 1 \in T
  <2>1. /\ k + 1 \in 0 .. Len(runs) /\ k + 1 \in 1 .. Len(runs) /\ k + 1 # 0 /\ (k + 1) - 1 = k
        /\ starts[k] = at[k]
    BY <1>1, <1>9
  <2>2. starts[k + 1] = starts[k] + Len(runs[k + 1])
    BY <2>1, <1>7 DEF Start
  <2>3. at[k + 1] = at[k] + Len(runs[k + 1])
    BY <2>1, <1>2
  <2> QED
    BY <2>1, <2>2, <2>3
<1> HIDE DEF T
<1>10. 0 .. Len(runs) \subseteq T
  BY <1>1, <1>8, <1>9, UpTo
<1> QED
  BY <1>4, <1>10 DEF T

CutByLimits(p) ==
  LET at == Starts(p.runs)
  IN  /\ at[Len(p.runs)] = Len(p.order) + 1
      /\ \A k \in DOMAIN p.runs : RunFits(p, p.runs[k], at[k - 1], at[k] - 1)

\* Whatever the order, its legs and the limits are, the runs of a plan fit them.
THEOREM PlansFit ==
  ASSUME NEW p, IsPlan(p)
  PROVE  CutByLimits(p)
<1>1. PICK at : CutInto(p, p.runs, at, Len(p.order) + 1)
  BY SplitCuts
<1>2. p.runs \in Seq(Seq(BdJobs))
  BY SplitCuts
<1>3. Len(p.runs) \in Nat /\ DOMAIN p.runs = 1 .. Len(p.runs)
  BY <1>2
<1>4. \A k \in 0 .. Len(p.runs) : Starts(p.runs)[k] = at[k]
  BY <1>1, <1>2, StartsOf
<1>5. Starts(p.runs)[Len(p.runs)] = Len(p.order) + 1
  <2>1. Len(p.runs) \in 0 .. Len(p.runs)
    BY <1>3
  <2> QED
    BY <2>1, <1>1, <1>4 DEF CutInto
<1>6. ASSUME NEW k \in DOMAIN p.runs
      PROVE  RunFits(p, p.runs[k], Starts(p.runs)[k - 1], Starts(p.runs)[k] - 1)
  <2>1. k \in 0 .. Len(p.runs) /\ k - 1 \in 0 .. Len(p.runs) /\ k \in 1 .. Len(p.runs)
    BY <1>3
  <2>2. Starts(p.runs)[k] = at[k] /\ Starts(p.runs)[k - 1] = at[k - 1]
    BY <2>1, <1>4
  <2>3. RunFits(p, p.runs[k], at[k - 1], at[k] - 1)
    BY <2>1, <1>1 DEF CutInto
  <2> QED
    BY <2>2, <2>3
<1> QED
  BY <1>5, <1>6 DEF CutByLimits

-----------------------------------------------------------------------------
(* The builds of the page                                                  *)

Buckets == Seq(BdJobs) \ {<< >>}

LimitsThereAre ==
  {LimitsOf(bucket, order, config) : bucket \in Buckets, order \in Buckets, config \in BdConfigs}

PlanRecord == [order : Seq(BdJobs), legs : Seq(Int), limits : LimitsThereAre, runs : Seq(Seq(BdJobs))]

Plans == {p \in PlanRecord : IsPlan(p)}

BuildRecord ==
  [config : BdConfigs, auto : BOOLEAN, todo : SUBSET Buckets, plans : SUBSET Plans,
   queue : Seq(Seq(BdJobs)), done : BOOLEAN]

SeenRecord == [jobs : SUBSET BdJobs, ticked : SUBSET BdJobs, config : BdConfigs, auto : BOOLEAN]

AlertRecord == [buckets : SUBSET Buckets, config : BdConfigs, auto : BOOLEAN]

BdPageRecord ==
  [jobs : SUBSET BdJobs, placed : SUBSET BdJobs, ticked : SUBSET BdJobs, config : BdConfigs, auto : BOOLEAN,
   modal : {"none", "config", "build"}, seen : SUBSET SeenRecord, alert : SUBSET AlertRecord]

RunRecord ==
  {r \in [jobs : Seq(BdJobs), finish : BdJobs \cup {0}, routing : {0, 1, 2}] : r.finish \in ToSet(r.jobs) \cup {0}}

\* The inductive invariant: every plan was made by the split.
BdInv ==
  /\ bdPage \in BdPageRecord /\ (bdPage.modal = "none") = (bdPage.seen = {})
  /\ bdBuilds \in Seq(BuildRecord) /\ bdRuns \in Seq(RunRecord)

\* The sequences of a set of jobs are of jobs, and only the empty set has an empty one.
LEMMA SequencesOf ==
  ASSUME NEW jobs \in SUBSET BdJobs, NEW s \in SetToSeqs(jobs)
  PROVE  s \in Seq(BdJobs) /\ (jobs # {} => s \in Buckets)
<1>1. IsFiniteSet(jobs) /\ Cardinality(jobs) \in Nat
  BY BdAssumption, FS_Subset, FS_CardinalityType
<1>2. s \in [1 .. Cardinality(jobs) -> jobs]
  BY DEF SetToSeqs
<1>3. s \in Seq(BdJobs) /\ Len(s) = Cardinality(jobs)
  BY <1>1, <1>2
<1>4. ASSUME jobs # {} PROVE s # << >>
  <2>1. Cardinality(jobs) # 0
    BY <1>1, <1>4, FS_EmptySet
  <2> QED
    BY <2>1, <1>3
<1> QED
  BY <1>3, <1>4 DEF Buckets

\* Every bucket has a job.
LEMMA BucketsAre ==
  ASSUME NEW jobs \in SUBSET BdJobs, NEW config
  PROVE  BucketsOf(jobs, config) \subseteq Buckets
<1> SUFFICES ASSUME NEW b \in BucketsOf(jobs, config) PROVE b \in Buckets
  OBVIOUS
<1>1. PICK key \in {BucketKey(j, config) : j \in jobs} : b \in Sorted({j \in jobs : BucketKey(j, config) = key})
  BY DEF BucketsOf
<1> DEFINE some == {j \in jobs : BucketKey(j, config) = key}
<1>2. some # {} /\ some \in SUBSET BdJobs
  BY <1>1
<1>3. b \in SetToSeqs(some)
  BY <1>1 DEF Sorted
<1> HIDE DEF some
<1> QED
  BY <1>2, <1>3, SequencesOf

\* Whatever the routing answers, the order of a bucket has a job, and a leg for each.
LEMMA OrdersAre ==
  ASSUME NEW bucket \in Buckets, NEW build, NEW s \in Sequenced(bucket, build)
  PROVE  s.order \in Buckets /\ s.legs \in Seq(Int) /\ s.legs \in [DOMAIN s.order -> Int]
<1>1. ToSet(bucket) \subseteq BdJobs /\ OnMap(bucket) \subseteq BdJobs
  BY DEF ToSet, Buckets, OnMap
<1>2. s = AsIs(bucket) \/ s \in FromHere(bucket) \/ s \in FromSavvy(bucket)
  BY DEF Sequenced
<1>3. ASSUME NEW o \in Orders(OnMap(bucket)) PROVE o \in Buckets
  <2>1. PICK S \in (SUBSET OnMap(bucket)) \ {{}} : o \in SetToSeqs(S)
    BY <1>3 DEF Orders
  <2>2. S \in SUBSET BdJobs /\ S # {}
    BY <2>1, <1>1
  <2> QED
    BY <2>1, <2>2, SequencesOf
<1>4. ASSUME NEW o \in Buckets, NEW leg \in Int
      PROVE  [i \in DOMAIN o |-> leg] \in Seq(Int) /\ [i \in DOMAIN o |-> leg] \in [DOMAIN o -> Int]
  <2>1. DOMAIN o = 1 .. Len(o) /\ Len(o) \in Nat
    BY DEF Buckets
  <2> QED
    BY <2>1
<1>5. ASSUME NEW o \in Buckets, s = AsIs(o)
      PROVE  s.order \in Buckets /\ s.legs \in Seq(Int) /\ s.legs \in [DOMAIN s.order -> Int]
  BY <1>4, <1>5 DEF AsIs, NoLegs
<1>6. CASE s = AsIs(bucket)
  BY <1>5, <1>6
<1>7. CASE s \in FromHere(bucket)
  <2>1. PICK o \in Orders(OnMap(bucket)), leg \in BdLegs : s = [order |-> o, legs |-> [i \in DOMAIN o |-> leg]]
    BY <1>7 DEF FromHere
  <2>2. o \in Buckets /\ leg \in Int
    BY <1>3, BdAssumption
  <2> QED
    BY <2>1, <2>2, <1>4
<1>8. CASE s \in FromSavvy(bucket)
  <2>1. PICK o \in Orders(OnMap(bucket)) : s \in {AsIs(o \o rest) : rest \in Sorted(ToSet(bucket) \ ToSet(o))}
    BY <1>8 DEF FromSavvy
  <2>2. PICK rest \in Sorted(ToSet(bucket) \ ToSet(o)) : s = AsIs(o \o rest)
    BY <2>1
  <2>3. o \in Buckets
    BY <1>3
  <2>4. rest \in Seq(BdJobs)
    <3>1. ToSet(bucket) \ ToSet(o) \in SUBSET BdJobs /\ rest \in SetToSeqs(ToSet(bucket) \ ToSet(o))
      BY <1>1 DEF Sorted
    <3> QED
      BY <3>1, SequencesOf
  <2>5. o \o rest \in Buckets
    BY <2>3, <2>4 DEF Buckets
  <2> QED
    BY <2>2, <2>5, <1>5
<1> QED
  BY <1>2, <1>6, <1>7, <1>8

\* The page starts with no build and no plan.
LEMMA BuildsInit ==
  BdInit => BdInv
<1> SUFFICES ASSUME BdInit PROVE BdInv
  OBVIOUS
<1>1. PICK config \in BdConfigs, auto \in BOOLEAN :
        bdPage = [jobs |-> BdJobs, placed |-> {}, ticked |-> {}, config |-> config, auto |-> auto,
                  modal |-> "none", seen |-> {}, alert |-> {}]
  BY DEF BdInit, NoAlert
<1>2. bdBuilds = << >> /\ bdRuns = << >>
  BY DEF BdInit
<1>3. bdPage \in BdPageRecord /\ bdPage.modal = "none" /\ bdPage.seen = {}
  BY <1>1 DEF BdPageRecord
<1> QED
  BY <1>2, <1>3 DEF BdInv

\* The steps of the page: what the operator ticks, opens, drafts and cancels.
LEMMA ConfigStep ==
  ASSUME BdInv,
         \/ SetAutoRoute \/ CancelConfig \/ CancelBuild
         \/ \E j \in BdJobs : TickJob(j) \/ OthersTake(j)
         \/ \E build \in BOOLEAN : OpenBuildConfig(build)
         \/ \E chosen \in BdConfigs : CommitConfig(chosen)
  PROVE  BdInv'
<1>1. bdPage \in BdPageRecord /\ (bdPage.modal = "none") = (bdPage.seen = {})
  BY DEF BdInv
<1> DEFINE Fine(new) == new \in BdPageRecord /\ (new.modal = "none") = (new.seen = {})
<1>2. ASSUME NEW new, BdPage(new), Fine(new) PROVE BdInv'
  BY <1>2 DEF BdInv, BdPage
<1>3. CASE SetAutoRoute
  <2>1. Fine([bdPage EXCEPT !.auto = ~@])
    BY <1>1 DEF BdPageRecord
  <2> QED
    BY <2>1, <1>2, <1>3 DEF SetAutoRoute
<1>4. CASE CancelConfig
  <2>1. Fine([bdPage EXCEPT !.modal = "none", !.seen = {}])
    BY <1>1 DEF BdPageRecord
  <2> QED
    BY <2>1, <1>2, <1>4 DEF CancelConfig
<1>5. CASE CancelBuild
  <2>1. Fine([bdPage EXCEPT !.alert = NoAlert])
    BY <1>1 DEF BdPageRecord, NoAlert
  <2> QED
    BY <2>1, <1>2, <1>5 DEF CancelBuild
<1>6. ASSUME NEW j \in BdJobs, TickJob(j) PROVE BdInv'
  <2>1. Fine([bdPage EXCEPT !.ticked = SymDiff(@, {j})])
    BY <1>1 DEF BdPageRecord, SymDiff
  <2> QED
    BY <2>1, <1>2, <1>6 DEF TickJob
<1>7. ASSUME NEW j \in BdJobs, OthersTake(j) PROVE BdInv'
  <2>1. Fine([bdPage EXCEPT !.jobs = @ \ {j}])
    BY <1>1 DEF BdPageRecord
  <2> QED
    BY <2>1, <1>2, <1>7 DEF OthersTake
<1>8. ASSUME NEW build \in BOOLEAN, OpenBuildConfig(build) PROVE BdInv'
  <2> DEFINE render == [jobs |-> bdPage.jobs, ticked |-> bdPage.ticked, config |-> bdPage.config,
                      auto |-> bdPage.auto]
             opens == IF build THEN "build" ELSE "config"
  <2>1. render \in SeenRecord
    BY <1>1 DEF BdPageRecord, SeenRecord
  <2>2. opens \in {"build", "config"}
    OBVIOUS
  <2>3. BdPage([bdPage EXCEPT !.modal = opens, !.seen = {render}])
    BY <1>8 DEF OpenBuildConfig
  <2> HIDE DEF render, opens
  <2>4. Fine([bdPage EXCEPT !.modal = opens, !.seen = {render}])
    BY <1>1, <2>1, <2>2 DEF BdPageRecord
  <2> QED
    BY <2>3, <2>4, <1>2
<1>9. ASSUME NEW chosen \in BdConfigs, CommitConfig(chosen) PROVE BdInv'
  <2> DEFINE alert == IF bdPage.modal = "build" THEN UNION {PreviewOf(s) : s \in bdPage.seen} ELSE bdPage.alert
  <2>1. ASSUME NEW s \in SeenRecord PROVE PreviewOf(s) \subseteq AlertRecord
    <3> DEFINE valid == Buildable(s.ticked \cap s.jobs, s.config)
    <3>1. valid \in SUBSET BdJobs
      BY DEF Buildable, SeenRecord
    <3> HIDE DEF valid
    <3>2. BucketsOf(valid, s.config) \subseteq Buckets
      BY <3>1, BucketsAre
    <3>3. [buckets |-> BucketsOf(valid, s.config), config |-> s.config, auto |-> s.auto] \in AlertRecord
      BY <3>2 DEF AlertRecord, SeenRecord
    <3>4. PreviewOf(s) = IF valid = {} THEN {} ELSE {[buckets |-> BucketsOf(valid, s.config), config |-> s.config, auto |-> s.auto]}
      BY Zenon DEF PreviewOf, valid, NoAlert
    <3> QED
      BY <3>3, <3>4
  <2>2. bdPage.seen \subseteq SeenRecord /\ bdPage.alert \subseteq AlertRecord
    BY <1>1 DEF BdPageRecord
  <2>3. alert \subseteq AlertRecord
    BY <2>1, <2>2
  <2>4. BdPage([bdPage EXCEPT !.config = chosen, !.modal = "none", !.seen = {}, !.alert = alert])
    BY <1>9 DEF CommitConfig
  <2> HIDE DEF alert
  <2>5. Fine([bdPage EXCEPT !.config = chosen, !.modal = "none", !.seen = {}, !.alert = alert])
    BY <1>1, <2>3 DEF BdPageRecord
  <2> QED
    BY <2>4, <2>5, <1>2
<1> QED
  BY <1>3, <1>4, <1>5, <1>6, <1>7, <1>8, <1>9

\* A build starts with what the preview showed.
LEMMA ConfirmStep ==
  ASSUME BdInv, ConfirmBuild
  PROVE  BdInv'
<1>1. PICK a \in bdPage.alert :
        bdBuilds' = Append(bdBuilds, [config |-> a.config, auto |-> a.auto, todo |-> a.buckets,
                                      plans |-> {}, queue |-> << >>, done |-> FALSE])
  BY DEF ConfirmBuild
<1>2. a \in AlertRecord
  BY DEF BdInv, BdPageRecord
<1>3. [config |-> a.config, auto |-> a.auto, todo |-> a.buckets, plans |-> {}, queue |-> << >>,
       done |-> FALSE] \in BuildRecord
  BY <1>2 DEF AlertRecord, BuildRecord
<1>4. bdBuilds' \in Seq(BuildRecord)
  <2>1. bdBuilds \in Seq(BuildRecord)
    BY DEF BdInv
  <2> HIDE DEF BuildRecord
  <2> QED
    BY <2>1, <1>1, <1>3
<1>5. bdPage' \in BdPageRecord /\ (bdPage'.modal = "none") = (bdPage'.seen = {})
  <2>1. bdPage' = [bdPage EXCEPT !.alert = {}]
    BY DEF ConfirmBuild, NoAlert
  <2> QED
    BY <2>1 DEF BdInv, BdPageRecord
<1> QED
  BY <1>4, <1>5 DEF BdInv, ConfirmBuild

\* A bucket is put in order and split: its plan is one of the split.
LEMMA PlanStep ==
  ASSUME BdInv, NEW n \in DOMAIN bdBuilds, PlanBucket(n)
  PROVE  BdInv'
<1> DEFINE build == bdBuilds[n]
           bucket == CHOOSE b \in build.todo : TRUE
<1>1. bdBuilds \in Seq(BuildRecord) /\ build \in BuildRecord
  BY DEF BdInv
<1>2. build.todo # {} /\ build.todo \subseteq Buckets /\ build.config \in BdConfigs
  BY <1>1 DEF PlanBucket, BuildRecord
<1>3. bucket \in Buckets
  BY <1>2
<1>4. PICK s \in Sequenced(bucket, build) :
        LET limits == LimitsOf(bucket, s.order, build.config)
            runs == Split(s.order, s.legs, limits)
        IN  bdBuilds' = [bdBuilds EXCEPT
              ![n].todo = @ \ {bucket}, ![n].queue = @ \o runs,
              ![n].plans = @ \cup {[order |-> s.order, legs |-> s.legs, limits |-> limits, runs |-> runs]}]
  BY Zenon DEF PlanBucket
<1> HIDE DEF bucket, build
<1> DEFINE limits == LimitsOf(bucket, s.order, build.config)
           runs == Split(s.order, s.legs, limits)
           plan == [order |-> s.order, legs |-> s.legs, limits |-> limits, runs |-> runs]
<1>5. bdBuilds' = [bdBuilds EXCEPT ![n].todo = @ \ {bucket}, ![n].queue = @ \o runs, ![n].plans = @ \cup {plan}]
  BY <1>4
<1>6. s.order \in Buckets /\ s.legs \in Seq(Int) /\ s.legs \in [DOMAIN s.order -> Int]
  BY <1>3, OrdersAre
<1>7. limits \in LimitsThereAre
  BY <1>2, <1>3, <1>6 DEF LimitsThereAre
<1> HIDE DEF limits
<1>8. /\ plan.order = s.order /\ plan.legs = s.legs /\ plan.limits = limits /\ plan.runs = runs
  OBVIOUS
<1>9. IsPlan(plan)
  BY <1>6, <1>8 DEF IsPlan, Buckets
<1>10. runs \in Seq(Seq(BdJobs))
  <2> HIDE DEF plan
  <2> QED
    BY <1>8, <1>9, SplitCuts
<1> HIDE DEF runs
<1>11. plan \in Plans
  BY <1>6, <1>7, <1>9, <1>10 DEF Plans, PlanRecord, Buckets
<1> HIDE DEF plan
<1>12. build = bdBuilds[n]
  BY DEF build
<1> DEFINE new == [build EXCEPT !.todo = @ \ {bucket}, !.queue = @ \o runs, !.plans = @ \cup {plan}]
<1>13. new \in BuildRecord
  <2>1. /\ build.todo \ {bucket} \in SUBSET Buckets /\ build.queue \o runs \in Seq(Seq(BdJobs))
        /\ build.plans \cup {plan} \in SUBSET Plans
    <3>1. build.queue \in Seq(Seq(BdJobs)) /\ build.plans \in SUBSET Plans
      BY <1>1 DEF BuildRecord
    <3> QED
      BY <3>1, <1>2, <1>10, <1>11
  <2> DEFINE todo == build.todo \ {bucket}
             queue == build.queue \o runs
             plans == build.plans \cup {plan}
  <2> HIDE DEF todo, queue, plans
  <2>2. [build EXCEPT !.todo = todo, !.queue = queue, !.plans = plans] \in BuildRecord
    BY <1>1, <2>1 DEF BuildRecord, todo, queue, plans
  <2> QED
    BY <2>2 DEF todo, queue, plans
<1>14. bdBuilds' = [bdBuilds EXCEPT ![n] = new]
  BY <1>1, <1>5, <1>12
<1>15. bdBuilds' \in Seq(BuildRecord)
  <2> HIDE DEF new, BuildRecord
  <2> QED
    BY <1>1, <1>13, <1>14
<1> QED
  BY <1>15 DEF BdInv, PlanBucket

\* A run is created from the queue, or is not.
LEMMA CreateStep ==
  ASSUME BdInv, NEW n \in DOMAIN bdBuilds, CreateNext(n)
  PROVE  BdInv'
<1> DEFINE build == bdBuilds[n]
<1>1. bdBuilds \in Seq(BuildRecord) /\ build \in BuildRecord /\ bdRuns \in Seq(RunRecord)
  BY DEF BdInv
<1>2. build.queue \in Seq(Seq(BdJobs)) /\ build.queue # << >>
  BY <1>1 DEF CreateNext, BuildRecord
<1>3. Head(build.queue) \in Seq(BdJobs) /\ Tail(build.queue) \in Seq(Seq(BdJobs))
  BY <1>2
<1>4. ASSUME NEW jobs \in Seq(BdJobs), NEW config PROVE RunOf(jobs, config) \in RunRecord
  <2>1. ToSet(jobs) \subseteq BdJobs
    BY DEF ToSet
  <2> DEFINE ends == config.routing = "finishAtStop" /\ config.finish \in ToSet(jobs)
             finish == IF ends THEN config.finish ELSE 0
             routing == IF config.routing = "aToA" THEN 1 ELSE IF ends THEN 2 ELSE 0
  <2>2. RunOf(jobs, config) = [jobs |-> jobs, finish |-> finish, routing |-> routing]
    BY DEF RunOf
  <2>3. finish \in BdJobs \cup {0} /\ finish \in ToSet(jobs) \cup {0} /\ routing \in {0, 1, 2}
    BY <2>1
  <2> HIDE DEF finish, routing
  <2> QED
    BY <2>2, <2>3 DEF RunRecord
<1>5. bdRuns' \in Seq(RunRecord)
  <2>1. bdRuns' = bdRuns \/ bdRuns' = Append(bdRuns, RunOf(Head(build.queue), build.config))
    BY DEF CreateNext
  <2>2. RunOf(Head(build.queue), build.config) \in RunRecord
    BY <1>3, <1>4
  <2> HIDE DEF RunRecord, build
  <2> QED
    BY <2>1, <2>2, <1>1
<1> DEFINE rest == Tail(build.queue)
           new == [build EXCEPT !.queue = rest]
<1>6. new \in BuildRecord
  <2>1. rest \in Seq(Seq(BdJobs)) /\ build \in BuildRecord
    BY <1>1, <1>3
  <2> HIDE DEF rest, build
  <2> QED
    BY <2>1 DEF BuildRecord
<1>7. bdBuilds' = [bdBuilds EXCEPT ![n] = new]
  BY <1>1 DEF CreateNext
<1>8. bdBuilds' \in Seq(BuildRecord)
  <2> HIDE DEF new, BuildRecord, build
  <2> QED
    BY <1>1, <1>6, <1>7
<1> QED
  BY <1>5, <1>8 DEF BdInv, CreateNext

\* A build ends: the page is loaded with what is on runs now.
LEMMA EndStep ==
  ASSUME BdInv, NEW n \in DOMAIN bdBuilds, EndBuild(n)
  PROVE  BdInv'
<1>1. bdBuilds \in Seq(BuildRecord) /\ bdBuilds[n] \in BuildRecord /\ bdRuns \in Seq(RunRecord)
  BY DEF BdInv
<1>2. OnRuns \subseteq BdJobs
  <2>1. \A i \in DOMAIN bdRuns : bdRuns[i].jobs \in Seq(BdJobs)
    BY <1>1 DEF RunRecord
  <2>2. \A i \in DOMAIN bdRuns : ToSet(bdRuns[i].jobs) \subseteq BdJobs
    BY <2>1 DEF ToSet
  <2> QED
    BY <2>2 DEF OnRuns
<1>3. bdPage' \in BdPageRecord /\ bdPage'.modal = "none" /\ bdPage'.seen = {}
  <2>1. bdPage' = [bdPage EXCEPT !.ticked = {}, !.modal = "none", !.seen = {}, !.placed = OnRuns]
    BY DEF EndBuild
  <2> QED
    BY <2>1, <1>2 DEF BdInv, BdPageRecord
<1> DEFINE new == [bdBuilds[n] EXCEPT !.done = TRUE]
<1>4. new \in BuildRecord
  BY <1>1 DEF BuildRecord
<1>5. bdBuilds' = [bdBuilds EXCEPT ![n] = new]
  BY <1>1 DEF EndBuild
<1>6. bdBuilds' \in Seq(BuildRecord)
  <2> HIDE DEF new, BuildRecord
  <2> QED
    BY <1>1, <1>4, <1>5
<1> QED
  BY <1>3, <1>6 DEF BdInv, EndBuild

\* Every plan of every build is one the split made, at any time.
LEMMA BuildsInvariant ==
  BdSpec => []BdInv
<1>1. BdInit => BdInv
  BY BuildsInit
<1>2. BdInv /\ [BdNext]_bdVars => BdInv'
  <2> SUFFICES ASSUME BdInv, [BdNext]_bdVars PROVE BdInv'
    OBVIOUS
  <2>1. CASE UNCHANGED bdVars
    BY <2>1 DEF BdInv, bdVars
  <2>2. CASE ConfirmBuild
    BY <2>2, ConfirmStep
  <2>3. CASE \E n \in DOMAIN bdBuilds : PlanBucket(n) \/ CreateNext(n) \/ EndBuild(n)
    BY <2>3, PlanStep, CreateStep, EndStep
  <2>4. CASE \/ SetAutoRoute \/ CancelConfig \/ CancelBuild
             \/ \E j \in BdJobs : TickJob(j) \/ OthersTake(j)
             \/ \E build \in BOOLEAN : OpenBuildConfig(build)
             \/ \E chosen \in BdConfigs : CommitConfig(chosen)
    BY <2>4, ConfigStep
  <2> QED
    BY <2>1, <2>2, <2>3, <2>4 DEF BdNext
<1> QED
  BY <1>1, <1>2, PTL DEF BdSpec

\* The page of Build Runs keeps its types: no bucket is empty, and no run ends at a stop that is
\* not its own.
THEOREM BuildTypes ==
  BdSpec => []BdTypeOK
<1>1. BdInv => BdTypeOK
  <2> SUFFICES ASSUME BdInv PROVE BdTypeOK
    OBVIOUS
  <2>1. bdPage \in BdPageRecord /\ (bdPage.modal = "none") = (bdPage.seen = {})
    BY DEF BdInv
  <2>2. \A n \in DOMAIN bdBuilds : \A b \in bdBuilds[n].todo : b # << >> /\ ToSet(b) \subseteq BdJobs
    <3> SUFFICES ASSUME NEW n \in DOMAIN bdBuilds, NEW b \in bdBuilds[n].todo
                 PROVE  b # << >> /\ ToSet(b) \subseteq BdJobs
      OBVIOUS
    <3>1. bdBuilds[n] \in BuildRecord
      BY DEF BdInv
    <3>2. b \in Buckets
      BY <3>1 DEF BuildRecord
    <3> QED
      BY <3>2 DEF Buckets, ToSet
  <2>3. \A i \in DOMAIN bdRuns : bdRuns[i].finish \in ToSet(bdRuns[i].jobs) \cup {0}
    BY DEF BdInv, RunRecord
  <2> QED
    BY <2>1, <2>2, <2>3 DEF BdTypeOK, BdPageRecord
<1> QED
  BY <1>1, BuildsInvariant, PTL

\* The runs of every build are its buckets' orders, cut: no job lost or doubled, no run over its
\* limits unless it is one job, none cut short, for any jobs, limits, answers and builds at once.
THEOREM RunsFit ==
  BdSpec => []RunsFitTheirLimits
<1>1. BdInv => RunsFitTheirLimits
  <2> SUFFICES ASSUME BdInv, NEW n \in DOMAIN bdBuilds, NEW p \in bdBuilds[n].plans PROVE CutByLimits(p)
    BY Zenon DEF RunsFitTheirLimits, CutByLimits
  <2>1. bdBuilds[n] \in BuildRecord
    BY DEF BdInv
  <2>2. IsPlan(p)
    BY <2>1 DEF BuildRecord, Plans
  <2> QED
    BY <2>2, PlansFit
<1> QED
  BY <1>1, BuildsInvariant, PTL

-------------------------------------------------------------------------------
(* ShiftPage                                                               *)

ShiftLookRecord ==
  [day : ShDates, place : Nat, sel : ShSchedules \cup {0}, tab : {0, 1, 3}, adding : BOOLEAN]

DialogNames ==
  {"none", "create", "copy", "picker", "assign", "delete", "remind", "deleteSlot", "editSlot"}

ShiftDialogRecord == [what : DialogNames, id : DOMAIN ShDayOf \cup {0}, ids : SUBSET ShSchedules]

ShiftCallFields == {"n", "what", "id", "ids", "value", "day", "from", "mounted", "phase"}

\* Whatever is open is of the date of the page: the chosen schedule, and what a dialog is about.
PageOfDate ==
  /\ shLook.sel # 0 => ShDayOf[shLook.sel] = shLook.day
  /\ shOpen.id # 0 => ShDayOf[shOpen.id] = shLook.day

CallOfDate(c) ==
  /\ DOMAIN c = ShiftCallFields
  /\ c.id \in DOMAIN ShDayOf /\ c.what # "addSlot" => ShDayOf[c.id] = c.day

ShiftInv ==
  /\ shLook \in ShiftLookRecord /\ shOpen \in ShiftDialogRecord
  /\ PageOfDate
  /\ \A c \in shCalls : CallOfDate(c)

\* What a dialog is about stays while it is open: the page is covered, and what can be chosen on
\* it is not.
LEMMA DialogOfDate ==
  ASSUME ShiftInv, NEW what \in DialogNames, NEW id \in DOMAIN ShDayOf \cup {0},
         NEW ids \in SUBSET ShSchedules, id # 0 => OfDay(id), ShOpenDialog(what, id, ids)
  PROVE  ShiftInv'
<1>1. shOpen' = [what |-> what, id |-> id, ids |-> ids] /\ UNCHANGED <<shLook, shCalls>>
  BY DEF ShOpenDialog
<1>2. shOpen' \in ShiftDialogRecord /\ shOpen'.id = id
  BY <1>1 DEF ShiftDialogRecord
<1>3. PageOfDate'
  BY <1>1, <1>2 DEF ShiftInv, PageOfDate, OfDay
<1> QED
  BY <1>1, <1>2, <1>3 DEF ShiftInv, CallOfDate

\* A request is sent under the date of what it is about.
LEMMA AskOfDate ==
  ASSUME ShiftInv, NEW what, NEW id, NEW ids, NEW value,
         id \in DOMAIN ShDayOf /\ what # "addSlot" => ShDayOf[id] = shLook.day,
         ShAsk(what, id, ids, value),
         shOpen' \in ShiftDialogRecord, shOpen'.id \in {shOpen.id, 0}
  PROVE  ShiftInv'
<1> DEFINE new == [n |-> shCount, what |-> what, id |-> id, ids |-> ids, value |-> value,
                   day |-> shLook.day, from |-> shLook.sel, mounted |-> TRUE, phase |-> "sent"]
<1>1. /\ shCount' = shCount + 1 /\ shCalls' = shCalls \cup {new} /\ shLook' = shLook
  BY DEF ShAsk
<1>2. DOMAIN new = ShiftCallFields
  BY DEF ShiftCallFields
<1>3. new.id = id /\ new.what = what /\ new.day = shLook.day
  OBVIOUS
<1>4. CallOfDate(new)
  BY <1>2, <1>3 DEF CallOfDate
<1> HIDE DEF new
<1>5. \A c \in shCalls' : CallOfDate(c)
  BY <1>1, <1>2, <1>4 DEF ShiftInv
<1>6. PageOfDate'
  BY <1>1 DEF ShiftInv, PageOfDate
<1> QED
  BY <1>1, <1>5, <1>6 DEF ShiftInv, CallOfDate

\* The page looks elsewhere only while nothing covers it.
LEMMA LookOfDate ==
  ASSUME ShiftInv, NEW look \in ShiftLookRecord, ShLookAt(look),
         look.sel # 0 => ShDayOf[look.sel] = look.day
  PROVE  ShiftInv'
<1>1. shLook' = look /\ UNCHANGED <<shOpen, shCalls>> /\ shOpen = ShClosed
  BY DEF ShLookAt, ShCovered
<1>2. shOpen'.id = 0
  BY <1>1 DEF ShClosed
<1> QED
  BY <1>1, <1>2 DEF ShiftInv, PageOfDate, CallOfDate

\* What is shown is of the date.
LEMMA ShownOfDate == \A i \in ShShown : i \in Summaries.rows /\ OfDay(i)
  BY DEF ShShown

\* The operator looks at another date, location, tab or schedule, or opens the slot form.
LEMMA LookedInv ==
  ASSUME ShiftInv,
         \/ \E d \in ShDates : ChooseDate(d)
         \/ \E l \in ShPlaces : ChooseLocation(l)
         \/ \E a \in {0, 1, 3} : ChooseTab(a)
         \/ \E s \in ShSchedules : ChooseSchedule(s)
         \/ OpenAddTimeSlot
  PROVE  ShiftInv'
<1> USE DEF ShiftInv
<1>1. ASSUME NEW d \in ShDates, ChooseDate(d) PROVE ShiftInv'
  <2>1. OnDate(shLook, d) \in ShiftLookRecord /\ OnDate(shLook, d).sel = 0
    BY DEF OnDate, ShiftLookRecord
  <2> QED
    BY <1>1, <2>1, LookOfDate DEF ChooseDate
<1>2. ASSUME NEW l \in ShPlaces, ChooseLocation(l) PROVE ShiftInv'
  <2>1. l \in Nat
    BY ShAssumption DEF ShPlaces
  <2>2. [shLook EXCEPT !.place = l, !.sel = 0] \in ShiftLookRecord
        /\ [shLook EXCEPT !.place = l, !.sel = 0].sel = 0
    BY <2>1 DEF ShiftLookRecord
  <2> QED
    BY <1>2, <2>2, LookOfDate DEF ChooseLocation
<1>3. ASSUME NEW a \in {0, 1, 3}, ChooseTab(a) PROVE ShiftInv'
  <2>1. PICK look : look = [shLook EXCEPT !.tab = a]
    OBVIOUS
  <2>2. look \in ShiftLookRecord /\ look.sel = shLook.sel /\ look.day = shLook.day
    BY <2>1 DEF ShiftLookRecord
  <2> QED
    BY <1>3, <2>1, <2>2, LookOfDate DEF ChooseTab, PageOfDate
<1>4. ASSUME NEW s \in ShSchedules, ChooseSchedule(s) PROVE ShiftInv'
  <2>1. PICK look : look = [shLook EXCEPT !.sel = s]
    OBVIOUS
  <2>2. look \in ShiftLookRecord /\ look.sel = s /\ look.day = shLook.day
    BY <2>1 DEF ShiftLookRecord
  <2>3. OfDay(s) /\ ShLookAt(look)
    BY <1>4, <2>1, ShownOfDate DEF ChooseSchedule
  <2> QED
    BY <2>2, <2>3, LookOfDate DEF OfDay
<1>5. CASE OpenAddTimeSlot
  <2>1. PICK look : look = [shLook EXCEPT !.adding = TRUE]
    OBVIOUS
  <2>2. look \in ShiftLookRecord /\ look.sel = shLook.sel /\ look.day = shLook.day
    BY <2>1 DEF ShiftLookRecord
  <2> QED
    BY <1>5, <2>1, <2>2, LookOfDate DEF OpenAddTimeSlot, PageOfDate
<1> QED
  BY <1>1, <1>2, <1>3, <1>4, <1>5

\* A dialog opens about what the page lists.
LEMMA OpenedInv ==
  ASSUME ShiftInv,
         \/ OpenBulkNotify \/ OpenAssign
         \/ \E what \in {"create", "copy"} : OpenCreateOrCopy(what)
         \/ \E s \in ShSchedules, what \in {"delete", "remind"} : AskCard(what, s)
         \/ \E t \in ShSlots, what \in {"deleteSlot", "editSlot"} : AskSlot(what, t)
  PROVE  ShiftInv'
<1> USE DEF DialogNames
<1>1. CASE OpenBulkNotify
  BY <1>1, DialogOfDate DEF OpenBulkNotify
<1>2. CASE OpenAssign
  <2>1. shLook.sel \in ShSchedules /\ shLook.sel # 0 /\ OfDay(shLook.sel)
    BY <1>2 DEF OpenAssign, RowListed, HasRow, ShiftInv, ShiftLookRecord, PageOfDate, OfDay
  <2>2. shLook.sel \in DOMAIN ShDayOf
    BY <2>1, ShAssumption
  <2> QED
    BY <1>2, <2>1, <2>2, DialogOfDate DEF OpenAssign
<1>3. ASSUME NEW what \in {"create", "copy"}, OpenCreateOrCopy(what) PROVE ShiftInv'
  BY <1>3, DialogOfDate DEF OpenCreateOrCopy
<1>4. ASSUME NEW s \in ShSchedules, NEW what \in {"delete", "remind"}, AskCard(what, s)
      PROVE  ShiftInv'
  <2>1. s \in DOMAIN ShDayOf
    BY ShAssumption
  <2> QED
    BY <1>4, <2>1, DialogOfDate, ShownOfDate DEF AskCard
<1>5. ASSUME NEW t \in ShSlots, NEW what \in {"deleteSlot", "editSlot"}, AskSlot(what, t)
      PROVE  ShiftInv'
  <2>1. t \in DOMAIN ShDayOf
    BY ShAssumption
  <2> QED
    BY <1>5, <2>1, DialogOfDate, ShownOfDate DEF AskSlot
<1> QED
  BY <1>1, <1>2, <1>3, <1>4, <1>5

\* A schedule is ticked or unticked in the picker.
LEMMA PickedInv == ASSUME ShiftInv, NEW s \in ShSchedules, TogglePicked(s) PROVE ShiftInv'
<1>1. PICK ids \in SUBSET ShSchedules : shOpen' = [shOpen EXCEPT !.ids = ids]
  BY DEF TogglePicked, ShiftInv, ShiftDialogRecord
<1>2. shOpen' \in ShiftDialogRecord /\ shOpen'.id = shOpen.id
  BY <1>1 DEF ShiftInv, ShiftDialogRecord
<1> QED
  BY <1>2 DEF TogglePicked, ShiftInv, PageOfDate, CallOfDate

\* A request is sent about the date and the location shown.
LEMMA AskedInv ==
  ASSUME ShiftInv,
         \/ \E s \in ShSchedules : NotifyCard(s)
         \/ \E a \in {0, 1, 3} : ToggleAvailability(a)
         \/ \E t \in ShSlots \cup {0} : SubmitAssign(t)
         \/ ShConfirm \/ SendPicked \/ SubmitDialog \/ SubmitTimeSlot
  PROVE  ShiftInv'
<1>0. /\ shOpen.id \in DOMAIN ShDayOf \cup Nat 
      /\ shOpen.ids \in SUBSET ShSchedules
      /\ shOpen.id # 0 => ShDayOf[shOpen.id] = shLook.day
      /\ shLook.sel # 0 => ShDayOf[shLook.sel] = shLook.day
      /\ shLook.sel \in ShSchedules \cup {0}
  BY DEF ShiftInv, ShiftDialogRecord, PageOfDate, ShiftLookRecord
<1>1. 0 \notin DOMAIN ShDayOf /\ ShSchedules \subseteq DOMAIN ShDayOf /\ shOpen \in ShiftDialogRecord
      /\ ShClosed \in ShiftDialogRecord /\ ShClosed.id = 0
  BY ShAssumption DEF ShiftInv, ShiftDialogRecord, DialogNames, ShClosed
<1>2. ASSUME NEW s \in ShSchedules, NotifyCard(s) PROVE ShiftInv'
  <2>1. OfDay(s) /\ ShAsk("notify", s, {s}, 0) /\ shOpen' = shOpen
    BY <1>2, ShownOfDate DEF NotifyCard
  <2> QED
    BY <1>1, <2>1, AskOfDate DEF OfDay
<1>3. ASSUME NEW a \in {0, 1, 3}, ToggleAvailability(a) PROVE ShiftInv'
  <2>1. shLook.sel \in ShSchedules /\ ShAsk("status", shLook.sel, {}, a) /\ shOpen' = shOpen
        /\ ShDayOf[shLook.sel] = shLook.day
    BY <1>0, <1>3 DEF ToggleAvailability, RowListed, HasRow
  <2> QED
    BY <1>1, <2>1, AskOfDate
<1>4. ASSUME NEW t \in ShSlots \cup {0}, SubmitAssign(t) PROVE ShiftInv'
  <2>1. ShAsk("assign", shOpen.id, {}, t) /\ shOpen' = shOpen
    BY <1>4 DEF SubmitAssign
  <2> QED
    BY <1>0, <1>1, <2>1, AskOfDate
<1>5. CASE ShConfirm
  <2>1. ShAsk(shOpen.what, shOpen.id, {}, 0) /\ shOpen' = ShClosed
    BY <1>5 DEF ShConfirm
  <2> QED
    BY <1>0, <1>1, <2>1, AskOfDate
<1>6. CASE SendPicked
  <2>1. ShAsk("picker", 0, shOpen.ids, 0) /\ shOpen' = shOpen
    BY <1>6 DEF SendPicked
  <2> QED
    BY <1>0, <1>1, <2>1, AskOfDate
<1>7. CASE SubmitDialog
  <2>1. ShAsk(shOpen.what, shOpen.id, {}, 0) /\ shOpen' = shOpen
    BY <1>7 DEF SubmitDialog
  <2> QED
    BY <1>0, <1>1, <2>1, AskOfDate
<1>8. CASE SubmitTimeSlot
  <2>1. ShAsk("addSlot", EffectiveLocation, {}, 0) /\ shOpen' = shOpen
        /\ EffectiveLocation # 0
    BY <1>8 DEF SubmitTimeSlot
  <2> QED
    BY <1>0, <1>1, <2>1, AskOfDate
<1> QED
  BY <1>2, <1>3, <1>4, <1>5, <1>6, <1>7, <1>8

\* A dialog that is gone takes no reply.
LEMMA Unmounted ==
  ASSUME ShiftInv, NEW what
  PROVE  \A x \in Unmount(what) : CallOfDate(x)
<1> SUFFICES ASSUME NEW c \in shCalls, NEW b, NEW x, x = [c EXCEPT !.mounted = b]
             PROVE  CallOfDate(x)
  BY DEF Unmount
<1>1. CallOfDate(c)
  BY DEF ShiftInv
<1>2. DOMAIN x = ShiftCallFields /\ x.id = c.id /\ x.what = c.what /\ x.day = c.day
  BY <1>1 DEF CallOfDate, ShiftCallFields
<1> QED
  BY <1>1, <1>2 DEF CallOfDate

\* A dialog is closed.
LEMMA ClosedInv == ASSUME ShiftInv, CloseDialog PROVE ShiftInv'
<1>1. PICK b \in BOOLEAN : b = (shLook.adding /\ shOpen # ShClosed)
  BY Zenon
<1>2. shLook' = [shLook EXCEPT !.adding = b]
  BY <1>1, Zenon DEF CloseDialog
<1>3. shLook' \in ShiftLookRecord /\ shLook'.sel = shLook.sel /\ shLook'.day = shLook.day
  BY <1>2 DEF ShiftInv, ShiftLookRecord
<1>4. shOpen' \in ShiftDialogRecord /\ shOpen'.id = 0
  BY DEF CloseDialog, ShClosed, ShiftDialogRecord, DialogNames
<1>5. \A c \in shCalls' : CallOfDate(c)
  BY Unmounted DEF CloseDialog
<1> QED
  BY <1>3, <1>4, <1>5 DEF CloseDialog, ShiftInv, PageOfDate, CallOfDate

\* The server serves a call.
LEMMA ServedInv == ASSUME ShiftInv, NEW c \in shCalls, ServeShift(c) PROVE ShiftInv'
<1>1. PICK reply \in {"done", "refused"} : shCalls' = (shCalls \ {c}) \cup {[c EXCEPT !.phase = reply]}
  BY DEF ServeShift
<1>2. PICK x : x = [c EXCEPT !.phase = reply]
  OBVIOUS
<1>3. DOMAIN x = ShiftCallFields /\ x.id = c.id /\ x.what = c.what /\ x.day = c.day
  BY <1>2 DEF ShiftInv, CallOfDate, ShiftCallFields
<1>4. CallOfDate(x)
  BY <1>3 DEF ShiftInv, CallOfDate
<1> QED
  BY <1>1, <1>2, <1>3, <1>4 DEF ServeShift, ShiftInv, PageOfDate, CallOfDate

\* A call is answered, whatever the page shows by then.
LEMMA AnsweredInv == ASSUME ShiftInv, NEW c \in shCalls, AnswerShift(c) PROVE ShiftInv'
<1>1. CASE c.phase = "refused"
  BY <1>1 DEF AnswerShift, ShiftInv, PageOfDate, CallOfDate
<1>2. CASE c.phase # "refused"
  <2>1. /\ shCalls' = {x \in Unmount(c.what) : x.n # c.n} /\ shOpen' = ClosedBy(c)
        /\ shLook' = [shLook EXCEPT !.adding = @ /\ c.what # "addSlot",
                                    !.sel = IF c.what = "delete" /\ c.from = c.id THEN 0 ELSE @]
    BY <1>2 DEF AnswerShift
  <2>2. PICK b \in BOOLEAN : b = (shLook.adding /\ c.what # "addSlot")
    BY Zenon
  <2>3. PICK sel \in {shLook.sel, 0} :
          sel = (IF c.what = "delete" /\ c.from = c.id THEN 0 ELSE shLook.sel)
    OBVIOUS
  <2>4. shLook' = [shLook EXCEPT !.adding = b, !.sel = sel]
    BY <2>1, <2>2, <2>3, Zenon
  <2>5. shLook' \in ShiftLookRecord /\ shLook'.sel = sel /\ shLook'.day = shLook.day
    BY <2>4 DEF ShiftInv, ShiftLookRecord
  <2>6. shOpen' \in ShiftDialogRecord /\ shOpen'.id \in {shOpen.id, 0}
    BY <2>1 DEF ClosedBy, ShiftInv, ShClosed, ShiftDialogRecord, DialogNames
  <2>7. PageOfDate'
    BY <2>3, <2>5, <2>6 DEF ShiftInv, PageOfDate
  <2>8. \A x \in shCalls' : CallOfDate(x)
    BY <2>1, Unmounted
  <2> QED
    BY <2>1, <2>5, <2>6, <2>7, <2>8 DEF ShiftInv, CallOfDate
<1> QED
  BY <1>1, <1>2

\* The page opens on a date with no dialog.
LEMMA ShiftPageStart == ShInit => ShiftInv
<1> SUFFICES ASSUME ShInit PROVE ShiftInv
  OBVIOUS
<1>1. PICK d \in ShDates : shLook = [day |-> d, place |-> 0, sel |-> 0, tab |-> 0, adding |-> FALSE]
  BY DEF ShInit
<1>2. shLook \in ShiftLookRecord /\ shLook.sel = 0
  BY <1>1 DEF ShiftLookRecord
<1>3. shOpen \in ShiftDialogRecord /\ shOpen.id = 0
  BY DEF ShInit, ShClosed, ShiftDialogRecord, DialogNames
<1> QED
  BY <1>2, <1>3 DEF ShInit, ShiftInv, PageOfDate

\* Each gesture and each answer.
LEMMA ShiftPageStep == ShiftInv /\ [ShNext]_shVars => ShiftInv'
<1> SUFFICES ASSUME ShiftInv, [ShNext]_shVars PROVE ShiftInv'
  OBVIOUS
<1>1. ASSUME NEW k \in FeedKeys, FetchFeed(k) PROVE ShiftInv'
  BY <1>1 DEF FetchFeed, ShiftInv, PageOfDate, CallOfDate
<1>2. CASE OthersShift
  <2>1. UNCHANGED <<shLook, shOpen, shCalls>>
    BY <1>2 DEF OthersShift
  <2> QED
    BY <2>1 DEF ShiftInv, PageOfDate, CallOfDate
<1>3. ASSUME NEW c \in shCalls, ServeShift(c) \/ AnswerShift(c) PROVE ShiftInv'
  BY <1>3, ServedInv, AnsweredInv
<1>4. CASE UNCHANGED shVars
  BY <1>4 DEF shVars, ShiftInv, PageOfDate, CallOfDate
<1> QED
  BY <1>1, <1>2, <1>3, <1>4, LookedInv, OpenedInv, PickedInv, AskedInv, ClosedInv DEF ShNext

\* Whatever is polled, closed or answered late, and for any schedules, slots, dates and locations:
\* a request about a schedule, an answer or a slot was sent from the page of its date.
THEOREM PageOfItsDate == ShSpec => []ActsOnItsDate
<1>1. ShiftInv => ActsOnItsDate
  BY DEF ShiftInv, CallOfDate, ActsOnItsDate
<1> QED
  BY <1>1, ShiftPageStart, ShiftPageStep, PTL DEF ShSpec

-----------------------------------------------------------------------------
(* Types: the bundles of a schedule                                        *)

Removals == {"remove", "detach", "delete"}

\* One request at most is of these kinds.
OneAtMost(rs, kinds) == \A p, q \in rs : p.does \in kinds /\ q.does \in kinds => p = q

\* What is asked for names schedules and clients.
BundleAsk(r) == /\ r.does = "add" => r.schedule \in BuSchedules
                /\ r.does = "attach" => r.clients \subseteq BuClients

\* A prompt to remove is on screen while nothing is under way; a prompt to link is about a schedule.
BundlePrompt == /\ prompt.asks \in Removals => requests = {}
                /\ prompt.asks = "link" => prompt.schedule \in BuSchedules

BundleTables ==
  /\ kind \in [BuSchedules -> {"default", "specific", "retired"}]
  /\ links \subseteq BuSchedules \X BuClients /\ members \subseteq BuSchedules
  /\ bundle \in BOOLEAN /\ (~bundle => members = {})

BundlePage ==
  picked \subseteq BuClients /\ DOMAIN known.members \subseteq BuSchedules /\ DOMAIN known.clients \subseteq BuClients

BundleCalls ==
  /\ OneAtMost(requests, Removals) /\ OneAtMost(requests, {"attach"})
  /\ \A r \in requests : BundleAsk(r)

\* The inductive invariant.
BundleInv == BundleTables /\ BundlePage /\ BundleCalls /\ BundlePrompt

\* At most one element.
LEMMA AtMostOne ==
  ASSUME NEW S, \A x, y \in S : x = y PROVE Cardinality(S) <= 1
<1>1. CASE S = {}
  BY <1>1, FS_EmptySet
<1>2. CASE S # {}
  <2>1. PICK x : x \in S
    BY <1>2
  <2>2. S = {x}
    BY <2>1
  <2> QED
    BY <2>2, FS_Singleton
<1> QED
  BY <1>1, <1>2

\* One request more, where none of its kind is under way.
LEMMA RequestAdded ==
  ASSUME BundleCalls, NEW r, BundleAsk(r), Request(r),
         r.does \in Removals => requests = {},
         r.does = "attach" => \A p \in requests : p.does # "attach"
  PROVE  BundleCalls'
  BY DEF BundleCalls, BundleAsk, OneAtMost, Request, Removals

\* A request less.
LEMMA RequestGone ==
  ASSUME BundleCalls, BundlePrompt, NEW r, requests' = requests \ {r}, UNCHANGED prompt
  PROVE  BundleCalls' /\ BundlePrompt'
  BY DEF BundleCalls, BundlePrompt, BundleAsk, OneAtMost

\* What the page shows of a bundle.
LEMMA DetailShown ==
  ASSUME BundleTables
  PROVE  DOMAIN Detail.members \subseteq BuSchedules /\ DOMAIN Detail.clients \subseteq BuClients
  BY DEF BundleTables, Detail, LinkedTo

\* The gestures of the modal.
LEMMA BundlePageStep ==
  ASSUME BundleInv,
         \/ CreateBundle \/ OpenBundle \/ CloseBundle \/ FetchDetail \/ RefocusBundle \/ AskDelete \/ Dismissed
         \/ \E s \in BuSchedules : AskRemoveSchedule(s)
         \/ \E c \in BuClients : AskRemoveClient(c) \/ PickClient(c)
  PROVE  BundleInv'
<1> USE DEF BundleInv, BundlePage, BundlePrompt, buServer
<1>1. CASE CreateBundle
  BY <1>1 DEF CreateBundle, BundleTables, BundleCalls, BundleAsk
<1>a. ASSUME UNCHANGED <<buServer, requests>> PROVE BundleTables' /\ BundleCalls'
  BY <1>a DEF BundleTables, BundleCalls, BundleAsk
<1>2. CASE OpenBundle \/ CloseBundle \/ RefocusBundle
  BY <1>2, <1>a DEF OpenBundle, CloseBundle, RefocusBundle, NoDialog, Removals
<1>3. CASE FetchDetail
  BY <1>3, <1>a, DetailShown DEF FetchDetail
<1>4. CASE AskDelete \/ \E s \in BuSchedules : AskRemoveSchedule(s)
  BY <1>4, <1>a DEF AskDelete, AskRemoveSchedule, NotBusy
<1>5. ASSUME NEW c \in BuClients, AskRemoveClient(c) \/ PickClient(c) PROVE BundleInv'
  BY <1>5, <1>a DEF AskRemoveClient, PickClient, NotBusy
<1>6. CASE Dismissed
  BY <1>6, <1>a DEF Dismissed, NoDialog, Removals
<1> QED
  BY <1>1, <1>2, <1>3, <1>4, <1>5, <1>6

\* The requests that the modal makes.
LEMMA BundleAskStep ==
  ASSUME BundleInv,
         \/ Confirmed \/ AddClients
         \/ \E s \in BuSchedules : PickSchedule(s)
         \/ \E yes \in BOOLEAN : AnswerLink(yes)
         \/ \E c \in BuClients : Complete(c)
  PROVE  BundleInv'
<1> USE DEF BundleInv, BundlePage, BundlePrompt, buServer, buPage
<1>a. ASSUME UNCHANGED buServer PROVE BundleTables'
  BY <1>a DEF BundleTables
<1>1. CASE Confirmed
  <2>1. PICK r : r.does \in Removals /\ Request(r)
    BY <1>1 DEF Confirmed, Removals
  <2>2. BundleCalls'
    BY <1>1, <2>1, RequestAdded DEF Confirmed, BundleAsk, Removals
  <2> QED
    BY <1>1, <1>a, <2>2 DEF Confirmed, NoDialog, Removals
<1>2. CASE AddClients
  <2>1. PICK r : r = [does |-> "attach", clients |-> picked]
    OBVIOUS
  <2>2. BundleAsk(r) /\ r.does = "attach"
    BY <2>1 DEF BundleAsk
  <2>3. BundleCalls'
    BY <1>2, <2>1, <2>2, RequestAdded DEF AddClients, AttachPending, Removals
  <2> QED
    BY <1>2, <1>a, <2>3 DEF AddClients, BundleShown, NoDialog, Removals
<1>3. ASSUME NEW c \in BuClients, Complete(c) PROVE BundleInv'
  <2>1. PICK r : r = [does |-> "attach", clients |-> {c}]
    OBVIOUS
  <2>2. BundleAsk(r) /\ r.does = "attach"
    BY <2>1 DEF BundleAsk
  <2>3. BundleCalls'
    BY <1>3, <2>1, <2>2, RequestAdded DEF Complete, NotBusy, Removals
  <2> QED
    BY <1>3, <1>a, <2>3 DEF Complete, BundleShown, NoDialog, Removals
<1>4. ASSUME NEW s \in BuSchedules, PickSchedule(s) PROVE BundleInv'
  <2>1. CASE DOMAIN known.clients # {}
    <3>1. BundleCalls'
      BY <1>4, <2>1 DEF PickSchedule, BundleCalls, BundleAsk
    <3> QED
      BY <1>4, <1>a, <2>1, <3>1 DEF PickSchedule, Removals
  <2>2. CASE DOMAIN known.clients = {}
    <3>1. PICK r : r = [does |-> "add", schedule |-> s, link |-> FALSE]
      OBVIOUS
    <3>2. BundleAsk(r) /\ r.does = "add"
      BY <3>1 DEF BundleAsk
    <3>3. BundleCalls'
      BY <1>4, <2>2, <3>1, <3>2, RequestAdded DEF PickSchedule, Removals
    <3> QED
      BY <1>4, <1>a, <2>2, <3>3 DEF PickSchedule, BundleShown, NoDialog, Removals
  <2> QED
    BY <2>1, <2>2
<1>5. ASSUME NEW yes \in BOOLEAN, AnswerLink(yes) PROVE BundleInv'
  <2>1. PICK r : r = [does |-> "add", schedule |-> prompt.schedule, link |-> yes]
    OBVIOUS
  <2>2. BundleAsk(r) /\ r.does = "add"
    BY <1>5, <2>1 DEF BundleAsk, AnswerLink
  <2>3. BundleCalls'
    BY <1>5, <2>1, <2>2, RequestAdded DEF AnswerLink, Removals
  <2> QED
    BY <1>5, <1>a, <2>3 DEF AnswerLink, NoDialog, Removals
<1> QED
  BY <1>1, <1>2, <1>3, <1>4, <1>5

\* The server's answers, and the writes of others.
LEMMA BundleServed ==
  ASSUME BundleInv, NEW r \in requests,
         \/ AddMember(r) \/ RemoveMember(r) \/ AttachClients(r) \/ DetachClient(r) \/ DeleteBundle(r) \/ Refused(r)
  PROVE  BundleInv'
<1>1. BundleCalls' /\ BundlePrompt'
  BY RequestGone DEF BundleInv, AddMember, RemoveMember, AttachClients, DetachClient, DeleteBundle, Refused, Answered, buPage
<1>2. BundlePage'
  BY DEF BundleInv, BundlePage, AddMember, RemoveMember, AttachClients, DetachClient, DeleteBundle, Refused, Answered, buPage
<1>3. BundleAsk(r)
  BY DEF BundleInv, BundleCalls
<1>4. BundleTables'
  <2>1. BundleTables /\ Specific(members) \subseteq BuSchedules /\ LinkedTo(Specific(members)) \subseteq BuClients
    BY DEF BundleInv, BundleTables, Specific, LinkedTo
  <2>2. CASE AddMember(r)
    <3>1. r.schedule \in BuSchedules /\ Specific({r.schedule} \ members) \subseteq BuSchedules
      BY <1>3, <2>2 DEF AddMember, BundleAsk, Specific
    <3>2. links' \subseteq BuSchedules \X BuClients
      BY <2>1, <2>2, <3>1 DEF AddMember, BundleTables
    <3> QED
      BY <2>1, <2>2, <3>1, <3>2 DEF AddMember, BundleTables
  <2>3. CASE AttachClients(r)
    <3>1. r.clients \subseteq BuClients
      BY <1>3, <2>3 DEF AttachClients, BundleAsk
    <3>2. links' \subseteq BuSchedules \X BuClients
      BY <2>1, <2>3, <3>1 DEF AttachClients, BundleTables
    <3> QED
      BY <2>1, <2>3, <3>2 DEF AttachClients, BundleTables
  <2>4. CASE DetachClient(r)
    BY <2>1, <2>4 DEF DetachClient, BundleTables
  <2>5. CASE RemoveMember(r) \/ DeleteBundle(r) \/ Refused(r)
    BY <2>1, <2>5 DEF RemoveMember, DeleteBundle, Refused, BundleTables, buServer
  <2> QED
    BY <2>2, <2>3, <2>4, <2>5
<1> QED
  BY <1>1, <1>2, <1>4 DEF BundleInv

\* Each step of the bundle modal.
LEMMA BundleStep == ASSUME BundleInv, [BuNext]_buVars PROVE BundleInv'
<1>1. CASE OthersChange
  BY <1>1 DEF OthersChange, BundleInv, BundleTables, BundlePage, BundleCalls, BundlePrompt, BundleAsk, buPage
<1>2. CASE UNCHANGED buVars
  BY <1>2 DEF buVars, buServer, buPage, BundleInv, BundleTables, BundlePage, BundleCalls, BundlePrompt, BundleAsk
<1> QED
  BY <1>1, <1>2, BundlePageStep, BundleAskStep, BundleServed DEF BuNext

\* The buttons that are off while a request runs, and the prompts above them, let at most one removal
\* and one attach be under way, for any schedules, clients and writes of others.
THEOREM BundleTypesHold == BuSpec => []BuTypeOK
<1>1. BuInit => BundleInv
  <2> SUFFICES ASSUME BuInit PROVE BundleInv
    OBVIOUS
  <2>1. BundleTables
    BY DEF BuInit, BundleTables
  <2>2. BundlePage
    <3>1. known.members = << >> /\ known.clients = << >> /\ picked = {}
      BY DEF BuInit, Unread
    <3> QED
      BY <3>1 DEF BundlePage
  <2>3. BundleCalls /\ BundlePrompt
    BY DEF BuInit, BundleCalls, BundlePrompt, OneAtMost, NoDialog, Removals
  <2> QED
    BY <2>1, <2>2, <2>3 DEF BundleInv
<1>2. BundleInv => BuTypeOK
  <2> SUFFICES ASSUME BundleInv PROVE BuTypeOK
    OBVIOUS
  <2>1. Cardinality({r \in requests : r.does \in {"remove", "detach", "delete"}}) <= 1
    BY AtMostOne DEF BundleInv, BundleCalls, OneAtMost, Removals
  <2>2. Cardinality({r \in requests : r.does = "attach"}) <= 1
    BY AtMostOne DEF BundleInv, BundleCalls, OneAtMost
  <2> QED
    BY <2>1, <2>2 DEF BundleInv, BundleTables, BundlePage, BuTypeOK
<1> QED
  BY <1>1, <1>2, BundleStep, PTL DEF BuSpec

-------------------------------------------------------------------------------
(* The types of the staff import                                          *)

SiFormFields == {"step", "file", "rows", "flags", "flagged", "sel", "geo", "refused", "result", "busy"}

\* The rows parsed carry suburbs of the file or the list, a flagged suburb its replacement of the list.
SheetTyped(sheet) ==
  /\ DOMAIN sheet.rows \subseteq SiRows /\ \A r \in DOMAIN sheet.rows : sheet.rows[r] \in SiSuburbs
  /\ DOMAIN sheet.flags \subseteq SiSuburbs
  /\ \A n \in DOMAIN sheet.flags : sheet.flags[n] \in SiKnown \cup {0}
  /\ sheet.refused \subseteq SiRows

\* The addresses are those of the rows, and the operator is at one of the flagged ones.
PlacesTyped(sheet) ==
  /\ sheet.geo \in Seq(SiEntry) /\ sheet.flagged \in Seq(SiEntry)
  /\ IF sheet.flagged = << >> THEN sheet.sel = 0 ELSE sheet.sel \in DOMAIN sheet.flagged

SheetFormTyped(sheet) ==
  /\ DOMAIN sheet = SiFormFields /\ sheet.file \in SiFiles \cup {0}
  /\ SheetTyped(sheet) /\ PlacesTyped(sheet)

ImportsSent == {c \in siCalls : c.what = "import"}

\* A request is about a file or rows, and every landing of a row used up one request.
StaffCallsTyped ==
  /\ IsFiniteSet(siCalls) /\ siCount \in 0 .. MaxSi
  /\ \A c \in siCalls :
       /\ DOMAIN c = {"n", "what", "file", "rows"} /\ c.n \in 0 .. siCount - 1
       /\ c.what \in {"parse", "check"} => c.file \in SiFiles
       /\ c.what = "import" => DOMAIN c.rows \subseteq SiRows
  /\ siLanded \in [SiRows -> Nat]
  /\ \A r \in SiRows : siLanded[r] + Cardinality(ImportsSent) <= siCount

StaffTyped ==
  /\ siOpen \in BOOLEAN /\ siWiz = [form |-> siWiz.form, eff |-> siWiz.eff]
  /\ SheetFormTyped(siWiz.form) /\ StaffCallsTyped

\* The empty form.
LEMMA BlankSheetTyped == SheetFormTyped(SiBlank)
  BY DEF SheetFormTyped, SiBlank, SiFormFields, SheetTyped, PlacesTyped

\* Flagging suburbs keeps a form typed.
LEMMA FlagEffectTyped ==
  ASSUME NEW sheet, SheetFormTyped(sheet), NEW eff
  PROVE  SheetFormTyped(FlagEffect(sheet, eff))
<1> DEFINE flags == UnknownSuburbs(sheet.rows, eff.suburbs)
<1>1. DOMAIN flags \subseteq SiSuburbs /\ \A n \in DOMAIN flags : flags[n] \in SiKnown \cup {0}
  BY DEF UnknownSuburbs, SheetFormTyped, SheetTyped
<1>2. FlagEffect(sheet, eff) = [sheet EXCEPT !.flags = flags] \/ FlagEffect(sheet, eff) = sheet
  BY DEF FlagEffect
<1> HIDE DEF flags
<1>3. SheetFormTyped([sheet EXCEPT !.flags = flags])
  BY <1>1 DEF SheetFormTyped, SiFormFields, SheetTyped, PlacesTyped
<1> QED
  BY <1>2, <1>3

\* A render of a typed form.
LEMMA RenderTyped ==
  ASSUME NEW up \in BOOLEAN, NEW sheet, SheetFormTyped(sheet), NEW eff, SiRender(up, sheet, eff)
  PROVE  siOpen' \in BOOLEAN /\ siWiz' = [form |-> siWiz'.form, eff |-> siWiz'.eff] /\ SheetFormTyped(siWiz'.form)
<1>1. PICK geos : siOpen' = up /\ siWiz' = [form |-> FlagEffect(sheet, geos), eff |-> geos]
  BY DEF SiRender
<1> QED
  BY <1>1, FlagEffectTyped

\* A step of the form alone.
LEMMA FormStepTyped ==
  ASSUME StaffTyped, NEW up \in BOOLEAN, NEW sheet, SheetFormTyped(sheet), NEW eff, SiRender(up, sheet, eff),
         SiNoCall
  PROVE  StaffTyped'
<1>1. siOpen' \in BOOLEAN /\ siWiz' = [form |-> siWiz'.form, eff |-> siWiz'.eff] /\ SheetFormTyped(siWiz'.form)
  BY RenderTyped
<1>2. StaffCallsTyped'
  BY DEF StaffTyped, StaffCallsTyped, SiNoCall, ImportsSent
<1> QED
  BY <1>1, <1>2 DEF StaffTyped

\* A request sent.
LEMMA SentTyped ==
  ASSUME StaffTyped, NEW what, NEW file, NEW rows, SiSend(what, file, rows),
         what \in {"parse", "check"} => file \in SiFiles, what = "import" => DOMAIN rows \subseteq SiRows
  PROVE  StaffTyped'
<1> DEFINE c == [n |-> siCount, what |-> what, file |-> file, rows |-> rows]
           sheet == [siWiz.form EXCEPT !.busy = TRUE]
<1>1. SheetFormTyped(sheet)
  BY DEF StaffTyped, SheetFormTyped, SiFormFields, SheetTyped, PlacesTyped
<1>2. siOpen' \in BOOLEAN /\ siWiz' = [form |-> siWiz'.form, eff |-> siWiz'.eff] /\ SheetFormTyped(siWiz'.form)
  <2> HIDE DEF sheet
  <2> QED
    BY <1>1, RenderTyped DEF StaffTyped, SiSend, SiDispatch, sheet
<1>3. siCount \in 0 .. MaxSi /\ siCount' = siCount + 1 /\ siCount < MaxSi /\ siCalls' = siCalls \cup {c}
      /\ siLanded' = siLanded /\ MaxSi \in Nat
  BY SiAssumption DEF StaffTyped, StaffCallsTyped, SiSend
<1>4. siCount' \in 0 .. MaxSi /\ IsFiniteSet(siCalls')
  <2>1. IsFiniteSet(siCalls)
    BY DEF StaffTyped, StaffCallsTyped
  <2> HIDE DEF c
  <2>2. IsFiniteSet(siCalls \cup {c})
    BY <2>1, FS_AddElement
  <2> QED
    BY <1>3, <2>2
<1>5. DOMAIN c = {"n", "what", "file", "rows"} /\ c.n = siCount /\ c.what = what /\ c.file = file /\ c.rows = rows
  OBVIOUS
<1> HIDE DEF c
<1>6. ASSUME NEW d \in siCalls'
      PROVE  /\ DOMAIN d = {"n", "what", "file", "rows"} /\ d.n \in 0 .. siCount' - 1
             /\ d.what \in {"parse", "check"} => d.file \in SiFiles
             /\ d.what = "import" => DOMAIN d.rows \subseteq SiRows
  <2>1. CASE d = c
    BY <1>3, <1>5, <2>1
  <2>2. CASE d \in siCalls
    BY <1>3, <2>2 DEF StaffTyped, StaffCallsTyped
  <2> QED
    BY <1>3, <1>6, <2>1, <2>2
<1>7. IsFiniteSet(ImportsSent) /\ Cardinality(ImportsSent) \in Nat
  BY FS_Subset, FS_CardinalityType DEF StaffTyped, StaffCallsTyped, ImportsSent
<1>8. Cardinality(ImportsSent') <= Cardinality(ImportsSent) + 1
  <2>1. ImportsSent' = ImportsSent \/ ImportsSent' = ImportsSent \cup {c}
    BY <1>3 DEF ImportsSent
  <2>2. Cardinality(ImportsSent \cup {c}) <= Cardinality(ImportsSent) + 1
    <3>1. Cardinality(ImportsSent \cup {c}) = IF c \in ImportsSent THEN Cardinality(ImportsSent)
                                              ELSE Cardinality(ImportsSent) + 1
      BY ONLY <1>7, FS_AddElement
    <3> QED
      BY <1>7, <3>1
  <2>3. CASE ImportsSent' = ImportsSent
    BY <1>7, <2>3
  <2>4. CASE ImportsSent' = ImportsSent \cup {c}
    BY <2>2, <2>4
  <2> QED
    BY <2>1, <2>3, <2>4
<1>9. IsFiniteSet(ImportsSent') /\ Cardinality(ImportsSent') \in Nat
  BY <1>4, FS_Subset, FS_CardinalityType DEF ImportsSent
<1>10. ASSUME NEW r \in SiRows PROVE siLanded'[r] + Cardinality(ImportsSent') <= siCount'
  <2>1. siLanded[r] \in Nat /\ siLanded[r] + Cardinality(ImportsSent) <= siCount
    BY DEF StaffTyped, StaffCallsTyped
  <2> QED
    BY <1>3, <1>7, <1>8, <1>9, <2>1
<1>11. siLanded' \in [SiRows -> Nat]
  BY <1>3 DEF StaffTyped, StaffCallsTyped
<1>12. StaffCallsTyped'
  BY <1>4, <1>6, <1>10, <1>11 DEF StaffCallsTyped
<1> QED
  BY <1>2, <1>12 DEF StaffTyped

\* A request that goes on as another, or is over, and what it landed.
LEMMA AnsweredTyped ==
  ASSUME StaffCallsTyped, NEW c \in siCalls, NEW d, UNCHANGED siCount,
         siCalls' = siCalls \ {c} \/ siCalls' = (siCalls \ {c}) \cup {d},
         DOMAIN d = {"n", "what", "file", "rows"}, d.n = c.n, d.what \notin {"parse", "import"},
         d.what = "check" => d.file \in SiFiles,
         NEW rows, siLanded' = [r \in SiRows |-> siLanded[r] + (IF r \in rows THEN 1 ELSE 0)],
         rows # {} => c.what = "import"
  PROVE  StaffCallsTyped'
<1>1. IsFiniteSet(siCalls')
  <2>1. IsFiniteSet(siCalls \ {c})
    <3>1. IsFiniteSet(siCalls)
      BY DEF StaffCallsTyped
    <3> QED
      BY ONLY <3>1, FS_RemoveElement
  <2>2. IsFiniteSet((siCalls \ {c}) \cup {d})
    BY ONLY <2>1, FS_AddElement
  <2> QED
    BY <2>1, <2>2
<1>2. ASSUME NEW e \in siCalls'
      PROVE  /\ DOMAIN e = {"n", "what", "file", "rows"} /\ e.n \in 0 .. siCount' - 1
             /\ e.what \in {"parse", "check"} => e.file \in SiFiles
             /\ e.what = "import" => DOMAIN e.rows \subseteq SiRows
  <2>1. CASE e = d
    BY <2>1 DEF StaffCallsTyped
  <2>2. CASE e \in siCalls
    BY <2>2 DEF StaffCallsTyped
  <2> QED
    BY <1>2, <2>1, <2>2
<1>3. IsFiniteSet(ImportsSent) /\ Cardinality(ImportsSent) \in Nat
  BY FS_Subset, FS_CardinalityType DEF StaffCallsTyped, ImportsSent
<1>4. ImportsSent' = ImportsSent \ {c}
  BY DEF ImportsSent
<1>5. siLanded' \in [SiRows -> Nat]
  <2>1. ASSUME NEW r \in SiRows PROVE siLanded[r] + (IF r \in rows THEN 1 ELSE 0) \in Nat
    BY DEF StaffCallsTyped
  <2> QED
    BY <2>1
<1>6. ASSUME NEW r \in SiRows PROVE siLanded'[r] + Cardinality(ImportsSent') <= siCount'
  <2>1. siLanded[r] \in Nat /\ siLanded[r] + Cardinality(ImportsSent) <= siCount /\ siCount \in Nat
    BY DEF StaffCallsTyped
  <2>2. CASE c.what = "import"
    <3>1. Cardinality(ImportsSent') = Cardinality(ImportsSent) - 1
      <4>1. c \in ImportsSent
        BY <2>2 DEF ImportsSent
      <4>2. Cardinality(ImportsSent \ {c}) = IF c \in ImportsSent THEN Cardinality(ImportsSent) - 1
                                             ELSE Cardinality(ImportsSent)
        BY ONLY <1>3, FS_RemoveElement
      <4> QED
        BY <1>4, <4>1, <4>2
    <3>2. siLanded'[r] <= siLanded[r] + 1 /\ siLanded'[r] \in Nat
      BY <1>5, <2>1
    <3> QED
      BY <1>3, <2>1, <3>1, <3>2
  <2>3. CASE c.what # "import"
    <3>1. ImportsSent' = ImportsSent
      BY <1>4, <2>3 DEF ImportsSent
    <3>2. siLanded'[r] = siLanded[r]
      BY <2>1, <2>3
    <3> QED
      BY <2>1, <3>1, <3>2
  <2> QED
    BY <2>2, <2>3
<1> QED
  BY <1>1, <1>2, <1>5, <1>6 DEF StaffCallsTyped

\* A request answered, with the form it leaves.
LEMMA AnswerTyped ==
  ASSUME StaffTyped, NEW c \in siCalls, NEW d, UNCHANGED siCount,
         siCalls' = siCalls \ {c} \/ siCalls' = (siCalls \ {c}) \cup {d},
         DOMAIN d = {"n", "what", "file", "rows"}, d.n = c.n, d.what \notin {"parse", "import"},
         d.what = "check" => d.file \in SiFiles,
         UNCHANGED siLanded, NEW sheet, SheetFormTyped(sheet), SiDispatch(sheet)
  PROVE  StaffTyped'
<1>1. siLanded' = [r \in SiRows |-> siLanded[r] + (IF r \in {} THEN 1 ELSE 0)]
  BY DEF StaffTyped, StaffCallsTyped
<1>2. StaffCallsTyped
  BY DEF StaffTyped
<1>3. PICK rows : rows = {}
  OBVIOUS
<1>4. siLanded' = [r \in SiRows |-> siLanded[r] + (IF r \in rows THEN 1 ELSE 0)] /\ (rows # {} => c.what = "import")
  BY <1>1, <1>3
<1>5. StaffCallsTyped'
  BY <1>2, <1>4, AnsweredTyped
<1> QED
  BY <1>5, RenderTyped DEF StaffTyped, SiDispatch

\* The addresses to geocode are addresses of the rows.
LEMMA AskedTyped ==
  ASSUME NEW rows, DOMAIN rows \subseteq SiRows, \A r \in DOMAIN rows : rows[r] \in SiSuburbs
  PROVE  ToGeocode(rows) \in Seq(SiEntry)
<1> DEFINE entry(r) == <<SiAddressOf[r], rows[r]>>
           firsts == {r \in DOMAIN rows : \A q \in DOMAIN rows : entry(q) = entry(r) => r <= q}
           k == Cardinality(firsts)
<1>1. firsts \in SUBSET Nat /\ IsFiniteSet(firsts) /\ firsts \subseteq DOMAIN rows
  BY SiAssumption, FS_Subset
<1>2. \A r \in DOMAIN rows : [place |-> entry(r), coords |-> 0] \in SiEntry
  BY DEF SiEntry, SiCoords
<1>3. ToGeocode(rows) = [n \in 1 .. k |-> [place |-> entry(SiNth(firsts, n)), coords |-> 0]]
  BY DEF ToGeocode
<1> HIDE DEF firsts
<1>4. ASSUME NEW n \in 1 .. k PROVE SiNth(firsts, n) \in DOMAIN rows
  BY <1>1, NthPlace DEF SiNth
<1>5. k \in Nat
  BY <1>1, FS_CardinalityType
<1> HIDE DEF entry, k
<1>6. ASSUME NEW n \in 1 .. k PROVE [place |-> entry(SiNth(firsts, n)), coords |-> 0] \in SiEntry
  BY <1>2, <1>4
<1>7. ToGeocode(rows) \in [1 .. k -> SiEntry]
  BY <1>3, <1>6
<1> QED
  BY <1>5, <1>7

\* Those without an answer are some of those asked.
LEMMA LackingTyped ==
  ASSUME NEW asked \in Seq(SiEntry), NEW found
  PROVE  /\ Lacking(asked, found) \in Seq(SiEntry)
         /\ Lacking(asked, found) # << >> => 1 \in DOMAIN Lacking(asked, found)
<1> DEFINE lost == DOMAIN asked \ found
           k == Cardinality(lost)
<1>1. PICK m \in Nat : DOMAIN asked = 1 .. m /\ asked \in [1 .. m -> SiEntry]
  OBVIOUS
<1>2. lost \in SUBSET Nat /\ IsFiniteSet(lost) /\ lost \subseteq 1 .. m
  BY <1>1, FS_Interval, FS_Subset
<1>3. Lacking(asked, found) = [n \in 1 .. k |-> asked[SiNth(lost, n)]]
  BY DEF Lacking
<1> HIDE DEF lost
<1>4. ASSUME NEW n \in 1 .. k PROVE SiNth(lost, n) \in 1 .. m
  BY <1>2, NthPlace DEF SiNth
<1>5. k \in Nat
  BY <1>2, FS_CardinalityType
<1> HIDE DEF k
<1>6. Lacking(asked, found) \in [1 .. k -> SiEntry]
  BY <1>1, <1>3, <1>4
<1>7. Lacking(asked, found) \in Seq(SiEntry)
  BY <1>5, <1>6
<1>8. ASSUME k = 0 PROVE Lacking(asked, found) = << >>
  BY <1>6, <1>8
<1>9. k # 0 => 1 \in 1 .. k
  BY <1>5
<1> QED
  BY <1>6, <1>7, <1>8, <1>9

\* The wizard keeps its state typed.
LEMMA StaffStep == ASSUME StaffTyped, [SiNext]_siVars PROVE StaffTyped'
<1> DEFINE w == siWiz.form
<1>1. /\ siOpen \in BOOLEAN /\ DOMAIN w = SiFormFields /\ w.file \in SiFiles \cup {0}
      /\ SheetTyped(w) /\ PlacesTyped(w) /\ StaffCallsTyped
  BY DEF StaffTyped, SheetFormTyped
<1>2. CASE UNCHANGED siVars
  BY <1>2 DEF siVars, StaffTyped, StaffCallsTyped, ImportsSent
<1>3. CASE OpenStaffImport
  BY <1>3, FormStepTyped DEF OpenStaffImport, StaffTyped
<1>4. CASE CloseStaffImport
  BY <1>4, FormStepTyped, BlankSheetTyped DEF CloseStaffImport
<1>5. ASSUME NEW f \in SiFiles, PickFile(f) PROVE StaffTyped'
  <2>1. SheetFormTyped([w EXCEPT !.file = f])
    BY <1>1 DEF SheetFormTyped, SiFormFields, SheetTyped, PlacesTyped
  <2> QED
    BY <1>1, <1>5, <2>1, FormStepTyped DEF PickFile, SiDispatch
<1>6. CASE Parse
  <2>1. w.file \in SiFiles
    BY <1>1, <1>6 DEF Parse
  <2> QED
    BY <1>6, <2>1, SentTyped DEF Parse
<1>7. ASSUME NEW step, SiDispatch([w EXCEPT !.step = step]), SiNoCall PROVE StaffTyped'
  <2>1. SheetFormTyped([w EXCEPT !.step = step])
    BY <1>1 DEF SheetFormTyped, SiFormFields, SheetTyped, PlacesTyped
  <2> QED
    BY <1>1, <1>7, <2>1, FormStepTyped DEF SiDispatch
<1>8. CASE StepBack \/ LeavePreview \/ LeaveAddresses
  BY <1>7, <1>8 DEF StepBack, LeavePreview, LeaveAddresses
<1>9. ASSUME NEW c \in siCalls, Parsed(c) PROVE StaffTyped'
  <2> DEFINE d == [c EXCEPT !.what = "check"]
  <2>1. c.what = "parse" /\ c.file \in SiFiles /\ DOMAIN c = {"n", "what", "file", "rows"}
    BY <1>1, <1>9 DEF Parsed, StaffCallsTyped
  <2>2. DOMAIN d = {"n", "what", "file", "rows"} /\ d.n = c.n /\ d.what = "check" /\ d.file = c.file
    BY <2>1
  <2>3. SheetFormTyped([w EXCEPT !.busy = FALSE])
    BY <1>1 DEF SheetFormTyped, SiFormFields, SheetTyped, PlacesTyped
  <2>4. SheetFormTyped([w EXCEPT !.rows = [r \in SiRowsOf[c.file] |-> SiSuburbOf[r]]])
    <3>1. SiRowsOf[c.file] \subseteq SiRows /\ \A r \in SiRows : SiSuburbOf[r] \in SiSuburbs
      BY <2>1, SiAssumption DEF SiSuburbs
    <3> QED
      BY <1>1, <3>1 DEF SheetFormTyped, SiFormFields, SheetTyped, PlacesTyped
  <2>5. siCount' = siCount /\ siLanded' = siLanded
    BY <1>9 DEF Parsed
  <2>6. CASE siCalls' = siCalls \ {c} /\ SiDispatch([w EXCEPT !.busy = FALSE])
    BY <2>1, <2>2, <2>3, <2>5, <2>6, AnswerTyped
  <2>7. CASE siCalls' = (siCalls \ {c}) \cup {d} /\ SiDispatch([w EXCEPT !.rows = [r \in SiRowsOf[c.file] |-> SiSuburbOf[r]]])
    BY <2>1, <2>2, <2>4, <2>5, <2>7, AnswerTyped
  <2> QED
    BY <1>9, <2>6, <2>7 DEF Parsed
<1>10. ASSUME NEW c \in siCalls, ReferencesChecked(c) PROVE StaffTyped'
  <2>1. c.what = "check" /\ c.file \in SiFiles /\ DOMAIN c = {"n", "what", "file", "rows"}
    BY <1>1, <1>10 DEF ReferencesChecked, StaffCallsTyped
  <2>2. PICK refused \in SUBSET SiRowsOf[c.file] :
          SiDispatch([w EXCEPT !.refused = refused, !.step = "preview", !.busy = FALSE])
    BY <1>10 DEF ReferencesChecked
  <2>3. refused \subseteq SiRows
    BY <2>1, SiAssumption
  <2>4. SheetFormTyped([w EXCEPT !.refused = refused, !.step = "preview", !.busy = FALSE])
    BY <1>1, <2>3 DEF SheetFormTyped, SiFormFields, SheetTyped, PlacesTyped
  <2>5. siCalls' = siCalls \ {c} /\ siCount' = siCount /\ siLanded' = siLanded
    BY <1>10 DEF ReferencesChecked
  <2> QED
    BY <2>1, <2>2, <2>4, <2>5, AnswerTyped
<1>11. CASE SuburbsAnswered
  <2>1. SheetFormTyped(w)
    BY <1>1 DEF SheetFormTyped
  <2> QED
    BY <1>1, <1>11, <2>1, FormStepTyped DEF SuburbsAnswered
<1>12. ASSUME NEW n \in SiSuburbs, NEW k \in SiKnown, PickSuburb(n, k) PROVE StaffTyped'
  <2>1. SheetFormTyped([w EXCEPT !.flags[n] = k])
    <3>1. PICK flags : flags = [w.flags EXCEPT ![n] = k]
      OBVIOUS
    <3>2. DOMAIN flags \subseteq SiSuburbs /\ \A m \in DOMAIN flags : flags[m] \in SiKnown \cup {0}
      BY <1>1, <3>1 DEF SheetTyped
    <3>3. [w EXCEPT !.flags[n] = k] = [w EXCEPT !.flags = flags]
      BY <3>1
    <3>4. SheetFormTyped([w EXCEPT !.flags = flags])
      BY <1>1, <3>2 DEF SheetFormTyped, SiFormFields, SheetTyped, PlacesTyped
    <3> QED
      BY <3>3, <3>4
  <2> QED
    BY <1>1, <1>12, <2>1, FormStepTyped DEF PickSuburb, SiDispatch
<1>13. CASE LeaveSuburbs
  <2> DEFINE fixed == [r \in DOMAIN w.rows |->
                         IF w.rows[r] \in DOMAIN w.flags THEN w.flags[w.rows[r]] ELSE w.rows[r]]
  <2>1. DOMAIN fixed \subseteq SiRows /\ \A r \in DOMAIN fixed : fixed[r] \in SiSuburbs
    BY <1>1, <1>13 DEF LeaveSuburbs, SheetTyped, SiSuburbs
  <2>2. SiDispatch([w EXCEPT !.rows = fixed, !.step = "fixAddresses"]) /\ SiNoCall
    BY <1>13 DEF LeaveSuburbs
  <2> HIDE DEF fixed
  <2>3. SheetFormTyped([w EXCEPT !.rows = fixed, !.step = "fixAddresses"])
    BY <1>1, <2>1 DEF SheetFormTyped, SiFormFields, SheetTyped, PlacesTyped
  <2> QED
    BY <1>1, <2>2, <2>3, FormStepTyped DEF SiDispatch
<1>14. CASE Geocoded
  <2>1. SiNoCall
    BY <1>14 DEF Geocoded
  <2>2. ASSUME NEW eff, SiRender(siOpen, w, eff) PROVE StaffTyped'
    <3>1. SheetFormTyped(w)
      BY <1>1 DEF SheetFormTyped
    <3> QED
      BY <1>1, <2>1, <2>2, <3>1, FormStepTyped
  <2> DEFINE asked == ToGeocode(w.rows)
             answers(found) == [i \in DOMAIN asked |-> [asked[i] EXCEPT !.coords = IF i \in found THEN 1 ELSE 0]]
             placed(found) == [w EXCEPT !.geo = answers(found), !.flagged = Lacking(asked, found),
                                 !.sel = IF Lacking(asked, found) = << >> THEN 0 ELSE 1]
  <2>3. asked \in Seq(SiEntry)
    BY <1>1, AskedTyped DEF SheetTyped
  <2>4. ASSUME NEW found, NEW eff, SiRender(siOpen, placed(found), eff) PROVE StaffTyped'
    <3>1. answers(found) \in Seq(SiEntry)
      <4>1. PICK m \in Nat : DOMAIN asked = 1 .. m /\ asked \in [1 .. m -> SiEntry]
        BY <2>3
      <4> HIDE DEF asked
      <4>2. ASSUME NEW i \in 1 .. m PROVE [asked[i] EXCEPT !.coords = IF i \in found THEN 1 ELSE 0] \in SiEntry
        <5>1. asked[i] \in SiEntry
          BY <4>1
        <5>2. 0 \in SiCoords /\ 1 \in SiCoords
          BY DEF SiCoords
        <5> QED
          BY <5>1, <5>2 DEF SiEntry
      <4>3. answers(found) \in [1 .. m -> SiEntry]
        BY <4>1, <4>2
      <4> QED
        BY <4>3
    <3>2. PICK flagged : flagged = Lacking(asked, found)
      OBVIOUS
    <3>3. flagged \in Seq(SiEntry) /\ (flagged # << >> => 1 \in DOMAIN flagged)
      BY <2>3, <3>2, LackingTyped
    <3>4. PICK places : places = answers(found)
      OBVIOUS
    <3>5. placed(found) = [w EXCEPT !.geo = places, !.flagged = flagged, !.sel = IF flagged = << >> THEN 0 ELSE 1]
      BY <3>2, <3>4
    <3> HIDE DEF placed, answers, asked
    <3>6. SheetFormTyped([w EXCEPT !.geo = places, !.flagged = flagged, !.sel = IF flagged = << >> THEN 0 ELSE 1])
      BY <1>1, <3>1, <3>3, <3>4 DEF SheetFormTyped, SiFormFields, SheetTyped, PlacesTyped
    <3> QED
      BY <1>1, <2>1, <2>4, <3>5, <3>6, FormStepTyped
  <2>5. \E eff : SiRender(siOpen, w, eff) \/ \E found : SiRender(siOpen, placed(found), eff)
    BY <1>14 DEF Geocoded
  <2> HIDE DEF placed
  <2> QED
    BY <2>2, <2>4, <2>5
<1>15. ASSUME NEW i \in DOMAIN w.flagged, SelectFlagged(i) PROVE StaffTyped'
  <2>1. w.flagged # << >>
    OBVIOUS
  <2>2. SheetFormTyped([w EXCEPT !.sel = i])
    BY <1>1, <2>1 DEF SheetFormTyped, SiFormFields, SheetTyped, PlacesTyped
  <2> QED
    BY <1>1, <1>15, <2>2, FormStepTyped DEF SelectFlagged, SiDispatch
<1>16. CASE PlaceAddress
  <2>1. PICK s : s = w.sel
    OBVIOUS
  <2>2. PICK placed : placed = [w.flagged[s] EXCEPT !.coords = 2]
    OBVIOUS
  <2>3. s \in DOMAIN w.flagged /\ w.flagged \in Seq(SiEntry) /\ w.geo \in Seq(SiEntry) /\ w.flagged # << >>
    BY <1>1, <1>16, <2>1 DEF PlaceAddress, PlacesTyped
  <2>4. placed \in SiEntry
    <3>1. w.flagged[s] \in SiEntry
      BY <2>3
    <3> QED
      BY <2>2, <3>1 DEF SiEntry, SiCoords
  <2>5. PICK flagged : flagged = [w.flagged EXCEPT ![s] = placed]
    OBVIOUS
  <2>6. flagged \in Seq(SiEntry) /\ DOMAIN flagged = DOMAIN w.flagged /\ flagged # << >>
    <3>1. PICK m \in Nat : DOMAIN w.flagged = 1 .. m /\ w.flagged \in [1 .. m -> SiEntry]
      BY <2>3
    <3>2. flagged \in [1 .. m -> SiEntry]
      BY <2>3, <2>4, <2>5, <3>1
    <3>3. s \in DOMAIN flagged
      BY <2>3, <3>1, <3>2
    <3> QED
      BY <3>1, <3>2, <3>3
  <2>7. PICK places : places = Append(w.geo, placed)
    OBVIOUS
  <2>10. places \in Seq(SiEntry)
    BY <2>3, <2>4, <2>7
  <2>8. SiDispatch([w EXCEPT !.flagged = flagged, !.geo = places]) /\ SiNoCall
    BY <1>16, <2>1, <2>2, <2>5, <2>7 DEF PlaceAddress
  <2>9. SheetFormTyped([w EXCEPT !.flagged = flagged, !.geo = places])
    BY <1>1, <2>1, <2>3, <2>6, <2>10 DEF SheetFormTyped, SiFormFields, SheetTyped, PlacesTyped
  <2> QED
    BY <1>1, <2>8, <2>9, FormStepTyped DEF SiDispatch
<1>17. CASE FireImport
  <2> DEFINE rows == [r \in DOMAIN w.rows |-> [suburb |-> w.rows[r], coords |-> Stamped(r)]]
  <2>1. SiSend("import", 0, rows) /\ DOMAIN rows \subseteq SiRows
    BY <1>1, <1>17 DEF FireImport, SheetTyped
  <2> HIDE DEF rows
  <2> QED
    BY <2>1, SentTyped
<1>18. ASSUME NEW c \in siCalls, ServeImport(c) PROVE StaffTyped'
  <2>1. PICK rows \in SUBSET DOMAIN c.rows, reply \in {"rows", "lost"} :
          /\ siLanded' = [r \in SiRows |-> siLanded[r] + (IF r \in rows THEN 1 ELSE 0)]
          /\ siCalls' = (siCalls \ {c}) \cup {[c EXCEPT !.what = reply]}
    BY <1>18 DEF ServeImport
  <2>2. PICK d : d = [c EXCEPT !.what = reply]
    OBVIOUS
  <2>3. DOMAIN d = {"n", "what", "file", "rows"} /\ d.n = c.n /\ d.what = reply
    BY <1>1, <2>2 DEF StaffCallsTyped
  <2>4. UNCHANGED <<siOpen, siWiz, siCount>> /\ c.what = "import"
    BY <1>18 DEF ServeImport
  <2>5. StaffCallsTyped'
    BY <1>1, <2>1, <2>2, <2>3, <2>4, AnsweredTyped
  <2> QED
    BY <2>4, <2>5 DEF StaffTyped
<1>19. ASSUME NEW c \in siCalls, ImportAnswered(c) PROVE StaffTyped'
  <2>1. DOMAIN c = {"n", "what", "file", "rows"} /\ c.what \in {"rows", "lost"}
    BY <1>1, <1>19 DEF ImportAnswered, StaffCallsTyped
  <2>2. /\ SheetFormTyped([w EXCEPT !.busy = FALSE])
        /\ SheetFormTyped([w EXCEPT !.result = TRUE, !.step = "result", !.busy = FALSE])
    BY <1>1 DEF SheetFormTyped, SiFormFields, SheetTyped, PlacesTyped
  <2>3. PICK sheet : SheetFormTyped(sheet) /\ SiDispatch(sheet)
    BY <1>19, <2>2 DEF ImportAnswered
  <2>4. siCalls' = siCalls \ {c} /\ siCount' = siCount /\ siLanded' = siLanded
    BY <1>19 DEF ImportAnswered
  <2> QED
    BY <2>1, <2>3, <2>4, AnswerTyped
<1> QED
  BY <1>2, <1>3, <1>4, <1>5, <1>6, <1>8, <1>9, <1>10, <1>11, <1>12, <1>13, <1>14, <1>15, <1>16, <1>17, <1>18,
     <1>19 DEF SiNext

\* Whatever the replies and the effects do, the wizard's form keeps its shape, and a row is in the
\* job table at most as often as requests were sent.
THEOREM StaffTypesHold == SiSpec => []SiTypeOK
<1>1. SiInit => StaffTyped
  <2> SUFFICES ASSUME SiInit PROVE StaffTyped
    OBVIOUS
  <2>1. ImportsSent = {} /\ siCalls = {}
    BY DEF SiInit, ImportsSent
  <2>2. IsFiniteSet(siCalls) /\ Cardinality(ImportsSent) = 0
    BY <2>1, FS_EmptySet
  <2>3. siLanded \in [SiRows -> Nat] /\ \A r \in SiRows : siLanded[r] + Cardinality(ImportsSent) <= siCount
    BY <2>2 DEF SiInit
  <2>4. siCount \in 0 .. MaxSi
    <3>1. siCount = 0 /\ MaxSi \in Nat
      BY SiAssumption DEF SiInit
    <3> QED
      BY <3>1
  <2>6. siOpen \in BOOLEAN
    BY DEF SiInit
  <2>5. siWiz = [form |-> siWiz.form, eff |-> siWiz.eff] /\ SheetFormTyped(siWiz.form)
    BY BlankSheetTyped DEF SiInit
  <2> QED
    BY <2>1, <2>2, <2>3, <2>4, <2>5, <2>6 DEF StaffTyped, StaffCallsTyped
<1>2. StaffTyped /\ [SiNext]_siVars => StaffTyped'
  BY StaffStep
<1>3. StaffTyped => SiTypeOK
  <2> SUFFICES ASSUME StaffTyped PROVE SiTypeOK
    OBVIOUS
  <2>1. siLanded \in [SiRows -> 0 .. MaxSi]
    <3>1. IsFiniteSet(ImportsSent) /\ Cardinality(ImportsSent) \in Nat
      BY FS_Subset, FS_CardinalityType DEF StaffTyped, StaffCallsTyped, ImportsSent
    <3>2. \A r \in SiRows : siLanded[r] \in 0 .. MaxSi
      BY <3>1, SiAssumption DEF StaffTyped, StaffCallsTyped
    <3> QED
      BY <3>2 DEF StaffTyped, StaffCallsTyped
  <2> QED
    BY <2>1 DEF StaffTyped, SheetFormTyped, SheetTyped, PlacesTyped, SiTypeOK
<1> QED
  BY <1>1, <1>2, <1>3, PTL DEF SiSpec

-------------------------------------------------------------------------------
(* The types of the shifts page                                           *)

ShPlaceNames == {ShPlaceOf[i] : i \in DOMAIN ShPlaceOf}

TableTyped(t) == t \in ShTables /\ t.notified \subseteq t.rows

FeedsTyped == shFeeds = [k \in FeedKeys |-> shFeeds[k]] /\ \A k \in FeedKeys : shFeeds[k] \in ShTables

\* An answer and a place on a slot are a courier's, what is deleted under Slots is a slot.
ShiftDialogTyped(dialog) ==
  /\ dialog.what = "assign" => dialog.id \in ShSchedules
  /\ dialog.what = "deleteSlot" => dialog.id \in ShSlots

ShiftCallTyped(c) ==
  /\ c.phase \in {"sent", "done", "refused"} /\ c.ids \subseteq ShSchedules
  /\ c.what \in {"status", "assign"} => c.id \in ShSchedules
  /\ c.what = "status" => c.value \in {1, 3}
  /\ c.what = "assign" => c.value \in ShSlots \cup {0}
  /\ c.what = "deleteSlot" => c.id \in ShSlots

ShiftTyped ==
  /\ ShiftInv /\ TableTyped(shTable) /\ FeedsTyped /\ shLook.place \in ShPlaceNames \cup {0}
  /\ ShiftDialogTyped(shOpen) /\ \A c \in shCalls : ShiftCallTyped(c)

\* The locations listed are locations there are.
LEMMA PlacesShown == ShPlaces \subseteq ShPlaceNames
  BY ShAssumption DEF ShPlaces, ShPlaceNames

\* The operator looks at another date, location, tab or schedule, or opens the slot form.
LEMMA LookedTyped ==
  ASSUME ShiftTyped, ShiftInv',
         \/ \E d \in ShDates : ChooseDate(d)
         \/ \E l \in ShPlaces : ChooseLocation(l)
         \/ \E a \in {0, 1, 3} : ChooseTab(a)
         \/ \E s \in ShSchedules : ChooseSchedule(s)
         \/ OpenAddTimeSlot
  PROVE  ShiftTyped'
<1>1. PICK look \in ShiftLookRecord : look = shLook
  BY DEF ShiftTyped, ShiftInv
<1>2. UNCHANGED <<shTable, shFeeds, shOpen, shCalls>>
  BY DEF ChooseDate, ChooseLocation, ChooseTab, ChooseSchedule, OpenAddTimeSlot, ShLookAt
<1>3. shLook'.place \in ShPlaceNames \cup {0}
  <2>1. ASSUME NEW d, ChooseDate(d) PROVE shLook'.place \in ShPlaceNames \cup {0}
    BY <1>1, <2>1 DEF ChooseDate, ShLookAt, OnDate, ShiftLookRecord
  <2>2. ASSUME NEW l \in ShPlaces, ChooseLocation(l) PROVE shLook'.place \in ShPlaceNames \cup {0}
    BY <1>1, <2>2, PlacesShown DEF ChooseLocation, ShLookAt, ShiftLookRecord
  <2>3. ASSUME NEW a, ChooseTab(a) PROVE shLook'.place \in ShPlaceNames \cup {0}
    BY <1>1, <2>3 DEF ShiftTyped, ChooseTab, ShLookAt, ShiftLookRecord
  <2>4. ASSUME NEW s, ChooseSchedule(s) PROVE shLook'.place \in ShPlaceNames \cup {0}
    BY <1>1, <2>4 DEF ShiftTyped, ChooseSchedule, ShLookAt, ShiftLookRecord
  <2>5. ASSUME OpenAddTimeSlot PROVE shLook'.place \in ShPlaceNames \cup {0}
    BY <1>1, <2>5 DEF ShiftTyped, OpenAddTimeSlot, ShLookAt, ShiftLookRecord
  <2> QED
    BY <2>1, <2>2, <2>3, <2>4, <2>5
<1> QED
  BY <1>2, <1>3 DEF ShiftTyped, TableTyped, FeedsTyped, ShiftDialogTyped, ShiftCallTyped

\* A dialog opens or closes, or a schedule is ticked in it.
LEMMA DialogsTyped ==
  ASSUME ShiftTyped, ShiftInv', UNCHANGED <<shTable, shFeeds>>, ShiftDialogTyped(shOpen'),
         shLook'.place = shLook.place,
         \A c \in shCalls' : ShiftCallTyped(c)
  PROVE  ShiftTyped'
  BY DEF ShiftTyped, TableTyped, FeedsTyped, ShiftDialogTyped, ShiftCallTyped

\* A dialog opens about what the page lists.
LEMMA OpenedTyped ==
  ASSUME ShiftTyped, ShiftInv',
         \/ OpenBulkNotify \/ OpenAssign
         \/ \E what \in {"create", "copy"} : OpenCreateOrCopy(what)
         \/ \E s \in ShSchedules, what \in {"delete", "remind"} : AskCard(what, s)
         \/ \E t \in ShSlots, what \in {"deleteSlot", "editSlot"} : AskSlot(what, t)
         \/ \E s \in ShSchedules : TogglePicked(s)
  PROVE  ShiftTyped'
<1>1. UNCHANGED <<shTable, shFeeds, shLook, shCalls>>
  BY DEF OpenBulkNotify, OpenAssign, OpenCreateOrCopy, AskCard, AskSlot, TogglePicked, ShOpenDialog
<1>2. ASSUME NEW what, NEW id, NEW ids, ShOpenDialog(what, id, ids),
             what = "assign" => id \in ShSchedules, what = "deleteSlot" => id \in ShSlots
      PROVE  ShiftDialogTyped(shOpen')
  BY <1>2 DEF ShOpenDialog, ShiftDialogTyped
<1>3. ASSUME OpenBulkNotify PROVE ShiftDialogTyped(shOpen')
  BY <1>2, <1>3 DEF OpenBulkNotify
<1>4. ASSUME OpenAssign PROVE ShiftDialogTyped(shOpen')
  BY <1>2, <1>4 DEF OpenAssign, RowListed, HasRow, ShiftTyped, ShiftInv, ShiftLookRecord
<1>5. ASSUME NEW what, OpenCreateOrCopy(what) PROVE ShiftDialogTyped(shOpen')
  BY <1>2, <1>5 DEF OpenCreateOrCopy
<1>6. ASSUME NEW s, NEW what \in {"delete", "remind"}, AskCard(what, s) PROVE ShiftDialogTyped(shOpen')
  BY <1>2, <1>6 DEF AskCard
<1>7. ASSUME NEW t, NEW what \in {"deleteSlot", "editSlot"}, AskSlot(what, t) PROVE ShiftDialogTyped(shOpen')
  BY <1>2, <1>7 DEF AskSlot
<1>8. ASSUME NEW s, TogglePicked(s) PROVE ShiftDialogTyped(shOpen')
  <2>1. shOpen \in ShiftDialogRecord
    BY DEF ShiftTyped, ShiftInv
  <2> QED
    BY <1>8, <2>1 DEF TogglePicked, ShiftDialogTyped, ShiftDialogRecord
<1>9. ShiftDialogTyped(shOpen')
  BY <1>3, <1>4, <1>5, <1>6, <1>7, <1>8
<1> QED
  BY <1>1, <1>9, DialogsTyped DEF ShiftTyped

\* A request is sent.
LEMMA AskTyped ==
  ASSUME ShiftTyped, ShiftInv', NEW what, NEW id, NEW ids \in SUBSET ShSchedules, NEW value,
         ShAsk(what, id, ids, value), shOpen' \in {shOpen, ShClosed},
         what \in {"status", "assign"} => id \in ShSchedules,
         what = "status" => value \in {1, 3},
         what = "assign" => value \in ShSlots \cup {0},
         what = "deleteSlot" => id \in ShSlots
  PROVE  ShiftTyped'
<1> DEFINE new == [n |-> shCount, what |-> what, id |-> id, ids |-> ids, value |-> value,
                   day |-> shLook.day, from |-> shLook.sel, mounted |-> TRUE, phase |-> "sent"]
<1>1. ShiftCallTyped(new)
  BY DEF ShiftCallTyped
<1>2. shCalls' = shCalls \cup {new} /\ UNCHANGED <<shTable, shFeeds, shLook>>
  BY DEF ShAsk
<1>3. ShiftDialogTyped(shOpen')
  BY DEF ShiftTyped, ShiftDialogTyped, ShClosed
<1> HIDE DEF new
<1> QED
  BY <1>1, <1>2, <1>3, DialogsTyped DEF ShiftTyped

\* Each kind of request.
LEMMA AskedTypes ==
  ASSUME ShiftTyped, ShiftInv',
         \/ \E s \in ShSchedules : NotifyCard(s)
         \/ \E a \in {0, 1, 3} : ToggleAvailability(a)
         \/ \E t \in ShSlots \cup {0} : SubmitAssign(t)
         \/ ShConfirm \/ SendPicked \/ SubmitDialog \/ SubmitTimeSlot
  PROVE  ShiftTyped'
<1>1. shOpen \in ShiftDialogRecord /\ shLook \in ShiftLookRecord /\ ShiftDialogTyped(shOpen)
  BY DEF ShiftTyped, ShiftInv
<1>2. ASSUME NEW s \in ShSchedules, NotifyCard(s) PROVE ShiftTyped'
  BY <1>2, AskTyped DEF NotifyCard
<1>3. ASSUME NEW a \in {0, 1, 3}, ToggleAvailability(a) PROVE ShiftTyped'
  <2>1. shLook.sel \in ShSchedules /\ a \in {1, 3} /\ ShAsk("status", shLook.sel, {}, a) /\ shOpen' = shOpen
    BY <1>1, <1>3 DEF ToggleAvailability, RowListed, HasRow, ShiftLookRecord
  <2> QED
    BY <2>1, AskTyped
<1>4. ASSUME NEW t \in ShSlots \cup {0}, SubmitAssign(t) PROVE ShiftTyped'
  <2>1. shOpen.id \in ShSchedules /\ ShAsk("assign", shOpen.id, {}, t) /\ shOpen' = shOpen
    BY <1>1, <1>4 DEF SubmitAssign, ShiftDialogTyped
  <2> QED
    BY <2>1, AskTyped
<1>5. CASE ShConfirm
  <2>1. ShAsk(shOpen.what, shOpen.id, {}, 0) /\ shOpen' = ShClosed /\ shOpen.what \in {"delete", "remind", "deleteSlot"}
    BY <1>5 DEF ShConfirm
  <2> QED
    BY <1>1, <2>1, AskTyped DEF ShiftDialogTyped
<1>6. CASE SendPicked
  <2>1. ShAsk("picker", 0, shOpen.ids, 0) /\ shOpen' = shOpen /\ shOpen.ids \in SUBSET ShSchedules
    BY <1>1, <1>6 DEF SendPicked, ShiftDialogRecord
  <2> QED
    BY <2>1, AskTyped
<1>7. CASE SubmitDialog
  <2>1. ShAsk(shOpen.what, shOpen.id, {}, 0) /\ shOpen' = shOpen /\ shOpen.what \in {"create", "copy", "editSlot"}
    BY <1>7 DEF SubmitDialog
  <2> QED
    BY <2>1, AskTyped
<1>8. CASE SubmitTimeSlot
  BY <1>8, AskTyped DEF SubmitTimeSlot
<1> QED
  BY <1>2, <1>3, <1>4, <1>5, <1>6, <1>7, <1>8

\* A dialog that is gone takes no reply.
LEMMA UnmountTyped == ASSUME ShiftTyped, NEW what PROVE \A x \in Unmount(what) : ShiftCallTyped(x)
<1> SUFFICES ASSUME NEW c \in shCalls, NEW b, NEW x, x = [c EXCEPT !.mounted = b] PROVE ShiftCallTyped(x)
  BY DEF Unmount
<1>1. ShiftCallTyped(c) /\ DOMAIN c = ShiftCallFields
  BY DEF ShiftTyped, ShiftInv, CallOfDate
<1>2. x.phase = c.phase /\ x.ids = c.ids /\ x.what = c.what /\ x.id = c.id /\ x.value = c.value
  BY <1>1 DEF ShiftCallFields
<1> QED
  BY <1>1, <1>2 DEF ShiftCallTyped

\* What a request leaves in the tables.
LEMMA DoneTable ==
  ASSUME TableTyped(shTable), NEW c, ShiftCallTyped(c), NEW t \in ShDone(c) PROVE TableTyped(t)
<1>1. PICK old \in ShTables : old = shTable /\ old.notified \subseteq old.rows
  BY DEF TableTyped
<1>2. /\ old.rows \subseteq DOMAIN ShDayOf /\ old.notified \subseteq ShSchedules
      /\ old.answer \in [ShSchedules -> {0, 1, 3}] /\ old.place \in [ShSchedules -> ShSlots \cup {0}]
  BY <1>1 DEF ShTables
<1>3. ASSUME NEW notified \in SUBSET (old.rows \cap ShSchedules) PROVE TableTyped([old EXCEPT !.notified = notified])
  BY <1>1, <1>3 DEF TableTyped, ShTables
<1>4. ASSUME NEW rows \in SUBSET DOMAIN ShDayOf, old.notified \subseteq rows PROVE TableTyped([old EXCEPT !.rows = rows])
  BY <1>1, <1>4 DEF TableTyped, ShTables
<1>5. CASE c.what \in {"notify", "picker"}
  <2>1. t = [old EXCEPT !.notified = old.notified \cup (c.ids \cap old.rows)]
    BY <1>1, <1>5 DEF ShDone
  <2>2. old.notified \cup (c.ids \cap old.rows) \in SUBSET (old.rows \cap ShSchedules)
    BY <1>1, <1>2 DEF ShiftCallTyped
  <2> QED
    BY <1>3, <2>1, <2>2
<1>6. CASE c.what = "delete"
  <2>1. t = [old EXCEPT !.rows = old.rows \ {c.id}] /\ c.id \notin old.notified
    BY <1>1, <1>6 DEF ShDone
  <2> QED
    BY <1>1, <1>2, <1>4, <2>1
<1>7. CASE c.what = "deleteSlot"
  <2> DEFINE place == [s \in ShSchedules |-> IF old.place[s] = c.id THEN 0 ELSE old.place[s]]
             rows == old.rows \ {c.id}
  <2>1. t = [old EXCEPT !.rows = rows, !.place = place]
    BY <1>1, <1>7 DEF ShDone
  <2>2. place \in [ShSchedules -> ShSlots \cup {0}]
    BY <1>2
  <2>3. rows \subseteq DOMAIN ShDayOf /\ old.notified \subseteq rows
    BY <1>1, <1>2, <1>7, ShAssumption DEF ShiftCallTyped
  <2> HIDE DEF place, rows
  <2> QED
    BY <1>1, <2>1, <2>2, <2>3 DEF TableTyped, ShTables
<1>8. CASE c.what = "status"
  <2>1. PICK answer : answer = [old.answer EXCEPT ![c.id] = c.value]
    OBVIOUS
  <2>2. PICK place : place = [old.place EXCEPT ![c.id] = IF c.value = 3 THEN 0 ELSE old.place[c.id]]
    OBVIOUS
  <2>3. c.id \in ShSchedules /\ c.value \in {1, 3}
    BY <1>8 DEF ShiftCallTyped
  <2>4. answer \in [ShSchedules -> {0, 1, 3}] /\ place \in [ShSchedules -> ShSlots \cup {0}]
    BY <1>2, <2>1, <2>2, <2>3
  <2>5. t = [old EXCEPT !.answer = answer, !.place = place]
    <3>1. t = [old EXCEPT !.answer[c.id] = c.value, !.place[c.id] = IF c.value = 3 THEN 0 ELSE @]
      BY <1>1, <1>8 DEF ShDone
    <3> QED
      BY <1>1, <2>1, <2>2, <3>1
  <2> QED
    BY <1>1, <2>4, <2>5 DEF TableTyped, ShTables
<1>9. CASE c.what = "assign"
  <2>1. PICK place : place = [old.place EXCEPT ![c.id] = c.value]
    OBVIOUS
  <2>2. place \in [ShSchedules -> ShSlots \cup {0}]
    BY <1>2, <1>9, <2>1 DEF ShiftCallTyped
  <2>3. t = [old EXCEPT !.place = place]
    <3>1. t = [old EXCEPT !.place[c.id] = c.value]
      BY <1>1, <1>9 DEF ShDone
    <3> QED
      BY <1>1, <2>1, <3>1
  <2> QED
    BY <1>1, <2>2, <2>3 DEF TableTyped, ShTables
<1>10. CASE c.what \in {"create", "addSlot", "copy"}
  <2>1. PICK s \in DOMAIN ShDayOf : t = [old EXCEPT !.rows = old.rows \cup {s}]
    BY <1>1, <1>10, ShAssumption DEF ShDone
  <2> QED
    BY <1>1, <1>2, <1>4, <2>1
<1>11. CASE c.what \notin {"notify", "picker", "delete", "deleteSlot", "status", "assign", "create", "addSlot", "copy"}
  BY <1>11 DEF ShDone
<1> QED
  BY <1>5, <1>6, <1>7, <1>8, <1>9, <1>10, <1>11

\* Others and the couriers.
LEMMA OthersTable == ASSUME TableTyped(shTable), OthersShift PROVE TableTyped(shTable')
<1>1. PICK old \in ShTables : old = shTable /\ old.notified \subseteq old.rows
  BY DEF TableTyped
<1>2. old.rows \subseteq DOMAIN ShDayOf /\ old.notified \subseteq ShSchedules /\ old.answer \in [ShSchedules -> {0, 1, 3}]
  BY <1>1 DEF ShTables
<1>3. ASSUME NEW rows \in SUBSET DOMAIN ShDayOf, old.notified \subseteq rows, shTable' = [old EXCEPT !.rows = rows]
      PROVE  TableTyped(shTable')
  BY <1>1, <1>3 DEF TableTyped, ShTables
<1>4. ASSUME NEW i \in DOMAIN ShDayOf, shTable' = [old EXCEPT !.rows = @ \cup {i}] PROVE TableTyped(shTable')
  <2>1. shTable' = [old EXCEPT !.rows = old.rows \cup {i}]
    BY <1>1, <1>4
  <2>2. old.rows \cup {i} \in SUBSET DOMAIN ShDayOf /\ old.notified \subseteq old.rows \cup {i}
    BY <1>1, <1>2
  <2> QED
    BY <1>3, <2>1, <2>2
<1>5. ASSUME NEW i \in old.rows \ old.notified, shTable' = [old EXCEPT !.rows = @ \ {i}] PROVE TableTyped(shTable')
  <2>1. shTable' = [old EXCEPT !.rows = old.rows \ {i}]
    BY <1>1, <1>5
  <2>2. old.rows \ {i} \in SUBSET DOMAIN ShDayOf /\ old.notified \subseteq old.rows \ {i}
    BY <1>1, <1>2, <1>5
  <2> QED
    BY <1>3, <2>1, <2>2
<1>6. ASSUME NEW s \in old.notified, NEW a \in {1, 3}, shTable' = [old EXCEPT !.answer[s] = a]
      PROVE  TableTyped(shTable')
  <2>1. PICK answer : answer = [old.answer EXCEPT ![s] = a]
    OBVIOUS
  <2>2. answer \in [ShSchedules -> {0, 1, 3}]
    BY <1>2, <2>1
  <2>3. shTable' = [old EXCEPT !.answer = answer]
    BY <1>1, <1>6, <2>1
  <2> QED
    BY <1>1, <2>2, <2>3 DEF TableTyped, ShTables
<1> QED
  BY <1>1, <1>4, <1>5, <1>6 DEF OthersShift

\* Every step of the page, the server and the others.
LEMMA ShiftTypedStep == ASSUME ShiftTyped, [ShNext]_shVars PROVE ShiftTyped'
<1>1. ShiftInv'
  BY ShiftPageStep DEF ShiftTyped
<1>2. ASSUME NEW k \in FeedKeys, FetchFeed(k) PROVE ShiftTyped'
  <2>1. shFeeds' = [shFeeds EXCEPT ![k] = shTable] /\ UNCHANGED <<shTable, shLook, shOpen, shCalls>>
    BY <1>2 DEF FetchFeed
  <2>2. FeedsTyped'
    BY <2>1 DEF ShiftTyped, FeedsTyped, TableTyped
  <2> QED
    BY <1>1, <2>1, <2>2 DEF ShiftTyped, TableTyped, ShiftDialogTyped, ShiftCallTyped
<1>3. CASE OthersShift
  <2>1. UNCHANGED <<shFeeds, shLook, shOpen, shCalls>> /\ TableTyped(shTable')
    BY <1>3, OthersTable DEF OthersShift, ShiftTyped
  <2> QED
    BY <1>1, <2>1 DEF ShiftTyped, TableTyped, FeedsTyped, ShiftDialogTyped, ShiftCallTyped
<1>4. ASSUME NEW c \in shCalls, ServeShift(c) PROVE ShiftTyped'
  <2>1. ShiftCallTyped(c) /\ DOMAIN c = ShiftCallFields
    BY DEF ShiftTyped, ShiftInv, CallOfDate
  <2>2. PICK reply \in {"done", "refused"} : shCalls' = (shCalls \ {c}) \cup {[c EXCEPT !.phase = reply]}
    BY <1>4 DEF ServeShift
  <2>3. PICK x : x = [c EXCEPT !.phase = reply]
    OBVIOUS
  <2>4. x.phase = reply /\ x.ids = c.ids /\ x.what = c.what /\ x.id = c.id /\ x.value = c.value
    BY <2>1, <2>3 DEF ShiftCallFields
  <2>5. ShiftCallTyped(x)
    BY <2>1, <2>4 DEF ShiftCallTyped
  <2>6. TableTyped(shTable')
    BY <1>4, <2>1, DoneTable DEF ServeShift, ShiftTyped
  <2>7. UNCHANGED <<shFeeds, shLook, shOpen>>
    BY <1>4 DEF ServeShift
  <2> QED
    BY <1>1, <2>2, <2>3, <2>5, <2>6, <2>7 DEF ShiftTyped, TableTyped, FeedsTyped, ShiftDialogTyped, ShiftCallTyped
<1>5. ASSUME NEW c \in shCalls, AnswerShift(c) PROVE ShiftTyped'
  <2>1. UNCHANGED <<shTable, shFeeds>>
    BY <1>5 DEF AnswerShift
  <2>2. ShiftDialogTyped(shOpen')
    BY <1>5 DEF AnswerShift, ClosedBy, ShClosed, ShiftTyped, ShiftDialogTyped
  <2>3. shLook'.place = shLook.place
    BY <1>5 DEF AnswerShift, ShiftTyped, ShiftInv, ShiftLookRecord
  <2>4. \A x \in shCalls' : ShiftCallTyped(x)
    <3>1. shCalls' \subseteq shCalls \/ shCalls' \subseteq Unmount(c.what)
      BY <1>5 DEF AnswerShift
    <3> QED
      BY <3>1, UnmountTyped DEF ShiftTyped
  <2> QED
    BY <1>1, <2>1, <2>2, <2>3, <2>4, DialogsTyped
<1>6. CASE CloseDialog
  <2>1. UNCHANGED <<shTable, shFeeds>> /\ ShiftDialogTyped(shOpen')
    BY <1>6 DEF CloseDialog, ShClosed, ShiftDialogTyped
  <2>2. shLook'.place = shLook.place
    BY <1>6 DEF CloseDialog, ShiftTyped, ShiftInv, ShiftLookRecord
  <2>3. \A x \in shCalls' : ShiftCallTyped(x)
    BY <1>6, UnmountTyped DEF CloseDialog
  <2> QED
    BY <1>1, <2>1, <2>2, <2>3, DialogsTyped
<1>7. CASE UNCHANGED shVars
  BY <1>1, <1>7 DEF shVars, ShiftTyped, TableTyped, FeedsTyped, ShiftDialogTyped, ShiftCallTyped
<1> QED
  BY <1>1, <1>2, <1>3, <1>4, <1>5, <1>6, <1>7, LookedTyped, OpenedTyped, AskedTypes DEF ShNext

\* Whatever others and the couriers do meanwhile, the tables, the feeds and the dialogs keep their
\* shape, and only couriers of schedules there are were notified.
THEOREM ShiftTypesHold == ShSpec => []ShTypeOK
<1>1. ShInit => ShiftTyped
  <2> SUFFICES ASSUME ShInit PROVE ShiftTyped
    OBVIOUS
  <2>1. NoOne \in ShTables
    BY DEF NoOne, ShTables
  <2>2. TableTyped(shTable)
    <3>1. PICK rows \in SUBSET DOMAIN ShDayOf, answer \in [ShSchedules -> {0, 1, 3}] :
            \E notified \in SUBSET (rows \cap ShSchedules) :
              shTable = [NoOne EXCEPT !.rows = rows, !.notified = notified, !.answer = answer]
      BY DEF ShInit
    <3> QED
      BY <2>1, <3>1 DEF TableTyped, ShTables
  <2>3. FeedsTyped
    BY <2>1 DEF ShInit, FeedsTyped
  <2>4. shLook.place = 0 /\ shCalls = {} /\ ShiftDialogTyped(shOpen)
    BY DEF ShInit, ShClosed, ShiftDialogTyped
  <2> QED
    BY <2>2, <2>3, <2>4, ShiftPageStart DEF ShiftTyped
<1>2. ShiftTyped /\ [ShNext]_shVars => ShiftTyped'
  BY ShiftTypedStep
<1>3. ShiftTyped => ShTypeOK
  <2> SUFFICES ASSUME ShiftTyped PROVE ShTypeOK
    OBVIOUS
  <2>1. shLook \in [day : ShDates, place : {ShPlaceOf[i] : i \in DOMAIN ShPlaceOf} \cup {0},
                    sel : ShSchedules \cup {0}, tab : {0, 1, 3}, adding : BOOLEAN]
    BY DEF ShiftTyped, ShiftInv, ShiftLookRecord, ShPlaceNames
  <2> QED
    BY <2>1 DEF ShiftTyped, ShiftInv, ShiftDialogRecord, TableTyped, FeedsTyped, ShiftCallTyped, ShTypeOK
<1> QED
  BY <1>1, <1>2, <1>3, PTL DEF ShSpec

-------------------------------------------------------------------------------
(* The pages together                                                     *)

\* The steps of every page.
EachNext ==
  /\ [WizNext]_wizVars
  /\ [IlNext]_ilVars
  /\ [SiNext]_siVars
  /\ [RvNext]_rvVars
  /\ [ScNext]_scVars
  /\ [PbNext]_pbVars
  /\ [ChNext]_chVars
  /\ [SmNext]_smVars
  /\ [SlNext]_slVars
  /\ [BuNext]_buVars
  /\ [ShNext]_shVars
  /\ [BdNext]_bdVars
  /\ [HaNext]_haVars
  /\ [SrNext]_srVars
  /\ [MpNext]_mpVars

\* Every page behaves as it does by itself.
EachSpec ==
  /\ WizSpec /\ IlSpec /\ SiSpec /\ RvSpec /\ ScSpec /\ PbSpec /\ ChSpec /\ SmSpec
  /\ SlSpec /\ BuSpec /\ ShSpec /\ BdSpec /\ HaSpec /\ SrSpec /\ MpSpec

\* A step of the application is a step of the page that is mounted and leaves the others as they were.
LEMMA OnePageSteps == ASSUME [PagesNext]_pagesVars PROVE EachNext
<1>1. [WizNext]_wizVars
  BY Zenon DEF PagesNext, pagesVars, ImportNext, ViewerNext, ScheduleNext, RecurringNext,
               importVars, viewerVars, scheduleVars, recurringVars
<1>2. [IlNext]_ilVars
  BY Zenon DEF PagesNext, pagesVars, ImportNext, ViewerNext, ScheduleNext, RecurringNext,
               importVars, viewerVars, scheduleVars, recurringVars
<1>3. [SiNext]_siVars
  BY Zenon DEF PagesNext, pagesVars, ImportNext, ViewerNext, ScheduleNext, RecurringNext,
               importVars, viewerVars, scheduleVars, recurringVars
<1>4. [RvNext]_rvVars
  BY Zenon DEF PagesNext, pagesVars, ImportNext, ViewerNext, ScheduleNext, RecurringNext,
               importVars, viewerVars, scheduleVars, recurringVars
<1>5. [ScNext]_scVars
  BY Zenon DEF PagesNext, pagesVars, ImportNext, ViewerNext, ScheduleNext, RecurringNext,
               importVars, viewerVars, scheduleVars, recurringVars
<1>6. [PbNext]_pbVars
  BY Zenon DEF PagesNext, pagesVars, ImportNext, ViewerNext, ScheduleNext, RecurringNext,
               importVars, viewerVars, scheduleVars, recurringVars
<1>7. [ChNext]_chVars
  BY Zenon DEF PagesNext, pagesVars, ImportNext, ViewerNext, ScheduleNext, RecurringNext,
               importVars, viewerVars, scheduleVars, recurringVars
<1>8. [SmNext]_smVars
  BY Zenon DEF PagesNext, pagesVars, ImportNext, ViewerNext, ScheduleNext, RecurringNext,
               importVars, viewerVars, scheduleVars, recurringVars
<1>9. [SlNext]_slVars
  BY Zenon DEF PagesNext, pagesVars, ImportNext, ViewerNext, ScheduleNext, RecurringNext,
               importVars, viewerVars, scheduleVars, recurringVars
<1>10. [BuNext]_buVars
  BY Zenon DEF PagesNext, pagesVars, ImportNext, ViewerNext, ScheduleNext, RecurringNext,
               importVars, viewerVars, scheduleVars, recurringVars
<1>11. [ShNext]_shVars
  BY Zenon DEF PagesNext, pagesVars, ImportNext, ViewerNext, ScheduleNext, RecurringNext,
               importVars, viewerVars, scheduleVars, recurringVars
<1>12. [BdNext]_bdVars
  BY Zenon DEF PagesNext, pagesVars, ImportNext, ViewerNext, ScheduleNext, RecurringNext,
               importVars, viewerVars, scheduleVars, recurringVars
<1>13. [HaNext]_haVars
  BY Zenon DEF PagesNext, pagesVars, ImportNext, ViewerNext, ScheduleNext, RecurringNext,
               importVars, viewerVars, scheduleVars, recurringVars
<1>14. [SrNext]_srVars
  BY Zenon DEF PagesNext, pagesVars, ImportNext, ViewerNext, ScheduleNext, RecurringNext,
               importVars, viewerVars, scheduleVars, recurringVars
<1>15. [MpNext]_mpVars
  BY Zenon DEF PagesNext, pagesVars, ImportNext, ViewerNext, ScheduleNext, RecurringNext,
               importVars, viewerVars, scheduleVars, recurringVars
<1> QED
  BY <1>1, <1>2, <1>3, <1>4, <1>5, <1>6, <1>7, <1>8, <1>9, <1>10, <1>11, <1>12, <1>13, <1>14, <1>15, Zenon DEF EachNext

\* In the application every page behaves as it does by itself, though any of them may be mounted: what
\* holds of a page alone holds of it there.
THEOREM PagesStayApart == PagesSpec => EachSpec
<1>1. PagesInit => /\ WizInit /\ IlInit /\ SiInit /\ RvInit /\ ScInit /\ PbInit /\ ChInit /\ SmInit /\ SlInit
                   /\ BuInit /\ ShInit /\ BdInit /\ HaInit /\ SrInit /\ MpInit
  BY Zenon DEF PagesInit
<1>2. [PagesNext]_pagesVars => EachNext
  BY OnePageSteps
<1> QED
  BY <1>1, <1>2, PTL DEF PagesSpec, EachSpec, EachNext,
     WizSpec, IlSpec, SiSpec, RvSpec, ScSpec, PbSpec, ChSpec, SmSpec, SlSpec, BuSpec, ShSpec, BdSpec, HaSpec, SrSpec, MpSpec

-------------------------------------------------------------------------------
\* Every page keeps its types while it is mounted, for any values of the constants of all of them:
\* the type invariant of the composed specification.
THEOREM PagesTypesHold == PagesSpec => []PagesTypeOK
<1>1. /\ WizTypeOK /\ IlTypeOK /\ SiTypeOK /\ RvTypeOK /\ ScTypeOK /\ PbTypeOK /\ ChTypeOK /\ SmTypeOK
      /\ SlTypeOK /\ BuTypeOK /\ ShTypeOK /\ BdTypeOK /\ HaTypeOK /\ SrTypeOK /\ MpTypeOK
      => PagesTypeOK
  BY Zenon DEF PagesTypeOK
<1> QED
  BY <1>1, PagesStayApart, WizTypesHold, ImportListTypesHold, StaffTypesHold, ViewTypesHold, ScanTypesHold,
     PolygonTypesHold, ChainTypesHold, ModalTypesHold, ListTypesHold, BundleTypesHold, ShiftTypesHold,
     BuildTypes, ArchiveTypesHold, RouteTypesHold, MapTypesHold, PTL DEF EachSpec

\* What the pages keep whoever uses them.
PageLaws ==
  /\ ActsOnShown /\ SelectionOfTheDay /\ GridIsOfItsFilters
  /\ ShapesKeptApart /\ DraftLeavesNothing
  /\ ChainShape /\ RestsOnServer
  /\ OriginFitsDirection /\ MapTellsBound
  /\ ActsOnItsDate
  /\ RunsFitTheirLimits

\* In the composed application, whichever page is mounted, the pages keep what was proved of each alone.
THEOREM PagesKeepLaws == PagesSpec => []PageLaws /\ UntouchedKept /\ UntouchedChainKept
<1>1. /\ ActsOnShown /\ SelectionOfTheDay /\ GridIsOfItsFilters /\ ShapesKeptApart
      /\ DraftLeavesNothing /\ ChainShape /\ RestsOnServer /\ OriginFitsDirection /\ MapTellsBound /\ ActsOnItsDate
      /\ RunsFitTheirLimits
      => PageLaws
  BY Zenon DEF PageLaws
<1> QED
  BY <1>1, PagesStayApart, BulkOfShown, SelectedOfTheDay, GridKept, ShapesApart, NothingLeft,
     ChainKeepsShape, ListRests, RoutesFit, MapTells, PageOfItsDate, RunsFit, UntouchedStays, UntouchedChainStays, PTL
     DEF EachSpec

\* In the composed application the import wizard of a careful operator keeps what it keeps alone.
THEOREM CarefulImports ==
  ASSUME Careful PROVE PagesSpec => [](NoRowTwice /\ TallyIsWhatLanded) /\ SummaryListsTheRest
BY PagesStayApart, RowsLandOnce, TallyTells, SummaryTells, PTL DEF EachSpec

\* In the composed application a batch of the archive holds its rows while the ids stay below the top.
THEOREM ArchivedBatches == PagesSpec /\ []BelowTop => []BatchHoldsItsRows
BY PagesStayApart, BatchesWholeBelowTop, PTL DEF EachSpec
===============================================================================
